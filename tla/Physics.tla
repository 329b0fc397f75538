------------------------------ MODULE Physics -------------------------------
(***************************************************************************)
(* packages/shared/src/physics.ts: where a point lies along the track, and *)
(* what one move does to a car.  Server, page and preview all call it.     *)
(*                                                                         *)
(* Lengths are integers: Grain of them are one world unit.  The track is a *)
(* polygon of horizontal and vertical segments and a thrust points along   *)
(* an axis, so that every length and projection is an integer; shares are  *)
(* percentages.  As in the seed's tracks the last waypoint may repeat the  *)
(* first: its segment has length 0.                                        *)
(***************************************************************************)
EXTENDS Integers, Sequences

CONSTANTS
    Waypoints, HalfWidth,   \* the track
    Grain,
    MaxThrust,              \* 82 * speed, in world units
    MaxInertia,             \* 0.74 * (1 - grip * 0.4), in percent
    Mass, Acceleration      \* of the car, in percent

Segment == DOMAIN Waypoints
Point == Int \X Int

ASSUME TrackAssumption == Waypoints \in Seq(Point) /\ Len(Waypoints) >= 2
ASSUME CarAssumption ==
    /\ Grain \in Nat \ {0} /\ MaxThrust \in Nat \ {0}
    /\ MaxInertia \in 0..100 /\ Mass \in Nat /\ Acceleration \in Nat

Lesser(a, b) == IF a < b THEN a ELSE b
Greater(a, b) == IF a > b THEN a ELSE b
Abs(n) == IF n < 0 THEN -n ELSE n
Sign(n) == CASE n < 0 -> -1 [] n = 0 -> 0 [] n > 0 -> 1
Clamp(n, low, high) == Greater(low, Lesser(n, high))

-----------------------------------------------------------------------------
(* Progress along the closed center line. *)

From(i) == Waypoints[i]
To(i) == Waypoints[(i % Len(Waypoints)) + 1]

(* hypot2: the length of a segment or of a thrust along an axis. *)
Magnitude(v) == Abs(v[1]) + Abs(v[2])
SegmentLength(i) == Magnitude(<<To(i)[1] - From(i)[1], To(i)[2] - From(i)[2]>>)

PrefixLength[i \in Segment] ==
    IF i = 1 THEN 0 ELSE PrefixLength[i - 1] + SegmentLength(i - 1)

TotalLength == PrefixLength[Len(Waypoints)] + SegmentLength(Len(Waypoints))

(* A track whose waypoints all coincide has no progress: there is none. *)
ASSUME LengthAssumption ==
    TotalLength \in Nat \ {0} /\ \A i \in Segment : PrefixLength[i] \in Nat

(* The point of a segment that is closest to (x, y). *)
Projected(x, y, i) ==
    LET Onto(n, k) == Clamp(n, Lesser(From(i)[k], To(i)[k]), Greater(From(i)[k], To(i)[k]))
    IN  <<Onto(x, 1), Onto(y, 2)>>

DistSq(x, y, i) ==
    LET p == Projected(x, y, i)
    IN  (x - p[1]) * (x - p[1]) + (y - p[2]) * (y - p[2])

Smallest(S) == CHOOSE n \in S : \A m \in S : n <= m

(* The first of the segments that are closest. *)
Closest(x, y) ==
    LET least == Smallest({DistSq(x, y, i) : i \in Segment})
    IN  Smallest({i \in Segment : DistSq(x, y, i) = least})

(* trackProgress, as a length: the end of the line is its beginning. *)
TrackProgress(x, y) ==
    LET i == Closest(x, y)
        p == Projected(x, y, i)
    IN  (PrefixLength[i] + Magnitude(<<p[1] - From(i)[1], p[2] - From(i)[2]>>)) % TotalLength

OffTrack(x, y) == DistSq(x, y, Closest(x, y)) > HalfWidth * HalfWidth

-----------------------------------------------------------------------------
(* One move. *)

OffTrackPenalty == 40

Inertia(in) ==
    Lesser(MaxInertia, (Mass * Lesser(Magnitude(in), MaxThrust)) \div MaxThrust)

(* The share of a thrust that a car at (x, y) turns into speed. *)
Control(in, x, y) ==
    LET base == ((100 - Inertia(in)) * Acceleration) \div 100
    IN  IF OffTrack(x, y) THEN (base * (100 - OffTrackPenalty)) \div 100 ELSE base

Push(in, x, y) == (Magnitude(in) * Grain * Control(in, x, y)) \div 100

Mid(prog) == 100 * prog > 42 * TotalLength
NearEnd(prog) == 100 * prog > 82 * TotalLength
NearStart(prog) == 100 * prog < 18 * TotalLength

(* Variant: half of the last part is enough. *)
LapStepEarly(car, prog) ==
    IF car.mid /\ 100 * car.prog > 91 * TotalLength /\ NearStart(prog)
    THEN [laps |-> car.laps + 1, mid |-> FALSE]
    ELSE [laps |-> car.laps, mid |-> Mid(prog)]

(* Lap counting, after the movement.  Every move without a lap overwrites  *)
(* the flag, which vector-racers-tasks.md:189 has set and kept.            *)
LapStep(car, prog) ==
    IF car.mid /\ NearEnd(car.prog) /\ NearStart(prog)
    THEN [laps |-> car.laps + 1, mid |-> FALSE]
    ELSE [laps |-> car.laps, mid |-> Mid(prog)]

ApplyMove(car, in) ==
    LET push == Push(in, car.x, car.y)
        vx == car.vx + Sign(in[1]) * push
        vy == car.vy + Sign(in[2]) * push
        x == car.x + vx
        y == car.y + vy
        prog == TrackProgress(x, y)
        lap == LapStep(car, prog)
    IN  [x |-> x, y |-> y, vx |-> vx, vy |-> vy, laps |-> lap.laps, mid |-> lap.mid,
         prog |-> prog, offTrack |-> OffTrack(x, y)]
=============================================================================

---------------------------- MODULE DriveProofs -----------------------------
(***************************************************************************)
(* Lap counting for every track of axis-parallel segments, every car and   *)
(* every sequence of moves, and what an arrow may do to a car's speed.     *)
(***************************************************************************)
EXTENDS Drive, TLAPS, WellFoundedInduction

(* Natural numbers are well ordered: a set of them has a smallest.         *)
LEMMA SmallestIsLeast ==
    ASSUME NEW S \in SUBSET Nat, S # {}
    PROVE  Smallest(S) \in S /\ \A m \in S : Smallest(S) <= m
<1>1. PICK n \in S : \A m \in S : ~(<<m, n>> \in OpToRel(<, Nat))
  BY NatLessThanWellFounded, WFMin
<1>2. \A m \in S : n <= m
  <2>1. SUFFICES ASSUME NEW m \in S PROVE n <= m
    OBVIOUS
  <2>2. m \in Nat /\ n \in Nat /\ <<m, n>> \in Nat \X Nat
    OBVIOUS
  <2>3. ~(m < n)
    BY <1>1, <2>2 DEF OpToRel
  <2> QED
    BY <2>2, <2>3
<1> QED
  BY <1>2 DEF Smallest

LEMMA HelperTypes ==
    ASSUME NEW a \in Int, NEW b \in Int, NEW n \in Int
    PROVE  /\ Lesser(a, b) \in Int /\ Greater(a, b) \in Int
           /\ Abs(a) \in Nat /\ Sign(a) \in Int /\ Clamp(n, a, b) \in Int
BY DEF Lesser, Greater, Abs, Sign, Clamp

LEMMA MagnitudeType ==
    ASSUME NEW a \in Int, NEW b \in Int
    PROVE  Magnitude(<<a, b>>) \in Nat
BY DEF Magnitude, Abs

LEMMA SegmentEnds ==
    ASSUME NEW i \in Segment, NEW k \in 1..2
    PROVE  From(i)[k] \in Int /\ To(i)[k] \in Int
<1>1. Segment = 1..Len(Waypoints) /\ Len(Waypoints) \in Nat /\ Len(Waypoints) >= 2
  BY TrackAssumption DEF Segment
<1>2. (i % Len(Waypoints)) + 1 \in Segment
  BY <1>1
<1>3. \A j \in Segment : Waypoints[j] \in Point
  BY TrackAssumption DEF Segment
<1>4. Waypoints[i] \in Point /\ Waypoints[(i % Len(Waypoints)) + 1] \in Point
  BY <1>2, <1>3
<1> QED
  BY <1>4 DEF Point, From, To

LEMMA ProjectedType ==
    ASSUME NEW x \in Int, NEW y \in Int, NEW i \in Segment
    PROVE  Projected(x, y, i) \in Point
<1> DEFINE Onto(n, k) == Clamp(n, Lesser(From(i)[k], To(i)[k]), Greater(From(i)[k], To(i)[k]))
<1>1. ASSUME NEW n \in Int, NEW k \in 1..2 PROVE Onto(n, k) \in Int
  BY SegmentEnds, HelperTypes
<1>2. Onto(x, 1) \in Int /\ Onto(y, 2) \in Int
  BY <1>1
<1>3. Projected(x, y, i) = <<Onto(x, 1), Onto(y, 2)>>
  BY DEF Projected
<1> QED
  BY <1>2, <1>3 DEF Point

LEMMA DistSqType ==
    ASSUME NEW x \in Int, NEW y \in Int, NEW i \in Segment
    PROVE  DistSq(x, y, i) \in Nat
<1> DEFINE p == Projected(x, y, i)
<1>1. p[1] \in Int /\ p[2] \in Int
  BY ProjectedType DEF Point
<1>2. ASSUME NEW n \in Int PROVE n * n \in Nat
  OBVIOUS
<1>3. (x - p[1]) * (x - p[1]) \in Nat /\ (y - p[2]) * (y - p[2]) \in Nat
  BY <1>1, <1>2
<1> QED
  BY <1>3 DEF DistSq

(* There is a closest segment, whatever the point.                         *)
LEMMA ClosestType ==
    ASSUME NEW x \in Int, NEW y \in Int
    PROVE  Closest(x, y) \in Segment
<1> DEFINE D == {DistSq(x, y, i) : i \in Segment}
           least == Smallest(D)
           Nearest == {i \in Segment : DistSq(x, y, i) = least}
<1>1. Segment \subseteq Nat /\ 1 \in Segment
  BY TrackAssumption DEF Segment
<1>2. D \in SUBSET Nat /\ D # {}
  BY <1>1, DistSqType
<1>3. least \in D
  BY <1>2, SmallestIsLeast
<1>4. Nearest \in SUBSET Nat /\ Nearest # {}
  BY <1>1, <1>3
<1>5. Smallest(Nearest) \in Nearest
  BY <1>4, SmallestIsLeast
<1> QED
  BY <1>5 DEF Closest

LEMMA ProgressType ==
    ASSUME NEW x \in Int, NEW y \in Int
    PROVE  TrackProgress(x, y) \in 0..(TotalLength - 1)
<1> DEFINE i == Closest(x, y)
           p == Projected(x, y, i)
           along == PrefixLength[i] + Magnitude(<<p[1] - From(i)[1], p[2] - From(i)[2]>>)
<1>1. i \in Segment
  BY ClosestType
<1>2. p[1] \in Int /\ p[2] \in Int /\ From(i)[1] \in Int /\ From(i)[2] \in Int
  BY <1>1, ProjectedType, SegmentEnds DEF Point
<1>3. PrefixLength[i] \in Nat /\ TotalLength \in Nat \ {0}
  BY <1>1, LengthAssumption
<1> HIDE DEF i, p
<1>4. Magnitude(<<p[1] - From(i)[1], p[2] - From(i)[2]>>) \in Nat
  BY <1>2, MagnitudeType
<1>5. along \in Nat
  BY <1>3, <1>4
<1>6. along % TotalLength \in 0..(TotalLength - 1)
  BY <1>3, <1>5
<1> QED
  BY <1>6 DEF TrackProgress, i, p

-----------------------------------------------------------------------------
LEMMA ControlType ==
    ASSUME NEW in \in Point, NEW x \in Int, NEW y \in Int
    PROVE  Magnitude(in) \in Nat /\ Control(in, x, y) \in Int
<1>1. Magnitude(in) \in Nat
  <2>1. PICK a \in Int, b \in Int : in = <<a, b>>
    BY DEF Point
  <2> QED
    BY <2>1, MagnitudeType
<1>2. Inertia(in) \in Int
  <2>1. Lesser(Magnitude(in), MaxThrust) \in Nat
    BY <1>1, CarAssumption DEF Lesser
  <2>2. Mass * Lesser(Magnitude(in), MaxThrust) \in Nat
    BY <2>1, CarAssumption
  <2>3. (Mass * Lesser(Magnitude(in), MaxThrust)) \div MaxThrust \in Int
    BY <2>2, CarAssumption
  <2> QED
    BY <2>3, CarAssumption DEF Inertia, Lesser
<1> DEFINE base == ((100 - Inertia(in)) * Acceleration) \div 100
<1>3. base \in Int
  <2>1. (100 - Inertia(in)) * Acceleration \in Int
    BY <1>2, CarAssumption
  <2> QED
    BY <2>1
<1>4. Control(in, x, y) \in Int
  <2>1. (base * (100 - OffTrackPenalty)) \div 100 \in Int
    BY <1>3 DEF OffTrackPenalty
  <2> QED
    BY <1>3, <2>1 DEF Control
<1> QED
  BY <1>1, <1>4

LEMMA PushType ==
    ASSUME NEW in \in Point, NEW x \in Int, NEW y \in Int
    PROVE  Push(in, x, y) \in Int
<1>1. Magnitude(in) * Grain * Control(in, x, y) \in Int
  BY ControlType, CarAssumption
<1> QED
  BY <1>1 DEF Push

(* What a move does to a car: it stays a car, its mid flag follows its     *)
(* progress, and it counts at most one lap, exactly at the line.           *)
LEMMA MoveResult ==
    ASSUME NEW c \in CarState, NEW in \in Point, c.mid <=> Mid(c.prog)
    PROVE  LET d == ApplyMove(c, in)
           IN  /\ d \in CarState
               /\ d.mid <=> Mid(d.prog)
               /\ d.laps = IF NearEnd(c.prog) /\ NearStart(d.prog) THEN c.laps + 1 ELSE c.laps
<1> DEFINE push == Push(in, c.x, c.y)
           vx == c.vx + Sign(in[1]) * push
           vy == c.vy + Sign(in[2]) * push
           x == c.x + vx
           y == c.y + vy
           prog == TrackProgress(x, y)
           lap == LapStep(c, prog)
           d == ApplyMove(c, in)
<1>1. c.x \in Int /\ c.y \in Int /\ c.vx \in Int /\ c.vy \in Int /\ c.laps \in Nat
      /\ c.mid \in BOOLEAN /\ c.prog \in 0..(TotalLength - 1)
  BY DEF CarState
<1>2. x \in Int /\ y \in Int /\ vx \in Int /\ vy \in Int
  <2>1. push \in Int
    BY <1>1, PushType
  <2>2. Sign(in[1]) \in {-1, 0, 1} /\ Sign(in[2]) \in {-1, 0, 1}
    BY DEF Sign, Point
  <2> HIDE DEF push
  <2>3. Sign(in[1]) * push \in Int /\ Sign(in[2]) * push \in Int
    BY <2>1, <2>2
  <2> QED
    BY <1>1, <2>3
<1>3. d = [x |-> x, y |-> y, vx |-> vx, vy |-> vy, laps |-> lap.laps, mid |-> lap.mid,
           prog |-> prog, offTrack |-> OffTrack(x, y)]
  BY DEF ApplyMove
<1> HIDE DEF d, x, y, vx, vy
<1>4. prog \in 0..(TotalLength - 1)
  BY <1>2, ProgressType
<1> HIDE DEF prog
<1>5. TotalLength \in Nat \ {0}
  BY LengthAssumption
<1>6. NearEnd(c.prog) => Mid(c.prog)
  BY <1>1, <1>5 DEF NearEnd, Mid
<1>7. NearStart(prog) => ~Mid(prog)
  BY <1>4, <1>5 DEF NearStart, Mid
<1> HIDE DEF prog
<1>8. lap.laps = IF NearEnd(c.prog) /\ NearStart(prog) THEN c.laps + 1 ELSE c.laps
  <2>1. CASE NearEnd(c.prog) /\ NearStart(prog)
    BY <1>6, <2>1 DEF LapStep
  <2>2. CASE ~(NearEnd(c.prog) /\ NearStart(prog))
    BY <2>2 DEF LapStep
  <2> QED
    BY <2>1, <2>2
<1>9. lap.mid = Mid(prog) /\ Mid(prog) \in BOOLEAN
  <2>1. Mid(prog) \in BOOLEAN
    BY DEF Mid
  <2>2. CASE NearEnd(c.prog) /\ NearStart(prog)
    BY <1>6, <1>7, <2>1, <2>2 DEF LapStep
  <2>3. CASE ~(NearEnd(c.prog) /\ NearStart(prog))
    BY <2>1, <2>3 DEF LapStep
  <2> QED
    BY <2>1, <2>2, <2>3
<1>10. lap.laps \in Nat
  BY <1>1, <1>8
<1> HIDE DEF lap
<1>11. OffTrack(x, y) \in BOOLEAN
  BY DEF OffTrack
<1>12. d.laps = lap.laps /\ d.mid = lap.mid /\ d.prog = prog
  BY <1>3
<1>13. d \in CarState
  BY <1>2, <1>3, <1>4, <1>9, <1>10, <1>11 DEF CarState
<1> QED
  BY <1>8, <1>9, <1>12, <1>13 DEF d

-----------------------------------------------------------------------------
LEMMA ClampedType ==
    ASSUME NEW in \in Point
    PROVE  ClampMoveInput(in) \in Point /\ Limited(in) \in Point
<1>1. PICK a \in Int, b \in Int : in = <<a, b>>
  BY DEF Point
<1>2. Sign(a) \in Int /\ Sign(b) \in Int
  BY HelperTypes
<1>3. Sign(a) * MaxThrust \in Int /\ Sign(b) * MaxThrust \in Int
  BY <1>2, CarAssumption
<1> QED
  BY <1>1, <1>2, <1>3 DEF ClampMoveInput, Limited, Point

LEMMA SpawnedType ==
    ASSUME NEW i \in 1..Players
    PROVE  Spawned(i) \in CarState
<1>1. 1 \in Segment
  BY TrackAssumption DEF Segment
<1>2. From(1)[1] \in Int /\ From(1)[2] \in Int /\ To(1)[1] \in Int /\ To(1)[2] \in Int
  BY <1>1, SegmentEnds
<1>3. Heading(1) \in Int /\ Heading(2) \in Int
  <2>1. To(1)[1] - From(1)[1] \in Int /\ To(1)[2] - From(1)[2] \in Int
    BY <1>2
  <2> QED
    BY <2>1, HelperTypes DEF Heading
<1> DEFINE offset == HalfGap * (2 * i - Players - 1)
<1>4. offset \in Int
  BY StartAssumption
<1> HIDE DEF offset
<1>5. Heading(1) * offset \in Int /\ Heading(2) * offset \in Int
  BY <1>3, <1>4
<1>6. 0 \in 0..(TotalLength - 1)
  BY LengthAssumption
<1>7. Spawned(i) = [x |-> From(1)[1] - Heading(2) * offset, y |-> From(1)[2] + Heading(1) * offset,
         vx |-> 0, vy |-> 0, laps |-> 0, mid |-> FALSE, prog |-> 0, offTrack |-> FALSE]
  BY DEF Spawned, offset
<1> QED
  BY <1>2, <1>5, <1>6, <1>7 DEF CarState

(* A short move goes over the line exactly when it leaves the last 18      *)
(* percent of the track for the first.                                     *)
LEMMA OverTheLine ==
    ASSUME NEW from \in 0..(TotalLength - 1), NEW to \in 0..(TotalLength - 1),
           Short(Ahead(from, to)) \/ Short(Ahead(to, from))
    PROVE  (NearEnd(from) /\ NearStart(to)) <=> GoesOver(from, to) = 1
<1>1. TotalLength \in Nat \ {0}
  BY LengthAssumption
<1>2. from \in Nat /\ to \in Nat /\ from < TotalLength /\ to < TotalLength
  BY <1>1
<1>3. GoesOver(from, to) = 1 <=> to < from /\ 2 * (to - from + TotalLength) < TotalLength
  <2>1. CASE to < from
    BY <1>2, <2>1 DEF GoesOver, Ahead
  <2>2. CASE ~(to < from)
    BY <1>2, <2>2 DEF GoesOver, Ahead
  <2> QED
    BY <2>1, <2>2
<1>4. CASE to < from
  <2>1. 100 * (to - from + TotalLength) < 18 * TotalLength \/ 100 * (from - to) < 18 * TotalLength
    BY <1>1, <1>2, <1>4 DEF Short, Ahead
  <2> QED
    BY <1>1, <1>2, <1>3, <1>4, <2>1 DEF NearEnd, NearStart
<1>5. CASE ~(to < from)
  BY <1>1, <1>2, <1>3, <1>5 DEF NearEnd, NearStart
<1> QED
  BY <1>4, <1>5

(* The flag of applyMove tells no more than prog: it is overwritten by     *)
(* every move, so that it holds no lap back.                               *)
MidIsFar == car.mid <=> Mid(car.prog)

IndInv == TypeOK /\ MidIsFar /\ EveryCrossingCounts

LEMMA InitHolds == Init => IndInv
<1>1. SUFFICES ASSUME Init PROVE IndInv
  OBVIOUS
<1>2. PICK i \in 1..Players : car = Spawned(i)
  BY <1>1 DEF Init
<1>3. car \in CarState
  BY <1>2, SpawnedType
<1>4. car.mid = FALSE /\ car.prog = 0 /\ car.laps = 0
  BY <1>2 DEF Spawned
<1>5. ~Mid(0)
  BY LengthAssumption DEF Mid
<1>6. TypeOK
  BY <1>1, <1>3 DEF Init, TypeOK
<1> QED
  BY <1>1, <1>4, <1>5, <1>6 DEF Init, IndInv, MidIsFar, EveryCrossingCounts

LEMMA ThrustType == Thrust \subseteq Point
BY ClampedType, PointerAssumption DEF Thrust

(* The server's move, whoever asked for it.                                *)
LEMMA MoveHolds ==
    ASSUME IndInv, NEW in \in Point, MoveCar(in)
    PROVE  /\ car' \in CarState /\ turn' \in {"mine", "other"}
           /\ forward' \in Nat /\ rounds' \in Int /\ farthest' \in Nat /\ smooth' \in BOOLEAN
           /\ MidIsFar' /\ EveryCrossingCounts'
<1> DEFINE to == car'.prog
<1>1. car \in CarState /\ (car.mid <=> Mid(car.prog)) /\ (smooth => car.laps = forward)
      /\ forward \in Nat /\ rounds \in Int /\ farthest \in Nat /\ smooth \in BOOLEAN
  BY DEF IndInv, TypeOK, MidIsFar, EveryCrossingCounts
<1>2. ClampMoveInput(in) \in Point /\ car' = ApplyMove(car, ClampMoveInput(in))
  BY ClampedType DEF MoveCar
<1>3. car' \in CarState /\ (car'.mid <=> Mid(car'.prog))
      /\ car'.laps = IF NearEnd(car.prog) /\ NearStart(car'.prog) THEN car.laps + 1 ELSE car.laps
  BY <1>1, <1>2, MoveResult
<1>4. Follow(car.prog, to) /\ turn' = "other"
  BY DEF MoveCar
<1>5. car.prog \in 0..(TotalLength - 1) /\ to \in 0..(TotalLength - 1) /\ car.laps \in Nat
  BY <1>1, <1>3 DEF CarState
<1> HIDE DEF to
<1>6. GoesOver(car.prog, to) \in {1, -1, 0}
  BY DEF GoesOver
<1>7. forward' = (IF GoesOver(car.prog, to) = 1 THEN forward + 1 ELSE forward)
      /\ rounds' = rounds + GoesOver(car.prog, to) /\ farthest' = Greater(farthest, rounds')
  BY <1>4 DEF Follow
<1>8. forward' \in Nat /\ rounds' \in Int
  BY <1>1, <1>6, <1>7
<1>9. farthest' \in Nat
  BY <1>1, <1>7, <1>8 DEF Greater
<1>10. smooth' = (smooth /\ (Short(Ahead(car.prog, to)) \/ Short(Ahead(to, car.prog))))
  BY <1>4 DEF Follow
<1>11. ASSUME smooth' PROVE car'.laps = forward'
  <2>1. smooth /\ (Short(Ahead(car.prog, to)) \/ Short(Ahead(to, car.prog)))
    BY <1>10, <1>11
  <2>2. (NearEnd(car.prog) /\ NearStart(to)) <=> GoesOver(car.prog, to) = 1
    BY <1>5, <2>1, OverTheLine
  <2>3. car'.laps = IF NearEnd(car.prog) /\ NearStart(to) THEN car.laps + 1 ELSE car.laps
    BY <1>3 DEF to
  <2> QED
    BY <1>1, <1>7, <2>1, <2>2, <2>3
<1> QED
  BY <1>1, <1>3, <1>4, <1>8, <1>9, <1>10, <1>11 DEF MidIsFar, EveryCrossingCounts

LEMMA NextHolds == IndInv /\ [Next]_vars => IndInv'
<1>1. SUFFICES ASSUME IndInv, [Next]_vars PROVE IndInv'
  OBVIOUS
<1> USE DEF IndInv
<1>2. Zero \in Point /\ Thrust \subseteq Point
  BY ThrustType DEF Zero, Point
<1>3. CASE Deadline
  BY <1>1, <1>2, <1>3, MoveHolds DEF Deadline, hand, TypeOK
<1>4. CASE OthersMove
  BY <1>1, <1>4 DEF OthersMove, hand, course, TypeOK, MidIsFar, EveryCrossingCounts
<1>5. ASSUME NEW p \in Pointer, OnPointerDown(p) PROVE IndInv'
  BY <1>1, <1>5, PointerAssumption
     DEF OnPointerDown, course, TypeOK, MidIsFar, EveryCrossingCounts
<1>6. ASSUME NEW p \in Pointer, OnPointerUp(p) PROVE IndInv'
  <2>1. drag' = NoPointer /\ preview' = NoPreview
    BY <1>6 DEF OnPointerUp, Release
  <2>2. CASE turn = "mine" /\ preview \notin {NoPreview, Zero}
    <3>1. MoveCar(preview) /\ preview \in Point
      BY <1>1, <1>2, <1>6, <2>2 DEF OnPointerUp, TypeOK
    <3> QED
      BY <1>1, <2>1, <3>1, MoveHolds DEF TypeOK
  <2>3. CASE ~(turn = "mine" /\ preview \notin {NoPreview, Zero})
    BY <1>1, <1>6, <2>1, <2>3 DEF OnPointerUp, course, TypeOK, MidIsFar, EveryCrossingCounts
  <2> QED
    BY <2>2, <2>3
<1>7. ASSUME NEW t \in Target, OnPointerMove(t) PROVE IndInv'
  <2>1. Limited(t) \in Thrust
    BY DEF Thrust
  <2> QED
    BY <1>1, <1>7, <2>1 DEF OnPointerMove, course, TypeOK, MidIsFar, EveryCrossingCounts
<1>8. CASE OnPointerCancel
  BY <1>1, <1>8 DEF OnPointerCancel, Release, course, TypeOK, MidIsFar, EveryCrossingCounts
<1>9. CASE UNCHANGED vars
  BY <1>1, <1>9 DEF vars, hand, course, TypeOK, MidIsFar, EveryCrossingCounts
<1> QED
  BY <1>1, <1>3, <1>4, <1>5, <1>6, <1>7, <1>8, <1>9 DEF Next, Canvas

LEMMA Invariance == Spec => []IndInv
BY InitHolds, NextHolds, PTL DEF Spec

(* The car, the gesture and the histories keep their types, and no arrow   *)
(* outlives its drag (TrackRenderer.tsx, applyMove).                       *)
THEOREM TypeCorrect == Spec => []TypeOK
<1>1. IndInv => TypeOK
  BY DEF IndInv
<1> QED
  BY <1>1, Invariance, PTL

(* On every track, with moves no longer than 18 percent of it, the laps    *)
(* are exactly the crossings of the line in its direction.                 *)
THEOREM LapsAreCrossings == Spec => []EveryCrossingCounts
<1>1. IndInv => EveryCrossingCounts
  BY DEF IndInv
<1> QED
  BY <1>1, Invariance, PTL
-----------------------------------------------------------------------------
(* How much speed a move gives.                                            *)

(* The cars of the game: their stats are multipliers up to 1 (types.ts),   *)
(* of which the acceleration and the thrust that speed allows are not so   *)
(* small that the model's rounding takes all.  A grip of 1, or the inertia *)
(* and the thrust of a car of the catalog.                                 *)
CarStats ==
    /\ Acceleration \in 40..100
    /\ MaxInertia <= 44 \/ (MaxInertia <= 74 /\ Mass <= 100 /\ MaxThrust >= 16)

(* Control, of the inertia and of where the car is.                        *)
Share(inertia, off) ==
    LET base == ((100 - inertia) * Acceleration) \div 100
    IN  IF off THEN (base * 60) \div 100 ELSE base

LEMMA ProductGrows ==
    ASSUME NEW a \in Nat, NEW b \in Nat, NEW n \in Nat, a <= b
    PROVE  a * n \in Nat /\ a * n <= b * n /\ n * a = a * n /\ n * b = b * n
<1>1. b - a \in Nat /\ b = a + (b - a)
  OBVIOUS
<1>2. (b - a) * n \in Nat
  BY <1>1
<1> QED
  BY <1>1, <1>2

LEMMA ShareFalls ==
    ASSUME CarStats, NEW i \in 0..100, NEW j \in i..100, NEW off \in BOOLEAN
    PROVE  Share(i, off) \in Nat /\ Share(j, off) \in Nat /\ Share(j, off) <= Share(i, off)
<1> DEFINE a == (100 - i) * Acceleration
           b == (100 - j) * Acceleration
<1>1. a \in Nat /\ b \in Nat /\ b <= a
  BY ProductGrows DEF CarStats
<1> HIDE DEF a, b
<1>2. a \div 100 \in Nat /\ b \div 100 \in Nat /\ b \div 100 <= a \div 100
  BY <1>1
<1>3. /\ ((a \div 100) * 60) \div 100 \in Nat /\ ((b \div 100) * 60) \div 100 \in Nat
      /\ ((b \div 100) * 60) \div 100 <= ((a \div 100) * 60) \div 100
  BY <1>2
<1> QED
  BY <1>2, <1>3 DEF Share, a, b

LEMMA ShareValues ==
    ASSUME CarStats, NEW off \in BOOLEAN
    PROVE  /\ Share(0, off) <= IF off THEN 60 ELSE 100
           /\ Share(0, off) <= 2 * Share(44, off)
           /\ Share(0, off) <= 6 * Share(74, off)
<1>1. CASE off
  BY <1>1 DEF Share, CarStats
<1>2. CASE ~off
  BY <1>2 DEF Share, CarStats
<1> QED
  BY <1>1, <1>2

LEMMA InertiaBounds ==
    ASSUME CarStats, NEW in \in Point, Magnitude(in) \in Nat
    PROVE  /\ Inertia(in) \in 0..100
           /\ Magnitude(in) <= 5 => Inertia(in) <= 44
           /\ Inertia(in) <= 74
<1> DEFINE force == Lesser(Magnitude(in), MaxThrust)
           n == Mass * force
           q == n \div MaxThrust
<1>1. force \in Nat /\ force <= Magnitude(in)
  BY CarAssumption DEF Lesser
<1>2. n \in Nat
  BY <1>1, CarAssumption, ProductGrows
<1>3. q \in Nat /\ q * MaxThrust <= n
  <2> HIDE DEF n
  <2> QED
    BY <1>2, CarAssumption
<1>4. Inertia(in) = Lesser(MaxInertia, q)
  BY DEF Inertia
<1>5. ASSUME Magnitude(in) <= 5, Mass <= 100, MaxThrust >= 16
      PROVE  q <= 44
  <2>1. n <= 100 * 5
    <3>1. Mass * force <= 100 * force
      BY <1>1, <1>5, CarAssumption, ProductGrows
    <3>2. force <= 5
      BY <1>1, <1>5
    <3> QED
      BY <1>1, <1>2, <3>1, <3>2
  <2>2. ASSUME q >= 45 PROVE FALSE
    <3> HIDE DEF q, n
    <3>1. 45 * MaxThrust <= q * MaxThrust
      BY <1>3, <2>2, CarAssumption, ProductGrows
    <3>2. q * MaxThrust \in Nat /\ 45 * MaxThrust >= 45 * 16
      BY <1>3, <1>5, CarAssumption, ProductGrows
    <3> QED
      BY <1>2, <1>3, <2>1, <3>1, <3>2, CarAssumption
  <2> HIDE DEF q
  <2> QED
    BY <1>3, <2>2
<1> HIDE DEF q
<1> QED
  BY <1>3, <1>4, <1>5, CarAssumption DEF CarStats, Lesser
LEMMA ControlIsShare ==
    ASSUME NEW in \in Point, NEW x \in Int, NEW y \in Int
    PROVE  Control(in, x, y) = Share(Inertia(in), OffTrack(x, y))
BY DEF Control, Share, OffTrackPenalty

(* A longer arrow gives a car no less speed than one of a unit, though it  *)
(* meets more inertia; one of a unit gives a unit at most.                 *)
LEMMA ArrowGrows ==
    ASSUME CarStats, NEW x \in Int, NEW y \in Int, NEW off, off = OffTrack(x, y),
           NEW in \in Point, Magnitude(in) \in Nat \ {0},
           NEW unit \in Point, Magnitude(unit) = 1
    PROVE  /\ Push(in, x, y) \in Nat /\ Push(unit, x, y) \in Nat
           /\ Push(unit, x, y) <= Push(in, x, y)
           /\ Push(unit, x, y) <= IF off THEN Grain - 1 ELSE Grain
<1> DEFINE m == Magnitude(in)
           c == Share(Inertia(in), off)
           d == Share(Inertia(unit), off)
<1>1. off \in BOOLEAN
  BY DEF OffTrack
<1>2. /\ c \in Nat /\ d \in Nat /\ d <= Share(0, off) /\ Share(0, off) \in Nat
      /\ Share(74, off) \in Nat /\ Share(74, off) <= c
  <2>1. /\ Inertia(in) \in 0..100 /\ 74 \in Inertia(in)..100
        /\ Inertia(unit) \in 0..100
    BY InertiaBounds
  <2>2. 0 \in 0..100 /\ 74 \in 0..100
    OBVIOUS
  <2>3. Share(74, off) \in Nat /\ c \in Nat /\ Share(74, off) <= c
    BY <1>1, <2>1, ShareFalls
  <2>4. Share(0, off) \in Nat /\ d \in Nat /\ d <= Share(0, off)
    BY <1>1, <2>1, <2>2, ShareFalls
  <2> QED
    BY <2>3, <2>4
<1>3. m <= 5 => Share(44, off) \in Nat /\ Share(44, off) <= c
  <2>1. m <= 5 => Inertia(in) \in 0..100 /\ 44 \in Inertia(in)..100
    BY InertiaBounds
  <2> QED
    BY <1>1, <2>1, ShareFalls
<1>4. d <= m * c
  <2>1. CASE m = 1
    <3>1. Inertia(in) = Inertia(unit)
      BY <2>1 DEF Inertia
    <3> QED
      BY <1>2, <2>1, <3>1
  <2>2. CASE m \in 2..5
    <3> HIDE DEF m, c, d
    <3>1. 2 * c <= m * c
      BY <1>2, <2>2, ProductGrows
    <3> QED
      BY <1>1, <1>2, <1>3, <2>2, <3>1, ShareValues
  <2>3. CASE m \in Nat /\ m >= 6
    <3> HIDE DEF m, c, d
    <3>1. 6 * c <= m * c
      BY <1>2, <2>3, ProductGrows
    <3> QED
      BY <1>1, <1>2, <2>3, <3>1, ShareValues
  <2> QED
    BY <2>1, <2>2, <2>3
<1>5. d <= IF off THEN 60 ELSE 100
  BY <1>1, <1>2, ShareValues
<1> HIDE DEF c, d, m
<1>6. m * c \in Nat /\ m \in Nat
  BY <1>2, ProductGrows DEF m
<1>7. Push(in, x, y) = (m * Grain * c) \div 100 /\ Push(unit, x, y) = (Grain * d) \div 100
  BY ControlIsShare, CarAssumption DEF Push, c, d, m
<1>8. m * Grain * c = Grain * (m * c)
  BY <1>2, <1>6, CarAssumption
<1>9. /\ Grain * d \in Nat /\ Grain * (m * c) \in Nat
      /\ Grain * d <= Grain * (m * c)
  BY <1>2, <1>4, <1>6, CarAssumption, ProductGrows
<1>10. Grain * d <= IF off THEN Grain * 60 ELSE Grain * 100
  BY <1>1, <1>2, <1>5, CarAssumption, ProductGrows
<1>11. /\ (Grain * d) \div 100 \in Nat /\ (Grain * (m * c)) \div 100 \in Nat
       /\ (Grain * d) \div 100 <= (Grain * (m * c)) \div 100
  <2> DEFINE a == Grain * d
             b == Grain * (m * c)
  <2> HIDE DEF a, b
  <2>1. a \in Nat /\ b \in Nat /\ a <= b
    BY <1>9 DEF a, b
  <2>2. a \div 100 \in Nat /\ b \div 100 \in Nat /\ a \div 100 <= b \div 100
    BY <2>1
  <2> QED
    BY <2>2 DEF a, b
<1>12. (Grain * d) \div 100 <= IF off THEN Grain - 1 ELSE Grain
  <2> DEFINE a == Grain * d
  <2> HIDE DEF a
  <2>1. a \in Nat /\ a <= IF off THEN Grain * 60 ELSE Grain * 100
    BY <1>9, <1>10 DEF a
  <2>2. a \div 100 <= IF off THEN Grain - 1 ELSE Grain
    BY <1>1, <2>1, CarAssumption
  <2> QED
    BY <2>2 DEF a
<1> QED
  BY <1>7, <1>8, <1>11, <1>12

(* The speed a thrust along an axis gives is its push.                     *)
LEMMA SpeedGained ==
    ASSUME NEW c \in CarState, NEW in \in Point, in[1] = 0 \/ in[2] = 0,
           Push(in, c.x, c.y) \in Nat
    PROVE  Faster(c, ApplyMove(c, in)) =
              IF Magnitude(in) = 0 THEN 0 ELSE Push(in, c.x, c.y)
<1> DEFINE push == Push(in, c.x, c.y)
           d == ApplyMove(c, in)
<1>1. c.vx \in Int /\ c.vy \in Int /\ push \in Nat
  BY DEF CarState
<1>2. d.vx = c.vx + Sign(in[1]) * push /\ d.vy = c.vy + Sign(in[2]) * push
  BY DEF ApplyMove
<1> HIDE DEF d, push
<1>3. PICK a \in Int, b \in Int : in = <<a, b>> /\ (a = 0 \/ b = 0)
  BY DEF Point
<1>4. Sign(a) * push \in {-push, 0, push} /\ Sign(b) * push \in {-push, 0, push}
  BY <1>1, <1>3 DEF Sign
<1>5. /\ a = 0 => Sign(a) * push = 0
      /\ b = 0 => Sign(b) * push = 0
      /\ a # 0 => Sign(a) * push \in {-push, push}
      /\ b # 0 => Sign(b) * push \in {-push, push}
  BY <1>1, <1>3 DEF Sign
<1>6. (Magnitude(in) = 0) <=> (a = 0 /\ b = 0)
  BY <1>3 DEF Magnitude, Abs
<1>7. /\ d.vx = c.vx + Sign(a) * push /\ d.vy = c.vy + Sign(b) * push
  BY <1>2, <1>3
<1>8. Faster(c, d) = Abs(Sign(a) * push) + Abs(Sign(b) * push)
  <2> DEFINE s == Sign(a) * push
             t == Sign(b) * push
  <2>1. s \in Int /\ t \in Int
    BY <1>1, <1>4
  <2> HIDE DEF s, t
  <2>2. d.vx - c.vx = s /\ d.vy - c.vy = t
    BY <1>1, <1>7, <2>1 DEF s, t
  <2> QED
    BY <2>2 DEF Faster, s, t
<1> QED
  BY <1>1, <1>3, <1>5, <1>6, <1>8 DEF Abs, d, push
LEMMA ThrustAlongAxis ==
    ASSUME NEW t \in Thrust \cup {Zero}
    PROVE  /\ t \in Point /\ (t[1] = 0 \/ t[2] = 0)
           /\ Magnitude(t) \in Nat /\ (Magnitude(t) = 0 => t = Zero)
           /\ ClampMoveInput(t) \in Point
           /\ (ClampMoveInput(t)[1] = 0 \/ ClampMoveInput(t)[2] = 0)
           /\ Magnitude(ClampMoveInput(t)) = IF t = Zero THEN 0 ELSE 1
<1>1. PICK a \in Int, b \in Int : t = <<a, b>> /\ (a = 0 \/ b = 0)
  <2>1. CASE t = Zero
    BY <2>1 DEF Zero
  <2>2. CASE t # Zero
    <3>1. PICK s \in Target : t = Limited(s)
      BY <2>2 DEF Thrust
    <3>2. PICK a \in Int, b \in Int : s = <<a, b>> /\ (a = 0 \/ b = 0)
      BY PointerAssumption DEF Point
    <3>3. /\ Sign(a) * MaxThrust \in Int /\ Sign(b) * MaxThrust \in Int
          /\ a = 0 => Sign(a) * MaxThrust = 0
          /\ b = 0 => Sign(b) * MaxThrust = 0
      BY <3>2, CarAssumption DEF Sign
    <3>4. t = <<a, b>> \/ t = <<Sign(a) * MaxThrust, Sign(b) * MaxThrust>>
      BY <3>1, <3>2 DEF Limited
    <3> QED
      BY <3>2, <3>3, <3>4
  <2> QED
    BY <2>1, <2>2
<1>2. /\ Sign(a) \in Int /\ Sign(b) \in Int
      /\ a = 0 => Sign(a) = 0
      /\ b = 0 => Sign(b) = 0
      /\ a # 0 => Sign(a) \in {-1, 1}
      /\ b # 0 => Sign(b) \in {-1, 1}
  BY DEF Sign
<1>3. /\ Magnitude(t) \in Nat
      /\ (Magnitude(t) = 0) <=> (a = 0 /\ b = 0)
  BY <1>1 DEF Magnitude, Abs
<1>4. /\ Magnitude(<<Sign(a), Sign(b)>>) = IF a = 0 /\ b = 0 THEN 0 ELSE 1
  BY <1>1, <1>2 DEF Magnitude, Abs
<1>5. (t = Zero) <=> (a = 0 /\ b = 0)
  BY <1>1 DEF Zero
<1>6. \/ ClampMoveInput(t) = t /\ Magnitude(t) <= 1
      \/ ClampMoveInput(t) = <<Sign(a), Sign(b)>>
  BY <1>1 DEF ClampMoveInput
<1>7. ClampMoveInput(t) = t /\ Magnitude(t) <= 1 =>
         Magnitude(ClampMoveInput(t)) = IF t = Zero THEN 0 ELSE 1
  BY <1>3, <1>5
<1> QED
  BY <1>1, <1>2, <1>3, <1>4, <1>5, <1>6, <1>7 DEF Point

(* What the server makes of a thrust is limited, and is no more than the   *)
(* page showed of it.                                                      *)
LEMMA MoveLimited ==
    ASSUME CarStats, car \in CarState, NEW t \in Thrust \cup {Zero}, MoveCar(t)
    PROVE  /\ Faster(car, car') <= IF OffTrack(car.x, car.y) THEN Grain - 1 ELSE Grain
           /\ t # Zero => Faster(car, car') <= Faster(car, ApplyMove(car, t))
<1> DEFINE in == ClampMoveInput(t)
<1>1. /\ in \in Point /\ (in[1] = 0 \/ in[2] = 0)
      /\ Magnitude(in) = IF t = Zero THEN 0 ELSE 1
      /\ t \in Point /\ (t[1] = 0 \/ t[2] = 0)
      /\ Magnitude(t) \in Nat /\ (Magnitude(t) = 0 => t = Zero)
  BY ThrustAlongAxis
<1>2. car.x \in Int /\ car.y \in Int
  BY DEF CarState
<1>3. car' = ApplyMove(car, in)
  BY DEF MoveCar
<1> HIDE DEF in
<1>4. CASE t # Zero
  <2>1. Magnitude(t) \in Nat \ {0} /\ Magnitude(in) = 1
    BY <1>1, <1>4
  <2>2. /\ Push(t, car.x, car.y) \in Nat /\ Push(in, car.x, car.y) \in Nat
        /\ Push(in, car.x, car.y) <= Push(t, car.x, car.y)
        /\ Push(in, car.x, car.y) <= IF OffTrack(car.x, car.y) THEN Grain - 1 ELSE Grain
    BY <1>1, <1>2, <2>1, ArrowGrows
  <2>3. /\ Faster(car, car') = Push(in, car.x, car.y)
        /\ Faster(car, ApplyMove(car, t)) = Push(t, car.x, car.y)
    BY <1>1, <1>3, <2>1, <2>2, SpeedGained
  <2> QED
    BY <2>2, <2>3
<1>5. CASE t = Zero
  <2>1. in = Zero
    BY <1>5 DEF in, ClampMoveInput, Magnitude, Zero, Abs
  <2>2. Push(in, car.x, car.y) = 0
    <3>1. Control(in, car.x, car.y) \in Int
      BY <1>1, <1>2, ControlType
    <3>2. Magnitude(in) = 0
      BY <1>1, <1>5
    <3> QED
      BY <3>1, <3>2, CarAssumption DEF Push
  <2>3. Faster(car, car') = 0
    BY <1>1, <1>3, <1>5, <2>2, SpeedGained
  <2> QED
    BY <1>5, <2>3, CarAssumption
<1> QED
  BY <1>4, <1>5

LEMMA MoveStep ==
    ASSUME CarStats, IndInv, [Next]_vars
    PROVE  /\ Faster(car, car') <= IF OffTrack(car.x, car.y) THEN Grain - 1 ELSE Grain
           /\ drag # NoPointer /\ drag' = NoPointer /\ car' # car
                => Faster(car, car') <= Faster(car, Landing)
<1>1. car \in CarState /\ preview \in Thrust \cup {NoPreview}
  BY DEF IndInv, TypeOK
<1>2. CASE car' = car
  <2>1. Faster(car, car') = 0
    BY <1>1, <1>2 DEF Faster, Abs, CarState
  <2> QED
    BY <1>2, <2>1, CarAssumption
<1>3. CASE Deadline
  <2>1. drag' = drag /\ MoveCar(Zero)
    BY <1>3 DEF Deadline, hand
  <2> QED
    BY <1>1, <2>1, MoveLimited
<1>4. ASSUME NEW p \in Pointer, OnPointerUp(p), car' # car
      PROVE  MoveCar(preview) /\ preview \in Thrust /\ preview # Zero
  BY <1>1, <1>4 DEF OnPointerUp
<1>5. ASSUME NEW p \in Pointer, OnPointerUp(p), car' # car
      PROVE  /\ Faster(car, car') <= IF OffTrack(car.x, car.y) THEN Grain - 1 ELSE Grain
             /\ Faster(car, car') <= Faster(car, Landing)
  BY <1>1, <1>4, <1>5, MoveLimited DEF Landing
<1>6. car' = car \/ Deadline \/ \E p \in Pointer : OnPointerUp(p)
  BY DEF Next, Canvas, OthersMove, OnPointerDown, OnPointerMove, OnPointerCancel, vars
<1> QED
  BY <1>2, <1>3, <1>5, <1>6

(* However long the arrow, a move changes a car's speed by a unit of       *)
(* thrust at most, and a move by hand by no more than the dot showed, for  *)
(* every track and every car of the game (clampMoveInput, applyMove).      *)
THEOREM ThrustLimited ==
    ASSUME CarStats
    PROVE  Spec => ThrustIsLimited
<1>1. IndInv /\ [Next]_vars =>
         [/\ Faster(car, car') <= IF OffTrack(car.x, car.y) THEN Grain - 1 ELSE Grain
          /\ drag # NoPointer /\ drag' = NoPointer /\ car' # car
               => Faster(car, car') <= Faster(car, Landing)]_vars
  BY CarStats, MoveStep
<1> QED
  BY <1>1, Invariance, PTL DEF Spec, ThrustIsLimited
=============================================================================

------------------------------- MODULE Drive --------------------------------
(***************************************************************************)
(* One player's car from the finger on the canvas (TrackRenderer.tsx) over *)
(* the server's move (game.service.ts) to the lap counter.                 *)
(*                                                                         *)
(* The page shows the car as the server has it (GameClient has how it      *)
(* comes to), and the other players' turns are one step.  Pointers that    *)
(* press, move and go are told apart, because their handlers share the     *)
(* drag and its preview.                                                   *)
(***************************************************************************)
EXTENDS Physics

CONSTANTS
    Pointer,        \* fingers
    NoPointer,      \* no drag
    NoPreview,      \* no arrow
    Target,         \* where a finger may be, relative to the car, in world units
    Players,        \* players of the race
    HalfGap,        \* half the distance between two cars at the start
    MaxSpeed,       \* bound: of a car, along an axis
    MaxAway,        \* bound: distance from the center line
    MaxLaps, MaxRounds  \* bounds: laps counted; net rounds either way

(* A thrust points along an axis, as Physics has it. *)
ASSUME PointerAssumption ==
    /\ NoPointer \notin Pointer
    /\ Target \subseteq {t \in Point : t[1] = 0 \/ t[2] = 0}
ASSUME StartAssumption == Players \in Nat \ {0} /\ HalfGap \in Nat

VARIABLES
    car,
    turn,           \* "mine", or "other"
    drag,           \* dragRef: the pointer that pressed last, or NoPointer
    preview,        \* previewRef: the thrust the arrow shows, or NoPreview
    forward,        \* history: moves over the line, the right way
    rounds, farthest,   \* history: net rounds, and the most there ever were
    smooth          \* history: no move was longer than 18 percent of the track

hand == <<drag, preview>>
course == <<forward, rounds, farthest, smooth>>
vars == <<car, turn, hand, course>>

-----------------------------------------------------------------------------
(* initialCarStates: the cars stand side by side on the normal of the      *)
(* first segment, at progress 0 whatever their place.                      *)
Heading(k) == Sign(To(1)[k] - From(1)[k])

Spawned(i) ==
    LET offset == HalfGap * (2 * i - Players - 1)
    IN  [x |-> From(1)[1] - Heading(2) * offset, y |-> From(1)[2] + Heading(1) * offset,
         vx |-> 0, vy |-> 0, laps |-> 0, mid |-> FALSE, prog |-> 0, offTrack |-> FALSE]

Init ==
    /\ \E i \in 1..Players : car = Spawned(i)
    /\ turn \in {"mine", "other"}
    /\ drag = NoPointer /\ preview = NoPreview
    /\ forward = 0 /\ rounds = 0 /\ farthest = 0 /\ smooth = TRUE

-----------------------------------------------------------------------------
Zero == <<0, 0>>

(* Variant: any thrust the page sends is taken. *)
Unclamped(in) == in

(* clampMoveInput, on the page and again on the server: at most one unit. *)
ClampMoveInput(in) == IF Magnitude(in) <= 1 THEN in ELSE <<Sign(in[1]), Sign(in[2])>>

(* The way from one progress to another, along the line's direction. *)
Ahead(from, to) == IF to >= from THEN to - from ELSE to - from + TotalLength
Short(way) == 100 * way < 18 * TotalLength

(* A move is taken to have gone the shorter way round. *)
GoesOver(from, to) ==
    CASE to < from /\ 2 * Ahead(from, to) < TotalLength -> 1
      [] to > from /\ 2 * Ahead(from, to) > TotalLength -> -1
      [] OTHER -> 0

Follow(from, to) ==
    LET over == GoesOver(from, to)
    IN  /\ forward' = IF over = 1 THEN forward + 1 ELSE forward
        /\ rounds' = rounds + over
        /\ farthest' = Greater(farthest, rounds')
        /\ smooth' = (smooth /\ (Short(Ahead(from, to)) \/ Short(Ahead(to, from))))

(* The server's move for this player: applySubmitMove, applyTurnDeadline. *)
MoveCar(in) ==
    /\ turn = "mine"
    /\ car' = ApplyMove(car, ClampMoveInput(in))
    /\ turn' = "other"
    /\ Follow(car.prog, car'.prog)
    /\ Abs(car'.vx) <= MaxSpeed /\ Abs(car'.vy) <= MaxSpeed
    /\ DistSq(car'.x, car'.y, Closest(car'.x, car'.y)) <= MaxAway * MaxAway
    /\ car'.laps <= MaxLaps /\ rounds' \in -MaxRounds..MaxRounds /\ forward' <= MaxLaps

Deadline == MoveCar(Zero) /\ UNCHANGED hand

OthersMove ==
    /\ turn = "other"
    /\ turn' = "mine"
    /\ UNCHANGED <<car, hand, course>>

-----------------------------------------------------------------------------
(* The canvas. *)

OnPointerDown(p) ==
    /\ turn = "mine"
    /\ drag' = p
    /\ UNCHANGED <<car, turn, preview, course>>

Limited(t) ==
    IF Magnitude(t) <= MaxThrust THEN t
    ELSE <<Sign(t[1]) * MaxThrust, Sign(t[2]) * MaxThrust>>

(* paint: the dot is drawn where the arrow would take the car as it is,    *)
(* though no move is taken as long as that.                                *)
Landing == ApplyMove(car, preview)

(* Any finger that moves: its id is not looked at. *)
OnPointerMove(t) ==
    /\ turn = "mine" /\ drag # NoPointer
    /\ preview' = Limited(t)
    /\ UNCHANGED <<car, turn, drag, course>>

Release == drag' = NoPointer /\ preview' = NoPreview

(* Variant: the arrow stays for the next drag. *)
OnPointerUpKeeps(p) ==
    /\ drag = p
    /\ drag' = NoPointer /\ UNCHANGED preview
    /\ IF turn = "mine" /\ preview \notin {NoPreview, Zero} THEN MoveCar(preview)
       ELSE UNCHANGED <<car, turn, course>>

(* The finger goes up or leaves: with an arrow, a move is sent. *)
OnPointerUp(p) ==
    /\ drag = p
    /\ Release
    /\ IF turn = "mine" /\ preview \notin {NoPreview, Zero} THEN MoveCar(preview)
       ELSE UNCHANGED <<car, turn, course>>

OnPointerCancel ==
    /\ drag # NoPointer
    /\ Release
    /\ UNCHANGED <<car, turn, course>>

Canvas ==
    \/ \E p \in Pointer : OnPointerDown(p) \/ OnPointerUp(p)
    \/ \E t \in Target : OnPointerMove(t)
    \/ OnPointerCancel

Next == Canvas \/ Deadline \/ OthersMove

Spec == Init /\ [][Next]_vars

-----------------------------------------------------------------------------
Faster(from, to) == Abs(to.vx - from.vx) + Abs(to.vy - from.vy)

Thrust == {Limited(t) : t \in Target}

CarState == [x : Int, y : Int, vx : Int, vy : Int, laps : Nat, mid : BOOLEAN,
             prog : 0..(TotalLength - 1), offTrack : BOOLEAN]

(* Every variable holds what the code can put there; an arrow belongs to a *)
(* drag (onPointerDown, onPointerUp, onPointerCancel).                     *)
TypeOK ==
    /\ car \in CarState
    /\ turn \in {"mine", "other"}
    /\ drag \in Pointer \cup {NoPointer}
    /\ preview \in Thrust \cup {NoPreview}
    /\ preview # NoPreview => drag # NoPointer
    /\ forward \in Nat /\ rounds \in Int /\ farthest \in Nat /\ smooth \in BOOLEAN

(* A lap is counted for every crossing of the line in its direction and    *)
(* for nothing else (physics.ts:185), as long as no move has been longer   *)
(* than the 18 percent on either side of the line.                         *)
EveryCrossingCounts == smooth => car.laps = forward

(* However long the arrow, a move changes the car's speed by no more than  *)
(* one unit of thrust, and by less when the car stands off the track; a    *)
(* move by hand, by no more than the dot showed (clampMoveInput,           *)
(* applyMove, paint).                                                      *)
ThrustIsLimited ==
    [][/\ Faster(car, car') <= IF OffTrack(car.x, car.y) THEN Grain - 1 ELSE Grain
       /\ drag # NoPointer /\ drag' = NoPointer /\ car' # car
            => Faster(car, car') <= Faster(car, Landing)]_vars

(* "Lap counter increments correctly after full lap"                       *)
(* (vector-racers-tasks.md:195): no more laps than the car has gone round. *)
LapsAreRounds == car.laps <= farthest
=============================================================================

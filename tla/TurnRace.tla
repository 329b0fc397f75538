------------------------------ MODULE TurnRace ------------------------------
(***************************************************************************)
(* What a race promises to its players, without any server in it: players  *)
(* move one at a time in the order of their start positions, every move    *)
(* counts exactly once, and the race is over with the move after which     *)
(* every player has finished LapCount laps.                                *)
(*                                                                         *)
(* RaceGame is the server that implements it: one Redis key per race, read *)
(* and written by handlers that wait for the database in between.          *)
(***************************************************************************)
EXTENDS Integers, Sequences

CONSTANTS
    Player,         \* the users of the room
    PlayerOrder,    \* the users, each once, by start position
    LapCount        \* laps a player has to finish

VARIABLES
    racing,         \* a race is being run
    moveSeq,        \* number of moves accepted in it
    laps            \* laps finished, by player

vars == <<racing, moveSeq, laps>>

(* The player whose move is number moveSeq + 1. *)
Mover == PlayerOrder[(moveSeq % Len(PlayerOrder)) + 1]

NoLaps == [p \in Player |-> 0]

Init ==
    /\ racing = FALSE
    /\ moveSeq = 0
    /\ laps = NoLaps

Start ==
    /\ ~racing
    /\ racing' = TRUE
    /\ UNCHANGED <<moveSeq, laps>>

(* A move completes at most one lap; the last one needed ends the race. *)
Move(lap) ==
    LET after == [laps EXCEPT ![Mover] = @ + lap] IN
    /\ racing
    /\ IF \A p \in Player : after[p] >= LapCount
       THEN /\ racing' = FALSE
            /\ moveSeq' = 0
            /\ laps' = NoLaps
       ELSE /\ racing' = TRUE
            /\ moveSeq' = moveSeq + 1
            /\ laps' = after

Next == Start \/ \E lap \in 0..1 : Move(lap)

Spec == Init /\ [][Next]_vars
=============================================================================

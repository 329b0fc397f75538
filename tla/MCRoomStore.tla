---------------------------- MODULE MCRoomStore -----------------------------
(* Finite instances of RoomStore: rooms for two players. *)
EXTENDS RoomStore, TLC

CONSTANTS anna, ben, carl, q1, q2, t1, t2, a, b

TwoUsers == {anna, ben}
ThreeUsers == {anna, ben, carl}
OneUser == {anna}
OneRequest == {q1}
MCRequest == {q1, q2}
OneTask == {t1}
TwoTasks == {t1, t2}
OneRoom == {a}
TwoRooms == {a, b}

(* Users, slots and rooms are interchangeable. *)
Interchangeable == Permutations(ThreeUsers) \cup Permutations(MCRequest)
                   \cup Permutations(TwoTasks) \cup Permutations(TwoRooms)
=============================================================================

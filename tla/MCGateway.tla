----------------------------- MODULE MCGateway ------------------------------
(* Finite instances of Gateway: one API process, two users, a race of two  *)
(* moves.                                                                  *)
EXTENDS Gateway

CONSTANTS anna, ben, p1, h1, h2

MCUser == {anna, ben}
MCProc == {p1}
MCHandler == {h1, h2}
=============================================================================

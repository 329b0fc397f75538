---------------------------- MODULE MCGameClient ----------------------------
(* Finite instances of GameClient: the first of two players, a race of    *)
(* three moves.                                                            *)
EXTENDS GameClient, TLC

CONSTANT c1

OneClick == {c1}
=============================================================================

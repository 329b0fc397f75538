----------------------------- MODULE MCRaceGame -----------------------------
(* Finite instances of RaceGame: two players on a one-lap track.           *)
EXTENDS RaceGame, TLC

CONSTANTS anna, ben, h1, h2, s1, s2

MCOrder == <<anna, ben>>
MCPlayer == {anna, ben}
MCCall == {h1, h2}
OneStarter == {s1}
TwoStarters == {s1, s2}

(* Calls are interchangeable slots, and so are expiries of the countdown. *)
SlotSymmetry == Permutations(MCCall) \cup Permutations(TwoStarters)
=============================================================================

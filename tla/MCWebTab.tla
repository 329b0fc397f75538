------------------------------ MODULE MCWebTab ------------------------------
(* Finite instances of WebTab: one car that can be chosen, and one that is  *)
(* locked.                                                                  *)
EXTENDS WebTab

TwoCars == {"starter", "locked"}
OneUnlocked == {"starter"}
NoSuchCar == "none"
=============================================================================

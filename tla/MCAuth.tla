------------------------------- MODULE MCAuth -------------------------------
(* Finite instances of Auth: one address typed in two ways, two names.      *)
EXTENDS Auth

CONSTANTS r1, r2, ada, Ada, lace, byron

TwoRequests == {r1, r2}
TwoSpellings == {ada, Ada}
OneEmail == {ada}
LowerCase == [w \in TwoSpellings |-> ada]
TwoNames == {lace, byron}
=============================================================================

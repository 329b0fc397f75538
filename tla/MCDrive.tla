------------------------------ MODULE MCDrive -------------------------------
(* Finite instances of Drive: a rectangular track, closed as the seed's     *)
(* tracks are by a last waypoint that repeats the first, and two cars.      *)
EXTENDS Drive

CONSTANTS finger, thumb

Rectangle == <<<<0, 0>>, <<6, 0>>, <<6, 4>>, <<0, 4>>, <<0, 0>>>>

Away(d) == {<<d, 0>>, <<-d, 0>>, <<0, d>>, <<0, -d>>}
(* A tap, a drag shorter than MaxThrust, and four that are longer. *)
MCTarget == {Zero, <<1, 0>>} \cup Away(4)

TwoFingers == {finger, thumb}
=============================================================================

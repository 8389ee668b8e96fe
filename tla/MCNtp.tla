------------------------------- MODULE MCNtp --------------------------------
(* An instance of Ntp for TLC: the stamps wrap round two seconds after the  *)
(* request, and the local clock is behind, ahead, or nearly right.          *)
EXTENDS Ntp

Offsets == {-40, -7, -1, 0, 1, 7, 40}
=============================================================================

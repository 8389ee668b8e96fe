------------------------------ MODULE MCMinmea ------------------------------
(* An instance of Minmea for TLC: 11 bits, and the digits 0, 1, 2 and 9.    *)
EXTENDS Minmea

Chars == {Plus, Minus, Point, Space, 48, 49, 50, 57}
=============================================================================

--------------------------- MODULE MCConnection ---------------------------
(* Instances of Connection for TLC: every constant is a bound or a switch, *)
(* so the configurations give the values.                                  *)
EXTENDS Connection
===========================================================================

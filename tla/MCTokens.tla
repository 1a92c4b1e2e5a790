------------------------------- MODULE MCTokens -------------------------------
(* Instances of SessionTokens for TLC.                                      *)
EXTENDS SessionTokens, TLC

CONSTANTS s1, s2, r1, r2
==============================================================================

----------------------------- MODULE MCTransport -----------------------------
(* Instances of Transport for TLC.                                          *)
EXTENDS Transport, TLC

CONSTANTS a, b, c, mgr, hb
==============================================================================

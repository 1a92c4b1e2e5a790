----------------------------- MODULE MCTimeline -----------------------------
(* Instances of Timeline: every message the user sends says the same.      *)
EXTENDS Timeline

Same == [n \in Sends |-> "ok"]
=============================================================================

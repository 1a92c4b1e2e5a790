------------------------------- MODULE MCCall -------------------------------
EXTENDS Call

CONSTANTS da, db, dc, A, B, C

UserOfDevice == [d \in Devices |-> CASE d = da -> A [] d = db -> B [] OTHER -> C]

CandidatesOf == [d \in Devices |-> IF d = da THEN 1 ELSE 0]

Redial   == <<<<da, B>>, <<da, B>>>>
CallBack == <<<<da, B>>, <<db, A>>>>
Busy     == <<<<da, B>>, <<dc, B>>>>
TwoCalls == {Redial, CallBack, Busy}
=============================================================================

------------------------------ MODULE MCUploads ------------------------------
EXTENDS Uploads

CONSTANTS m, n, A, B

Files == {"f", "g"}
OneEach  == [k \in Files |-> IF k = "f" THEN m ELSE n]
BothOfM  == [k \in Files |-> m]
OneOrTwo == {OneEach, BothOfM}
LoginOf  == [i \in {m, n} |-> IF i = m THEN 1 ELSE 2]
Logins   == <<A, B, A>>
=============================================================================

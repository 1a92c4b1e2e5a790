----------------------------- MODULE RpcContract -----------------------------
(***************************************************************************)
(* What a caller of the transport may rely on, with no sockets in it: a    *)
(* call leaves the client at most once, its result is the answer to that   *)
(* very call, a code that says the answer was too large, or an error, the   *)
(* first two imply the call was sent, the result never changes, and it      *)
(* always comes.  An error says nothing about whether the server acted: the *)
(* bytes may even leave afterwards.                                         *)
(***************************************************************************)
EXTENDS Naturals

CONSTANT Requests

VARIABLES status, sent, answer

vars == <<status, sent, answer>>

Init ==
    /\ status = [r \in Requests |-> "idle"]
    /\ sent = [r \in Requests |-> 0]
    /\ answer = [r \in Requests |-> {}]

Call(r) ==
    /\ status[r] = "idle"
    /\ status' = [status EXCEPT ![r] = "open"]
    /\ UNCHANGED <<sent, answer>>

Transmit(r) ==
    /\ status[r] \in {"open", "error"}
    /\ sent[r] = 0
    /\ sent' = [sent EXCEPT ![r] = 1]
    /\ UNCHANGED <<status, answer>>

Answer(r) ==
    /\ status[r] = "open"
    /\ sent[r] = 1
    /\ status' = [status EXCEPT ![r] = "ok"]
    /\ answer' = [answer EXCEPT ![r] = {r}]
    /\ UNCHANGED sent

\* Answered, with more than the client will hold: a success without a body.
Overflow(r) ==
    /\ status[r] = "open"
    /\ sent[r] = 1
    /\ status' = [status EXCEPT ![r] = "too_large"]
    /\ UNCHANGED <<sent, answer>>

Refuse(r) ==
    /\ status[r] = "open"
    /\ status' = [status EXCEPT ![r] = "error"]
    /\ UNCHANGED <<sent, answer>>

Next == \E r \in Requests :
    Call(r) \/ Transmit(r) \/ Answer(r) \/ Overflow(r) \/ Refuse(r)

Spec == Init /\ [][Next]_vars

FairSpec == Spec /\ \A r \in Requests : WF_vars(Answer(r) \/ Overflow(r) \/ Refuse(r))
==============================================================================

----------------------------- MODULE CallProofs -----------------------------
(***************************************************************************)
(* Machine-checked theorems about Call, for any devices, users, scripts and *)
(* bounds: the types with the shape of a store, the no-answer timer of an   *)
(* unanswered call, the log that a call ends, the candidates that reach the *)
(* other end, the good-bye that every call that is up hears, and the offers *)
(* that ring only once.                                                     *)
(***************************************************************************)
EXTENDS Call, FiniteSetTheorems, TLAPS

\* A store on its own.
Good(r) ==
    /\ r \in Stores
    /\ Coherent(r)
    /\ r.phase \in Unanswered => r.timer
    /\ r.message # 0 => r.message = r.engine.id
    /\ r.grace => r.phase # "Idle"

\* A request for a log of the generation that is on is about the engine that
\* is on: this is what makes the test of the generation enough.
Fits(l) ==
    /\ l \in LogRequests
    /\ l.gen <= dev[l.dev].gen
    /\ l.gen = dev[l.dev].gen => l.call = dev[l.dev].engine.id

StoresGood ==
    /\ dev = [d \in Devices |-> dev[d]]
    /\ \A d \in Devices : Good(dev[d])

RestTyped ==
    /\ \A m \in net : m \in Signals
    /\ engines \in Nat /\ lost \in Nat /\ reoffers \in Nat
    /\ rung \in [Devices -> SUBSET Nat]

\* Inductive: a log answer is kept by the generation alone, so the agreement
\* of the logs that wait with the engines belongs to the invariant.
IInv ==
    /\ StoresGood
    /\ RestTyped
    /\ \A l \in logs : Fits(l)

\* What a step may make of the store r: it stays in its call, or it leaves it.
Onward(r, q) ==
    \/ q.gen = r.gen /\ q.engine.id = r.engine.id
    \/ q.gen = r.gen + 1

-----------------------------------------------------------------------------
(* Stores.                                                                  *)

LEMMA IdleGood == IdleStore \in Stores /\ Coherent(IdleStore) /\ Good(IdleStore)
<1>1. NoEngine \in Engines
  BY DEF NoEngine, Engines
<1>2. <<>> \in Seq(Users \X Nat)
  BY SMT
<1>3. IdleStore \in Stores
  BY <1>1, <1>2 DEF IdleStore, Stores, InCall
<1>4. Coherent(IdleStore)
  BY <1>1 DEF IdleStore, Coherent, InCall, NoEngine
<1>5. QED
  BY <1>3, <1>4 DEF Good, IdleStore, Unanswered

LEMMA ResetGood ==
  ASSUME NEW r, Good(r)
  PROVE  Good(Reset(r)) /\ Onward(r, Reset(r))
<1>1. r.gen + 1 \in Nat /\ r.known \in Seq(Users \X Nat)
  BY DEF Good, Stores
<1>2. IdleStore \in Stores
  BY IdleGood
<1>3. Reset(r) \in Stores
  BY <1>1, <1>2 DEF Reset, Stores
<1>4. QED
  BY <1>1, <1>3, IdleGood DEF Reset, Good, Coherent, Onward, IdleStore, Unanswered,
     Stores

\* What remembering a session leaves alone, as far as the proofs ask.
Kept(r, q) ==
    /\ q.gen = r.gen /\ q.phase = r.phase /\ q.engine = r.engine
    /\ q.message = r.message /\ q.peer = r.peer /\ q.offer = r.offer
    /\ q.localIce = r.localIce

LEMMA RememberGood ==
  ASSUME NEW r, Good(r), NEW u \in Users, NEW s \in Nat
  PROVE  Good(Remember(r, u, s)) /\ Kept(r, Remember(r, u, s))
<1>1. r.known \in Seq(Users \X Nat)
  BY DEF Good, Stores
<1>2. CASE Known(r, u, s)
  <2>1. Remember(r, u, s) = r
    BY <1>2 DEF Remember
  <2>2. QED
    BY <2>1 DEF Kept
<1>3. CASE ~Known(r, u, s)
  <2> DEFINE k == Append(IF Len(r.known) >= MaxKnown THEN Tail(r.known) ELSE r.known,
                         <<u, s>>)
  <2>1. ASSUME Len(r.known) >= MaxKnown PROVE Tail(r.known) \in Seq(Users \X Nat)
    BY <1>1, <2>1, CallAssumption
  <2>2. k \in Seq(Users \X Nat)
    BY <1>1, <2>1
  <2>3. Remember(r, u, s) = [r EXCEPT !.known = k]
    BY <1>3 DEF Remember
  <2> HIDE DEF k
  <2>4. Good([r EXCEPT !.known = k]) /\ Kept(r, [r EXCEPT !.known = k])
    BY <2>2 DEF Good, Stores, Coherent, Kept
  <2>5. QED
    BY <2>2, <2>3, <2>4
<1>4. QED
  BY <1>2, <1>3

\* One device moves on, no log is asked for.
LEMMA OneStore ==
  ASSUME StoresGood, NEW d \in Devices, NEW r, Good(r), Onward(dev[d], r),
         dev' = [dev EXCEPT ![d] = r],
         \A l \in logs : Fits(l), logs' \subseteq logs
  PROVE  StoresGood' /\ \A l \in logs' : Fits(l)'
<1>1. dev' = [e \in Devices |-> IF e = d THEN r ELSE dev[e]]
  BY DEF StoresGood
<1>2. StoresGood'
  BY <1>1 DEF StoresGood
<1>3. ASSUME NEW l \in logs' PROVE Fits(l)'
  <2>1. Fits(l) /\ l.dev \in Devices /\ l.gen \in Nat
    BY <1>3 DEF Fits, LogRequests
  <2>2. dev[d].gen \in Nat
    BY DEF StoresGood, Good, Stores
  <2>3. QED
    BY <1>1, <2>1, <2>2 DEF Fits, Onward
<1>4. QED
  BY <1>2, <1>3

-----------------------------------------------------------------------------
(* Signals.                                                                 *)

SignalTypes == {"OFFER", "ANSWER", "ICE", "INIT", "QUIT", "TIMEOUT", "JOINED",
                "CANCEL", "LOG"}

LEMMA SignalTyped ==
  ASSUME NEW d \in Devices, dev[d].gen \in Nat, NEW ds \in SUBSET Devices, NEW u,
         ds # {} => u \in Users, NEW type \in SignalTypes, NEW s \in Nat,
         NEW i \in Nat
  PROVE  \A m \in SignalTo(d, ds, u, type, s, i) : m \in Signals
<1>1. UserOf[d] \in Users
  BY DEF Users
<1>2. QED
  BY <1>1 DEF SignalTo, Signals, SignalTypes, OtherPaths

LEMMA ToPeerTyped ==
  ASSUME StoresGood, NEW d \in Devices, NEW type \in SignalTypes,
         NEW s \in Nat, NEW i \in Nat
  PROVE  \A m \in ToPeer(d, type, s, i) : m \in Signals
<1>1. DevicesOf(dev[d].peer) # {} => dev[d].peer \in Users
  BY DEF DevicesOf, Users
<1>2. DevicesOf(dev[d].peer) \in SUBSET Devices /\ dev[d].gen \in Nat
  BY DEF DevicesOf, StoresGood, Good, Stores
<1>3. QED
  BY <1>1, <1>2, SignalTyped DEF ToPeer

LEMMA FarewellTyped ==
  ASSUME StoresGood, NEW d \in Devices, dev[d].phase # "Idle", NEW reason,
         NEW notify \in BOOLEAN
  PROVE  \A m \in Farewell(d, reason, notify) : m \in Signals
<1>1. /\ dev[d].gen \in Nat /\ dev[d].sid \in Nat /\ dev[d].message \in Nat
      /\ dev[d].peer \in Users
  BY DEF StoresGood, Good, Stores, Coherent
<1>2. \A m \in TerminalLog(d) : m \in Signals
  <2>1. (DevicesOf(dev[d].peer) \cup DevicesOf(UserOf[d])) \ {d} \in SUBSET Devices
    BY DEF DevicesOf
  <2>2. QED
    BY <1>1, <2>1, SignalTyped DEF TerminalLog, SignalTypes
<1>3. \A m \in ToPeer(d, "CANCEL", dev[d].sid, 0) : m \in Signals
  BY <1>1, ToPeerTyped DEF SignalTypes
<1>4. \A m \in ToPeer(d, "QUIT", 0, 0) \cup ToPeer(d, "TIMEOUT", 0, 0) : m \in Signals
  BY ToPeerTyped DEF SignalTypes
<1>5. QED
  BY <1>2, <1>3, <1>4 DEF Farewell

-----------------------------------------------------------------------------
(* Steps that several actions share.                                        *)

Frame == engines' = engines /\ lost' = lost /\ reoffers' = reoffers /\ rung' = rung

LEMMA StepStoreGood ==
  ASSUME IInv, NEW d \in Devices, NEW r, Good(r), Onward(dev[d], r), NEW out,
         \A m \in out : m \in Signals, StepStore(d, r, out)
  PROVE  IInv'
<1>1. StoresGood' /\ \A l \in logs' : Fits(l)'
  BY OneStore DEF StepStore, IInv
<1>2. RestTyped'
  BY DEF StepStore, IInv, RestTyped
<1>3. QED
  BY <1>1, <1>2 DEF IInv

LEMMA EndCallGood ==
  ASSUME IInv, NEW d \in Devices, dev[d].phase # "Idle", NEW reason, EndCall(d, reason)
  PROVE  IInv'
<1>1. Good(Reset(dev[d])) /\ Onward(dev[d], Reset(dev[d]))
  BY ResetGood DEF IInv, StoresGood
<1>2. \A m \in Farewell(d, reason, TRUE) : m \in Signals
  BY FarewellTyped DEF IInv
<1>3. dev' = [dev EXCEPT ![d] = Reset(dev[d])]
  BY DEF EndCall
<1>4. StepStore(d, Reset(dev[d]), Farewell(d, reason, TRUE))
  BY <1>3 DEF EndCall, StepStore
<1>5. QED
  BY <1>1, <1>2, <1>4, StepStoreGood

LEMMA HandledGood ==
  ASSUME IInv, NEW m \in net, NEW r, Good(r), Onward(dev[m.to], r), NEW out,
         \A n \in out : n \in Signals, Handled(m, r, out),
         rung' \in [Devices -> SUBSET Nat],
         UNCHANGED <<logs, calls, engines, lost, reoffers>>
  PROVE  IInv'
<1>1. m.to \in Devices
  BY DEF IInv, RestTyped, Signals
<1>2. StoresGood' /\ \A l \in logs' : Fits(l)'
  BY <1>1, OneStore DEF Handled, IInv
<1>3. RestTyped'
  BY DEF Handled, IInv, RestTyped
<1>4. QED
  BY <1>2, <1>3 DEF IInv

LEMMA IgnoreGood ==
  ASSUME IInv, NEW m \in net, Ignore(m), rung' \in [Devices -> SUBSET Nat],
         UNCHANGED <<logs, calls, engines, lost, reoffers>>
  PROVE  IInv'
<1>1. m.to \in Devices
  BY DEF IInv, RestTyped, Signals
<1>2. Good(dev[m.to]) /\ Onward(dev[m.to], dev[m.to])
  BY <1>1 DEF IInv, StoresGood, Onward
<1>3. QED
  BY <1>2, HandledGood DEF Ignore

LEMMA DismissGood ==
  ASSUME IInv, NEW m \in net, Handled(m, Reset(dev[m.to]), {}),
         rung' \in [Devices -> SUBSET Nat],
         UNCHANGED <<logs, calls, engines, lost, reoffers>>
  PROVE  IInv'
<1>1. m.to \in Devices
  BY DEF IInv, RestTyped, Signals
<1>2. Good(Reset(dev[m.to])) /\ Onward(dev[m.to], Reset(dev[m.to]))
  BY <1>1, ResetGood DEF IInv, StoresGood
<1>3. QED
  BY <1>2, HandledGood

LEMMA RemoteEndGood ==
  ASSUME IInv, NEW m \in net, NEW reason, RemoteEnd(m, reason),
         rung' \in [Devices -> SUBSET Nat],
         UNCHANGED <<logs, calls, engines, lost, reoffers>>
  PROVE  IInv'
<1>1. m.to \in Devices
  BY DEF IInv, RestTyped, Signals
<1>2. CASE FromPeer(m) /\ dev[m.to].phase # "Idle"
  <2>1. Good(Reset(dev[m.to])) /\ Onward(dev[m.to], Reset(dev[m.to]))
    BY <1>1, ResetGood DEF IInv, StoresGood
  <2>2. \A n \in Farewell(m.to, reason, FALSE) : n \in Signals
    BY <1>1, <1>2, FarewellTyped DEF IInv
  <2>3. Handled(m, Reset(dev[m.to]), Farewell(m.to, reason, FALSE))
    BY <1>2 DEF RemoteEnd
  <2>4. QED
    BY <2>1, <2>2, <2>3, HandledGood
<1>3. CASE ~(FromPeer(m) /\ dev[m.to].phase # "Idle")
  BY <1>3, IgnoreGood DEF RemoteEnd
<1>4. QED
  BY <1>2, <1>3

-----------------------------------------------------------------------------
(* The user.                                                                *)

LEMMA NewEngineTyped ==
  ASSUME engines \in Nat, NEW caller \in BOOLEAN, NEW cands \in SUBSET Candidates
  PROVE  NewEngine(caller, cands) \in Engines /\ NewEngine(caller, cands).id = engines + 1
<1> DEFINE a == [NoEngine EXCEPT !.id = engines + 1]
           b == [a EXCEPT !.caller = caller]
<1>1. NoEngine \in Engines
  BY DEF NoEngine, Engines
<1>2. a \in Engines /\ a.id = engines + 1
  BY <1>1 DEF Engines
<1>3. NewEngine(caller, cands) = [b EXCEPT !.cands = cands]
  BY DEF NewEngine
<1> HIDE DEF a
<1>4. b \in Engines /\ b.id = engines + 1
  BY <1>2 DEF Engines
<1> HIDE DEF b
<1>5. QED
  BY <1>3, <1>4 DEF Engines

LEMMA StartCallGood ==
  ASSUME IInv, NEW d \in Devices, NEW u \in Users, StartCall(d, u)
  PROVE  IInv'
<1> DEFINE q == [dev[d] EXCEPT !.phase = "Outgoing", !.peer = u, !.caller = TRUE,
                               !.gen = @ + 1, !.engine = NewEngine(TRUE, {}),
                               !.up = FALSE, !.timer = TRUE]
<1>1. /\ Good(dev[d]) /\ dev[d].phase = "Idle" /\ engines \in Nat
      /\ dev = [e \in Devices |-> dev[e]]
  BY DEF IInv, StoresGood, RestTyped, StartCall
<1>2. NewEngine(TRUE, {}) \in Engines /\ NewEngine(TRUE, {}).id = engines + 1
  BY <1>1, NewEngineTyped
<1>3. dev[d].message = 0
  BY <1>1 DEF Good, Coherent, InCall, NoEngine, Stores
<1>4. Good(q) /\ q.gen = dev[d].gen + 1 /\ q.engine.id = engines + 1
  <2>1. dev[d] \in Stores /\ dev[d].gen + 1 \in Nat
    BY <1>1 DEF Good, Stores
  <2>2. q \in Stores
    BY <1>2, <2>1 DEF Stores, InCall
  <2>3. /\ q.phase = "Outgoing" /\ q.peer = u /\ q.up = FALSE /\ q.timer = TRUE
        /\ q.engine = NewEngine(TRUE, {}) /\ q.gen = dev[d].gen + 1
        /\ q.message = 0
    BY <1>3, <2>1 DEF Stores
  <2>4. QED
    <3> HIDE DEF q
    <3>1. q.engine.id = engines + 1
      BY <1>2, <2>3
    <3>2. q.peer # NoPeer
      BY <2>3, NobodyIsNoUser
    <3>3. q.engine.id # 0
      BY <1>1, <3>1
    <3>4. QED
      BY <2>2, <2>3, <3>1, <3>2, <3>3 DEF Good, Coherent, InCall, Unanswered
<1>5. dev' = [dev EXCEPT ![d] = q]
  BY DEF StartCall
<1> HIDE DEF q
<1>6. dev' = [e \in Devices |-> IF e = d THEN q ELSE dev[e]]
  BY <1>1, <1>5
<1>7. StoresGood'
  BY <1>4, <1>6 DEF IInv, StoresGood
<1>8. ASSUME NEW l \in logs' PROVE Fits(l)'
  <2> DEFINE n == [dev |-> d, gen |-> dev[d].gen + 1, call |-> engines + 1]
  <2>1. dev[d].gen \in Nat
    BY <1>1 DEF Good, Stores
  <2>2. CASE l \in logs
    <3>1. Fits(l) /\ l.dev \in Devices /\ l.gen \in Nat
      BY <2>2 DEF IInv, Fits, LogRequests
    <3>2. QED
      BY <1>4, <1>6, <2>1, <3>1 DEF Fits
  <2>3. CASE l = n
    BY <1>1, <1>4, <1>6, <2>1, <2>3 DEF Fits, LogRequests
  <2>4. QED
    BY <2>2, <2>3, <1>8 DEF StartCall
<1>9. RestTyped'
  BY DEF StartCall, IInv, RestTyped
<1>10. QED
  BY <1>7, <1>8, <1>9 DEF IInv

LEMMA LogAnsweredGood ==
  ASSUME IInv, NEW l \in logs, LogAnswered(l)
  PROVE  IInv'
<1>1. Fits(l) /\ l.dev \in Devices /\ l.call \in Nat
  BY DEF IInv, Fits, LogRequests
<1>2. RestTyped'
  BY DEF LogAnswered, IInv, RestTyped
<1>3. CASE dev[l.dev].gen = l.gen
  <2> DEFINE q == [dev[l.dev] EXCEPT !.message = l.call]
  <2>1. Good(dev[l.dev])
    BY <1>1 DEF IInv, StoresGood
  <2>2. Good(q) /\ Onward(dev[l.dev], q)
    BY <1>1, <1>3, <2>1 DEF Fits, Good, Stores, Coherent, Onward
  <2>3. dev' = [dev EXCEPT ![l.dev] = q]
    BY <1>3 DEF LogAnswered
  <2> HIDE DEF q
  <2>4. logs' \subseteq logs
    BY DEF LogAnswered
  <2>5. StoresGood' /\ \A k \in logs' : Fits(k)'
    BY <1>1, <2>2, <2>3, <2>4, OneStore DEF IInv
  <2>6. QED
    BY <1>2, <2>5 DEF IInv
<1>4. CASE dev[l.dev].gen # l.gen
  <2>1. dev' = dev /\ logs' \subseteq logs
    BY <1>4 DEF LogAnswered
  <2>2. QED
    BY <1>2, <2>1 DEF IInv, StoresGood, Fits
<1>5. QED
  BY <1>3, <1>4

LEMMA AcceptGood ==
  ASSUME IInv, NEW d \in Devices, Accept(d)
  PROVE  IInv'
<1> DEFINE en == [NewEngine(FALSE, dev[d].remoteIce) EXCEPT
                    !.remote = dev[d].offer, !.answers = 1]
           q == [dev[d] EXCEPT !.phase = "Connecting", !.offer = 0,
                               !.remoteIce = {}, !.engine = en, !.timer = TRUE]
<1>1. /\ Good(dev[d]) /\ dev[d].phase = "Incoming" /\ engines \in Nat
      /\ dev = [e \in Devices |-> dev[e]]
  BY DEF IInv, StoresGood, RestTyped, Accept
<1>2. en \in Engines /\ en.id = engines + 1
  <2> DEFINE n == NewEngine(FALSE, dev[d].remoteIce)
  <2>1. n \in Engines /\ n.id = engines + 1 /\ dev[d].offer \in Nat
    BY <1>1, NewEngineTyped DEF Good, Stores
  <2> HIDE DEF n
  <2>2. [n EXCEPT !.remote = dev[d].offer, !.answers = 1] \in Engines
    BY <2>1 DEF Engines
  <2>3. [n EXCEPT !.remote = dev[d].offer, !.answers = 1].id = n.id
    BY <2>1 DEF Engines
  <2>4. QED
    BY <2>1, <2>2, <2>3 DEF n
<1>3. dev[d].message = 0 /\ dev[d].engine.id = 0
  BY <1>1 DEF Good, Coherent, InCall, NoEngine, Stores
<1>4. dev' = [dev EXCEPT ![d] = q]
  BY DEF Accept
<1> HIDE DEF en
<1>5. Good(q) /\ q.gen = dev[d].gen
  <2>1. dev[d] \in Stores
    BY <1>1 DEF Good
  <2>2. q \in Stores
    BY <1>2, <2>1 DEF Stores, InCall
  <2>3. /\ q.phase = "Connecting" /\ q.peer = dev[d].peer /\ q.up = dev[d].up
        /\ q.timer = TRUE /\ q.engine = en /\ q.gen = dev[d].gen /\ q.message = 0
    BY <1>3, <2>1 DEF Stores
  <2>4. QED
    BY <1>1, <1>2, <2>2, <2>3 DEF Good, Coherent, InCall, Unanswered
<1> HIDE DEF q
<1>6. dev' = [e \in Devices |-> IF e = d THEN q ELSE dev[e]]
  BY <1>1, <1>4
<1>7. StoresGood'
  BY <1>5, <1>6 DEF IInv, StoresGood
<1>8. ASSUME NEW l \in logs' PROVE Fits(l)'
  <2>1. Fits(l) /\ l.dev \in Devices /\ l.gen \in Nat /\ l.call # 0
    BY <1>8 DEF Accept, IInv, Fits, LogRequests
  <2>2. l.dev = d => l.gen # dev[d].gen
    BY <2>1, <1>3 DEF Fits
  <2>3. QED
    BY <1>5, <1>6, <2>1, <2>2 DEF Fits
<1>9. RestTyped'
  BY DEF Accept, IInv, RestTyped
<1>10. QED
  BY <1>7, <1>8, <1>9 DEF IInv

LEMMA UserGood ==
  ASSUME IInv, NEW d \in Devices, Accept(d) \/ AcceptWithoutAccount(d) \/ Hangup(d)
  PROVE  IInv'
<1>1. CASE AcceptWithoutAccount(d)
  <2> DEFINE q == [dev[d] EXCEPT !.offer = 0]
  <2>1. Good(q) /\ Onward(dev[d], q)
    BY DEF IInv, StoresGood, Good, Stores, Coherent, Onward
  <2>2. StepStore(d, q, {})
    BY <1>1 DEF AcceptWithoutAccount, StepStore
  <2> HIDE DEF q
  <2>3. QED
    BY <2>1, <2>2, StepStoreGood
<1>2. CASE Hangup(d)
  BY <1>2, EndCallGood DEF Hangup
<1>3. QED
  BY <1>1, <1>2, AcceptGood

-----------------------------------------------------------------------------
(* The engine and the timers.                                               *)

LEMMA LocalGood ==
  ASSUME IInv, NEW d \in Devices, LocalOffer(d) \/ LocalAnswer(d) \/ LocalIce(d)
  PROVE  IInv'
<1>1. Good(dev[d]) /\ StoresGood
  BY DEF IInv, StoresGood
<1>2. /\ dev[d] \in Stores /\ dev[d].engine \in Engines /\ dev[d].engine.id \in Nat
      /\ dev[d].engine.gathered + 1 \in Nat /\ Coherent(dev[d])
  BY <1>1 DEF Good, Stores, Engines
<1>3. CASE LocalOffer(d)
  <2> DEFINE q == [dev[d] EXCEPT !.engine.offered = TRUE, !.sid = dev[d].engine.id]
  <2>1. dev[d].engine.id # 0
    BY <1>2, <1>3 DEF LocalOffer, Coherent, NoEngine
  <2>2. Good(q) /\ Onward(dev[d], q)
    BY <1>1, <1>2, <2>1 DEF Good, Stores, Engines, Coherent, Onward
  <2>3. \A m \in ToPeer(d, "OFFER", dev[d].engine.id, 0) : m \in Signals
    BY <1>1, <1>2, ToPeerTyped DEF SignalTypes
  <2>4. StepStore(d, q, ToPeer(d, "OFFER", dev[d].engine.id, 0))
    BY <1>3 DEF LocalOffer
  <2> HIDE DEF q
  <2>5. QED
    BY <2>2, <2>3, <2>4, StepStoreGood
<1>4. CASE LocalAnswer(d)
  <2> DEFINE q == [dev[d] EXCEPT !.engine.answers = @ - 1]
  <2>1. dev[d].engine.id # 0
    BY <1>2, <1>4 DEF LocalAnswer, Coherent, NoEngine
  <2>2. dev[d].engine.answers - 1 \in Nat
    BY <1>2, <1>4 DEF LocalAnswer, Engines
  <2>3. Good(q) /\ Onward(dev[d], q)
    BY <1>1, <1>2, <2>1, <2>2 DEF Good, Stores, Engines, Coherent, Onward
  <2>4. \A m \in ToPeer(d, "ANSWER", dev[d].engine.id, 0) : m \in Signals
    BY <1>1, <1>2, ToPeerTyped DEF SignalTypes
  <2>5. StepStore(d, q, ToPeer(d, "ANSWER", dev[d].engine.id, 0))
    BY <1>4 DEF LocalAnswer
  <2> HIDE DEF q
  <2>6. QED
    BY <2>3, <2>4, <2>5, StepStoreGood
<1>5. CASE LocalIce(d)
  <2> DEFINE c == dev[d].engine.gathered + 1
             g == [dev[d] EXCEPT !.engine.gathered = @ + 1]
             q == [g EXCEPT !.localIce = @ \cup {c}]
  <2>1. dev[d].engine.id # 0
    BY <1>2, <1>5 DEF LocalIce, Coherent, NoEngine
  <2>2. Good(g) /\ Onward(dev[d], g)
    BY <1>1, <1>2, <2>1 DEF Good, Stores, Engines, Coherent, Onward
  <2>3. Good(q) /\ Onward(dev[d], q)
    BY <1>1, <1>2, <2>1 DEF Good, Stores, Engines, Coherent, Onward
  <2>4. \A m \in ToPeer(d, "ICE", dev[d].engine.id, c) : m \in Signals
    BY <1>1, <1>2, ToPeerTyped DEF SignalTypes
  <2>5. \/ StepStore(d, g, ToPeer(d, "ICE", dev[d].engine.id, c))
        \/ StepStore(d, q, {}) \/ StepStore(d, g, {})
    BY <1>5 DEF LocalIce
  <2> HIDE DEF q, g, c
  <2>6. QED
    BY <2>2, <2>3, <2>4, <2>5, StepStoreGood
<1>6. QED
  BY <1>3, <1>4, <1>5

LEMMA IceConnectsGood ==
  ASSUME IInv, NEW d \in Devices, NEW e \in Devices, IceConnects(d, e)
  PROVE  IInv'
<1> DEFINE Up(x) == [dev[x] EXCEPT !.engine.ice = "up"]
<1>1. dev = [x \in Devices |-> dev[x]] /\ \A x \in Devices : Good(dev[x])
  BY DEF IInv, StoresGood
<1>2. HasEngine(d) /\ HasEngine(e)
  BY DEF IceConnects, Paired
<1>3. ASSUME NEW x \in Devices, HasEngine(x)
      PROVE  /\ Good(Up(x)) /\ Up(x).gen = dev[x].gen
             /\ Up(x).engine.id = dev[x].engine.id
  <2>1. /\ dev[x] \in Stores /\ dev[x].engine \in Engines /\ Good(dev[x])
        /\ dev[x].engine.id # 0
    BY <1>1, <1>3 DEF HasEngine, Good, Stores
  <2> DEFINE en == [dev[x].engine EXCEPT !.ice = "up"]
  <2>2. en \in Engines /\ en.id = dev[x].engine.id
    BY <2>1 DEF Engines
  <2>3. Up(x) = [dev[x] EXCEPT !.engine = en]
    BY <2>1 DEF Stores
  <2> HIDE DEF en, Up
  <2>4. Up(x) \in Stores
    BY <2>1, <2>2, <2>3 DEF Stores
  <2>5. QED
    BY <2>1, <2>2, <2>3, <2>4 DEF Good, Coherent, Stores
<1>4. dev' = [x \in Devices |-> IF x = d \/ x = e THEN Up(x) ELSE dev[x]]
  BY <1>1 DEF IceConnects
<1> HIDE DEF Up
<1>5. StoresGood'
  BY <1>1, <1>2, <1>3, <1>4 DEF StoresGood
<1>6. ASSUME NEW l \in logs' PROVE Fits(l)'
  <2>1. Fits(l) /\ l.dev \in Devices
    BY <1>6 DEF IceConnects, IInv, Fits, LogRequests
  <2>2. QED
    BY <1>2, <1>3, <1>4, <2>1 DEF Fits
<1>7. RestTyped'
  BY DEF IceConnects, IInv, RestTyped
<1>8. QED
  BY <1>5, <1>6, <1>7 DEF IInv

LEMMA ConnectedGood ==
  ASSUME IInv, NEW d \in Devices, Connected(d)
  PROVE  IInv'
<1> DEFINE q == [dev[d] EXCEPT !.phase = "Connected", !.up = TRUE, !.timer = FALSE,
                               !.grace = FALSE]
           out == ToPeer(d, "INIT", 0, 0)
                  \cup (IF dev[d].caller THEN ToPeer(d, "CANCEL", dev[d].sid, 0) ELSE {})
<1>1. Good(dev[d]) /\ StoresGood /\ dev[d].sid \in Nat
  BY DEF IInv, StoresGood, Good, Stores
<1>2. dev[d].engine.id # 0
  BY <1>1 DEF Connected, Good, Coherent, NoEngine
<1>3. Good(q) /\ Onward(dev[d], q)
  BY <1>1, <1>2 DEF Good, Stores, Coherent, Onward, InCall, Unanswered
<1>4. \A m \in out : m \in Signals
  BY <1>1, ToPeerTyped DEF SignalTypes
<1>5. StepStore(d, q, out)
  BY DEF Connected
<1> HIDE DEF q, out
<1>6. QED
  BY <1>3, <1>4, <1>5, StepStoreGood

LEMMA DisconnectedGood ==
  ASSUME IInv, NEW d \in Devices, Disconnected(d)
  PROVE  IInv'
<1> DEFINE q == [dev[d] EXCEPT !.grace = TRUE]
<1>1. Good(q) /\ Onward(dev[d], q)
  <2>1. Good(dev[d]) /\ dev[d] \in Stores
    BY DEF IInv, StoresGood, Good
  <2>2. dev[d].engine.id # 0
    BY <2>1 DEF Disconnected, Good, Coherent, NoEngine
  <2>3. QED
    BY <2>1, <2>2 DEF Good, Stores, Coherent, Onward, InCall
<1>2. StepStore(d, q, {})
  BY DEF Disconnected
<1> HIDE DEF q
<1>3. QED
  BY <1>1, <1>2, StepStoreGood

\* An end for which the store itself has no guard finds a call to end.
LEMMA EndGood ==
  ASSUME IInv, NEW d \in Devices, EngineFails(d) \/ NoAnswer(d) \/ GraceOver(d)
  PROVE  IInv'
<1>1. dev[d].phase # "Idle"
  BY DEF EngineFails, NoAnswer, GraceOver, HasEngine, Unanswered, IInv, StoresGood,
     Good, Coherent, InCall
<1>2. QED
  BY <1>1, EndCallGood DEF EngineFails, NoAnswer, GraceOver

-----------------------------------------------------------------------------
(* Signals received.                                                        *)

MessageFrame == UNCHANGED <<logs, calls, engines, lost, reoffers>>

LEMMA Received ==
  ASSUME IInv, NEW m \in net
  PROVE  /\ m \in Signals /\ m.to \in Devices /\ m.from \in Devices
         /\ m.session \in Nat /\ m.ice \in Nat
         /\ UserOf[m.from] \in Users /\ Good(dev[m.to]) /\ StoresGood
BY DEF IInv, RestTyped, StoresGood, Signals, Users

\* Signals that end the call or do nothing.
LEMMA DismissalsGood ==
  ASSUME IInv, NEW m \in net, MessageFrame,
         OnInit(m) \/ OnCancel(m) \/ OnLog(m) \/ OnQuit(m) \/ OnTimeout(m) \/ OnJoined(m)
  PROVE  IInv'
<1>1. rung' \in [Devices -> SUBSET Nat]
  BY DEF OnInit, OnCancel, OnLog, OnQuit, OnTimeout, OnJoined, IInv, RestTyped
<1>2. CASE Ignore(m)
  BY <1>1, <1>2, IgnoreGood DEF MessageFrame
<1>3. CASE Handled(m, Reset(dev[m.to]), {})
  BY <1>1, <1>3, DismissGood DEF MessageFrame
<1>4. ASSUME NEW reason, RemoteEnd(m, reason) PROVE IInv'
  BY <1>1, <1>4, RemoteEndGood DEF MessageFrame
<1>5. QED
  BY <1>2, <1>3, <1>4 DEF OnInit, OnCancel, OnLog, OnQuit, OnTimeout, OnJoined

LEMMA OnOfferGood ==
  ASSUME IInv, NEW m \in net, MessageFrame, OnOffer(m)
  PROVE  IInv'
<1> DEFINE u == UserOf[m.from]
           r == dev[m.to]
           k == Remember(r, u, m.session)
           q == [k EXCEPT !.gen = @ + 1, !.peer = u, !.caller = FALSE,
                          !.offer = m.session, !.up = FALSE, !.phase = "Incoming",
                          !.timer = TRUE]
           out == SignalTo(m.to, DevicesOf(u), u, "JOINED", 0, 0)
<1>1. /\ m.to \in Devices /\ m.session \in Nat /\ u \in Users /\ Good(r)
      /\ StoresGood /\ rung \in [Devices -> SUBSET Nat]
  BY Received DEF IInv, RestTyped
<1>2. CASE Ignore(m) /\ UNCHANGED rung
  BY <1>1, <1>2, IgnoreGood DEF MessageFrame
<1>3. CASE Handled(m, r, out) /\ UNCHANGED rung
  <2>1. DevicesOf(u) \in SUBSET Devices /\ r.gen \in Nat
    BY <1>1 DEF DevicesOf, Good, Stores
  <2>2. \A n \in out : n \in Signals
    BY <1>1, <2>1, SignalTyped DEF SignalTypes
  <2>3. Onward(r, r)
    BY DEF Onward
  <2> HIDE DEF out
  <2>4. QED
    BY <1>1, <1>3, <2>2, <2>3, HandledGood DEF MessageFrame
<1>4. CASE /\ r.phase = "Idle" /\ Handled(m, q, {})
           /\ rung' = [rung EXCEPT ![m.to] = @ \cup {m.session}]
  <2>1. Good(k) /\ Kept(r, k)
    BY <1>1, RememberGood
  <2>2. /\ k \in Stores /\ k.gen = r.gen /\ k.phase = "Idle" /\ k.gen + 1 \in Nat
        /\ k.message = r.message /\ k.engine = r.engine
    BY <1>1, <1>4, <2>1 DEF Good, Stores, Kept
  <2>3. r.engine.id = 0 /\ r.engine = NoEngine /\ r.message = 0
    BY <1>1, <1>4 DEF Good, Coherent, InCall, NoEngine
  <2> HIDE DEF k
  <2>4. q \in Stores
    BY <1>1, <2>2 DEF Stores
  <2>5. /\ q.phase = "Incoming" /\ q.peer = u /\ q.up = FALSE /\ q.timer = TRUE
        /\ q.engine = NoEngine /\ q.message = 0 /\ q.gen = r.gen + 1
    BY <2>2, <2>3 DEF Stores
  <2>6. u # NoPeer
    BY <1>1, NobodyIsNoUser
  <2> HIDE DEF q
  <2>7. Good(q) /\ Onward(r, q)
    BY <2>3, <2>4, <2>5, <2>6 DEF Good, Coherent, InCall, Unanswered, Onward
  <2>8. rung' \in [Devices -> SUBSET Nat]
    BY <1>1, <1>4
  <2>9. QED
    BY <1>4, <2>7, <2>8, HandledGood DEF MessageFrame
<1>5. QED
  BY <1>2, <1>3, <1>4 DEF OnOffer

\* The engine keeps its number whatever description it is given.
LEMMA ApplyTyped ==
  ASSUME NEW e \in Engines, NEW s \in Nat
  PROVE  /\ ApplyAnswer(e, s) \in Engines /\ ApplyAnswer(e, s).id = e.id
         /\ \A f \in ApplyOffer(e, s) : f \in Engines /\ f.id = e.id
<1> DEFINE a == [e EXCEPT !.remote = s, !.answers = @ + 1]
<1>1. a \in Engines /\ a.id = e.id
  <2> DEFINE b == [e EXCEPT !.remote = s]
  <2>1. b \in Engines /\ b.id = e.id /\ b.answers = e.answers
    BY DEF Engines
  <2>2. a = [b EXCEPT !.answers = e.answers + 1] /\ e.answers + 1 \in Nat
    BY DEF Engines
  <2> HIDE DEF a, b
  <2>3. QED
    BY <2>1, <2>2 DEF Engines
<1>2. [a EXCEPT !.gathered = 0] \in Engines /\ [a EXCEPT !.gathered = 0].id = e.id
  <2> HIDE DEF a
  <2>1. QED
    BY <1>1 DEF Engines
<1>3. \A f \in ApplyOffer(e, s) : f = e \/ f = a \/ f = [a EXCEPT !.gathered = 0]
  BY DEF ApplyOffer
<1>4. ApplyAnswer(e, s) \in Engines /\ ApplyAnswer(e, s).id = e.id
  BY DEF ApplyAnswer, Engines
<1>5. QED
  BY <1>1, <1>2, <1>3, <1>4

LEMMA OnReofferGood ==
  ASSUME IInv, NEW m \in net, MessageFrame, OnReoffer(m)
  PROVE  IInv'
<1> DEFINE r == Remember(dev[m.to], UserOf[m.from], m.session)
<1>1. /\ m.to \in Devices /\ m.session \in Nat /\ UserOf[m.from] \in Users
      /\ Good(dev[m.to]) /\ rung' \in [Devices -> SUBSET Nat]
  BY Received DEF IInv, RestTyped, OnReoffer
<1>2. Good(r) /\ r.gen = dev[m.to].gen /\ r.engine = dev[m.to].engine
  <2>1. Good(r) /\ Kept(dev[m.to], r)
    BY <1>1, RememberGood
  <2>2. QED
    BY <2>1 DEF Kept
<1>3. \/ Handled(m, r, {})
      \/ /\ HasEngine(m.to)
         /\ \E e \in ApplyOffer(r.engine, m.session) :
               Handled(m, [r EXCEPT !.engine = e], {})
  BY DEF OnReoffer
<1> HIDE DEF r
<1>4. CASE Handled(m, r, {})
  BY <1>1, <1>2, <1>4, HandledGood DEF Onward, MessageFrame
<1>5. ASSUME HasEngine(m.to), NEW e \in ApplyOffer(r.engine, m.session),
             Handled(m, [r EXCEPT !.engine = e], {})
      PROVE  IInv'
  <2> DEFINE q == [r EXCEPT !.engine = e]
  <2>1. e \in Engines /\ e.id = r.engine.id /\ e.id # 0
    <3>1. r.engine \in Engines /\ r.engine.id # 0
      BY <1>2, <1>5 DEF HasEngine, Good, Stores
    <3>2. QED
      BY <1>1, <1>5, <3>1, ApplyTyped
  <2>2. Good(q) /\ Onward(dev[m.to], q)
    BY <1>2, <2>1 DEF Good, Stores, Coherent, Onward
  <2>3. QED
    BY <1>1, <1>5, <2>2, HandledGood DEF MessageFrame
<1>6. QED
  BY <1>3, <1>4, <1>5

LEMMA OnAnswerGood ==
  ASSUME IInv, NEW m \in net, MessageFrame, OnAnswer(m)
  PROVE  IInv'
<1> DEFINE r == Remember(dev[m.to], UserOf[m.from], m.session)
           q == [r EXCEPT !.engine = ApplyAnswer(@, m.session),
                          !.phase = "Connecting", !.localIce = {}, !.timer = TRUE]
           out == UNION {ToPeer(m.to, "ICE", r.engine.id, c) : c \in r.localIce}
<1>1. /\ m.to \in Devices /\ m.session \in Nat /\ UserOf[m.from] \in Users
      /\ Good(dev[m.to]) /\ StoresGood /\ rung' \in [Devices -> SUBSET Nat]
  BY Received DEF IInv, RestTyped, OnAnswer
<1>2. Good(r) /\ r.gen = dev[m.to].gen /\ r.engine = dev[m.to].engine
  <2>1. Good(r) /\ Kept(dev[m.to], r)
    BY <1>1, RememberGood
  <2>2. QED
    BY <2>1 DEF Kept
<1>3. \/ r.phase \in {"Outgoing", "Connecting"} /\ Handled(m, q, out)
      \/ Handled(m, r, {})
  BY DEF OnAnswer, Handled
<1> HIDE DEF r
<1>4. CASE Handled(m, r, {})
  BY <1>1, <1>2, <1>4, HandledGood DEF Onward, MessageFrame
<1>5. CASE r.phase \in {"Outgoing", "Connecting"} /\ Handled(m, q, out)
  <2> DEFINE e == ApplyAnswer(r.engine, m.session)
  <2>1. r \in Stores /\ r.engine \in Engines /\ r.engine.id \in Nat /\ r.engine.id # 0
    BY <1>2, <1>5 DEF Good, Stores, Coherent, Engines, InCall
  <2>2. e \in Engines /\ e.id = r.engine.id
    BY <1>1, <2>1, ApplyTyped
  <2>3. q = [r EXCEPT !.engine = e, !.phase = "Connecting", !.localIce = {},
                      !.timer = TRUE]
    BY DEF e
  <2> HIDE DEF e, q
  <2>4. q \in Stores
    BY <2>1, <2>2, <2>3 DEF Stores, InCall
  <2>5. /\ q.phase = "Connecting" /\ q.engine = e /\ q.timer = TRUE
        /\ q.up = r.up /\ q.peer = r.peer /\ q.message = r.message /\ q.gen = r.gen
    BY <2>1, <2>3 DEF Stores
  <2>6. Good(q) /\ Onward(dev[m.to], q)
    BY <1>2, <1>5, <2>1, <2>2, <2>4, <2>5 DEF Good, Coherent, InCall, Onward
  <2>7. \A n \in out : n \in Signals
    <3>1. r.localIce \subseteq Nat
      BY <2>1 DEF Stores
    <3>2. \A c \in r.localIce : \A n \in ToPeer(m.to, "ICE", r.engine.id, c) : n \in Signals
      BY <1>1, <2>1, <3>1, ToPeerTyped DEF SignalTypes
    <3>3. QED
      BY <3>2
  <2> HIDE DEF out
  <2>8. QED
    BY <1>1, <1>5, <2>6, <2>7, HandledGood DEF MessageFrame
<1>6. QED
  BY <1>3, <1>4, <1>5

LEMMA OnIceGood ==
  ASSUME IInv, NEW m \in net, MessageFrame, OnIce(m)
  PROVE  IInv'
<1> DEFINE r == dev[m.to]
           c == <<m.session, m.ice>>
           q == [r EXCEPT !.engine.cands = @ \cup {c}]
           p == [r EXCEPT !.remoteIce = @ \cup {c}]
<1>1. /\ m.to \in Devices /\ c \in Candidates /\ Good(r)
      /\ rung' \in [Devices -> SUBSET Nat]
  BY Received DEF IInv, RestTyped, OnIce, Candidates
<1>2. \/ Ignore(m)
      \/ HasEngine(m.to) /\ Handled(m, q, {})
      \/ Handled(m, p, {})
  BY DEF OnIce
<1>3. CASE Ignore(m)
  BY <1>1, <1>3, IgnoreGood DEF MessageFrame
<1>4. CASE HasEngine(m.to) /\ Handled(m, q, {})
  <2> DEFINE e == [r.engine EXCEPT !.cands = @ \cup {c}]
  <2>1. r \in Stores /\ r.engine \in Engines /\ r.engine.id # 0
    BY <1>1, <1>4 DEF Good, Stores, HasEngine
  <2>2. q = [r EXCEPT !.engine = e]
    BY <2>1 DEF Stores
  <2> HIDE DEF c
  <2>3. e \in Engines /\ e.id = r.engine.id
    BY <1>1, <2>1 DEF Engines
  <2> HIDE DEF e, q
  <2>4. q \in Stores
    BY <2>1, <2>2, <2>3 DEF Stores
  <2>5. Good(q) /\ Onward(r, q)
    BY <1>1, <2>1, <2>2, <2>3, <2>4 DEF Good, Coherent, Onward, Stores
  <2>6. QED
    BY <1>1, <1>4, <2>5, HandledGood DEF MessageFrame
<1>5. CASE Handled(m, p, {})
  <2> HIDE DEF c
  <2>1. Good(p) /\ Onward(r, p)
    BY <1>1 DEF Good, Stores, Coherent, Onward
  <2> HIDE DEF p
  <2>2. QED
    BY <1>1, <1>5, <2>1, HandledGood DEF MessageFrame
<1>6. QED
  BY <1>2, <1>3, <1>4, <1>5

LEMMA DeliverGood ==
  ASSUME IInv, NEW m \in net, Deliver(m)
  PROVE  IInv'
<1>1. MessageFrame
  BY DEF Deliver, MessageFrame
<1>2. QED
  BY <1>1, DismissalsGood, OnOfferGood, OnReofferGood, OnAnswerGood, OnIceGood
     DEF Deliver

-----------------------------------------------------------------------------
(* The surroundings, and every step.                                        *)

LEMMA SurroundingsGood ==
  ASSUME IInv, (\E m \in net : Lose(m)) \/ (\E d \in Devices : Reoffer(d))
  PROVE  IInv'
<1>1. dev' = dev /\ logs' = logs
  BY DEF Lose, Reoffer
<1>2. StoresGood' /\ \A l \in logs' : Fits(l)'
  BY <1>1 DEF IInv, StoresGood, Fits
<1>3. RestTyped'
  <2>1. CASE \E m \in net : Lose(m)
    BY <2>1 DEF Lose, IInv, RestTyped
  <2>2. ASSUME NEW d \in Devices, Reoffer(d) PROVE RestTyped'
    <3>1. StoresGood /\ dev[d].engine.id \in Nat
      BY DEF IInv, StoresGood, Good, Stores, Engines
    <3>2. \A m \in ToPeer(d, "OFFER", dev[d].engine.id, 0) : m \in Signals
      BY <3>1, ToPeerTyped DEF SignalTypes
    <3>3. QED
      BY <2>2, <3>2 DEF Reoffer, IInv, RestTyped
  <2>3. QED
    BY <2>1, <2>2
<1>4. QED
  BY <1>2, <1>3 DEF IInv

LEMMA InitGood == Init => IInv
<1> SUFFICES ASSUME Init PROVE IInv
  OBVIOUS
<1>1. dev = [d \in Devices |-> IdleStore]
  BY DEF Init
<1>2. StoresGood
  BY <1>1, IdleGood DEF StoresGood
<1>3. RestTyped /\ logs = {}
  BY DEF Init, RestTyped
<1>4. QED
  BY <1>2, <1>3 DEF IInv

LEMMA StepGood == IInv /\ [Next]_vars => IInv'
<1> SUFFICES ASSUME IInv, [Next]_vars PROVE IInv'
  OBVIOUS
<1>1. CASE UNCHANGED vars
  BY <1>1 DEF vars, IInv, StoresGood, RestTyped, Fits
<1>2. ASSUME NEW d \in Devices, NEW u \in Users, StartCall(d, u) PROVE IInv'
  BY <1>2, StartCallGood
<1>3. ASSUME NEW l \in logs, LogAnswered(l) PROVE IInv'
  BY <1>3, LogAnsweredGood
<1>4. ASSUME NEW d \in Devices,
             \/ Accept(d) \/ AcceptWithoutAccount(d) \/ Hangup(d)
             \/ LocalOffer(d) \/ LocalAnswer(d) \/ LocalIce(d)
             \/ Connected(d) \/ Disconnected(d) \/ EngineFails(d)
             \/ NoAnswer(d) \/ GraceOver(d) \/ Reoffer(d)
      PROVE  IInv'
  BY <1>4, UserGood, LocalGood, ConnectedGood, DisconnectedGood, EndGood,
     SurroundingsGood
<1>5. ASSUME NEW d \in Devices, NEW e \in Devices, IceConnects(d, e) PROVE IInv'
  BY <1>5, IceConnectsGood
<1>6. ASSUME NEW m \in net, Deliver(m) \/ Lose(m) PROVE IInv'
  BY <1>6, DeliverGood, SurroundingsGood
<1>7. QED
  BY <1>1, <1>2, <1>3, <1>4, <1>5, <1>6 DEF Next

LEMMA Invariance == Spec => []IInv
BY InitGood, StepGood, PTL DEF Spec

-----------------------------------------------------------------------------
(* The theorems.                                                            *)

\* Every store, signal and log request keeps its type, and a store has an
\* engine exactly from the dial or the accept to `reset_state`.
THEOREM TypeCorrect == Spec => []TypeOK
<1>1. IInv => TypeOK
  BY DEF IInv, StoresGood, RestTyped, Good, Fits, TypeOK
<1>2. QED
  BY <1>1, Invariance, PTL

\* No order of signals, engine events and timers leaves a call that is not up
\* without its no-answer timer.
THEOREM TimerAlwaysArmed == Spec => []TimerArmed
<1>1. IInv => TimerArmed
  BY DEF IInv, StoresGood, Good, TimerArmed
<1>2. QED
  BY <1>1, Invariance, PTL

\* However late the server answers a start log, the log that a call overwrites
\* when it ends is its own.
THEOREM LogAlwaysOfThisCall == Spec => []LogOfThisCall
<1>1. IInv => LogOfThisCall
  BY DEF IInv, StoresGood, Good, LogOfThisCall
<1>2. QED
  BY <1>1, Invariance, PTL

-----------------------------------------------------------------------------
(* No candidate is lost, and nobody talks to a call that is over.  Both     *)
(* rest on what a signal on its way says of the call it was sent in, and on *)
(* no signal of an earlier call of the one device being able to reach the   *)
(* other once an engine refers to the other's.                              *)

\* Never more candidates than the caller's buffer holds.
IceFits == \A d \in Devices : IceOf[d] <= MaxPendingIce

\* Every user is logged in on one device.
OneDevice == \A d, e \in Devices : UserOf[d] = UserOf[e] => d = e

\* The signals that carry something of an engine.
Described == {"OFFER", "ANSWER", "ICE"}

\* An engine without a remote description is a caller's that waits for its
\* answer; an engine that is up has one.
Waiting(r) ==
    /\ r.offer # 0 => r.phase = "Incoming"
    /\ r.phase = "Outgoing" <=> r.engine.id # 0 /\ r.engine.remote = 0
    /\ r.phase = "Outgoing" => r.engine.caller
    /\ r.engine.ice = "up" => r.engine.remote # 0
    /\ r.phase = "Connected" => r.engine.ice = "up"

\* Until the answer comes all candidates of the engine are kept.
Held(r) ==
    /\ r.phase = "Idle" => r.localIce = {}
    /\ r.phase = "Outgoing" => r.localIce = 1 .. r.engine.gathered

\* An engine's number is its own.
Numbered ==
    /\ \A d \in Devices : /\ dev[d].engine.id <= engines
                          /\ dev[d].engine.remote <= engines
                          /\ dev[d].offer <= engines
    /\ \A d, e \in Devices :
          HasEngine(d) /\ dev[d].engine.id = dev[e].engine.id => d = e

\* What the signal m of a device with the store r says of the call that is on:
\* a farewell was sent in an earlier one, a busy signal not to the peer.
Says(m, r) ==
    /\ m.gen <= r.gen
    /\ m.type \in {"QUIT", "TIMEOUT"} => m.gen < r.gen
    /\ m.type = "JOINED" /\ m.gen = r.gen => r.peer # UserOf[m.to]

\* A description or a candidate is of the engine of the call it was sent in.
Names(m, r) ==
    /\ m.gen = r.gen <=> m.session = r.engine.id
    /\ m.gen = r.gen => r.peer = UserOf[m.to]

Truthful ==
    \A m \in net :
        /\ Says(m, dev[m.from])
        /\ m.type \in Described =>
              /\ m.session \in 1 .. engines /\ Names(m, dev[m.from])
              /\ \A e \in Devices : dev[e].engine.id = m.session => e = m.from

\* No signal of an earlier call of e is on its way to d any more.
Flushed(e, d) ==
    \A m \in net : m.from = e /\ m.to = d /\ m.type \notin OtherPaths
                   => m.gen >= dev[e].gen

\* Whoever rings for an engine or holds its description is who it calls.
Linked(d, e) ==
    HasEngine(e) /\ dev[e].engine.id \in {dev[d].engine.remote, dev[d].offer}
    => dev[d].peer = UserOf[e] /\ dev[e].peer = UserOf[d] /\ Flushed(e, d)

\* The candidates of an engine whose peer it knows.
Carried(d, e) ==
    HasEngine(e) /\ dev[d].engine.remote = dev[e].engine.id =>
    \A c \in 1 .. dev[d].engine.gathered :
        \/ <<dev[d].engine.id, c>> \in dev[e].engine.cands
        \/ \E m \in net : m.type = "ICE" /\ m.to = e /\ m.ice = c
                          /\ m.session = dev[d].engine.id

\* The other end of an engine that is up is there, and no signal on its way
\* ends it, or it has said good-bye.
Answering(d) ==
    dev[d].engine.ice = "up" =>
    \/ \E e \in Devices : /\ HasEngine(e) /\ dev[e].engine.id = dev[d].engine.remote
                          /\ Flushed(d, e)
    \/ \E m \in net : m.type = "QUIT" /\ m.to = d /\ FromPeer(m)

AllCarried == \A d, e \in Devices : Carried(d, e)
AllAnswering == \A d \in Devices : Answering(d)

\* Inductive together with IInv.
PInv ==
    /\ \A d \in Devices : Waiting(dev[d])
    /\ Numbered /\ Truthful
    /\ \A d, e \in Devices : Linked(d, e)
    /\ IceFits => (\A d \in Devices : Held(dev[d])) /\ (lost = 0 => AllCarried)
    /\ OneDevice => (lost = 0 => AllAnswering)

-----------------------------------------------------------------------------
(* A turn of one device: its store r becomes q, it has handled the signals  *)
(* of `gone` and sends those of `out`.                                      *)

Turn(d, q, out, gone) ==
    /\ dev' = [dev EXCEPT ![d] = q]
    /\ net' = (net \ gone) \cup out
    /\ gone \subseteq net

\* The call goes on, or it is over, or it is one without an engine that starts
\* one.
Same(r, q) == q.gen = r.gen /\ q.peer = r.peer /\ q.engine.id = r.engine.id
Over(r, q) == q.gen = r.gen + 1 /\ q.engine.id = 0
Starts(r, q) ==
    /\ r.engine.id = 0 /\ q.engine.id = engines + 1
    /\ q.gen = r.gen + 1 \/ (q.gen = r.gen /\ q.peer = r.peer)

Succeeds(r, q) ==
    \/ (Same(r, q) \/ Over(r, q)) /\ engines' = engines
    \/ Starts(r, q) /\ engines' = engines + 1

\* What d says is true of the call it is in afterwards.
Speaks(d, q, out) ==
    \A m \in out :
        /\ m.from = d /\ m.gen = dev[d].gen /\ Says(m, q)
        /\ m.type \in Described =>
              /\ m.session = q.engine.id /\ m.gen = q.gen /\ q.peer = UserOf[m.to]
              /\ q.engine.id # 0

\* The description s is one the device had, or one that it was sent just now.
Learns(d, q, s) ==
    \/ s \in {dev[d].engine.remote, dev[d].offer} /\ q.peer = dev[d].peer
    \/ \E m \in net : /\ Deliverable(m) /\ m.to = d /\ m.type \in {"OFFER", "ANSWER"}
                      /\ m.session = s /\ q.peer = UserOf[m.from]

Lawful(d, q, out) ==
    /\ Succeeds(dev[d], q)
    /\ Speaks(d, q, out)
    /\ q.engine.remote # 0 => Learns(d, q, q.engine.remote)
    /\ q.offer # 0 => Learns(d, q, q.offer)

LEMMA TurnStores ==
  ASSUME IInv, NEW d \in Devices, NEW q, NEW out, NEW gone, Turn(d, q, out, gone)
  PROVE  /\ dev'[d] = q
         /\ \A e \in Devices \ {d} : dev'[e] = dev[e]
BY DEF Turn, IInv, StoresGood

\* The fields of a store that are numbers.
LEMMA StoreNumbers ==
  ASSUME NEW r \in Stores
  PROVE  /\ r.gen \in Nat /\ r.engine.id \in Nat /\ r.engine.remote \in Nat
         /\ r.offer \in Nat /\ r.engine.gathered \in Nat
BY DEF Stores, Engines

LEMMA DevNumbers ==
  ASSUME IInv, NEW d \in Devices
  PROVE  /\ dev[d].gen \in Nat /\ dev[d].engine.id \in Nat
         /\ dev[d].engine.remote \in Nat /\ dev[d].offer \in Nat
         /\ dev[d].engine.gathered \in Nat /\ engines \in Nat
<1>1. dev[d] \in Stores /\ engines \in Nat
  BY DEF IInv, StoresGood, Good, RestTyped
<1>2. QED
  BY <1>1, StoreNumbers

LEMMA NetTyped ==
  ASSUME IInv, NEW m \in net
  PROVE  m.from \in Devices /\ m.to \in Devices /\ m.gen \in Nat /\ m.session \in Nat
         /\ m.ice \in Nat
BY DEF IInv, RestTyped, Signals

LEMMA TurnNumbered ==
  ASSUME IInv, PInv, NEW d \in Devices, NEW q \in Stores, NEW out, NEW gone,
         Turn(d, q, out, gone), Lawful(d, q, out)
  PROVE  Numbered'
<1>1. /\ dev'[d] = q
      /\ \A e \in Devices \ {d} : dev'[e] = dev[e]
  BY TurnStores
<1>2. \A e \in Devices : /\ dev[e].engine.id \in Nat /\ dev[e].engine.id <= engines
                         /\ dev[e].engine.remote \in Nat /\ dev[e].engine.remote <= engines
                         /\ dev[e].offer \in Nat /\ dev[e].offer <= engines
  BY DevNumbers DEF PInv, Numbered
<1>3. engines \in Nat /\ engines' \in Nat /\ engines <= engines'
  BY DEF Lawful, Succeeds, IInv, RestTyped
<1>4. q.engine.id \in Nat /\ q.engine.id <= engines'
  BY <1>2, <1>3, StoreNumbers DEF Lawful, Succeeds, Same, Over, Starts
<1>5. ASSUME NEW s \in Nat, s # 0 => Learns(d, q, s) PROVE s <= engines'
  <2>1. CASE s \in {dev[d].engine.remote, dev[d].offer}
    BY <1>2, <1>3, <2>1
  <2>2. ASSUME NEW m \in net, m.type \in {"OFFER", "ANSWER"}, m.session = s
        PROVE  s <= engines'
    BY <1>3, <2>2 DEF PInv, Truthful, Described
  <2>3. CASE s = 0
    BY <1>3, <2>3
  <2>4. QED
    BY <1>5, <2>1, <2>2, <2>3 DEF Learns
<1>6. q.engine.remote <= engines' /\ q.offer <= engines'
  BY <1>5, StoreNumbers DEF Lawful
<1>7. \A e \in Devices : /\ dev'[e].engine.id <= engines'
                         /\ dev'[e].engine.remote <= engines'
                         /\ dev'[e].offer <= engines'
  BY <1>1, <1>2, <1>3, <1>4, <1>6
<1>8. ASSUME NEW e \in Devices \ {d}
      PROVE  q.engine.id # 0 => q.engine.id # dev[e].engine.id
  <2>1. CASE q.engine.id = dev[d].engine.id
    BY <2>1 DEF PInv, Numbered, HasEngine
  <2>2. CASE q.engine.id = engines + 1
    BY <1>2, <1>3, <2>2
  <2>3. QED
    BY <2>1, <2>2 DEF Lawful, Succeeds, Same, Over, Starts
<1>9. ASSUME NEW a \in Devices, NEW b \in Devices, dev'[a].engine.id # 0,
             dev'[a].engine.id = dev'[b].engine.id
      PROVE  a = b
  BY <1>1, <1>8, <1>9 DEF PInv, Numbered, HasEngine
<1>10. QED
  BY <1>7, <1>9 DEF Numbered, HasEngine

LEMMA TurnTruthful ==
  ASSUME IInv, PInv, NEW d \in Devices, NEW q \in Stores, NEW out, NEW gone,
         Turn(d, q, out, gone), Lawful(d, q, out)
  PROVE  Truthful'
<1>1. /\ dev'[d] = q
      /\ \A e \in Devices \ {d} : dev'[e] = dev[e]
  BY TurnStores
<1>2. engines \in Nat /\ engines' \in Nat /\ engines <= engines'
  BY DEF Lawful, Succeeds, IInv, RestTyped
<1>3. Numbered'
  BY TurnNumbered
<1>4. ASSUME NEW m \in net
      PROVE  /\ Says(m, dev'[m.from])
             /\ m.type \in Described =>
                   /\ m.session \in 1 .. engines' /\ Names(m, dev'[m.from])
                   /\ \A e \in Devices : dev'[e].engine.id = m.session => e = m.from
  <2>1. /\ m.from \in Devices /\ m.gen \in Nat /\ m.session \in Nat
        /\ dev[d].gen \in Nat
    BY NetTyped, DevNumbers
  <2>2. /\ Says(m, dev[m.from])
        /\ m.type \in Described =>
              /\ m.session \in 1 .. engines /\ Names(m, dev[m.from])
              /\ \A e \in Devices : dev[e].engine.id = m.session => e = m.from
    BY DEF PInv, Truthful
  <2>3. Says(m, dev'[m.from])
    <3>1. CASE m.from # d
      BY <1>1, <2>1, <2>2, <3>1
    <3>2. CASE m.from = d
      <4>1. Says(m, dev[d])
        BY <2>2, <3>2
      <4>2. \/ q.gen = dev[d].gen /\ q.peer = dev[d].peer
            \/ q.gen = dev[d].gen + 1
        BY DEF Lawful, Succeeds, Same, Over, Starts
      <4>3. QED
        BY <1>1, <2>1, <3>2, <4>1, <4>2 DEF Says
    <3>3. QED
      BY <3>1, <3>2
  <2>4. ASSUME m.type \in Described
        PROVE  /\ m.session \in 1 .. engines' /\ Names(m, dev'[m.from])
               /\ \A e \in Devices : dev'[e].engine.id = m.session => e = m.from
    <3>1. m.session \in 1 .. engines' /\ m.session # 0 /\ m.session # engines + 1
      BY <1>2, <2>2, <2>4
    <3>2. CASE m.from # d
      <4>1. Names(m, dev'[m.from])
        BY <1>1, <2>1, <2>2, <2>4, <3>2
      <4>2. q.engine.id = dev[d].engine.id \/ q.engine.id \in {0, engines + 1}
        BY DEF Lawful, Succeeds, Same, Over, Starts
      <4>3. QED
        BY <1>1, <2>2, <2>4, <3>1, <4>1, <4>2
    <3>3. CASE m.from = d
      <4>1. Names(m, dev[d])
        BY <2>2, <2>4, <3>3
      <4>2. m.gen <= dev[d].gen
        BY <2>2, <3>3 DEF Says
      <4>3. Names(m, q)
        BY <2>1, <3>1, <4>1, <4>2 DEF Names, Lawful, Succeeds, Same, Over, Starts
      <4>4. \A e \in Devices \ {d} : dev'[e].engine.id # m.session
        BY <1>1, <2>2, <2>4, <3>3
      <4>5. QED
        BY <1>1, <3>1, <3>3, <4>3, <4>4
    <3>4. QED
      BY <3>2, <3>3
  <2>5. QED
    BY <2>3, <2>4
<1>5. ASSUME NEW m \in out
      PROVE  /\ Says(m, dev'[m.from])
             /\ m.type \in Described =>
                   /\ m.session \in 1 .. engines' /\ Names(m, dev'[m.from])
                   /\ \A e \in Devices : dev'[e].engine.id = m.session => e = m.from
  <2>1. m.from = d /\ Says(m, q)
    BY DEF Lawful, Speaks
  <2>2. ASSUME m.type \in Described
        PROVE  /\ m.session \in 1 .. engines' /\ Names(m, q)
               /\ \A e \in Devices : dev'[e].engine.id = m.session => e = d
    <3>1. /\ m.session = q.engine.id /\ m.gen = q.gen /\ q.peer = UserOf[m.to]
          /\ q.engine.id # 0
      BY <2>2 DEF Lawful, Speaks
    <3>2. q.engine.id \in Nat /\ q.engine.id <= engines'
      BY <1>1, <1>3, StoreNumbers DEF Numbered
    <3>3. \A e \in Devices : dev'[e].engine.id = q.engine.id => e = d
      BY <1>1, <1>3, <3>1 DEF Numbered, HasEngine
    <3>4. QED
      BY <1>2, <3>1, <3>2, <3>3 DEF Names
  <2>3. QED
    BY <1>1, <2>1, <2>2
<1>6. net' \subseteq net \cup out
  BY DEF Turn
<1> HIDE DEF Says
<1>7. QED
  BY <1>4, <1>5, <1>6 DEF Truthful

LEMMA TurnLinked ==
  ASSUME IInv, PInv, NEW d \in Devices, NEW q \in Stores, NEW out, NEW gone,
         Turn(d, q, out, gone), Lawful(d, q, out)
  PROVE  \A a, b \in Devices : Linked(a, b)'
<1>1. /\ dev'[d] = q
      /\ \A e \in Devices \ {d} : dev'[e] = dev[e]
  BY TurnStores
<1>2. \A e \in Devices : /\ dev[e].engine.id \in Nat /\ dev[e].gen \in Nat
                         /\ dev[e].engine.remote \in Nat /\ dev[e].engine.remote <= engines
                         /\ dev[e].offer \in Nat /\ dev[e].offer <= engines
                         /\ engines \in Nat
  BY DevNumbers DEF PInv, Numbered
<1>3. \A m \in net' : m \in net \/ (m.from = d /\ m.gen = dev[d].gen)
  BY DEF Turn, Lawful, Speaks
\* Of two engines one of which refers to the other, the latter was there.
<1>4. ASSUME NEW b \in Devices, NEW s \in Nat, s # 0, s <= engines,
             dev'[b].engine.id = s
      PROVE  /\ HasEngine(b) /\ dev[b].engine.id = s
             /\ dev'[b].gen = dev[b].gen /\ dev'[b].peer = dev[b].peer
  BY <1>1, <1>2, <1>4 DEF HasEngine, Lawful, Succeeds, Same, Over, Starts
<1>5. ASSUME NEW a \in Devices, NEW b \in Devices, dev'[b].gen = dev[b].gen,
             Flushed(b, a)
      PROVE  Flushed(b, a)'
  BY <1>2, <1>3, <1>5 DEF Flushed
<1>6. ASSUME NEW a \in Devices, NEW b \in Devices, HasEngine(b)',
             dev'[b].engine.id \in {dev'[a].engine.remote, dev'[a].offer}
      PROVE  dev'[a].peer = UserOf[b] /\ dev'[b].peer = UserOf[a] /\ Flushed(b, a)'
  <2> DEFINE s == dev'[b].engine.id
  <2>1. s # 0
    BY <1>6 DEF HasEngine
  <2>2. \/ /\ s \in {dev[a].engine.remote, dev[a].offer}
           /\ dev'[a].peer = dev[a].peer
        \/ \E m \in net : /\ Deliverable(m) /\ m.to = a /\ m.type \in {"OFFER", "ANSWER"}
                          /\ m.session = s /\ dev'[a].peer = UserOf[m.from]
    <3>1. CASE a # d
      BY <1>1, <1>6, <3>1
    <3>2. CASE a = d
      BY <1>1, <1>6, <2>1, <3>2 DEF Lawful, Learns
    <3>3. QED
      BY <3>1, <3>2
  <2>3. CASE /\ s \in {dev[a].engine.remote, dev[a].offer}
             /\ dev'[a].peer = dev[a].peer
    <3>1. /\ HasEngine(b) /\ dev[b].engine.id = s
          /\ dev'[b].gen = dev[b].gen /\ dev'[b].peer = dev[b].peer
      BY <1>2, <1>4, <2>1, <2>3
    <3>2. dev[a].peer = UserOf[b] /\ dev[b].peer = UserOf[a] /\ Flushed(b, a)
      BY <2>3, <3>1 DEF PInv, Linked
    <3>3. QED
      BY <1>5, <2>3, <3>1, <3>2
  <2>4. ASSUME NEW m \in net, Deliverable(m), m.to = a, m.type \in {"OFFER", "ANSWER"},
               m.session = s, dev'[a].peer = UserOf[m.from]
        PROVE  dev'[a].peer = UserOf[b] /\ dev'[b].peer = UserOf[a] /\ Flushed(b, a)'
    <3>1. /\ m.type \in Described /\ m.type \notin OtherPaths /\ m.from \in Devices
          /\ m.session \in Nat /\ m.session <= engines
          /\ Names(m, dev[m.from])
          /\ \A e \in Devices : dev[e].engine.id = m.session => e = m.from
      BY <1>2, <2>4, NetTyped DEF Described, OtherPaths, PInv, Truthful
    <3>2. /\ HasEngine(b) /\ dev[b].engine.id = s
          /\ dev'[b].gen = dev[b].gen /\ dev'[b].peer = dev[b].peer
      BY <1>4, <2>1, <2>4, <3>1
    <3>3. b = m.from /\ m.gen = dev[b].gen /\ dev[b].peer = UserOf[a]
      BY <2>4, <3>1, <3>2 DEF Names
    <3>4. Flushed(b, a)
      BY <2>4, <3>1, <3>3 DEF Deliverable, Flushed
    <3>5. QED
      BY <1>5, <2>4, <3>2, <3>3, <3>4
  <2> HIDE DEF s
  <2>5. QED
    BY <2>2, <2>3, <2>4
<1>7. QED
  BY <1>6 DEF Linked

\* What a device refers to after its turn was there before it.
LEMMA TurnRefers ==
  ASSUME IInv, PInv, NEW d \in Devices, NEW q \in Stores, NEW out, NEW gone,
         Turn(d, q, out, gone), Lawful(d, q, out), NEW a \in Devices
  PROVE  dev'[a].engine.remote <= engines /\ dev'[a].offer <= engines
<1>1. /\ dev'[d] = q
      /\ \A e \in Devices \ {d} : dev'[e] = dev[e]
  BY TurnStores
<1>2. \A e \in Devices : dev[e].engine.remote <= engines /\ dev[e].offer <= engines
  BY DEF PInv, Numbered
<1>3. ASSUME NEW s \in Nat, s # 0 => Learns(d, q, s) PROVE s <= engines
  <2>1. engines \in Nat /\ \A m \in net : m.type \in {"OFFER", "ANSWER"} => m.session <= engines
    BY DEF PInv, Truthful, Described, IInv, RestTyped
  <2>2. QED
    BY <1>2, <1>3, <2>1 DEF Learns
<1>4. q.engine.remote <= engines /\ q.offer <= engines
  BY <1>3, StoreNumbers DEF Lawful
<1>5. QED
  BY <1>1, <1>2, <1>4

\* An engine with a number that has been given out was that device's before.
LEMMA TurnWas ==
  ASSUME IInv, PInv, NEW d \in Devices, NEW q \in Stores, NEW out, NEW gone,
         Turn(d, q, out, gone), Lawful(d, q, out), NEW b \in Devices,
         dev'[b].engine.id # 0, dev'[b].engine.id <= engines
  PROVE  /\ HasEngine(b) /\ Same(dev[b], dev'[b])
<1>1. /\ dev'[d] = q
      /\ \A e \in Devices \ {d} : dev'[e] = dev[e]
  BY TurnStores
<1>2. engines \in Nat
  BY DEF IInv, RestTyped
<1>3. QED
  BY <1>1, <1>2 DEF HasEngine, Lawful, Succeeds, Same, Over, Starts

LEMMA TurnFlushed ==
  ASSUME IInv, NEW d \in Devices, NEW q \in Stores, NEW out, NEW gone,
         Turn(d, q, out, gone), Lawful(d, q, out), NEW a \in Devices,
         NEW b \in Devices, dev'[b].gen = dev[b].gen, Flushed(b, a)
  PROVE  Flushed(b, a)'
<1>1. \A m \in net' : m \in net \/ (m.from = d /\ m.gen = dev[d].gen)
  BY DEF Turn, Lawful, Speaks
<1>2. dev[b].gen \in Nat
  BY DevNumbers
<1>3. QED
  BY <1>1, <1>2 DEF Flushed

\* What a turn may do to the candidates: its engine keeps those it has and gets
\* those that are handled, and those it has gathered were gathered for the same
\* peer or are sent to it.
Carries(d, q, out, gone) ==
    /\ Same(dev[d], q) => dev[d].engine.cands \subseteq q.engine.cands
    /\ q.engine.remote # 0 =>
          \A c \in 1 .. q.engine.gathered :
             \/ /\ Same(dev[d], q) /\ q.engine.remote = dev[d].engine.remote
                /\ c \in 1 .. dev[d].engine.gathered
             \/ \A t \in DevicesOf(q.peer) :
                   \E m \in out : m.type = "ICE" /\ m.to = t /\ m.ice = c
                                  /\ m.session = q.engine.id
    /\ \A m \in gone : m.type = "ICE" =>
          /\ m.to = d
          /\ FromPeer(m) /\ HasEngine(d) /\ Same(dev[d], q)
             => <<m.session, m.ice>> \in q.engine.cands

LEMMA TurnCarried ==
  ASSUME IInv, PInv, NEW d \in Devices, NEW q \in Stores, NEW out, NEW gone,
         Turn(d, q, out, gone), Lawful(d, q, out), Carries(d, q, out, gone),
         AllCarried
  PROVE  AllCarried'
<1>1. /\ dev'[d] = q
      /\ \A e \in Devices \ {d} : dev'[e] = dev[e]
  BY TurnStores
<1>2. SUFFICES ASSUME NEW a \in Devices, NEW b \in Devices, HasEngine(b)',
                      dev'[a].engine.remote = dev'[b].engine.id,
                      NEW c \in 1 .. dev'[a].engine.gathered
               PROVE  \/ <<dev'[a].engine.id, c>> \in dev'[b].engine.cands
                      \/ \E m \in net' : m.type = "ICE" /\ m.to = b /\ m.ice = c
                                         /\ m.session = dev'[a].engine.id
  BY DEF AllCarried, Carried
<1>3. HasEngine(b) /\ Same(dev[b], dev'[b])
  BY <1>2, TurnRefers, TurnWas DEF HasEngine
<1>4. dev'[a].peer = UserOf[b] /\ dev'[b].peer = UserOf[a]
  BY <1>2, TurnLinked DEF Linked
<1>5. dev[b].engine.cands \subseteq dev'[b].engine.cands
  BY <1>1, <1>3 DEF Carries
<1>6. CASE /\ Same(dev[a], dev'[a]) /\ dev'[a].engine.remote = dev[a].engine.remote
           /\ c \in 1 .. dev[a].engine.gathered
  <2>1. dev[a].engine.remote = dev[b].engine.id /\ dev'[a].engine.id = dev[a].engine.id
    BY <1>2, <1>3, <1>6 DEF Same
  <2>2. \/ <<dev[a].engine.id, c>> \in dev[b].engine.cands
        \/ \E m \in net : m.type = "ICE" /\ m.to = b /\ m.ice = c
                          /\ m.session = dev[a].engine.id
    BY <1>3, <1>6, <2>1 DEF AllCarried, Carried
  <2>3. ASSUME NEW m \in net, m \notin net', m.type = "ICE", m.to = b, m.ice = c,
               m.session = dev[a].engine.id
        PROVE  <<dev[a].engine.id, c>> \in dev'[b].engine.cands
    <3>1. m \in gone
      BY <2>3 DEF Turn
    <3>2. b = d
      BY <2>3, <3>1 DEF Carries
    <3>3. a = m.from
      BY <2>3 DEF PInv, Truthful, Described
    <3>4. FromPeer(m)
      BY <1>3, <1>4, <2>3, <3>3 DEF FromPeer, Same
    <3>5. QED
      BY <1>1, <1>3, <2>3, <3>1, <3>2, <3>4 DEF Carries
  <2>4. QED
    BY <1>5, <2>1, <2>2, <2>3
<1>7. CASE a # d
  <2>1. dev'[a] = dev[a]
    BY <1>1, <1>7
  <2>2. QED
    BY <1>2, <1>6, <2>1 DEF Same
<1>8. CASE a = d
  <2>1. q.engine.remote # 0 /\ c \in 1 .. q.engine.gathered
    BY <1>1, <1>2, <1>8 DEF HasEngine
  <2>2. CASE \A t \in DevicesOf(q.peer) :
                \E m \in out : m.type = "ICE" /\ m.to = t /\ m.ice = c
                               /\ m.session = q.engine.id
    <3>1. b \in DevicesOf(q.peer)
      BY <1>1, <1>4, <1>8 DEF DevicesOf
    <3>2. out \subseteq net'
      BY DEF Turn
    <3>3. QED
      BY <1>1, <1>8, <2>2, <3>1, <3>2
  <2>3. QED
    BY <1>1, <1>6, <1>8, <2>1, <2>2 DEF Carries
<1>9. QED
  BY <1>7, <1>8

\* What a turn may do to a call that is up: an engine that goes says QUIT, or
\* it was told to go by its peer; nobody but a call that ends takes a QUIT of
\* its peer.
Leaves(d, q, out, gone) ==
    /\ q.engine.ice = "up" => dev[d].engine.ice = "up" /\ Same(dev[d], q)
    /\ HasEngine(d) /\ ~Same(dev[d], q) =>
          \/ \A t \in DevicesOf(dev[d].peer) :
                \E m \in out : m.type = "QUIT" /\ m.to = t
          \/ \E m \in net : /\ m.to = d /\ FromPeer(m)
                            /\ m.type \in {"QUIT", "TIMEOUT", "JOINED"}
    /\ \A m \in gone : m.type = "QUIT" /\ FromPeer(m) /\ HasEngine(m.to)
          => m.to = d /\ ~Same(dev[d], q)

\* An engine that another one refers to is not told to go by that one.
LEMMA NotTold ==
  ASSUME IInv, PInv, OneDevice, NEW a \in Devices, NEW b \in Devices, HasEngine(b),
         dev[b].engine.id = dev[a].engine.remote, Flushed(a, b), NEW m \in net,
         m.to = b, FromPeer(m), m.type \in {"QUIT", "TIMEOUT", "JOINED"}
  PROVE  FALSE
<1>1. dev[a].peer = UserOf[b] /\ dev[b].peer = UserOf[a]
  BY DEF PInv, Linked
<1>2. m.from \in Devices /\ m.gen \in Nat /\ dev[a].gen \in Nat
  BY NetTyped, DevNumbers
<1>3. m.from = a
  BY <1>1, <1>2 DEF FromPeer, OneDevice
<1>4. m.gen >= dev[a].gen
  BY <1>3 DEF Flushed, OtherPaths
<1>5. Says(m, dev[a])
  BY <1>3 DEF PInv, Truthful
<1>6. QED
  BY <1>1, <1>2, <1>4, <1>5 DEF Says

LEMMA TurnAnswering ==
  ASSUME IInv, PInv, OneDevice, NEW d \in Devices, NEW q \in Stores, NEW out,
         NEW gone, Turn(d, q, out, gone), Lawful(d, q, out), Waiting(q),
         Leaves(d, q, out, gone), AllAnswering
  PROVE  AllAnswering'
<1>1. /\ dev'[d] = q
      /\ \A e \in Devices \ {d} : dev'[e] = dev[e]
  BY TurnStores
<1>2. SUFFICES ASSUME NEW a \in Devices, dev'[a].engine.ice = "up"
               PROVE  Answering(a)'
  BY DEF AllAnswering, Answering
<1>3. dev[a].engine.ice = "up" /\ Same(dev[a], dev'[a])
  BY <1>1, <1>2 DEF Leaves, Same
<1>4. HasEngine(a) /\ dev[a].engine.remote # 0 /\ dev[a].offer = 0
  <2>1. Good(dev[a]) /\ Waiting(dev[a])
    BY DEF IInv, StoresGood, PInv
  <2>2. dev[a].engine.id # 0
    BY <1>3, <2>1 DEF Good, Coherent, NoEngine
  <2>3. QED
    BY <1>3, <2>1, <2>2 DEF Waiting, Good, Coherent, InCall, HasEngine
<1>5. CASE \E m \in net : m.type = "QUIT" /\ m.to = a /\ FromPeer(m)
  <2>1. PICK m \in net : m.type = "QUIT" /\ m.to = a /\ FromPeer(m)
    BY <1>5
  <2>2. m \notin gone
    BY <1>1, <1>3, <1>4, <2>1 DEF Leaves
  <2>3. m \in net' /\ FromPeer(m)'
    BY <1>3, <2>1, <2>2 DEF Turn, FromPeer, Same
  <2>4. QED
    BY <2>1, <2>3 DEF Answering
<1>6. ASSUME NEW e \in Devices, HasEngine(e),
             dev[e].engine.id = dev[a].engine.remote, Flushed(a, e)
      PROVE  Answering(a)'
  <2>1. /\ dev[a].peer = UserOf[e] /\ dev[e].peer = UserOf[a] /\ Flushed(e, a)
    BY <1>6 DEF PInv, Linked
  <2>2. dev'[a].engine.remote = dev[e].engine.id
    <3>1. CASE a # d
      BY <1>1, <1>6, <3>1
    <3>2. CASE a = d
      <4>1. q.engine.remote # 0 /\ q.peer = dev[d].peer
        BY <1>1, <1>2, <1>3, <3>2 DEF Waiting, Same
      <4>2. CASE q.engine.remote \in {dev[d].engine.remote, dev[d].offer}
        BY <1>1, <1>4, <1>6, <3>2, <4>1, <4>2
      <4>3. ASSUME NEW m \in net, m.to = d, m.type \in {"OFFER", "ANSWER"},
                   m.session = q.engine.remote, q.peer = UserOf[m.from]
            PROVE  q.engine.remote = dev[e].engine.id
        <5>1. m.from \in Devices /\ m.gen \in Nat /\ dev[e].gen \in Nat
          BY NetTyped, DevNumbers
        <5>2. m.from = e
          BY <2>1, <3>2, <4>1, <4>3, <5>1 DEF OneDevice
        <5>3. m.gen >= dev[e].gen
          BY <2>1, <3>2, <4>3, <5>2 DEF Flushed, OtherPaths
        <5>4. Says(m, dev[e]) /\ Names(m, dev[e])
          BY <4>3, <5>2 DEF PInv, Truthful, Described
        <5>5. QED
          BY <4>3, <5>1, <5>3, <5>4 DEF Says, Names
      <4>4. QED
        BY <1>1, <3>2, <4>1, <4>2, <4>3 DEF Lawful, Learns
    <3>3. QED
      BY <3>1, <3>2
  <2>3. CASE e # d \/ Same(dev[d], q)
    <3>1. dev'[e].engine.id = dev[e].engine.id
      BY <1>1, <2>3 DEF Same
    <3>2. Flushed(a, e)'
      BY <1>3, <1>6, TurnFlushed DEF Same
    <3>3. QED
      BY <1>6, <2>2, <3>1, <3>2 DEF Answering, HasEngine
  <2>4. CASE e = d /\ ~Same(dev[d], q)
    <3>1. a # d
      BY <1>1, <1>3, <2>4
    <3>2. a \in DevicesOf(dev[d].peer)
      BY <2>1, <2>4 DEF DevicesOf
    <3>3. \E m \in out : m.type = "QUIT" /\ m.to = a
      BY <1>6, <2>4, <3>2, NotTold DEF Leaves
    <3>4. PICK m \in out : m.type = "QUIT" /\ m.to = a
      BY <3>3
    <3>5. m \in net' /\ FromPeer(m)'
      BY <1>1, <2>1, <2>4, <3>1, <3>4 DEF Turn, FromPeer, Lawful, Speaks
    <3>6. QED
      BY <3>4, <3>5 DEF Answering
  <2>5. QED
    BY <2>3, <2>4
<1>7. QED
  BY <1>3, <1>5, <1>6 DEF AllAnswering, Answering

\* A lawful turn keeps the invariant.
LEMMA TurnKeeps ==
  ASSUME IInv, PInv, NEW d \in Devices, NEW q \in Stores, NEW out, NEW gone,
         Turn(d, q, out, gone), Lawful(d, q, out), Waiting(q),
         IceFits => Held(q),
         IceFits /\ lost' = 0 => Carries(d, q, out, gone),
         lost' = 0 => lost = 0 /\ Leaves(d, q, out, gone)
  PROVE  PInv'
<1>1. /\ dev'[d] = q
      /\ \A e \in Devices \ {d} : dev'[e] = dev[e]
  BY TurnStores
<1>2. \A e \in Devices : Waiting(dev'[e])
  BY <1>1 DEF PInv
<1>3. IceFits => \A e \in Devices : Held(dev'[e])
  BY <1>1 DEF PInv
<1>4. IceFits /\ lost' = 0 => AllCarried'
  BY TurnCarried DEF PInv
<1>5. OneDevice /\ lost' = 0 => AllAnswering'
  BY TurnAnswering DEF PInv
<1>6. Numbered' /\ Truthful' /\ \A a, b \in Devices : Linked(a, b)'
  BY TurnNumbered, TurnTruthful, TurnLinked
<1>7. QED
  BY <1>2, <1>3, <1>4, <1>5, <1>6 DEF PInv

-----------------------------------------------------------------------------
(* The turns.                                                               *)

\* The number of a device's call, its peer and its engine stay as they are.
Calm(r, q) ==
    /\ Same(r, q) /\ q.engine.remote = r.engine.remote /\ q.offer \in {r.offer, 0}
    /\ q.engine.ice = r.engine.ice

\* The signals taken are of no use to an engine, nor its end.
Idles(gone) ==
    \A m \in gone : m.type \in {"ICE", "QUIT"} => ~(FromPeer(m) /\ HasEngine(m.to))

\* A turn in which the call goes on as it was.
LEMMA CalmKeeps ==
  ASSUME IInv, PInv, NEW d \in Devices, NEW q \in Stores, NEW out, NEW gone,
         Turn(d, q, out, gone), Calm(dev[d], q), Speaks(d, q, out), Waiting(q),
         IceFits => Held(q), engines' = engines, lost' = 0 => lost = 0,
         q.engine.gathered = dev[d].engine.gathered,
         q.engine.cands = dev[d].engine.cands,
         \A m \in gone : m.to = d, lost' = 0 => Idles(gone)
  PROVE  PInv'
<1>1. Lawful(d, q, out)
  BY DEF Lawful, Succeeds, Calm, Same, Learns
<1>2. lost' = 0 => Carries(d, q, out, gone)
  BY DEF Carries, Calm, Idles
<1>3. lost' = 0 => Leaves(d, q, out, gone)
  BY DEF Leaves, Calm, Idles
<1>4. QED
  BY <1>1, <1>2, <1>3, TurnKeeps

\* The store of d once more, by itself.
LEMMA Own ==
  ASSUME IInv, PInv, NEW d \in Devices
  PROVE  /\ Good(dev[d]) /\ dev[d] \in Stores /\ dev[d].engine \in Engines
         /\ Coherent(dev[d]) /\ Waiting(dev[d]) /\ (IceFits => Held(dev[d]))
         /\ HasEngine(d) => dev[d].engine.id \in 1 .. engines
         /\ engines \in Nat /\ dev[d].gen \in Nat
<1>1. Good(dev[d]) /\ engines \in Nat
  BY DEF IInv, StoresGood, RestTyped
<1>2. dev[d] \in Stores /\ dev[d].engine \in Engines /\ Coherent(dev[d])
      /\ dev[d].gen \in Nat /\ dev[d].engine.id \in Nat
  BY <1>1 DEF Good, Stores, Engines
<1>3. Waiting(dev[d]) /\ (IceFits => Held(dev[d]))
      /\ dev[d].engine.id <= engines
  BY DEF PInv, Numbered
<1>4. QED
  BY <1>1, <1>2, <1>3 DEF HasEngine

\* What d sends to its peer of its own engine.
LEMMA PeerSpeaks ==
  ASSUME NEW d \in Devices, NEW q, Same(dev[d], q), q.engine.id # 0,
         dev[d].gen \in Nat, NEW type \in {"OFFER", "ANSWER", "ICE", "INIT", "CANCEL"},
         NEW s, type \in Described => s = q.engine.id, NEW i
  PROVE  Speaks(d, q, ToPeer(d, type, s, i))
BY DEF Speaks, ToPeer, SignalTo, DevicesOf, Says, Same, Described

LEMMA SentToAll ==
  ASSUME NEW d, NEW type, NEW s, NEW i, NEW t \in DevicesOf(dev[d].peer)
  PROVE  \E m \in ToPeer(d, type, s, i) :
            m.type = type /\ m.to = t /\ m.session = s /\ m.ice = i
<1> DEFINE w == [type |-> type, from |-> d, to |-> t,
                 chan |-> {UserOf[d], dev[d].peer}, session |-> s, ice |-> i,
                 gen |-> dev[d].gen]
<1>1. w \in ToPeer(d, type, s, i)
  BY DEF ToPeer, SignalTo
<1>2. w.type = type /\ w.to = t /\ w.session = s /\ w.ice = i
  OBVIOUS
<1>3. QED
  BY <1>1, <1>2

LEMMA SpeaksBoth ==
  ASSUME NEW d, NEW q, NEW out, NEW more, Speaks(d, q, out), Speaks(d, q, more)
  PROVE  Speaks(d, q, out \cup more)
BY DEF Speaks

LEMMA SpeaksNothing ==
  ASSUME NEW d, NEW q
  PROVE  Speaks(d, q, {})
BY DEF Speaks

LEMMA StepTurn ==
  ASSUME NEW d, NEW q, NEW out, StepStore(d, q, out)
  PROVE  Turn(d, q, out, {}) /\ engines' = engines /\ lost' = lost
BY DEF StepStore, Turn

LEMMA HandledTurn ==
  ASSUME NEW m \in net, NEW q, NEW out, Handled(m, q, out)
  PROVE  Turn(m.to, q, out, {m})
BY DEF Handled, Turn

LEMMA StartCallKeeps ==
  ASSUME IInv, PInv, NEW d \in Devices, NEW u \in Users, StartCall(d, u)
  PROVE  PInv'
<1> DEFINE q == [dev[d] EXCEPT !.phase = "Outgoing", !.peer = u, !.caller = TRUE,
                               !.gen = @ + 1, !.engine = NewEngine(TRUE, {}),
                               !.up = FALSE, !.timer = TRUE]
<1>1. /\ dev[d].phase = "Idle" /\ dev[d] \in Stores /\ engines \in Nat
      /\ Coherent(dev[d]) /\ Waiting(dev[d]) /\ (IceFits => Held(dev[d]))
      /\ dev[d].engine.id = 0
  BY Own DEF StartCall, Coherent, InCall
<1>2. Turn(d, q, {}, {}) /\ engines' = engines + 1 /\ lost' = lost
  BY DEF Turn, StartCall
<1>3. NewEngine(TRUE, {}) \in Engines
  BY <1>1, NewEngineTyped
<1>4. q \in Stores
  <2>1. dev[d].gen + 1 \in Nat
    BY <1>1 DEF Stores
  <2>2. QED
    BY <1>1, <1>3, <2>1 DEF Stores, InCall
<1>5. /\ q.phase = "Outgoing" /\ q.gen = dev[d].gen + 1 /\ q.engine.id = engines + 1
      /\ q.engine.remote = 0 /\ q.engine.caller /\ q.engine.gathered = 0
      /\ q.engine.ice = "new" /\ q.offer = dev[d].offer /\ q.localIce = dev[d].localIce
  BY <1>1 DEF Stores, NewEngine, NoEngine
<1> HIDE DEF q
<1>6. q.offer = 0
  BY <1>1, <1>5 DEF Waiting
<1>7. Waiting(q)
  BY <1>1, <1>5, <1>6 DEF Waiting
<1>8. IceFits => Held(q)
  BY <1>1, <1>5 DEF Held
<1>9. Succeeds(dev[d], q)
  BY <1>1, <1>2, <1>5 DEF Succeeds, Starts
<1>10. Lawful(d, q, {})
  BY <1>5, <1>6, <1>9, SpeaksNothing DEF Lawful
<1>11. Carries(d, q, {}, {}) /\ Leaves(d, q, {}, {})
  BY <1>1, <1>5 DEF Carries, Leaves, Same, HasEngine
<1>12. QED
  BY <1>2, <1>4, <1>7, <1>8, <1>10, <1>11, TurnKeeps

LEMMA LogAnsweredKeeps ==
  ASSUME IInv, PInv, NEW l \in logs, LogAnswered(l)
  PROVE  PInv'
<1>1. l.dev \in Devices /\ l.call \in Nat
  BY DEF IInv, Fits, LogRequests
<1> DEFINE d == l.dev
           q == IF dev[d].gen = l.gen THEN [dev[d] EXCEPT !.message = l.call] ELSE dev[d]
<1>2. dev[d] \in Stores /\ Waiting(dev[d]) /\ (IceFits => Held(dev[d]))
  BY <1>1, Own
<1>3. Turn(d, q, {}, {}) /\ engines' = engines /\ lost' = lost
  BY <1>1 DEF Turn, LogAnswered, IInv, StoresGood
<1>4. /\ q \in Stores /\ q.engine = dev[d].engine /\ q.gen = dev[d].gen
      /\ q.peer = dev[d].peer /\ q.offer = dev[d].offer /\ q.phase = dev[d].phase
      /\ q.localIce = dev[d].localIce
  BY <1>1, <1>2 DEF Stores
<1> HIDE DEF q, d
<1>5. Waiting(q) /\ (IceFits => Held(q)) /\ Calm(dev[d], q)
  BY <1>2, <1>4 DEF Waiting, Held, Calm, Same
<1>6. QED
  BY <1>1, <1>3, <1>4, <1>5, SpeaksNothing, CalmKeeps DEF Idles, d

LEMMA AcceptKeeps ==
  ASSUME IInv, PInv, NEW d \in Devices, Accept(d)
  PROVE  PInv'
<1> DEFINE n == NewEngine(FALSE, dev[d].remoteIce)
           en == [n EXCEPT !.remote = dev[d].offer, !.answers = 1]
           q == [dev[d] EXCEPT !.phase = "Connecting", !.offer = 0,
                               !.remoteIce = {}, !.engine = en, !.timer = TRUE]
<1>1. /\ dev[d].phase = "Incoming" /\ dev[d] \in Stores /\ engines \in Nat
      /\ Coherent(dev[d]) /\ dev[d].offer # 0 /\ dev[d].offer \in Nat
      /\ dev[d].engine.id = 0
  BY Own, DevNumbers DEF Accept, Coherent, InCall
<1>2. Turn(d, q, {}, {}) /\ engines' = engines + 1 /\ lost' = lost
  BY DEF Turn, Accept
<1>3. n \in Engines /\ n.id = engines + 1 /\ n.gathered = 0 /\ n.ice = "new"
  <2>1. dev[d].remoteIce \in SUBSET Candidates
    BY <1>1 DEF Stores
  <2>2. n \in Engines /\ n.id = engines + 1
    BY <1>1, <2>1, NewEngineTyped
  <2>3. n.gathered = 0 /\ n.ice = "new"
    BY DEF NewEngine, NoEngine
  <2>4. QED
    BY <2>2, <2>3
<1> HIDE DEF n
<1>4. /\ en \in Engines /\ en.id = engines + 1 /\ en.gathered = 0 /\ en.ice = "new"
      /\ en.remote = dev[d].offer
  BY <1>1, <1>3 DEF Engines
<1> HIDE DEF en
<1>5. q \in Stores /\ q.phase = "Connecting" /\ q.offer = 0 /\ q.engine = en
      /\ q.gen = dev[d].gen /\ q.peer = dev[d].peer
  BY <1>1, <1>4 DEF Stores, InCall
<1> HIDE DEF q
<1>6. Waiting(q) /\ Held(q)
  BY <1>1, <1>4, <1>5 DEF Waiting, Held
<1>7. Succeeds(dev[d], q) /\ Learns(d, q, q.engine.remote)
  BY <1>1, <1>2, <1>4, <1>5 DEF Succeeds, Starts, Learns
<1>8. Lawful(d, q, {})
  BY <1>5, <1>7, SpeaksNothing DEF Lawful
<1>9. Carries(d, q, {}, {}) /\ Leaves(d, q, {}, {})
  BY <1>1, <1>4, <1>5 DEF Carries, Leaves, Same, HasEngine
<1>10. QED
  BY <1>2, <1>5, <1>6, <1>8, <1>9, TurnKeeps

LEMMA AcceptWithoutAccountKeeps ==
  ASSUME IInv, PInv, NEW d \in Devices, AcceptWithoutAccount(d)
  PROVE  PInv'
<1> DEFINE q == [dev[d] EXCEPT !.offer = 0]
<1>1. dev[d] \in Stores /\ Waiting(dev[d]) /\ (IceFits => Held(dev[d]))
  BY Own
<1>2. Turn(d, q, {}, {}) /\ engines' = engines /\ lost' = lost
  BY DEF Turn, AcceptWithoutAccount
<1>3. /\ q \in Stores /\ q.engine = dev[d].engine /\ q.gen = dev[d].gen
      /\ q.peer = dev[d].peer /\ q.offer = 0 /\ q.phase = dev[d].phase
      /\ q.localIce = dev[d].localIce
  BY <1>1 DEF Stores
<1> HIDE DEF q
<1>4. Waiting(q) /\ (IceFits => Held(q)) /\ Calm(dev[d], q)
  BY <1>1, <1>3 DEF Waiting, Held, Calm, Same
<1>5. QED
  BY <1>2, <1>3, <1>4, SpeaksNothing, CalmKeeps DEF Idles

\* What the store of a call that is over is like.
LEMMA ResetOver ==
  ASSUME NEW r, Good(r)
  PROVE  /\ Reset(r) \in Stores /\ Over(r, Reset(r)) /\ Waiting(Reset(r))
         /\ Held(Reset(r)) /\ Reset(r).engine.ice = "new"
         /\ Reset(r).engine.remote = 0 /\ Reset(r).offer = 0
<1>1. Reset(r) \in Stores
  BY ResetGood DEF Good
<1>2. QED
  BY <1>1 DEF Reset, IdleStore, NoEngine, Over, Waiting, Held, Stores

\* The end of a call, from whichever side.
LEMMA ResetKeeps ==
  ASSUME IInv, PInv, NEW d \in Devices, NEW out, NEW gone,
         Turn(d, Reset(dev[d]), out, gone), Speaks(d, Reset(dev[d]), out),
         engines' = engines, lost' = lost, \A m \in gone : m.to = d,
         HasEngine(d) =>
            \/ \A t \in DevicesOf(dev[d].peer) :
                  \E m \in out : m.type = "QUIT" /\ m.to = t
            \/ \E m \in net : /\ m.to = d /\ FromPeer(m)
                              /\ m.type \in {"QUIT", "TIMEOUT", "JOINED"}
  PROVE  PInv'
<1> DEFINE q == Reset(dev[d])
<1>1. Good(dev[d]) /\ dev[d].gen \in Nat
  BY Own
<1>2. /\ q \in Stores /\ Over(dev[d], q) /\ Waiting(q) /\ Held(q)
      /\ q.engine.ice = "new" /\ q.engine.remote = 0 /\ q.offer = 0
  BY <1>1, ResetOver
<1> HIDE DEF q
<1>3. ~Same(dev[d], q)
  BY <1>1, <1>2 DEF Over, Same
<1>4. Lawful(d, q, out)
  BY <1>2 DEF Lawful, Succeeds, q
<1>5. Carries(d, q, out, gone)
  BY <1>2, <1>3 DEF Carries
<1>6. Leaves(d, q, out, gone)
  BY <1>2, <1>3 DEF Leaves
<1>7. QED
  BY <1>2, <1>4, <1>5, <1>6, TurnKeeps DEF q

LEMMA FarewellSpeaks ==
  ASSUME NEW d \in Devices, NEW q, dev[d].gen \in Nat, q.gen = dev[d].gen + 1,
         NEW reason, NEW notify
  PROVE  Speaks(d, q, Farewell(d, reason, notify))
<1>1. ASSUME NEW ds, NEW u, NEW type \in {"QUIT", "TIMEOUT", "CANCEL", "LOG"}, NEW s,
             NEW i
      PROVE  Speaks(d, q, SignalTo(d, ds, u, type, s, i))
  BY DEF Speaks, SignalTo, Says, Described
<1>2. Speaks(d, q, TerminalLog(d))
  BY <1>1, SpeaksNothing DEF TerminalLog
<1>3. ASSUME NEW type \in {"QUIT", "TIMEOUT", "CANCEL"}, NEW s, NEW i
      PROVE  Speaks(d, q, ToPeer(d, type, s, i))
  BY <1>1 DEF ToPeer
<1>4. QED
  BY <1>2, <1>3, SpeaksNothing, SpeaksBoth DEF Farewell

LEMMA EndCallKeeps ==
  ASSUME IInv, PInv, NEW d \in Devices, NEW reason, EndCall(d, reason)
  PROVE  PInv'
<1> DEFINE q == Reset(dev[d])
           out == Farewell(d, reason, TRUE)
<1>1. Good(dev[d]) /\ dev[d].gen \in Nat /\ Coherent(dev[d])
  BY Own
<1>2. Turn(d, q, out, {}) /\ engines' = engines /\ lost' = lost
  BY DEF Turn, EndCall
<1>3. Speaks(d, q, out)
  BY <1>1, FarewellSpeaks, ResetOver DEF Over
<1>4. ASSUME HasEngine(d), NEW t \in DevicesOf(dev[d].peer)
      PROVE  \E m \in out : m.type = "QUIT" /\ m.to = t
  <2>1. dev[d].phase # "Incoming"
    BY <1>1, <1>4 DEF HasEngine, Coherent, InCall
  <2>2. ToPeer(d, "QUIT", 0, 0) \subseteq out
    BY <2>1 DEF Farewell
  <2>3. \E m \in ToPeer(d, "QUIT", 0, 0) : m.type = "QUIT" /\ m.to = t
    BY <1>4, SentToAll
  <2>4. QED
    BY <2>2, <2>3
<1>5. HasEngine(d) =>
         \/ \A t \in DevicesOf(dev[d].peer) :
               \E m \in out : m.type = "QUIT" /\ m.to = t
         \/ \E m \in net : /\ m.to = d /\ FromPeer(m)
                           /\ m.type \in {"QUIT", "TIMEOUT", "JOINED"}
  BY <1>4
<1> DEFINE gone == {}
<1>6. Turn(d, q, out, gone) /\ \A m \in gone : m.to = d
  BY <1>2
<1> HIDE DEF out, gone
<1>7. QED
  BY <1>2, <1>3, <1>5, <1>6, ResetKeeps

-----------------------------------------------------------------------------
(* The engine and the timers once more.                                     *)

LEMMA LocalDescriptionKeeps ==
  ASSUME IInv, PInv, NEW d \in Devices, LocalOffer(d) \/ LocalAnswer(d)
  PROVE  PInv'
<1> DEFINE q1 == [dev[d] EXCEPT !.engine.offered = TRUE, !.sid = dev[d].engine.id]
           q2 == [dev[d] EXCEPT !.engine.answers = @ - 1]
<1>1. /\ dev[d] \in Stores /\ dev[d].engine \in Engines /\ Coherent(dev[d])
      /\ Waiting(dev[d]) /\ (IceFits => Held(dev[d])) /\ dev[d].gen \in Nat
      /\ dev[d].engine.id \in Nat
  BY Own, DevNumbers
<1>2. dev[d].engine.id # 0
  BY <1>1 DEF LocalOffer, LocalAnswer, Coherent, NoEngine
<1>3. ASSUME NEW q \in Stores, q.gen = dev[d].gen, q.peer = dev[d].peer,
             q.offer = dev[d].offer, q.phase = dev[d].phase,
             q.localIce = dev[d].localIce,
             q.engine.id = dev[d].engine.id, q.engine.remote = dev[d].engine.remote,
             q.engine.ice = dev[d].engine.ice, q.engine.cands = dev[d].engine.cands,
             q.engine.caller = dev[d].engine.caller,
             q.engine.gathered = dev[d].engine.gathered,
             NEW type \in {"OFFER", "ANSWER"},
             StepStore(d, q, ToPeer(d, type, dev[d].engine.id, 0))
      PROVE  PInv'
  <2> DEFINE out == ToPeer(d, type, dev[d].engine.id, 0)
             gone == {}
  <2>1. Turn(d, q, out, gone) /\ engines' = engines /\ lost' = lost
    BY <1>3, StepTurn
  <2>2. Calm(dev[d], q) /\ Waiting(q) /\ (IceFits => Held(q))
    BY <1>1, <1>3 DEF Calm, Same, Waiting, Held
  <2>3. Speaks(d, q, out)
    BY <1>1, <1>2, <1>3, <2>2, PeerSpeaks DEF Calm
  <2>4. Idles(gone) /\ \A m \in gone : m.to = d
    BY DEF Idles
  <2> HIDE DEF out, gone
  <2>5. QED
    BY <1>3, <2>1, <2>2, <2>3, <2>4, CalmKeeps
<1>4. CASE LocalOffer(d)
  <2>1. /\ q1 \in Stores /\ q1.gen = dev[d].gen /\ q1.peer = dev[d].peer
        /\ q1.offer = dev[d].offer /\ q1.phase = dev[d].phase
        /\ q1.localIce = dev[d].localIce
        /\ q1.engine.id = dev[d].engine.id /\ q1.engine.remote = dev[d].engine.remote
        /\ q1.engine.ice = dev[d].engine.ice /\ q1.engine.cands = dev[d].engine.cands
        /\ q1.engine.caller = dev[d].engine.caller
        /\ q1.engine.gathered = dev[d].engine.gathered
    BY <1>1 DEF Stores, Engines
  <2>2. StepStore(d, q1, ToPeer(d, "OFFER", dev[d].engine.id, 0))
    BY <1>4 DEF LocalOffer
  <2> HIDE DEF q1
  <2>3. QED
    BY <1>3, <2>1, <2>2
<1>5. CASE LocalAnswer(d)
  <2>1. dev[d].engine.answers - 1 \in Nat
    BY <1>1, <1>5 DEF LocalAnswer, Engines
  <2>2. /\ q2 \in Stores /\ q2.gen = dev[d].gen /\ q2.peer = dev[d].peer
        /\ q2.offer = dev[d].offer /\ q2.phase = dev[d].phase
        /\ q2.localIce = dev[d].localIce
        /\ q2.engine.id = dev[d].engine.id /\ q2.engine.remote = dev[d].engine.remote
        /\ q2.engine.ice = dev[d].engine.ice /\ q2.engine.cands = dev[d].engine.cands
        /\ q2.engine.caller = dev[d].engine.caller
        /\ q2.engine.gathered = dev[d].engine.gathered
    BY <1>1, <2>1 DEF Stores, Engines
  <2>3. StepStore(d, q2, ToPeer(d, "ANSWER", dev[d].engine.id, 0))
    BY <1>5 DEF LocalAnswer
  <2> HIDE DEF q2
  <2>4. QED
    BY <1>3, <2>2, <2>3
<1>6. QED
  BY <1>4, <1>5

\* The buffer of a caller that waits has room for the candidates of its engine.
LEMMA BufferHasRoom ==
  ASSUME IInv, IceFits, NEW d \in Devices, Held(dev[d]), dev[d].phase = "Outgoing",
         dev[d].engine.gathered < IceOf[d]
  PROVE  Cardinality(dev[d].localIce) < MaxPendingIce
<1>1. dev[d].engine.gathered \in Nat
  BY DevNumbers
<1>2. Cardinality(1 .. dev[d].engine.gathered) = dev[d].engine.gathered
  BY <1>1, FS_Interval
<1>3. IceOf[d] \in Nat /\ IceOf[d] <= MaxPendingIce /\ MaxPendingIce \in Nat
  BY CallAssumption DEF IceFits
<1>4. QED
  BY <1>1, <1>2, <1>3 DEF Held

LEMMA LocalIceKeeps ==
  ASSUME IInv, PInv, NEW d \in Devices, LocalIce(d)
  PROVE  PInv'
<1> DEFINE c == dev[d].engine.gathered + 1
           g == [dev[d] EXCEPT !.engine.gathered = @ + 1]
           h == [g EXCEPT !.localIce = @ \cup {c}]
           gone == {}
<1>1. /\ dev[d] \in Stores /\ dev[d].engine \in Engines /\ Coherent(dev[d])
      /\ Waiting(dev[d]) /\ (IceFits => Held(dev[d])) /\ dev[d].gen \in Nat
      /\ dev[d].engine.id \in Nat /\ dev[d].engine.gathered \in Nat /\ c \in Nat
  BY Own, DevNumbers
<1>2. dev[d].engine.id # 0
  BY <1>1 DEF LocalIce, Coherent, NoEngine
<1>3. /\ g \in Stores /\ g.gen = dev[d].gen /\ g.peer = dev[d].peer
      /\ g.offer = dev[d].offer /\ g.phase = dev[d].phase
      /\ g.localIce = dev[d].localIce
      /\ g.engine.id = dev[d].engine.id /\ g.engine.remote = dev[d].engine.remote
      /\ g.engine.ice = dev[d].engine.ice /\ g.engine.cands = dev[d].engine.cands
      /\ g.engine.caller = dev[d].engine.caller /\ g.engine.gathered = c
  BY <1>1 DEF Stores, Engines
<1> HIDE DEF g
<1>4. /\ h \in Stores /\ h.gen = g.gen /\ h.peer = g.peer /\ h.offer = g.offer
      /\ h.phase = g.phase /\ h.engine = g.engine
      /\ h.localIce = dev[d].localIce \cup {c}
  BY <1>1, <1>3 DEF Stores
<1> HIDE DEF h
<1>5. ASSUME NEW q \in {g, h}
      PROVE  /\ q \in Stores /\ Calm(dev[d], q) /\ Waiting(q) /\ q.engine = g.engine
             /\ q.phase = dev[d].phase
  BY <1>1, <1>3, <1>4 DEF Calm, Same, Waiting
<1>6. ASSUME NEW q \in {g, h}, NEW out, StepStore(d, q, out), Speaks(d, q, out),
             IceFits => Held(q), IceFits => Carries(d, q, out, gone)
      PROVE  PInv'
  <2>1. Turn(d, q, out, gone) /\ engines' = engines /\ lost' = lost
    BY <1>6, StepTurn
  <2>2. Lawful(d, q, out)
    BY <1>5, <1>6, <2>1 DEF Lawful, Succeeds, Calm, Same, Learns
  <2>3. Leaves(d, q, out, gone)
    BY <1>5 DEF Leaves, Calm
  <2> HIDE DEF gone
  <2>4. QED
    BY <1>5, <1>6, <2>1, <2>2, <2>3, TurnKeeps
<1>7. CASE dev[d].phase # "Outgoing"
  <2> DEFINE out == ToPeer(d, "ICE", dev[d].engine.id, c)
  <2>1. StepStore(d, g, out)
    BY <1>7 DEF LocalIce, g
  <2>2. Same(dev[d], g)
    BY <1>3 DEF Same
  <2>3. Speaks(d, g, out)
    BY <1>1, <1>2, <1>3, <2>2, PeerSpeaks
  <2>4. IceFits => Held(g)
    BY <1>1, <1>3, <1>7 DEF Held
  <2>5. \A t \in DevicesOf(g.peer) :
           \E m \in out : m.type = "ICE" /\ m.to = t /\ m.ice = c
                          /\ m.session = g.engine.id
    BY <1>3, SentToAll
  <2>6. \A i \in 1 .. c : i \in 1 .. dev[d].engine.gathered \/ i = c
    BY <1>1
  <2> HIDE DEF out
  <2>7. Carries(d, g, out, gone)
    BY <1>3, <2>2, <2>5, <2>6 DEF Carries
  <2>8. QED
    BY <1>6, <2>1, <2>3, <2>4, <2>7
<1>8. CASE dev[d].phase = "Outgoing"
  <2>1. StepStore(d, h, {}) \/ StepStore(d, g, {})
    BY <1>8 DEF LocalIce, g, h
  <2>2. IceFits => StepStore(d, h, {})
    BY <1>1, <1>8, BufferHasRoom DEF LocalIce, g, h
  <2>3. IceFits => Held(h)
    <3>1. IceFits => dev[d].localIce = 1 .. dev[d].engine.gathered
      BY <1>1, <1>8 DEF Held
    <3>2. 1 .. c = 1 .. dev[d].engine.gathered \cup {c}
      BY <1>1
    <3>3. QED
      BY <1>3, <1>4, <1>8, <3>1, <3>2 DEF Held
  <2>4. g.engine.remote = 0
    BY <1>1, <1>3, <1>8 DEF Waiting
  <2>5. ASSUME NEW q \in {g, h} PROVE Carries(d, q, {}, gone)
    BY <1>3, <1>4, <2>4 DEF Carries
  <2>6. IceFits => PInv'
    BY <1>6, <2>2, <2>3, <2>5, SpeaksNothing
  <2>7. ~IceFits => PInv'
    BY <1>6, <2>1, SpeaksNothing
  <2>8. QED
    BY <2>6, <2>7
<1>9. QED
  BY <1>7, <1>8

LEMMA ConnectedKeeps ==
  ASSUME IInv, PInv, NEW d \in Devices, Connected(d)
  PROVE  PInv'
<1> DEFINE q == [dev[d] EXCEPT !.phase = "Connected", !.up = TRUE, !.timer = FALSE,
                               !.grace = FALSE]
           out == ToPeer(d, "INIT", 0, 0)
                  \cup (IF dev[d].caller THEN ToPeer(d, "CANCEL", dev[d].sid, 0) ELSE {})
           gone == {}
<1>1. /\ dev[d] \in Stores /\ Coherent(dev[d]) /\ Waiting(dev[d])
      /\ (IceFits => Held(dev[d])) /\ dev[d].gen \in Nat /\ dev[d].engine.ice = "up"
  BY Own DEF Connected
<1>2. dev[d].engine.id # 0
  BY <1>1 DEF Coherent, NoEngine
<1>3. Turn(d, q, out, gone) /\ engines' = engines /\ lost' = lost
  BY StepTurn DEF Connected
<1>4. /\ q \in Stores /\ q.engine = dev[d].engine /\ q.gen = dev[d].gen
      /\ q.peer = dev[d].peer /\ q.offer = dev[d].offer /\ q.phase = "Connected"
  BY <1>1 DEF Stores, InCall
<1> HIDE DEF q
<1>5. dev[d].offer = 0
  BY <1>1, <1>2 DEF Waiting, Coherent, InCall
<1>6. Waiting(q) /\ Held(q) /\ Calm(dev[d], q)
  BY <1>1, <1>4, <1>5 DEF Waiting, Held, Calm, Same
<1>7. Speaks(d, q, out)
  <2>1. Speaks(d, q, ToPeer(d, "INIT", 0, 0))
        /\ Speaks(d, q, ToPeer(d, "CANCEL", dev[d].sid, 0))
    BY <1>1, <1>2, <1>4, <1>6, PeerSpeaks DEF Calm, Described
  <2>2. QED
    BY <2>1, SpeaksBoth, SpeaksNothing
<1>8. Idles(gone) /\ \A m \in gone : m.to = d
  BY DEF Idles
<1> HIDE DEF out, gone
<1>9. QED
  BY <1>3, <1>4, <1>6, <1>7, <1>8, CalmKeeps

LEMMA DisconnectedKeeps ==
  ASSUME IInv, PInv, NEW d \in Devices, Disconnected(d)
  PROVE  PInv'
<1> DEFINE q == [dev[d] EXCEPT !.grace = TRUE]
           gone == {}
<1>1. dev[d] \in Stores /\ Waiting(dev[d]) /\ (IceFits => Held(dev[d]))
  BY Own
<1>2. Turn(d, q, {}, gone) /\ engines' = engines /\ lost' = lost
  BY StepTurn DEF Disconnected
<1>3. /\ q \in Stores /\ q.engine = dev[d].engine /\ q.gen = dev[d].gen
      /\ q.peer = dev[d].peer /\ q.offer = dev[d].offer /\ q.phase = dev[d].phase
      /\ q.localIce = dev[d].localIce
  BY <1>1 DEF Stores
<1> HIDE DEF q
<1>4. Waiting(q) /\ (IceFits => Held(q)) /\ Calm(dev[d], q)
  BY <1>1, <1>3 DEF Waiting, Held, Calm, Same
<1>5. Idles(gone) /\ \A m \in gone : m.to = d
  BY DEF Idles
<1> HIDE DEF gone
<1>6. QED
  BY <1>2, <1>3, <1>4, <1>5, SpeaksNothing, CalmKeeps

\* Two engines that find each other refer to each other: each of them is the
\* other end, and has nothing of an earlier call on its way to it.
LEMMA IceConnectsKeeps ==
  ASSUME IInv, PInv, NEW d \in Devices, NEW e \in Devices, IceConnects(d, e)
  PROVE  PInv'
<1>1. ASSUME NEW x \in Devices
      PROVE  /\ \/ dev'[x] = dev[x]
                \/ x \in {d, e} /\ dev'[x] = [dev[x] EXCEPT !.engine.ice = "up"]
             /\ dev[x] \in Stores /\ dev[x].engine \in Engines /\ Waiting(dev[x])
  BY Own DEF IceConnects, IInv, StoresGood
<1>2. net' = net /\ engines' = engines /\ lost' = lost
  BY DEF IceConnects
<1>3. /\ HasEngine(d) /\ HasEngine(e)
      /\ dev[d].engine.remote = dev[e].engine.id
      /\ dev[e].engine.remote = dev[d].engine.id
  BY DEF IceConnects, Paired
<1>4. ASSUME NEW x \in Devices
      PROVE  /\ dev'[x].phase = dev[x].phase /\ dev'[x].peer = dev[x].peer
             /\ dev'[x].gen = dev[x].gen /\ dev'[x].offer = dev[x].offer
             /\ dev'[x].localIce = dev[x].localIce
             /\ dev'[x].engine.id = dev[x].engine.id
             /\ dev'[x].engine.remote = dev[x].engine.remote
             /\ dev'[x].engine.caller = dev[x].engine.caller
             /\ dev'[x].engine.gathered = dev[x].engine.gathered
             /\ dev'[x].engine.cands = dev[x].engine.cands
             /\ \/ dev'[x].engine.ice = dev[x].engine.ice
                \/ x \in {d, e} /\ dev'[x].engine.ice = "up"
  <2>1. CASE dev'[x] = dev[x]
    BY <2>1
  <2>2. CASE x \in {d, e} /\ dev'[x] = [dev[x] EXCEPT !.engine.ice = "up"]
    <3> DEFINE en == [dev[x].engine EXCEPT !.ice = "up"]
    <3>1. dev[x] \in Stores /\ dev[x].engine \in Engines
      BY <1>1
    <3>2. /\ en.id = dev[x].engine.id /\ en.remote = dev[x].engine.remote
          /\ en.caller = dev[x].engine.caller /\ en.gathered = dev[x].engine.gathered
          /\ en.cands = dev[x].engine.cands /\ en.ice = "up"
      BY <3>1 DEF Engines
    <3>3. dev'[x] = [dev[x] EXCEPT !.engine = en]
      BY <2>2, <3>1 DEF Stores
    <3> HIDE DEF en
    <3>4. QED
      BY <2>2, <3>1, <3>2, <3>3 DEF Stores
  <2>3. QED
    BY <1>1, <2>1, <2>2
<1>5. ASSUME NEW x \in Devices
      PROVE  Waiting(dev'[x]) /\ (Held(dev[x]) => Held(dev'[x]))
  <2>1. x \in {d, e} => dev[x].engine.remote # 0
    BY <1>3 DEF HasEngine
  <2>2. Waiting(dev'[x])
    <3>1. dev[x].engine.caller \in BOOLEAN /\ Waiting(dev[x])
      BY <1>1 DEF Engines
    <3>2. dev'[x].phase = "Outgoing" => dev'[x].engine.caller
      BY <1>4, <3>1 DEF Waiting
    <3>3. dev'[x].engine.ice = "up" => dev'[x].engine.remote # 0
      BY <1>4, <2>1, <3>1 DEF Waiting
    <3>4. dev'[x].phase = "Connected" => dev'[x].engine.ice = "up"
      BY <1>4, <3>1 DEF Waiting
    <3>5. QED
      BY <1>4, <3>1, <3>2, <3>3, <3>4 DEF Waiting
  <2>3. QED
    BY <1>4, <2>2 DEF Held
<1>6. Numbered'
  BY <1>2, <1>4 DEF PInv, Numbered, HasEngine
<1>7. Truthful'
  <2>1. ASSUME NEW m \in net
        PROVE  /\ m.from \in Devices
               /\ Says(m, dev[m.from]) => Says(m, dev'[m.from])
               /\ Names(m, dev[m.from]) => Names(m, dev'[m.from])
    BY <1>4, NetTyped DEF Says, Names
  <2>2. QED
    BY <1>2, <1>4, <2>1 DEF PInv, Truthful
<1>8. ASSUME NEW x \in Devices, NEW y \in Devices
      PROVE  /\ Flushed(x, y) => Flushed(x, y)'
             /\ Linked(x, y)'
             /\ Carried(x, y) => Carried(x, y)'
  <2>1. Flushed(x, y) => Flushed(x, y)'
    BY <1>2, <1>4 DEF Flushed
  <2>2. Flushed(y, x) => Flushed(y, x)'
    BY <1>2, <1>4 DEF Flushed
  <2>3. Linked(x, y)'
    BY <1>4, <2>2 DEF PInv, Linked, HasEngine
  <2>4. Carried(x, y) => Carried(x, y)'
    BY <1>2, <1>4 DEF Carried, HasEngine
  <2>5. QED
    BY <2>1, <2>3, <2>4
<1>9. ASSUME NEW x \in Devices, NEW y \in Devices, {x, y} = {d, e}
      PROVE  Answering(x)'
  <2>1. HasEngine(y) /\ HasEngine(x) /\ dev[x].engine.remote = dev[y].engine.id
        /\ dev[y].engine.remote = dev[x].engine.id
    BY <1>3, <1>9
  <2>2. Flushed(x, y)
    BY <2>1 DEF PInv, Linked
  <2>3. QED
    BY <1>4, <1>8, <2>1, <2>2 DEF Answering, HasEngine
<1>10. ASSUME NEW x \in Devices, x \notin {d, e}, Answering(x)
       PROVE  Answering(x)'
  <2>1. \A m \in net : m.to = x => (FromPeer(m) => FromPeer(m)')
    BY <1>4, NetTyped DEF FromPeer
  <2>2. QED
    BY <1>2, <1>4, <1>8, <1>10, <2>1 DEF Answering, HasEngine
<1>11. AllAnswering => AllAnswering'
  BY <1>9, <1>10 DEF AllAnswering
<1>12. AllCarried => AllCarried'
  BY <1>8 DEF AllCarried
<1>13. QED
  BY <1>2, <1>5, <1>6, <1>7, <1>8, <1>11, <1>12 DEF PInv

-----------------------------------------------------------------------------
(* Signals received, once more.                                             *)

\* The receiver of a signal, once more.
LEMMA Receiver ==
  ASSUME IInv, PInv, NEW m \in net
  PROVE  /\ m.to \in Devices /\ m.from \in Devices /\ m.session \in Nat
         /\ m.ice \in Nat /\ UserOf[m.from] \in Users
         /\ Good(dev[m.to]) /\ dev[m.to] \in Stores /\ Coherent(dev[m.to])
         /\ Waiting(dev[m.to]) /\ (IceFits => Held(dev[m.to]))
BY Received, Own

\* A signal is taken, and that is all.
LEMMA IgnoreKeeps ==
  ASSUME IInv, PInv, NEW m \in net, Ignore(m), engines' = engines, lost' = lost,
         m.type \in {"ICE", "QUIT"} => ~(FromPeer(m) /\ HasEngine(m.to))
  PROVE  PInv'
<1> DEFINE d == m.to
           gone == {m}
<1>1. /\ d \in Devices /\ dev[d] \in Stores /\ Waiting(dev[d])
      /\ (IceFits => Held(dev[d]))
  BY Receiver
<1>2. Turn(d, dev[d], {}, gone)
  BY HandledTurn DEF Ignore
<1>3. Calm(dev[d], dev[d])
  BY DEF Calm, Same
<1>4. Idles(gone) /\ \A n \in gone : n.to = d
  BY DEF Idles
<1> HIDE DEF d, gone
<1>5. QED
  BY <1>1, <1>2, <1>3, <1>4, SpeaksNothing, CalmKeeps

LEMMA DismissKeeps ==
  ASSUME IInv, PInv, NEW m \in net, Handled(m, Reset(dev[m.to]), {}),
         engines' = engines, lost' = lost, Ringing(m)
  PROVE  PInv'
<1> DEFINE d == m.to
           gone == {m}
<1>1. d \in Devices /\ Coherent(dev[d])
  BY Receiver
<1>2. ~HasEngine(d)
  BY <1>1 DEF Ringing, HasEngine, Coherent, InCall
<1>3. Turn(d, Reset(dev[d]), {}, gone)
  BY HandledTurn
<1>4. \A n \in gone : n.to = d
  OBVIOUS
<1> HIDE DEF d, gone
<1>5. QED
  BY <1>1, <1>2, <1>3, <1>4, SpeaksNothing, ResetKeeps

LEMMA RemoteEndKeeps ==
  ASSUME IInv, PInv, NEW m \in net, NEW reason, RemoteEnd(m, reason),
         engines' = engines, lost' = lost, m.type \in {"QUIT", "TIMEOUT", "JOINED"}
  PROVE  PInv'
<1>1. m.to \in Devices /\ Good(dev[m.to]) /\ Coherent(dev[m.to]) /\ dev[m.to].gen \in Nat
  BY Receiver, Own
<1>2. CASE FromPeer(m) /\ dev[m.to].phase # "Idle"
  <2> DEFINE d == m.to
             out == Farewell(d, reason, FALSE)
             gone == {m}
  <2>1. Turn(d, Reset(dev[d]), out, gone)
    BY <1>2, HandledTurn DEF RemoteEnd
  <2>2. Speaks(d, Reset(dev[d]), out)
    BY <1>1, FarewellSpeaks, ResetOver DEF Over
  <2>3. \E n \in net : /\ n.to = d /\ FromPeer(n)
                       /\ n.type \in {"QUIT", "TIMEOUT", "JOINED"}
    BY <1>2
  <2>4. d \in Devices /\ \A n \in gone : n.to = d
    BY <1>1
  <2> HIDE DEF d, out, gone
  <2>5. QED
    BY <2>1, <2>2, <2>3, <2>4, ResetKeeps
<1>3. CASE ~(FromPeer(m) /\ dev[m.to].phase # "Idle")
  <2>1. ~(FromPeer(m) /\ HasEngine(m.to))
    BY <1>1, <1>3 DEF HasEngine, Coherent, InCall
  <2>2. QED
    BY <1>3, <2>1, IgnoreKeeps DEF RemoteEnd
<1>4. QED
  BY <1>2, <1>3

LEMMA DismissalsKeep ==
  ASSUME IInv, PInv, NEW m \in net, MessageFrame,
         OnInit(m) \/ OnCancel(m) \/ OnLog(m) \/ OnQuit(m) \/ OnTimeout(m) \/ OnJoined(m)
  PROVE  PInv'
<1>1. engines' = engines /\ lost' = lost
  BY DEF MessageFrame
<1>2. CASE OnInit(m) \/ OnCancel(m) \/ OnLog(m)
  <2>1. m.type \notin {"ICE", "QUIT"}
    BY <1>2 DEF OnInit, OnCancel, OnLog
  <2>2. \/ Ignore(m)
        \/ Ringing(m) /\ Handled(m, Reset(dev[m.to]), {})
    BY <1>2 DEF OnInit, OnCancel, OnLog
  <2>3. QED
    BY <1>1, <2>1, <2>2, IgnoreKeeps, DismissKeeps
<1>3. CASE OnQuit(m)
  BY <1>1, <1>3, RemoteEndKeeps DEF OnQuit
<1>4. CASE OnTimeout(m) \/ OnJoined(m)
  <2>1. m.type \in {"TIMEOUT", "JOINED"}
    BY <1>4 DEF OnTimeout, OnJoined
  <2>2. Ignore(m) \/ \E reason \in {"Timeout", "Busy"} : RemoteEnd(m, reason)
    BY <1>4 DEF OnTimeout, OnJoined
  <2>3. QED
    BY <1>1, <2>1, <2>2, IgnoreKeeps, RemoteEndKeeps
<1>5. QED
  BY <1>2, <1>3, <1>4

LEMMA OnOfferKeeps ==
  ASSUME IInv, PInv, NEW m \in net, Deliverable(m), MessageFrame, OnOffer(m)
  PROVE  PInv'
<1> DEFINE u == UserOf[m.from]
           d == m.to
           k == Remember(dev[d], u, m.session)
           q == [k EXCEPT !.gen = @ + 1, !.peer = u, !.caller = FALSE,
                          !.offer = m.session, !.up = FALSE, !.phase = "Incoming",
                          !.timer = TRUE]
           out == SignalTo(d, DevicesOf(u), u, "JOINED", 0, 0)
           gone == {m}
<1>1. /\ d \in Devices /\ dev[d] \in Stores /\ Coherent(dev[d]) /\ Waiting(dev[d])
      /\ (IceFits => Held(dev[d])) /\ Good(dev[d])
      /\ u \in Users /\ m.session \in Nat /\ dev[d].gen \in Nat
  BY Receiver, Own
<1>2. m.type = "OFFER" /\ engines' = engines /\ lost' = lost
  BY DEF OnOffer, MessageFrame
<1>3. CASE Ignore(m)
  BY <1>2, <1>3, IgnoreKeeps
<1>4. \A n \in gone : n.to = d /\ n.type = "OFFER"
  BY <1>2
<1>5. CASE dev[d].phase # "Idle" /\ Handled(m, dev[d], out)
  <2>1. Turn(d, dev[d], out, gone)
    BY <1>5, HandledTurn
  <2>2. dev[d].peer # u
    BY <1>5 DEF OnOffer, FromPeer
  <2>3. Speaks(d, dev[d], out)
    BY <1>1, <2>2 DEF Speaks, SignalTo, DevicesOf, Says, Described
  <2>4. Calm(dev[d], dev[d])
    BY DEF Calm, Same
  <2>5. Idles(gone)
    BY <1>4 DEF Idles
  <2> HIDE DEF out, gone, d
  <2>6. QED
    BY <1>1, <1>2, <1>4, <2>1, <2>3, <2>4, <2>5, CalmKeeps
<1>6. CASE dev[d].phase = "Idle" /\ Handled(m, q, {})
  <2>1. Turn(d, q, {}, gone)
    BY <1>6, HandledTurn
  <2>2. Good(k) /\ Kept(dev[d], k)
    BY <1>1, RememberGood
  <2>3. k \in Stores /\ k.gen = dev[d].gen /\ k.engine = dev[d].engine /\ k.gen + 1 \in Nat
    BY <1>1, <2>2 DEF Good, Kept
  <2>4. dev[d].engine = NoEngine /\ dev[d].engine.id = 0
    BY <1>1, <1>6 DEF Coherent, InCall
  <2> HIDE DEF k
  <2>5. /\ q \in Stores /\ q.gen = dev[d].gen + 1 /\ q.engine = NoEngine
        /\ q.offer = m.session /\ q.peer = u /\ q.phase = "Incoming"
    BY <1>1, <2>3, <2>4 DEF Stores
  <2> HIDE DEF q
  <2>6. NoEngine.id = 0 /\ NoEngine.remote = 0 /\ NoEngine.ice = "new"
    BY DEF NoEngine
  <2>7. Waiting(q) /\ Held(q)
    BY <2>5, <2>6 DEF Waiting, Held
  <2>8. Learns(d, q, q.offer)
    BY <1>2, <2>5 DEF Learns
  <2>9. Succeeds(dev[d], q)
    BY <1>2, <2>5, <2>6 DEF Succeeds, Over
  <2>10. Lawful(d, q, {})
    BY <2>5, <2>6, <2>8, <2>9, SpeaksNothing DEF Lawful
  <2>11. ~Same(dev[d], q)
    BY <1>1, <2>5 DEF Same
  <2>12. Carries(d, q, {}, gone)
    BY <1>4, <2>5, <2>6, <2>11 DEF Carries
  <2>13. Leaves(d, q, {}, gone)
    BY <1>4, <2>4, <2>5, <2>6 DEF Leaves, HasEngine
  <2> HIDE DEF d, gone
  <2>14. QED
    BY <1>1, <1>2, <2>1, <2>5, <2>7, <2>10, <2>12, <2>13, TurnKeeps
<1>7. QED
  BY <1>3, <1>5, <1>6 DEF OnOffer

\* What a remembered session leaves of the store.
LEMMA RememberKeeps ==
  ASSUME IInv, PInv, NEW m \in net
  PROVE  LET r == Remember(dev[m.to], UserOf[m.from], m.session)
         IN  /\ Good(r) /\ r \in Stores /\ Kept(dev[m.to], r) /\ Waiting(r)
             /\ (IceFits => Held(r)) /\ Calm(dev[m.to], r)
<1> DEFINE r == Remember(dev[m.to], UserOf[m.from], m.session)
<1>1. Good(r) /\ Kept(dev[m.to], r)
  BY Receiver, RememberGood
<1>2. Waiting(dev[m.to]) /\ (IceFits => Held(dev[m.to]))
  BY Receiver
<1> HIDE DEF r
<1>3. Waiting(r) /\ (IceFits => Held(r)) /\ Calm(dev[m.to], r) /\ r \in Stores
  BY <1>1, <1>2 DEF Kept, Waiting, Held, Calm, Same, Good
<1>4. QED
  BY <1>1, <1>3 DEF r

\* A description that goes no further than the sessions the store remembers.
LEMMA RememberedKeeps ==
  ASSUME IInv, PInv, NEW m \in net, MessageFrame, m.type \in {"OFFER", "ANSWER"},
         Handled(m, Remember(dev[m.to], UserOf[m.from], m.session), {})
  PROVE  PInv'
<1> DEFINE d == m.to
           r == Remember(dev[d], UserOf[m.from], m.session)
           gone == {m}
<1>1. /\ r \in Stores /\ Kept(dev[d], r) /\ Waiting(r) /\ (IceFits => Held(r))
      /\ Calm(dev[d], r)
  BY RememberKeeps
<1>2. Turn(d, r, {}, gone) /\ engines' = engines /\ lost' = lost
  BY HandledTurn DEF MessageFrame
<1>3. Idles(gone) /\ \A n \in gone : n.to = d
  BY DEF Idles
<1>4. d \in Devices
  BY Receiver
<1> HIDE DEF d, r, gone
<1>5. QED
  BY <1>1, <1>2, <1>3, <1>4, SpeaksNothing, CalmKeeps DEF Kept

\* A description that is not a candidate or a farewell is taken by its receiver,
\* which learns at most the session it names.
LEMMA DescriptionKeeps ==
  ASSUME IInv, PInv, NEW m \in net, Deliverable(m), m.type \in {"OFFER", "ANSWER"},
         FromPeer(m), HasEngine(m.to), NEW q \in Stores, NEW out, Handled(m, q, out),
         Same(dev[m.to], q), q.engine.ice = dev[m.to].engine.ice,
         q.engine.remote \in {dev[m.to].engine.remote, m.session},
         q.engine.cands = dev[m.to].engine.cands, q.offer = dev[m.to].offer,
         Speaks(m.to, q, out), Waiting(q), IceFits => Held(q),
         IceFits => \A c \in 1 .. q.engine.gathered :
            \/ /\ q.engine.remote = dev[m.to].engine.remote
               /\ c \in 1 .. dev[m.to].engine.gathered
            \/ \A t \in DevicesOf(q.peer) :
                  \E n \in out : n.type = "ICE" /\ n.to = t /\ n.ice = c
                                 /\ n.session = q.engine.id,
         engines' = engines, lost' = lost
  PROVE  PInv'
<1> DEFINE d == m.to
           gone == {m}
<1>1. d \in Devices
  BY Receiver
<1>2. Turn(d, q, out, gone)
  BY HandledTurn
<1>3. q.peer = UserOf[m.from]
  BY DEF Same, FromPeer
<1>4. /\ Learns(d, q, q.engine.remote)
      /\ Learns(d, q, q.offer)
  BY <1>3 DEF Learns, Same
<1>5. Lawful(d, q, out)
  BY <1>4 DEF Lawful, Succeeds
<1>6. \A n \in gone : n.type \notin {"ICE", "QUIT"}
  OBVIOUS
<1>7. IceFits => Carries(d, q, out, gone)
  BY <1>6 DEF Carries
<1>8. Leaves(d, q, out, gone)
  BY <1>6 DEF Leaves
<1> HIDE DEF d, gone
<1>9. QED
  BY <1>1, <1>2, <1>5, <1>7, <1>8, TurnKeeps

LEMMA OnReofferKeeps ==
  ASSUME IInv, PInv, NEW m \in net, Deliverable(m), MessageFrame, OnReoffer(m)
  PROVE  PInv'
<1> DEFINE d == m.to
           r == Remember(dev[d], UserOf[m.from], m.session)
<1>1. /\ r \in Stores /\ Kept(dev[d], r) /\ Waiting(r) /\ (IceFits => Held(r))
      /\ Good(r)
  BY RememberKeeps
<1>2. /\ m.type = "OFFER" /\ FromPeer(m) /\ engines' = engines /\ lost' = lost
      /\ d \in Devices
  BY Receiver DEF OnReoffer, MessageFrame
<1>3. \/ Handled(m, r, {})
      \/ /\ HasEngine(d)
         /\ \E e \in ApplyOffer(r.engine, m.session) :
               Handled(m, [r EXCEPT !.engine = e], {})
  BY DEF OnReoffer
<1>4. CASE Handled(m, r, {})
  BY <1>2, <1>4, RememberedKeeps
<1> HIDE DEF r
<1>5. ASSUME HasEngine(d), NEW e \in ApplyOffer(r.engine, m.session),
             Handled(m, [r EXCEPT !.engine = e], {})
      PROVE  PInv'
  <2> DEFINE q == [r EXCEPT !.engine = e]
             en == r.engine
  <2>1. en \in Engines /\ en = dev[d].engine /\ m.session \in Nat /\ m.session # 0
    <3>1. m.session \in 1 .. engines /\ m.session \in Nat
      BY <1>2, Receiver DEF PInv, Truthful, Described
    <3>2. QED
      BY <1>1, <3>1 DEF Stores, Kept
  <2>2. /\ e \in Engines /\ e.id = en.id
        /\ e.ice = en.ice /\ e.cands = en.cands /\ e.caller = en.caller
        /\ \/ e.remote = en.remote /\ e.gathered = en.gathered
           \/ e.remote = m.session /\ e.gathered = 0 /\ ~(en.caller /\ en.remote = 0)
    <3>1. e \in Engines /\ e.id = en.id
      BY <1>5, <2>1, ApplyTyped
    <3> DEFINE a == [en EXCEPT !.remote = m.session, !.answers = @ + 1]
    <3>2. \/ e = en
          \/ e = a /\ en.remote = m.session
          \/ e = [a EXCEPT !.gathered = 0] /\ ~(en.caller /\ en.remote = 0)
      BY <1>5 DEF ApplyOffer
    <3> HIDE DEF en
    <3>3. /\ a.remote = m.session /\ a.gathered = en.gathered /\ a.ice = en.ice
          /\ a.cands = en.cands /\ a.caller = en.caller
      BY <2>1 DEF Engines
    <3>4. LET b == [a EXCEPT !.gathered = 0]
          IN  /\ b.remote = m.session /\ b.gathered = 0 /\ b.ice = en.ice
              /\ b.cands = en.cands /\ b.caller = en.caller
      BY <2>1 DEF Engines
    <3> HIDE DEF a
    <3>5. QED
      BY <3>1, <3>2, <3>3, <3>4
  <2>3. /\ q \in Stores /\ q.engine = e /\ q.gen = dev[d].gen /\ q.peer = dev[d].peer
        /\ q.offer = dev[d].offer /\ q.phase = r.phase /\ q.localIce = r.localIce
    BY <1>1, <2>2 DEF Stores, Kept
  <2>4. Handled(m, q, {})
    BY <1>5
  <2> HIDE DEF q
  <2>5. Same(dev[d], q)
    BY <2>1, <2>2, <2>3 DEF Same
  <2>6. Waiting(q) /\ (IceFits => Held(q))
    <3>1. en.id # 0
      BY <1>5, <2>1 DEF HasEngine
    <3>2. r.phase = "Outgoing" => e.remote = en.remote /\ e.gathered = en.gathered
      BY <1>1, <2>2 DEF Waiting
    <3>3. r.phase # "Outgoing" => e.remote # 0
      BY <1>1, <2>1, <2>2, <3>1 DEF Waiting
    <3>4. en.caller \in BOOLEAN
      BY <2>1 DEF Engines
    <3>5. r.phase = "Outgoing" => e.caller
      BY <1>1, <2>2, <3>4 DEF Waiting
    <3> HIDE DEF en
    <3>6. Waiting(q)
      BY <1>1, <2>2, <2>3, <3>1, <3>2, <3>3, <3>5 DEF Waiting, Kept, en
    <3>7. IceFits => Held(q)
      BY <1>1, <2>2, <2>3, <3>2 DEF Held, en
    <3>8. QED
      BY <3>6, <3>7
  <2>7. \A c \in 1 .. q.engine.gathered :
           /\ q.engine.remote = dev[d].engine.remote
           /\ c \in 1 .. dev[d].engine.gathered
    BY <2>1, <2>2, <2>3
  <2>8. /\ q.engine.ice = dev[d].engine.ice /\ q.engine.cands = dev[d].engine.cands
        /\ q.engine.remote \in {dev[d].engine.remote, m.session}
    BY <2>1, <2>2, <2>3
  <2>9. Speaks(d, q, {})
    BY SpeaksNothing
  <2>10. QED
    BY <1>2, <1>5, <2>3, <2>4, <2>5, <2>6, <2>7, <2>8, <2>9, DescriptionKeeps
<1>6. QED
  BY <1>3, <1>4, <1>5

LEMMA OnAnswerKeeps ==
  ASSUME IInv, PInv, NEW m \in net, Deliverable(m), MessageFrame, OnAnswer(m)
  PROVE  PInv'
<1> DEFINE d == m.to
           r == Remember(dev[d], UserOf[m.from], m.session)
           q == [r EXCEPT !.engine = ApplyAnswer(@, m.session),
                          !.phase = "Connecting", !.localIce = {}, !.timer = TRUE]
           out == UNION {ToPeer(d, "ICE", r.engine.id, c) : c \in r.localIce}
<1>1. /\ r \in Stores /\ Kept(dev[d], r) /\ Waiting(r) /\ (IceFits => Held(r))
      /\ Good(r)
  BY RememberKeeps
<1>2. /\ m.type = "ANSWER" /\ engines' = engines /\ lost' = lost
      /\ d \in Devices /\ dev[d].gen \in Nat
  BY Receiver, Own DEF OnAnswer, MessageFrame
<1>3. \/ /\ FromPeer(m) /\ r.phase \in {"Outgoing", "Connecting"}
         /\ Handled(m, q, out)
      \/ Handled(m, r, {})
  BY DEF OnAnswer, Handled
<1>4. CASE Handled(m, r, {})
  BY <1>2, <1>4, RememberedKeeps
<1> HIDE DEF r
<1>5. CASE /\ FromPeer(m) /\ r.phase \in {"Outgoing", "Connecting"}
           /\ Handled(m, q, out)
  <2> DEFINE en == r.engine
             e == ApplyAnswer(en, m.session)
  <2>1. /\ en \in Engines /\ en = dev[d].engine /\ m.session \in Nat /\ m.session # 0
        /\ en.id # 0
    <3>1. m.session \in 1 .. engines /\ m.session \in Nat
      BY <1>2, Receiver DEF PInv, Truthful, Described
    <3>2. QED
      BY <1>1, <1>5, <3>1 DEF Stores, Kept, Good, Coherent, InCall
  <2>2. /\ e \in Engines /\ e.id = en.id /\ e.ice = en.ice /\ e.cands = en.cands
        /\ e.gathered = en.gathered /\ e.remote # 0
        /\ e.remote = en.remote \/ (e.remote = m.session /\ en.remote = 0)
    BY <2>1 DEF ApplyAnswer, Engines
  <2>3. q = [r EXCEPT !.engine = e, !.phase = "Connecting", !.localIce = {},
                      !.timer = TRUE]
    OBVIOUS
  <2> HIDE DEF e, q
  <2>4. /\ q \in Stores /\ q.engine = e /\ q.gen = dev[d].gen /\ q.peer = dev[d].peer
        /\ q.offer = dev[d].offer /\ q.phase = "Connecting"
    BY <1>1, <2>2, <2>3 DEF Stores, Kept, InCall
  <2>5. Same(dev[d], q)
    BY <2>1, <2>2, <2>4 DEF Same
  <2>6. dev[d].offer = 0
    BY <1>1, <1>5 DEF Waiting, Kept
  <2>7. Waiting(q) /\ Held(q)
    BY <2>1, <2>2, <2>4, <2>6 DEF Waiting, Held
  <2>8. Speaks(d, q, out)
    <3>1. q.engine.id = r.engine.id /\ q.engine.id # 0
      BY <2>1, <2>2, <2>4
    <3>2. \A c \in r.localIce : Speaks(d, q, ToPeer(d, "ICE", r.engine.id, c))
      BY <1>2, <2>5, <3>1, PeerSpeaks
    <3>3. QED
      BY <3>2 DEF Speaks
  <2>9. ASSUME IceFits, NEW c \in 1 .. q.engine.gathered
        PROVE  \/ /\ q.engine.remote = dev[d].engine.remote
                  /\ c \in 1 .. dev[d].engine.gathered
               \/ \A t \in DevicesOf(q.peer) :
                     \E n \in out : n.type = "ICE" /\ n.to = t /\ n.ice = c
                                    /\ n.session = q.engine.id
    <3>1. CASE en.remote # 0
      BY <2>1, <2>2, <2>4, <2>9, <3>1
    <3>2. CASE en.remote = 0
      <4>1. c \in r.localIce
        BY <1>1, <2>1, <2>2, <2>4, <2>9, <3>2 DEF Waiting, Held
      <4>2. ToPeer(d, "ICE", r.engine.id, c) \subseteq out
        BY <4>1
      <4>3. \A t \in DevicesOf(q.peer) :
               \E n \in ToPeer(d, "ICE", r.engine.id, c) :
                  n.type = "ICE" /\ n.to = t /\ n.session = r.engine.id /\ n.ice = c
        BY <2>4, SentToAll
      <4> HIDE DEF out
      <4>4. QED
        BY <2>2, <2>4, <4>2, <4>3
    <3>3. QED
      BY <3>1, <3>2
  <2>10. /\ q.engine.ice = dev[d].engine.ice /\ q.engine.cands = dev[d].engine.cands
         /\ q.engine.remote \in {dev[d].engine.remote, m.session}
    BY <2>1, <2>2, <2>4
  <2>11. HasEngine(d)
    BY <2>1 DEF HasEngine
  <2> HIDE DEF out, en
  <2>12. QED
    BY <1>2, <1>5, <2>4, <2>5, <2>7, <2>8, <2>9, <2>10, <2>11, DescriptionKeeps
<1>6. QED
  BY <1>3, <1>4, <1>5

LEMMA OnIceKeeps ==
  ASSUME IInv, PInv, NEW m \in net, MessageFrame, OnIce(m)
  PROVE  PInv'
<1> DEFINE d == m.to
           c == <<m.session, m.ice>>
           q == [dev[d] EXCEPT !.engine.cands = @ \cup {c}]
           p == [dev[d] EXCEPT !.remoteIce = @ \cup {c}]
           gone == {m}
<1>1. /\ d \in Devices /\ dev[d] \in Stores /\ Waiting(dev[d]) /\ c \in Candidates
      /\ (IceFits => Held(dev[d])) /\ dev[d].engine \in Engines
  BY Receiver, Own DEF Candidates
<1>2. m.type = "ICE" /\ engines' = engines /\ lost' = lost
  BY DEF OnIce, MessageFrame
<1>3. \/ Ignore(m) /\ ~(FromPeer(m) /\ HasEngine(d))
      \/ HasEngine(d) /\ Handled(m, q, {})
      \/ ~HasEngine(d) /\ Handled(m, p, {})
  BY DEF OnIce
<1>4. CASE Ignore(m) /\ ~(FromPeer(m) /\ HasEngine(d))
  BY <1>2, <1>4, IgnoreKeeps
<1>5. \A n \in gone : n.to = d /\ n.type = "ICE" /\ <<n.session, n.ice>> = c
  BY <1>2
<1> HIDE DEF c
<1>6. CASE HasEngine(d) /\ Handled(m, q, {})
  <2> DEFINE e == [dev[d].engine EXCEPT !.cands = @ \cup {c}]
  <2>1. /\ e \in Engines /\ e.id = dev[d].engine.id /\ e.remote = dev[d].engine.remote
        /\ e.ice = dev[d].engine.ice /\ e.gathered = dev[d].engine.gathered
        /\ e.caller = dev[d].engine.caller /\ e.cands = dev[d].engine.cands \cup {c}
    BY <1>1 DEF Engines
  <2>2. q = [dev[d] EXCEPT !.engine = e]
    BY <1>1 DEF Stores
  <2>3. Turn(d, q, {}, gone)
    BY <1>6, HandledTurn
  <2> HIDE DEF e, q, gone
  <2>4. /\ q \in Stores /\ q.engine = e /\ q.gen = dev[d].gen /\ q.peer = dev[d].peer
        /\ q.offer = dev[d].offer /\ q.phase = dev[d].phase
        /\ q.localIce = dev[d].localIce
    BY <1>1, <2>1, <2>2 DEF Stores
  <2>5. Calm(dev[d], q)
    BY <2>1, <2>4 DEF Calm, Same
  <2>6. Waiting(q) /\ (IceFits => Held(q))
    BY <1>1, <2>1, <2>4 DEF Waiting, Held
  <2>7. Lawful(d, q, {})
    BY <1>2, <2>5, SpeaksNothing DEF Lawful, Succeeds, Calm, Same, Learns
  <2>8. Carries(d, q, {}, gone)
    BY <1>5, <2>1, <2>4, <2>5 DEF Carries, Calm
  <2>9. Leaves(d, q, {}, gone)
    BY <1>5, <2>5 DEF Leaves, Calm
  <2> HIDE DEF d
  <2>10. QED
    BY <1>1, <1>2, <2>3, <2>4, <2>6, <2>7, <2>8, <2>9, TurnKeeps
<1>7. CASE ~HasEngine(d) /\ Handled(m, p, {})
  <2>1. Turn(d, p, {}, gone)
    BY <1>7, HandledTurn
  <2>2. Idles(gone)
    BY <1>5, <1>7 DEF Idles
  <2> HIDE DEF gone
  <2>3. /\ p \in Stores /\ p.engine = dev[d].engine /\ p.gen = dev[d].gen
        /\ p.peer = dev[d].peer /\ p.offer = dev[d].offer /\ p.phase = dev[d].phase
        /\ p.localIce = dev[d].localIce
    BY <1>1 DEF Stores
  <2> HIDE DEF p
  <2>4. Calm(dev[d], p) /\ Waiting(p) /\ (IceFits => Held(p))
    BY <1>1, <2>3 DEF Calm, Same, Waiting, Held
  <2> HIDE DEF d
  <2>5. QED
    BY <1>1, <1>2, <1>5, <2>1, <2>2, <2>3, <2>4, SpeaksNothing, CalmKeeps
<1>8. QED
  BY <1>3, <1>4, <1>6, <1>7

LEMMA DeliverKeeps ==
  ASSUME IInv, PInv, NEW m \in net, Deliver(m)
  PROVE  PInv'
<1>1. MessageFrame /\ Deliverable(m)
  BY DEF Deliver, MessageFrame
<1>2. QED
  BY <1>1, DismissalsKeep, OnOfferKeeps, OnReofferKeeps, OnAnswerKeeps, OnIceKeeps
     DEF Deliver

LEMMA LoseKeeps ==
  ASSUME IInv, PInv, NEW m \in net, Lose(m)
  PROVE  PInv'
<1> DEFINE d == m.to
           gone == {m}
<1>1. /\ d \in Devices /\ dev[d] \in Stores /\ Waiting(dev[d])
      /\ (IceFits => Held(dev[d]))
  BY Receiver
<1>2. Turn(d, dev[d], {}, gone) /\ engines' = engines
  BY DEF Lose, Turn, IInv, StoresGood
<1>3. lost' # 0
  BY DEF Lose, IInv, RestTyped
<1>4. Calm(dev[d], dev[d]) /\ \A n \in gone : n.to = d
  BY DEF Calm, Same
<1> HIDE DEF d, gone
<1>5. QED
  BY <1>1, <1>2, <1>3, <1>4, SpeaksNothing, CalmKeeps

LEMMA ReofferKeeps ==
  ASSUME IInv, PInv, NEW d \in Devices, Reoffer(d)
  PROVE  PInv'
<1> DEFINE out == ToPeer(d, "OFFER", dev[d].engine.id, 0)
           gone == {}
<1>1. /\ dev[d] \in Stores /\ Waiting(dev[d]) /\ (IceFits => Held(dev[d]))
      /\ Coherent(dev[d]) /\ dev[d].gen \in Nat
  BY Own
<1>2. Turn(d, dev[d], out, gone) /\ engines' = engines /\ lost' = lost
  BY DEF Reoffer, Turn, IInv, StoresGood
<1>3. dev[d].engine.id # 0
  BY <1>1 DEF Reoffer, Coherent, InCall
<1>4. Calm(dev[d], dev[d]) /\ Idles(gone) /\ \A m \in gone : m.to = d
  BY DEF Calm, Same, Idles
<1>5. Speaks(d, dev[d], out)
  BY <1>1, <1>3, <1>4, PeerSpeaks DEF Calm
<1> HIDE DEF out, gone
<1>6. QED
  BY <1>1, <1>2, <1>4, <1>5, CalmKeeps

LEMMA InitKept == Init => PInv
<1> SUFFICES ASSUME Init PROVE PInv
  OBVIOUS
<1>1. \A d \in Devices : dev[d] = IdleStore
  BY DEF Init
<1>2. /\ IdleStore.phase = "Idle" /\ IdleStore.engine.id = 0 /\ IdleStore.offer = 0
      /\ IdleStore.engine.remote = 0 /\ IdleStore.engine.ice = "new"
      /\ IdleStore.localIce = {}
  BY DEF IdleStore, NoEngine
<1>3. net = {} /\ engines = 0
  BY DEF Init
<1> HIDE DEF IdleStore
<1>4. Waiting(IdleStore) /\ Held(IdleStore)
  BY <1>2 DEF Waiting, Held
<1>5. Numbered /\ Truthful
  BY <1>1, <1>2, <1>3 DEF Numbered, Truthful, HasEngine
<1>6. \A d, e \in Devices : Linked(d, e) /\ Carried(d, e) /\ Answering(d)
  BY <1>1, <1>2 DEF Linked, Carried, Answering, HasEngine
<1>7. QED
  BY <1>1, <1>4, <1>5, <1>6 DEF PInv, AllCarried, AllAnswering

LEMMA StepKeeps == IInv /\ PInv /\ [Next]_vars => PInv'
<1> SUFFICES ASSUME IInv, PInv, [Next]_vars PROVE PInv'
  OBVIOUS
<1>1. CASE UNCHANGED vars
  BY <1>1 DEF vars, PInv, Numbered, Truthful, Linked, Flushed, AllCarried, Carried,
     AllAnswering, Answering, HasEngine, FromPeer
<1>2. ASSUME NEW d \in Devices, NEW u \in Users, StartCall(d, u) PROVE PInv'
  BY <1>2, StartCallKeeps
<1>3. ASSUME NEW l \in logs, LogAnswered(l) PROVE PInv'
  BY <1>3, LogAnsweredKeeps
<1>4. ASSUME NEW d \in Devices,
             \/ Accept(d) \/ AcceptWithoutAccount(d) \/ Hangup(d)
             \/ LocalOffer(d) \/ LocalAnswer(d) \/ LocalIce(d)
             \/ Connected(d) \/ Disconnected(d) \/ EngineFails(d)
             \/ NoAnswer(d) \/ GraceOver(d) \/ Reoffer(d)
      PROVE  PInv'
  <2>1. CASE Hangup(d) \/ EngineFails(d) \/ NoAnswer(d) \/ GraceOver(d)
    BY <2>1, EndCallKeeps DEF Hangup, EngineFails, NoAnswer, GraceOver
  <2>2. CASE Accept(d) \/ AcceptWithoutAccount(d)
    BY <2>2, AcceptKeeps, AcceptWithoutAccountKeeps
  <2>3. CASE LocalOffer(d) \/ LocalAnswer(d) \/ LocalIce(d)
    BY <2>3, LocalDescriptionKeeps, LocalIceKeeps
  <2>4. CASE Connected(d) \/ Disconnected(d) \/ Reoffer(d)
    BY <2>4, ConnectedKeeps, DisconnectedKeeps, ReofferKeeps
  <2>5. QED
    BY <1>4, <2>1, <2>2, <2>3, <2>4
<1>5. ASSUME NEW d \in Devices, NEW e \in Devices, IceConnects(d, e) PROVE PInv'
  BY <1>5, IceConnectsKeeps
<1>6. ASSUME NEW m \in net, Deliver(m) \/ Lose(m) PROVE PInv'
  BY <1>6, DeliverKeeps, LoseKeeps
<1>7. QED
  BY <1>1, <1>2, <1>3, <1>4, <1>5, <1>6 DEF Next

LEMMA PairInvariance == Spec => [](IInv /\ PInv)
<1>1. Init => IInv /\ PInv
  BY InitGood, InitKept
<1>2. IInv /\ PInv /\ [Next]_vars => (IInv /\ PInv)'
  BY StepGood, StepKeeps
<1>3. QED
  BY <1>1, <1>2, PTL DEF Spec

\* With a buffer that holds what an engine gathers, no candidate falls between
\* the two ends of a call, in whatever order calls, accepts, signals and
\* farewells of the devices of all users come.
THEOREM CandidatesAlwaysKept == IceFits /\ Spec => []CandidatesKept
<1> SUFFICES ASSUME IceFits PROVE Spec => []CandidatesKept
  OBVIOUS
<1>1. ASSUME IInv, PInv, lost = 0, NEW d \in Devices, NEW e \in Devices,
             Expects(e, d), NEW c \in 1 .. dev[d].engine.gathered
      PROVE  \/ c \in dev[d].localIce
             \/ <<dev[d].engine.id, c>> \in dev[e].engine.cands
             \/ \E m \in net : m.type = "ICE" /\ m.to = e
                               /\ m.session = dev[d].engine.id /\ m.ice = c
  <2>1. CASE HasEngine(d) /\ dev[d].engine.remote = 0
    BY <1>1, <2>1 DEF PInv, Waiting, Held, HasEngine
  <2>2. CASE HasEngine(e) /\ dev[d].engine.remote = dev[e].engine.id
    BY <1>1, <2>2 DEF PInv, AllCarried, Carried
  <2>3. QED
    BY <1>1, <2>1, <2>2 DEF Expects, Paired
<1>2. IInv /\ PInv => CandidatesKept
  BY <1>1 DEF CandidatesKept
<1>3. QED
  BY <1>2, PairInvariance, PTL

\* Nobody goes on talking to a call that is over: as long as no signal is lost,
\* the other end of a call that is up is there, or its QUIT is on its way.
THEOREM NoZombieEver == OneDevice /\ Spec => []NoZombie
<1> SUFFICES ASSUME OneDevice PROVE Spec => []NoZombie
  OBVIOUS
<1>1. IInv /\ PInv => NoZombie
  BY DEF PInv, AllAnswering, Answering, Waiting, NoZombie
<1>2. QED
  BY <1>1, PairInvariance, PTL

-----------------------------------------------------------------------------
(* A device rings once for a call: a session is of one user for ever, so an *)
(* offer that comes again is recognised as long as the store remembers it.  *)

Descriptions == {"OFFER", "ANSWER"}

\* The user u has, or had, an engine with the session s.
Belongs(u, s) ==
    \/ \E d \in Devices : HasEngine(d) /\ u = UserOf[d] /\ s = dev[d].engine.id
    \/ \E m \in net : /\ m.type \in Descriptions
                      /\ u = UserOf[m.from] /\ s = m.session
    \/ \E d \in Devices : Known(dev[d], u, s)

\* Inductive as long as nothing is forgotten.
RInv ==
    /\ \A u \in Users, s \in Nat : Belongs(u, s) => 0 < s /\ s <= engines
    /\ \A u, v \in Users, s \in Nat : Belongs(u, s) /\ Belongs(v, s) => u = v
    /\ \A d \in Devices : \A s \in rung[d] : \E u \in Users : Known(dev[d], u, s)

\* No store drops a session to remember another.
Remembers ==
    \A d \in Devices : \A u \in Users, s \in Nat :
        Known(dev[d], u, s) => Known(dev'[d], u, s)

\* The descriptions that d sends are of its own engine.
Mine(d, out) ==
    \A m \in out : /\ m.from = d
                   /\ m.type \in Descriptions
                      => HasEngine(d) /\ m.session = dev[d].engine.id

LEMMA MineToPeer ==
  ASSUME NEW d, NEW type, NEW s, NEW i,
         type \in Descriptions => HasEngine(d) /\ s = dev[d].engine.id
  PROVE  Mine(d, ToPeer(d, type, s, i))
BY DEF Mine, ToPeer, SignalTo

LEMMA MineFarewell ==
  ASSUME NEW d, NEW reason, NEW notify
  PROVE  Mine(d, Farewell(d, reason, notify))
BY DEF Mine, Farewell, TerminalLog, ToPeer, SignalTo, Descriptions

LEMMA RememberedOnly ==
  ASSUME NEW r, r.known \in Seq(Users \X Nat), NEW u \in Users, NEW s \in Nat
  PROVE  /\ Known(Remember(r, u, s), u, s)
         /\ \A v, t : Known(Remember(r, u, s), v, t)
                      => Known(r, v, t) \/ (v = u /\ t = s)
<1> DEFINE q == r.known
<1>1. CASE Known(r, u, s)
  BY <1>1 DEF Remember
<1>2. CASE ~Known(r, u, s)
  <2> DEFINE k == IF Len(q) >= MaxKnown THEN Tail(q) ELSE q
             w == Remember(r, u, s)
  <2>1. /\ k \in Seq(Users \X Nat)
        /\ \A i \in 1 .. Len(k) : \E j \in 1 .. Len(q) : k[i] = q[j]
    <3>1. CASE Len(q) >= MaxKnown
      <4>1. Len(q) \in Nat /\ q # <<>>
        BY <3>1, CallAssumption
      <4>2. /\ Tail(q) \in Seq(Users \X Nat) /\ Len(Tail(q)) = Len(q) - 1
            /\ \A i \in 1 .. Len(Tail(q)) : Tail(q)[i] = q[i + 1]
        BY <4>1
      <4>3. \A i \in 1 .. Len(q) - 1 : i + 1 \in 1 .. Len(q)
        BY <4>1
      <4> QED
        BY <3>1, <4>2, <4>3
    <3>2. CASE ~(Len(q) >= MaxKnown)
      BY <3>2
    <3> QED
      BY <3>1, <3>2
  <2>2. w.known = Append(k, <<u, s>>)
    <3>1. w = [r EXCEPT !.known = Append(k, <<u, s>>)]
      BY <1>2 DEF Remember
    <3> QED
      BY <3>1
  <2> HIDE DEF k, w
  <2>3. /\ Len(k) \in Nat /\ DOMAIN w.known = 1 .. Len(k) + 1
        /\ w.known[Len(k) + 1] = <<u, s>>
        /\ \A i \in 1 .. Len(k) : w.known[i] = k[i]
    BY <2>1, <2>2
  <2>4. \A i \in DOMAIN w.known : i \in 1 .. Len(k) \/ i = Len(k) + 1
    BY <2>3
  <2>5. \A i \in DOMAIN w.known :
          w.known[i] = <<u, s>> \/ \E j \in 1 .. Len(q) : w.known[i] = q[j]
    BY <2>1, <2>3, <2>4
  <2>6. Known(w, u, s)
    BY <2>3 DEF Known
  <2>7. \A v, t : Known(w, v, t) => Known(r, v, t) \/ (v = u /\ t = s)
    BY <2>5 DEF Known
  <2> QED
    BY <2>6, <2>7 DEF w
<1> QED
  BY <1>1, <1>2

\* A step in which one device may get a new engine, hear of one and send
\* descriptions of its own.
LEMMA StepBelongs ==
  ASSUME IInv, IInv', RInv, Remembers, NEW d \in Devices,
         \A e \in Devices \ {d} : /\ dev'[e].engine.id = dev[e].engine.id
                                  /\ dev'[e].known = dev[e].known,
         \/ dev'[d].engine.id \in {0, dev[d].engine.id} /\ engines' = engines
         \/ dev'[d].engine.id = engines + 1 /\ engines' = engines + 1,
         \A u \in Users, s \in Nat : Known(dev'[d], u, s) => Belongs(u, s),
         Mine(d, net' \ net),
         \A e \in Devices : \A s \in rung'[e] :
            s \in rung[e] \/ \E u \in Users : Known(dev'[e], u, s)
  PROVE  RInv'
<1>1. engines \in Nat /\ engines' \in Nat /\ engines <= engines'
  BY DEF IInv, RestTyped
<1>2. ASSUME NEW u \in Users, NEW s \in Nat, Belongs(u, s)'
      PROVE  \/ Belongs(u, s)
             \/ u = UserOf[d] /\ s = engines + 1 /\ engines' = engines + 1
  <2>1. ASSUME NEW e \in Devices, HasEngine(e)', u = UserOf[e],
               s = dev'[e].engine.id
        PROVE  \/ Belongs(u, s)
               \/ u = UserOf[d] /\ s = engines + 1 /\ engines' = engines + 1
    <3>1. CASE e = d
      BY <2>1, <3>1 DEF HasEngine, Belongs
    <3>2. CASE e # d
      BY <2>1, <3>2 DEF HasEngine, Belongs
    <3> QED
      BY <3>1, <3>2
  <2>2. ASSUME NEW m \in net', m.type \in Descriptions, u = UserOf[m.from],
               s = m.session
        PROVE  Belongs(u, s)
    BY <2>2 DEF Mine, Belongs
  <2>3. ASSUME NEW e \in Devices, Known(dev'[e], u, s)
        PROVE  Belongs(u, s)
    <3>1. CASE e = d
      BY <2>3, <3>1
    <3>2. CASE e # d
      BY <2>3, <3>2 DEF Known, Belongs
    <3> QED
      BY <3>1, <3>2
  <2> QED
    BY <1>2, <2>1, <2>2, <2>3 DEF Belongs
<1>3. \A u \in Users, s \in Nat : Belongs(u, s) => 0 < s /\ s <= engines
  BY DEF RInv
<1>4. \A u \in Users, s \in Nat : Belongs(u, s)' => 0 < s /\ s <= engines'
  BY <1>1, <1>2, <1>3
<1>5. ASSUME NEW u \in Users, NEW v \in Users, NEW s \in Nat,
             Belongs(u, s)', Belongs(v, s)'
      PROVE  u = v
  <2>1. CASE s = engines + 1
    <3>1. ~Belongs(u, s) /\ ~Belongs(v, s)
      BY <1>1, <1>3, <2>1
    <3> QED
      BY <1>2, <1>5, <3>1
  <2>2. CASE s # engines + 1
    <3>1. Belongs(u, s) /\ Belongs(v, s)
      BY <1>2, <1>5, <2>2
    <3> QED
      BY <3>1 DEF RInv
  <2> QED
    BY <2>1, <2>2
<1>6. ASSUME NEW e \in Devices, NEW s \in rung'[e]
      PROVE  \E u \in Users : Known(dev'[e], u, s)
  <2>1. s \in Nat
    BY <1>6 DEF IInv, RestTyped
  <2> QED
    BY <1>6, <2>1 DEF RInv, Remembers
<1>7. (\A u \in Users, s \in Nat : Belongs(u, s) => 0 < s /\ s <= engines)'
  BY <1>4
<1>8. (\A u, v \in Users, s \in Nat : Belongs(u, s) /\ Belongs(v, s) => u = v)'
  BY <1>5
<1> QED
  BY <1>6, <1>7, <1>8 DEF RInv

\* One store moves on and sends; or it takes a signal and answers.
LEMMA StoreRings ==
  ASSUME IInv, IInv', RInv, Remembers, NEW d \in Devices, NEW r, NEW out,
         dev' = [dev EXCEPT ![d] = r], net' \subseteq net \cup out,
         Mine(d, out), UNCHANGED <<engines, rung>>,
         r.engine.id \in {0, dev[d].engine.id},
         \A u \in Users, s \in Nat : Known(r, u, s) => Belongs(u, s)
  PROVE  RInv'
<1>1. dev'[d] = r /\ \A e \in Devices \ {d} : dev'[e] = dev[e]
  BY DEF IInv, StoresGood
<1>2. Mine(d, net' \ net)
  BY DEF Mine
<1> QED
  BY <1>1, <1>2, StepBelongs

LEMMA QuietRings ==
  ASSUME IInv, IInv', RInv, Remembers, NEW d \in Devices, NEW r, NEW out,
         dev' = [dev EXCEPT ![d] = r], net' \subseteq net \cup out,
         Mine(d, out), UNCHANGED <<engines, rung>>,
         r.engine.id \in {0, dev[d].engine.id}, r.known = dev[d].known
  PROVE  RInv'
<1>1. \A u \in Users, s \in Nat : Known(r, u, s) => Belongs(u, s)
  BY DEF Known, Belongs
<1> QED
  BY <1>1, StoreRings

LEMMA NothingMine ==
  ASSUME NEW d
  PROVE  Mine(d, {})
BY DEF Mine

LEMMA ResetKnown ==
  ASSUME NEW r
  PROVE  Reset(r).engine.id = 0 /\ Reset(r).known = r.known
BY DEF Reset, IdleStore, NoEngine

LEMMA EndCallRings ==
  ASSUME IInv, IInv', RInv, Remembers, NEW d \in Devices, NEW reason,
         EndCall(d, reason)
  PROVE  RInv'
<1>1. /\ dev' = [dev EXCEPT ![d] = Reset(dev[d])]
      /\ net' \subseteq net \cup Farewell(d, reason, TRUE)
      /\ UNCHANGED <<engines, rung>>
  BY DEF EndCall
<1> QED
  BY <1>1, ResetKnown, MineFarewell, QuietRings

\* A new engine has a session of its own.
LEMMA NewEngineRings ==
  ASSUME IInv, IInv', RInv, Remembers, NEW d \in Devices,
         \/ \E u \in Users : StartCall(d, u)
         \/ Accept(d)
  PROVE  RInv'
<1>1. dev[d] \in Stores /\ dev = [e \in Devices |-> dev[e]]
  BY DEF IInv, StoresGood, Good
<1>2. /\ engines' = engines + 1 /\ net' = net /\ rung' = rung
      /\ dev'[d].engine.id = engines + 1 /\ dev'[d].known = dev[d].known
      /\ \A e \in Devices \ {d} : dev'[e] = dev[e]
  <2>1. CASE \E u \in Users : StartCall(d, u)
    <3>1. PICK u \in Users : StartCall(d, u)
      BY <2>1
    <3> QED
      BY <1>1, <3>1 DEF StartCall, NewEngine, NoEngine, Stores
  <2>2. CASE Accept(d)
    BY <1>1, <2>2 DEF Accept, NewEngine, NoEngine, Stores
  <2> QED
    BY <2>1, <2>2
<1>3. \A u \in Users, s \in Nat : Known(dev'[d], u, s) => Belongs(u, s)
  BY <1>2 DEF Known, Belongs
<1>4. Mine(d, net' \ net)
  BY <1>2 DEF Mine
<1> QED
  BY <1>2, <1>3, <1>4, StepBelongs

LEMMA LocalRings ==
  ASSUME IInv, IInv', RInv, Remembers, NEW d \in Devices,
         \/ AcceptWithoutAccount(d) \/ LocalOffer(d) \/ LocalAnswer(d)
         \/ LocalIce(d) \/ Connected(d) \/ Disconnected(d) \/ Reoffer(d)
  PROVE  RInv'
<1> DEFINE r == dev[d]
<1>1. r \in Stores /\ Coherent(r) /\ dev = [e \in Devices |-> dev[e]]
  BY DEF IInv, StoresGood, Good
<1>2. r.engine \in Engines /\ (r.engine.id = 0 => r.engine = NoEngine)
  BY <1>1 DEF Stores, Coherent
<1>3. CASE AcceptWithoutAccount(d)
  <2>1. /\ dev' = [dev EXCEPT ![d] = [r EXCEPT !.offer = 0]]
        /\ net' \subseteq net \cup {} /\ UNCHANGED <<engines, rung>>
    BY <1>1, <1>3 DEF AcceptWithoutAccount
  <2>2. /\ [r EXCEPT !.offer = 0].engine = r.engine
        /\ [r EXCEPT !.offer = 0].known = r.known
    BY <1>1 DEF Stores
  <2> QED
    BY <2>1, <2>2, NothingMine, QuietRings
<1>4. CASE LocalOffer(d)
  <2> DEFINE q == [r EXCEPT !.engine.offered = TRUE, !.sid = r.engine.id]
             out == ToPeer(d, "OFFER", r.engine.id, 0)
  <2>1. HasEngine(d)
    BY <1>2, <1>4 DEF LocalOffer, HasEngine, NoEngine
  <2>2. Mine(d, out)
    BY <2>1, MineToPeer
  <2>3. /\ dev' = [dev EXCEPT ![d] = q] /\ net' \subseteq net \cup out
        /\ UNCHANGED <<engines, rung>>
    BY <1>4 DEF LocalOffer, StepStore
  <2>4. q.engine.id = r.engine.id /\ q.known = r.known
    BY <1>1, <1>2 DEF Stores, Engines
  <2> HIDE DEF q, out
  <2> QED
    BY <2>2, <2>3, <2>4, QuietRings
<1>5. CASE LocalAnswer(d)
  <2> DEFINE q == [r EXCEPT !.engine.answers = @ - 1]
             out == ToPeer(d, "ANSWER", r.engine.id, 0)
  <2>1. HasEngine(d)
    <3>1. NoEngine.answers = 0 /\ r.engine.answers > 0
      BY <1>5 DEF LocalAnswer, NoEngine
    <3> QED
      BY <1>2, <3>1 DEF HasEngine
  <2>2. Mine(d, out)
    BY <2>1, MineToPeer
  <2>3. /\ dev' = [dev EXCEPT ![d] = q] /\ net' \subseteq net \cup out
        /\ UNCHANGED <<engines, rung>>
    BY <1>5 DEF LocalAnswer, StepStore
  <2>4. q.engine.id = r.engine.id /\ q.known = r.known
    BY <1>1, <1>2 DEF Stores, Engines
  <2> HIDE DEF q, out
  <2> QED
    BY <2>2, <2>3, <2>4, QuietRings
<1>6. CASE LocalIce(d)
  <2> DEFINE g == [r EXCEPT !.engine.gathered = @ + 1]
             c == r.engine.gathered + 1
             h == [g EXCEPT !.localIce = @ \cup {c}]
             out == ToPeer(d, "ICE", r.engine.id, c)
  <2>1. /\ g.engine.id = r.engine.id /\ g.known = r.known
        /\ h.engine.id = r.engine.id /\ h.known = r.known
    BY <1>1, <1>2 DEF Stores, Engines
  <2>2. /\ \/ dev' = [dev EXCEPT ![d] = g]
           \/ dev' = [dev EXCEPT ![d] = h]
        /\ net' \subseteq net \cup out /\ UNCHANGED <<engines, rung>>
    BY <1>6 DEF LocalIce, StepStore
  <2>3. Mine(d, out)
    BY MineToPeer DEF Descriptions
  <2> HIDE DEF g, h, out
  <2> QED
    BY <2>1, <2>2, <2>3, QuietRings
<1>7. CASE Connected(d)
  <2> DEFINE q == [r EXCEPT !.phase = "Connected", !.up = TRUE, !.timer = FALSE,
                            !.grace = FALSE]
             out == ToPeer(d, "INIT", 0, 0)
                    \cup (IF r.caller THEN ToPeer(d, "CANCEL", r.sid, 0) ELSE {})
  <2>1. q.engine = r.engine /\ q.known = r.known
    BY <1>1 DEF Stores
  <2>2. /\ dev' = [dev EXCEPT ![d] = q] /\ net' \subseteq net \cup out
        /\ UNCHANGED <<engines, rung>>
    BY <1>7 DEF Connected, StepStore
  <2>3. Mine(d, ToPeer(d, "INIT", 0, 0)) /\ Mine(d, ToPeer(d, "CANCEL", r.sid, 0))
    BY MineToPeer DEF Descriptions
  <2>4. Mine(d, out)
    BY <2>3 DEF Mine
  <2> HIDE DEF q, out
  <2> QED
    BY <2>1, <2>2, <2>4, QuietRings
<1>8. CASE Disconnected(d)
  <2> DEFINE q == [r EXCEPT !.grace = TRUE]
  <2>1. q.engine = r.engine /\ q.known = r.known
    BY <1>1 DEF Stores
  <2>2. /\ dev' = [dev EXCEPT ![d] = q] /\ net' \subseteq net \cup {}
        /\ UNCHANGED <<engines, rung>>
    BY <1>8 DEF Disconnected, StepStore
  <2> HIDE DEF q
  <2> QED
    BY <2>1, <2>2, NothingMine, QuietRings
<1>9. CASE Reoffer(d)
  <2> DEFINE out == ToPeer(d, "OFFER", r.engine.id, 0)
  <2>1. HasEngine(d)
    BY <1>1, <1>9 DEF Reoffer, HasEngine, Coherent, InCall
  <2>2. Mine(d, out)
    BY <2>1, MineToPeer
  <2>3. /\ dev' = [dev EXCEPT ![d] = r] /\ net' \subseteq net \cup out
        /\ UNCHANGED <<engines, rung>>
    BY <1>1, <1>9 DEF Reoffer
  <2> HIDE DEF out
  <2> QED
    BY <2>2, <2>3, QuietRings
<1> QED
  BY <1>3, <1>4, <1>5, <1>6, <1>7, <1>8, <1>9

LEMMA IceConnectsRings ==
  ASSUME IInv, IInv', RInv, Remembers, NEW d \in Devices, NEW e \in Devices,
         IceConnects(d, e)
  PROVE  RInv'
<1>1. dev = [f \in Devices |-> dev[f]] /\ \A f \in Devices : dev[f] \in Stores
  BY DEF IInv, StoresGood, Good
<1>2. \A f \in Devices : /\ dev'[f].engine.id = dev[f].engine.id
                         /\ dev'[f].known = dev[f].known
  <2>1. \A f \in Devices : dev[f].engine \in Engines
    BY <1>1 DEF Stores
  <2> QED
    BY <1>1, <2>1 DEF IceConnects, Stores, Engines
<1>3. net' = net /\ UNCHANGED <<engines, rung>>
  BY DEF IceConnects
<1>4. Mine(d, net' \ net)
  BY <1>3 DEF Mine
<1>5. \A u \in Users, s \in Nat : Known(dev'[d], u, s) => Belongs(u, s)
  BY <1>2 DEF Known, Belongs
<1> QED
  BY <1>2, <1>3, <1>4, <1>5, StepBelongs

LEMMA LogRings ==
  ASSUME IInv, IInv', RInv, Remembers, NEW l \in logs, LogAnswered(l)
  PROVE  RInv'
<1> DEFINE d == l.dev
           r == IF dev[d].gen = l.gen THEN [dev[d] EXCEPT !.message = l.call]
                ELSE dev[d]
<1>1. /\ d \in Devices /\ dev[d] \in Stores /\ dev = [e \in Devices |-> dev[e]]
  BY DEF IInv, StoresGood, Good, Fits, LogRequests
<1>2. r.engine = dev[d].engine /\ r.known = dev[d].known
  BY <1>1 DEF Stores
<1>3. /\ dev' = [dev EXCEPT ![d] = r] /\ net' \subseteq net \cup {}
      /\ UNCHANGED <<engines, rung>>
  BY <1>1 DEF LogAnswered
<1> HIDE DEF r, d
<1> QED
  BY <1>1, <1>2, <1>3, NothingMine, QuietRings

\* A signal that d takes; q is d's store after it.
LEMMA TakenRings ==
  ASSUME IInv, IInv', RInv, Remembers, NEW m \in net, MessageFrame,
         NEW q, NEW out, Handled(m, q, out), rung' = rung, Mine(m.to, out),
         q.engine.id \in {0, dev[m.to].engine.id},
         \/ q.known = dev[m.to].known
         \/ /\ m.type \in Descriptions
            /\ q.known = Remember(dev[m.to], UserOf[m.from], m.session).known
  PROVE  RInv'
<1> DEFINE d == m.to
           u == UserOf[m.from]
<1>1. d \in Devices /\ u \in Users /\ m.session \in Nat /\ dev[d] \in Stores
  BY DEF IInv, RestTyped, Signals, StoresGood, Good, Users
<1>2. dev[d].known \in Seq(Users \X Nat)
  BY <1>1 DEF Stores
<1>3. \A v \in Users, s \in Nat : Known(q, v, s) => Belongs(v, s)
  <2>1. CASE q.known = dev[d].known
    BY <1>1, <2>1 DEF Known, Belongs
  <2>2. CASE /\ m.type \in Descriptions
             /\ q.known = Remember(dev[d], u, m.session).known
    <3>1. \A v, t : Known(q, v, t) => Known(dev[d], v, t) \/ (v = u /\ t = m.session)
      <4>1. \A v, t : Known(Remember(dev[d], u, m.session), v, t)
                      => Known(dev[d], v, t) \/ (v = u /\ t = m.session)
        BY <1>1, <1>2, RememberedOnly
      <4> QED
        BY <2>2, <4>1 DEF Known
    <3> QED
      BY <1>1, <2>2, <3>1 DEF Belongs
  <2> QED
    BY <2>1, <2>2
<1>4. /\ dev' = [dev EXCEPT ![d] = q] /\ net' \subseteq net \cup out
      /\ UNCHANGED <<engines, rung>>
  BY DEF Handled, MessageFrame
<1> QED
  BY <1>1, <1>3, <1>4, StoreRings

LEMMA IgnoreRings ==
  ASSUME IInv, IInv', RInv, Remembers, NEW m \in net, MessageFrame,
         Ignore(m), rung' = rung
  PROVE  RInv'
BY NothingMine, TakenRings DEF Ignore

LEMMA DismissRings ==
  ASSUME IInv, IInv', RInv, Remembers, NEW m \in net, MessageFrame,
         Handled(m, Reset(dev[m.to]), {}), rung' = rung
  PROVE  RInv'
BY NothingMine, ResetKnown, TakenRings

LEMMA DismissalsRing ==
  ASSUME IInv, IInv', RInv, Remembers, NEW m \in net, MessageFrame,
         \/ OnInit(m) \/ OnCancel(m) \/ OnLog(m)
         \/ OnQuit(m) \/ OnTimeout(m) \/ OnJoined(m)
  PROVE  RInv'
<1>1. ASSUME NEW reason, RemoteEnd(m, reason), rung' = rung
      PROVE  RInv'
  <2>1. CASE Handled(m, Reset(dev[m.to]), Farewell(m.to, reason, FALSE))
    BY <1>1, <2>1, ResetKnown, MineFarewell, TakenRings
  <2>2. CASE Ignore(m)
    BY <1>1, <2>2, IgnoreRings
  <2> QED
    BY <1>1, <2>1, <2>2 DEF RemoteEnd
<1>2. CASE OnInit(m) \/ OnCancel(m) \/ OnLog(m)
  BY <1>2, DismissRings, IgnoreRings DEF OnInit, OnCancel, OnLog
<1>3. CASE OnQuit(m) \/ OnTimeout(m) \/ OnJoined(m)
  BY <1>1, <1>3, IgnoreRings DEF OnQuit, OnTimeout, OnJoined
<1> QED
  BY <1>2, <1>3

\* What is remembered of a signal leaves the engine alone.
LEMMA RememberedStore ==
  ASSUME IInv, NEW m \in net
  PROVE  LET r == Remember(dev[m.to], UserOf[m.from], m.session)
         IN  r \in Stores /\ r.engine = dev[m.to].engine /\ r.engine \in Engines
<1>1. /\ m.to \in Devices /\ UserOf[m.from] \in Users /\ m.session \in Nat
      /\ Good(dev[m.to])
  BY DEF IInv, RestTyped, Signals, StoresGood, Users
<1> DEFINE r == Remember(dev[m.to], UserOf[m.from], m.session)
<1>2. Good(r) /\ Kept(dev[m.to], r)
  BY <1>1, RememberGood
<1> HIDE DEF r
<1>3. r \in Stores /\ r.engine = dev[m.to].engine /\ r.engine \in Engines
  BY <1>2 DEF Good, Kept, Stores
<1> QED
  BY <1>3 DEF r

LEMMA OnReofferRings ==
  ASSUME IInv, IInv', RInv, Remembers, NEW m \in net, MessageFrame, OnReoffer(m)
  PROVE  RInv'
<1> DEFINE r == Remember(dev[m.to], UserOf[m.from], m.session)
<1>1. r \in Stores /\ r.engine = dev[m.to].engine /\ r.engine \in Engines
  BY RememberedStore
<1>2. m.type \in Descriptions /\ rung' = rung
  BY DEF OnReoffer, Descriptions
<1>3. CASE Handled(m, r, {})
  BY <1>1, <1>2, <1>3, NothingMine, TakenRings
<1>4. ASSUME NEW e \in ApplyOffer(r.engine, m.session),
             Handled(m, [r EXCEPT !.engine = e], {})
      PROVE  RInv'
  <2> HIDE DEF r
  <2>1. e.id = r.engine.id
    BY <1>1, <1>4 DEF ApplyOffer, Engines
  <2> DEFINE q == [r EXCEPT !.engine = e]
  <2>2. q.engine = e /\ q.known = r.known
    BY <1>1 DEF Stores
  <2>3. Handled(m, q, {})
    BY <1>4
  <2> HIDE DEF q
  <2> QED
    BY <1>1, <1>2, <2>1, <2>2, <2>3, NothingMine, TakenRings DEF r
<1> QED
  BY <1>3, <1>4 DEF OnReoffer

LEMMA OnAnswerRings ==
  ASSUME IInv, IInv', RInv, Remembers, NEW m \in net, MessageFrame, OnAnswer(m)
  PROVE  RInv'
<1> DEFINE d == m.to
           r == Remember(dev[d], UserOf[m.from], m.session)
           q == [r EXCEPT !.engine = ApplyAnswer(@, m.session),
                          !.phase = "Connecting", !.localIce = {}, !.timer = TRUE]
           out == UNION {ToPeer(d, "ICE", r.engine.id, c) : c \in r.localIce}
<1>1. r \in Stores /\ r.engine = dev[d].engine /\ r.engine \in Engines
  BY RememberedStore
<1>2. m.type \in Descriptions /\ rung' = rung
  BY DEF OnAnswer, Descriptions
<1>3. CASE Handled(m, r, {})
  BY <1>1, <1>2, <1>3, NothingMine, TakenRings
<1>4. CASE dev' = [dev EXCEPT ![d] = q] /\ net' = (net \ {m}) \cup out
  <2>1. \A c \in r.localIce : Mine(d, ToPeer(d, "ICE", r.engine.id, c))
    BY MineToPeer DEF Descriptions
  <2>2. Mine(d, out)
    BY <2>1 DEF Mine
  <2>3. q.engine.id = r.engine.id /\ q.known = r.known
    <3> HIDE DEF r
    <3> QED
      BY <1>1 DEF Stores, Engines, ApplyAnswer
  <2>4. Handled(m, q, out)
    BY <1>4 DEF Handled
  <2> HIDE DEF q, out
  <2> QED
    BY <1>1, <1>2, <2>2, <2>3, <2>4, TakenRings
<1> QED
  BY <1>3, <1>4 DEF OnAnswer

LEMMA OnIceRings ==
  ASSUME IInv, IInv', RInv, Remembers, NEW m \in net, MessageFrame, OnIce(m)
  PROVE  RInv'
<1> DEFINE r == dev[m.to]
           c == <<m.session, m.ice>>
           g == [r EXCEPT !.engine.cands = @ \cup {c}]
           h == [r EXCEPT !.remoteIce = @ \cup {c}]
<1>1. r \in Stores
  BY DEF IInv, RestTyped, Signals, StoresGood, Good
<1>2. /\ g.engine.id = r.engine.id /\ g.known = r.known
      /\ h.engine = r.engine /\ h.known = r.known
  BY <1>1 DEF Stores, Engines
<1>3. /\ Ignore(m) \/ Handled(m, g, {}) \/ Handled(m, h, {})
      /\ rung' = rung
  BY DEF OnIce
<1> HIDE DEF g, h
<1> QED
  BY <1>2, <1>3, IgnoreRings, NothingMine, TakenRings

\* The only step that rings: of a session that is not known.
LEMMA OnOfferRings ==
  ASSUME IInv, IInv', RInv, Remembers, NEW m \in net, MessageFrame, OnOffer(m)
  PROVE  RInv'
<1> DEFINE d == m.to
           u == UserOf[m.from]
           k == Remember(dev[d], u, m.session)
           q == [k EXCEPT !.gen = @ + 1, !.peer = u, !.caller = FALSE,
                          !.offer = m.session, !.up = FALSE, !.phase = "Incoming",
                          !.timer = TRUE]
           out == SignalTo(d, DevicesOf(u), u, "JOINED", 0, 0)
<1>1. /\ d \in Devices /\ u \in Users /\ m.session \in Nat
      /\ dev[d] \in Stores /\ dev = [e \in Devices |-> dev[e]]
      /\ rung \in [Devices -> SUBSET Nat]
  BY DEF IInv, RestTyped, Signals, StoresGood, Good, Users
<1>2. m.type \in Descriptions
  BY DEF OnOffer, Descriptions
<1>3. CASE Ignore(m) /\ rung' = rung
  BY <1>3, IgnoreRings
<1>4. CASE Handled(m, dev[d], out) /\ rung' = rung
  <2>1. Mine(d, out)
    BY DEF Mine, SignalTo, Descriptions
  <2> HIDE DEF out
  <2> QED
    BY <1>4, <2>1, TakenRings
<1>5. CASE /\ Handled(m, q, {})
           /\ rung' = [rung EXCEPT ![d] = @ \cup {m.session}]
  <2>1. k \in Stores /\ k.engine = dev[d].engine
    BY RememberedStore
  <2>2. /\ Known(k, u, m.session)
        /\ \A v, t : Known(k, v, t)
                     => Known(dev[d], v, t) \/ (v = u /\ t = m.session)
    <3>1. dev[d].known \in Seq(Users \X Nat)
      BY <1>1 DEF Stores
    <3> QED
      BY <1>1, <3>1, RememberedOnly
  <2> HIDE DEF k
  <2>3. q.engine = dev[d].engine /\ q.known = k.known
    BY <2>1 DEF Stores
  <2> HIDE DEF q
  <2>4. /\ Known(q, u, m.session)
        /\ \A v \in Users, s \in Nat : Known(q, v, s) => Belongs(v, s)
    <3>1. \A v, s : Known(q, v, s) <=> Known(k, v, s)
      BY <2>3 DEF Known
    <3>2. Known(q, u, m.session)
      BY <2>2, <3>1
    <3>3. Belongs(u, m.session)
      <4> SUFFICES \E n \in net : /\ n.type \in Descriptions
                                  /\ u = UserOf[n.from] /\ m.session = n.session
        BY DEF Belongs
      <4> QED
        BY <1>2
    <3>4. ASSUME NEW v \in Users, NEW s \in Nat, Known(q, v, s)
          PROVE  Belongs(v, s)
      <4>1. Known(dev[d], v, s) \/ (v = u /\ s = m.session)
        BY <2>2, <3>1, <3>4
      <4>2. CASE Known(dev[d], v, s)
        BY <1>1, <4>2 DEF Belongs
      <4>3. CASE v = u /\ s = m.session
        BY <3>3, <4>3
      <4> QED
        BY <4>1, <4>2, <4>3
    <3> QED
      BY <3>2, <3>4
  <2>5. dev'[d] = q /\ \A e \in Devices \ {d} : dev'[e] = dev[e]
    BY <1>1, <1>5 DEF Handled
  <2>6. Mine(d, net' \ net) /\ engines' = engines
    BY <1>5 DEF Handled, Mine, MessageFrame
  <2>7. \A e \in Devices : \A s \in rung'[e] :
          s \in rung[e] \/ \E v \in Users : Known(dev'[e], v, s)
    BY <1>1, <1>5, <2>4, <2>5
  <2> HIDE DEF d
  <2> QED
    BY <1>1, <2>3, <2>4, <2>5, <2>6, <2>7, StepBelongs
<1> QED
  BY <1>3, <1>4, <1>5 DEF OnOffer

LEMMA InitRings == Init => RInv
<1> SUFFICES ASSUME Init PROVE RInv
  OBVIOUS
<1>1. \A d \in Devices : /\ dev[d].engine.id = 0 /\ dev[d].known = <<>>
                         /\ rung[d] = {}
  BY DEF Init, IdleStore, NoEngine
<1>2. \A u, s : ~Belongs(u, s)
  BY <1>1 DEF Init, Belongs, Known, HasEngine
<1> QED
  BY <1>1, <1>2 DEF RInv

LEMMA StillRings == RInv /\ UNCHANGED vars => RInv'
<1> SUFFICES ASSUME RInv, UNCHANGED vars PROVE RInv'
  OBVIOUS
<1>1. \A d, u, s : Known(dev'[d], u, s) <=> Known(dev[d], u, s)
  BY DEF vars
<1>2. \A u, s : Belongs(u, s)' <=> Belongs(u, s)
  BY <1>1 DEF vars, Belongs, HasEngine
<1>3. (\A u \in Users, s \in Nat : Belongs(u, s) => 0 < s /\ s <= engines)'
  BY <1>2 DEF vars, RInv
<1>4. (\A u, v \in Users, s \in Nat : Belongs(u, s) /\ Belongs(v, s) => u = v)'
  BY <1>2 DEF RInv
<1>5. (\A d \in Devices : \A s \in rung[d] : \E u \in Users : Known(dev[d], u, s))'
  BY <1>1 DEF vars, RInv
<1> QED
  BY <1>3, <1>4, <1>5 DEF RInv

LEMMA StepRings == IInv /\ IInv' /\ RInv /\ Remembers /\ [Next]_vars => RInv'
<1> SUFFICES ASSUME IInv, IInv', RInv, Remembers, [Next]_vars
             PROVE  RInv'
  OBVIOUS
<1>1. CASE UNCHANGED vars
  BY <1>1, StillRings
<1>2. CASE \E d \in Devices, u \in Users : StartCall(d, u)
  BY <1>2, NewEngineRings
<1>3. CASE \E l \in logs : LogAnswered(l)
  BY <1>3, LogRings
<1>4. ASSUME NEW d \in Devices,
             \/ Accept(d) \/ AcceptWithoutAccount(d) \/ Hangup(d)
             \/ LocalOffer(d) \/ LocalAnswer(d) \/ LocalIce(d)
             \/ Connected(d) \/ Disconnected(d) \/ EngineFails(d)
             \/ NoAnswer(d) \/ GraceOver(d) \/ Reoffer(d)
      PROVE  RInv'
  <2>1. CASE Hangup(d) \/ EngineFails(d) \/ NoAnswer(d) \/ GraceOver(d)
    BY <2>1, EndCallRings DEF Hangup, EngineFails, NoAnswer, GraceOver
  <2>2. CASE Accept(d)
    BY <2>2, NewEngineRings
  <2> QED
    BY <1>4, <2>1, <2>2, LocalRings
<1>5. CASE \E d, e \in Devices : IceConnects(d, e)
  BY <1>5, IceConnectsRings
<1>6. ASSUME NEW m \in net, Deliver(m) PROVE RInv'
  BY <1>6, DismissalsRing, OnReofferRings, OnOfferRings, OnAnswerRings,
     OnIceRings DEF Deliver, MessageFrame
<1>7. ASSUME NEW m \in net, Lose(m) PROVE RInv'
  <2>1. /\ m.to \in Devices /\ dev' = dev /\ net' \subseteq net
        /\ engines' = engines /\ rung' = rung
    BY <1>7 DEF Lose, IInv, RestTyped, Signals
  <2>2. Mine(m.to, net' \ net)
    BY <2>1 DEF Mine
  <2>3. \A u \in Users, s \in Nat : Known(dev'[m.to], u, s) => Belongs(u, s)
    BY <2>1 DEF Belongs
  <2> QED
    BY <2>1, <2>2, <2>3, StepBelongs
<1> QED
  BY <1>1, <1>2, <1>3, <1>4, <1>5, <1>6, <1>7 DEF Next

\* What a signal leaves of the phase of the device it is for, where it does
\* not ring.
LEMMA HandledPhase ==
  ASSUME IInv, NEW m \in net, NEW r, NEW out, Handled(m, r, out),
         r.phase # "Incoming" \/ r.phase = dev[m.to].phase,
         NEW d \in Devices, dev[d].phase = "Idle"
  PROVE  dev'[d].phase # "Incoming"
<1>1. dev = [e \in Devices |-> dev[e]] /\ m.to \in Devices
  BY DEF IInv, RestTyped, StoresGood, Signals
<1> QED
  BY <1>1 DEF Handled

LEMMA RememberPhase ==
  ASSUME NEW d \in Devices, IInv, NEW u, NEW s
  PROVE  Remember(dev[d], u, s).phase = dev[d].phase
BY DEF Remember, IInv, StoresGood, Good, Stores

\* Only an offer makes a device ring, and only one of a session that the store
\* does not know.
LEMMA RingsUnknown ==
  ASSUME IInv, Next, NEW d \in Devices, dev[d].phase = "Idle",
         dev'[d].phase = "Incoming"
  PROVE  \E m \in net : /\ m.type = "OFFER" /\ m.to = d
                        /\ dev'[d].offer = m.session
                        /\ ~Known(dev[d], UserOf[m.from], m.session)
<1> DEFINE Rings(m) == /\ m.type = "OFFER" /\ m.to = d
                       /\ dev'[d].offer = m.session
                       /\ ~Known(dev[d], UserOf[m.from], m.session)
<1> SUFFICES \E m \in net : Rings(m)
  OBVIOUS
<1>1. /\ dev = [e \in Devices |-> dev[e]]
      /\ \A e \in Devices : dev[e] \in Stores
      /\ \A e \in Devices : Reset(dev[e]).phase = "Idle"
  BY DEF IInv, StoresGood, Good, Reset, IdleStore
<1> HIDE DEF Rings
<1>2. CASE \E e \in Devices, u \in Users : StartCall(e, u)
  BY <1>1, <1>2 DEF StartCall, Stores
<1>3. CASE \E l \in logs : LogAnswered(l)
  BY <1>1, <1>3 DEF LogAnswered, Stores
<1>4. ASSUME NEW e \in Devices,
             \/ Accept(e) \/ AcceptWithoutAccount(e) \/ Hangup(e)
             \/ LocalOffer(e) \/ LocalAnswer(e) \/ LocalIce(e)
             \/ Connected(e) \/ Disconnected(e) \/ EngineFails(e)
             \/ NoAnswer(e) \/ GraceOver(e) \/ Reoffer(e)
      PROVE  FALSE
  <2>1. ASSUME NEW why, EndCall(e, why) PROVE FALSE
    BY <1>1, <2>1 DEF EndCall
  <2>2. CASE Hangup(e) \/ EngineFails(e) \/ NoAnswer(e) \/ GraceOver(e)
    BY <2>1, <2>2 DEF Hangup, EngineFails, NoAnswer, GraceOver
  <2>3. CASE Accept(e) \/ AcceptWithoutAccount(e)
    BY <1>1, <2>3 DEF Accept, AcceptWithoutAccount, Stores
  <2> DEFINE r == dev[e]
  <2>4. ASSUME NEW q, NEW out, StepStore(e, q, out),
               q.phase # "Incoming" \/ q.phase = r.phase
        PROVE  FALSE
    BY <1>1, <2>4 DEF StepStore
  <2>5. r \in Stores
    BY <1>1
  <2>6. CASE LocalOffer(e) \/ LocalAnswer(e)
    <3>1. /\ [r EXCEPT !.engine.offered = TRUE, !.sid = r.engine.id].phase = r.phase
          /\ [r EXCEPT !.engine.answers = @ - 1].phase = r.phase
      BY <2>5 DEF Stores
    <3> QED
      BY <2>4, <2>6, <3>1 DEF LocalOffer, LocalAnswer
  <2>7. CASE LocalIce(e)
    <3> DEFINE g == [r EXCEPT !.engine.gathered = @ + 1]
               c == r.engine.gathered + 1
               h == [g EXCEPT !.localIce = @ \cup {c}]
    <3>1. g.phase = r.phase /\ h.phase = r.phase
      BY <2>5 DEF Stores
    <3>2. \E out : StepStore(e, g, out) \/ StepStore(e, h, out)
      BY <2>7 DEF LocalIce
    <3> HIDE DEF g, h, r
    <3> QED
      BY <2>4, <3>1, <3>2
  <2>8. CASE Connected(e) \/ Disconnected(e)
    <3> DEFINE g == [r EXCEPT !.phase = "Connected", !.up = TRUE, !.timer = FALSE,
                              !.grace = FALSE]
               h == [r EXCEPT !.grace = TRUE]
    <3>1. g.phase = "Connected" /\ h.phase = r.phase
      BY <2>5 DEF Stores
    <3>2. \E out : StepStore(e, g, out) \/ StepStore(e, h, out)
      BY <2>8 DEF Connected, Disconnected
    <3> HIDE DEF g, h, r
    <3> QED
      BY <2>4, <3>1, <3>2
  <2>9. CASE Reoffer(e)
    BY <2>9 DEF Reoffer
  <2> QED
    BY <1>4, <2>2, <2>3, <2>6, <2>7, <2>8, <2>9
<1>5. CASE \E e, f \in Devices : IceConnects(e, f)
  <2>1. PICK e, f \in Devices : IceConnects(e, f)
    BY <1>5
  <2> DEFINE up(r) == [r EXCEPT !.engine.ice = "up"]
             g == [dev EXCEPT ![e] = up(dev[e])]
  <2>2. \A r \in Stores : up(r).phase = r.phase /\ up(r) \in Stores
    BY DEF Stores, Engines
  <2> HIDE DEF up
  <2>3. g = [x \in Devices |-> IF x = e THEN up(dev[x]) ELSE dev[x]]
    BY <1>1
  <2>4. \A x \in Devices : g[x].phase = dev[x].phase /\ g[x] \in Stores
    BY <1>1, <2>2, <2>3
  <2>5. dev' = [g EXCEPT ![f] = up(g[f])]
    BY <2>1 DEF IceConnects, up
  <2> HIDE DEF g
  <2>6. dev'[d] = g[d] \/ dev'[d] = up(g[d])
    BY <2>3, <2>5
  <2> QED
    BY <2>2, <2>4, <2>6
<1>6. ASSUME NEW m \in net, Deliver(m) PROVE Rings(m)
  <2> DEFINE r == dev[m.to]
             u == UserOf[m.from]
             k == Remember(r, u, m.session)
  <2>1. m.to \in Devices /\ r \in Stores /\ k \in Stores
    BY <1>1, RememberedStore DEF IInv, RestTyped, Signals
  <2>2. k.phase = r.phase
    BY <2>1, RememberPhase
  <2>3. ASSUME Ignore(m) PROVE FALSE
    BY <2>3, HandledPhase DEF Ignore
  <2>4. ASSUME NEW s, NEW out, Handled(m, s, out),
               s.phase # "Incoming" \/ s.phase = r.phase
        PROVE  FALSE
    BY <2>4, HandledPhase
  <2>5. ASSUME NEW out, Handled(m, Reset(r), out) PROVE FALSE
    BY <1>1, <2>1, <2>4, <2>5
  <2>6. ASSUME NEW why, RemoteEnd(m, why) PROVE FALSE
    BY <2>3, <2>5, <2>6 DEF RemoteEnd
  <2>7. ~(OnInit(m) \/ OnCancel(m) \/ OnLog(m))
    BY <2>3, <2>5 DEF OnInit, OnCancel, OnLog
  <2>8. ~(OnQuit(m) \/ OnTimeout(m) \/ OnJoined(m))
    BY <2>3, <2>6 DEF OnQuit, OnTimeout, OnJoined
  <2>9. ~OnIce(m)
    <3> SUFFICES ASSUME OnIce(m) PROVE FALSE
      OBVIOUS
    <3> DEFINE c == <<m.session, m.ice>>
               s == [r EXCEPT !.engine.cands = @ \cup {c}]
               t == [r EXCEPT !.remoteIce = @ \cup {c}]
    <3>1. s.phase = r.phase /\ t.phase = r.phase
      BY <2>1 DEF Stores
    <3>2. Ignore(m) \/ Handled(m, s, {}) \/ Handled(m, t, {})
      BY DEF OnIce
    <3> HIDE DEF s, t, r
    <3> QED
      BY <2>3, <2>4, <3>1, <3>2
  <2>10. ~OnReoffer(m)
    <3> SUFFICES ASSUME OnReoffer(m) PROVE FALSE
      OBVIOUS
    <3>1. \A e : [k EXCEPT !.engine = e].phase = r.phase
      BY <2>1, <2>2 DEF Stores
    <3>2. Handled(m, k, {}) \/ \E e : Handled(m, [k EXCEPT !.engine = e], {})
      BY DEF OnReoffer
    <3> HIDE DEF k, r
    <3> QED
      BY <2>2, <2>4, <3>1, <3>2
  <2>11. ~OnAnswer(m)
    <3> SUFFICES ASSUME OnAnswer(m) PROVE FALSE
      OBVIOUS
    <3>1. CASE FromPeer(m) /\ k.phase \in {"Outgoing", "Connecting"}
      BY <1>1, <2>1, <2>2, <3>1 DEF OnAnswer, Stores
    <3>2. CASE ~(FromPeer(m) /\ k.phase \in {"Outgoing", "Connecting"})
      <4>1. Handled(m, k, {})
        BY <3>2 DEF OnAnswer
      <4> HIDE DEF k, r
      <4> QED
        BY <2>2, <2>4, <4>1
    <3> QED
      BY <3>1, <3>2
  <2>12. OnOffer(m)
    BY <1>6, <2>7, <2>8, <2>9, <2>10, <2>11 DEF Deliver
  <2> DEFINE q == [k EXCEPT !.gen = @ + 1, !.peer = u, !.caller = FALSE,
                            !.offer = m.session, !.up = FALSE,
                            !.phase = "Incoming", !.timer = TRUE]
             out == SignalTo(m.to, DevicesOf(u), u, "JOINED", 0, 0)
  <2>13. \/ Ignore(m) \/ Handled(m, r, out)
         \/ ~Known(r, u, m.session) /\ Handled(m, q, {})
    BY <2>12 DEF OnOffer
  <2>14. q.offer = m.session
    BY <2>1 DEF Stores
  <2>15. m.type = "OFFER"
    BY <2>12 DEF OnOffer
  <2> HIDE DEF q, out
  <2>16. ~Known(r, u, m.session) /\ Handled(m, q, {})
    <3>1. ~Handled(m, r, out)
      <4> HIDE DEF r
      <4> QED
        BY <2>4
    <3> QED
      BY <2>3, <2>13, <3>1
  <2>17. dev' = [dev EXCEPT ![m.to] = q]
    BY <2>16 DEF Handled
  <2>18. m.to = d
    BY <1>1, <2>1, <2>17
  <2>19. dev'[d] = q
    BY <1>1, <2>17, <2>18
  <2> QED
    BY <2>14, <2>15, <2>16, <2>18, <2>19 DEF Rings
<1>7. ASSUME NEW m \in net, Lose(m) PROVE FALSE
  BY <1>7 DEF Lose
<1> QED
  BY <1>2, <1>3, <1>4, <1>5, <1>6, <1>7 DEF Next

\* The session of an offer is of one user, so what has rung is known by it.
LEMMA RingsNew ==
  ASSUME IInv, RInv, Next, NEW d \in Devices, dev[d].phase = "Idle",
         dev'[d].phase = "Incoming"
  PROVE  dev'[d].offer \notin rung[d]
<1>1. PICK m \in net : /\ m.type = "OFFER" /\ m.to = d
                       /\ dev'[d].offer = m.session
                       /\ ~Known(dev[d], UserOf[m.from], m.session)
  BY RingsUnknown
<1>2. m.session \in Nat /\ UserOf[m.from] \in Users
  BY DEF IInv, RestTyped, Signals, Users
<1> SUFFICES ASSUME m.session \in rung[d] PROVE FALSE
  BY <1>1
<1>3. PICK u \in Users : Known(dev[d], u, m.session)
  BY DEF RInv
<1>4. Belongs(UserOf[m.from], m.session) /\ Belongs(u, m.session)
  BY <1>1, <1>3 DEF Belongs, Descriptions
<1>5. u = UserOf[m.from]
  BY <1>2, <1>4 DEF RInv
<1> QED
  BY <1>1, <1>3, <1>5

-----------------------------------------------------------------------------
(* A store that hears of no more sessions than it can remember forgets none.*)

\* d is told of a session, and remembers it.
Hears(d) ==
    \E m \in net : /\ m.to = d /\ m.type \in Descriptions
                   /\ dev'[d].known
                        = Remember(dev[d], UserOf[m.from], m.session).known

\* A session is remembered once.
Distinct == \A d \in Devices : \A i, j \in DOMAIN dev[d].known :
                dev[d].known[i] = dev[d].known[j] => i = j

LEMMA KnownStep ==
  ASSUME IInv, [Next]_vars, NEW d \in Devices
  PROVE  dev'[d].known = dev[d].known \/ Hears(d)
<1> DEFINE Unheard == dev'[d].known = dev[d].known
<1>1. /\ dev = [e \in Devices |-> dev[e]]
      /\ \A e \in Devices : dev[e] \in Stores
      /\ \A r : Reset(r).known = r.known
  BY ResetKnown DEF IInv, StoresGood, Good
<1>2. ASSUME NEW e \in Devices, NEW r, dev' = [dev EXCEPT ![e] = r],
             r.known = dev[e].known
      PROVE  Unheard
  BY <1>1, <1>2
<1>3. CASE UNCHANGED vars
  BY <1>3 DEF vars
<1>4. ASSUME NEW e \in Devices, NEW u \in Users, StartCall(e, u) PROVE Unheard
  BY <1>1, <1>4 DEF StartCall, Stores
<1>5. ASSUME NEW l \in logs, LogAnswered(l) PROVE Unheard
  BY <1>1, <1>5 DEF LogAnswered, Stores
<1>6. ASSUME NEW e \in Devices,
             \/ Accept(e) \/ AcceptWithoutAccount(e) \/ Hangup(e)
             \/ LocalOffer(e) \/ LocalAnswer(e) \/ LocalIce(e)
             \/ Connected(e) \/ Disconnected(e) \/ EngineFails(e)
             \/ NoAnswer(e) \/ GraceOver(e) \/ Reoffer(e)
      PROVE  Unheard
  <2> DEFINE r == dev[e]
  <2>1. r \in Stores
    BY <1>1
  <2>2. ASSUME NEW why, EndCall(e, why) PROVE Unheard
    BY <1>1, <1>2, <2>2 DEF EndCall
  <2>3. CASE Hangup(e) \/ EngineFails(e) \/ NoAnswer(e) \/ GraceOver(e)
    BY <2>2, <2>3 DEF Hangup, EngineFails, NoAnswer, GraceOver
  <2>4. CASE Accept(e) \/ AcceptWithoutAccount(e)
    <3>1. CASE Accept(e)
      <4>1. dev'[e].known = dev[e].known
        BY <1>1, <3>1 DEF Accept, Stores
      <4>2. d # e => dev'[d] = dev[d]
        BY <1>1, <3>1 DEF Accept
      <4> QED
        BY <4>1, <4>2
    <3>2. CASE AcceptWithoutAccount(e)
      <4>1. [r EXCEPT !.offer = 0].known = r.known
        BY <2>1 DEF Stores
      <4>2. dev' = [dev EXCEPT ![e] = [r EXCEPT !.offer = 0]]
        BY <1>1, <3>2 DEF AcceptWithoutAccount
      <4> QED
        BY <1>2, <4>1, <4>2
    <3> QED
      BY <2>4, <3>1, <3>2
  <2>5. ASSUME NEW q, NEW out, StepStore(e, q, out), q.known = r.known
        PROVE  Unheard
    BY <1>2, <2>5 DEF StepStore
  <2>6. CASE LocalOffer(e) \/ LocalAnswer(e)
    <3>1. /\ [r EXCEPT !.engine.offered = TRUE, !.sid = r.engine.id].known = r.known
          /\ [r EXCEPT !.engine.answers = @ - 1].known = r.known
      BY <2>1 DEF Stores
    <3> HIDE DEF Unheard
    <3> QED
      BY <2>5, <2>6, <3>1 DEF LocalOffer, LocalAnswer
  <2>7. CASE LocalIce(e)
    <3> DEFINE g == [r EXCEPT !.engine.gathered = @ + 1]
               c == r.engine.gathered + 1
               h == [g EXCEPT !.localIce = @ \cup {c}]
    <3>1. g.known = r.known /\ h.known = r.known
      BY <2>1 DEF Stores
    <3>2. \E out : StepStore(e, g, out) \/ StepStore(e, h, out)
      BY <2>7 DEF LocalIce
    <3> HIDE DEF g, h, r, Unheard
    <3> QED
      BY <2>5, <3>1, <3>2
  <2>8. CASE Connected(e) \/ Disconnected(e)
    <3> DEFINE g == [r EXCEPT !.phase = "Connected", !.up = TRUE, !.timer = FALSE,
                              !.grace = FALSE]
               h == [r EXCEPT !.grace = TRUE]
    <3>1. g.known = r.known /\ h.known = r.known
      BY <2>1 DEF Stores
    <3>2. \E out : StepStore(e, g, out) \/ StepStore(e, h, out)
      BY <2>8 DEF Connected, Disconnected
    <3> HIDE DEF g, h, r, Unheard
    <3> QED
      BY <2>5, <3>1, <3>2
  <2>9. CASE Reoffer(e)
    BY <2>9 DEF Reoffer
  <2> HIDE DEF Unheard
  <2> QED
    BY <1>6, <2>3, <2>4, <2>6, <2>7, <2>8, <2>9
<1>7. ASSUME NEW e \in Devices, NEW f \in Devices, IceConnects(e, f) PROVE Unheard
  <2> DEFINE up(r) == [r EXCEPT !.engine.ice = "up"]
             g == [dev EXCEPT ![e] = up(dev[e])]
  <2>1. \A r \in Stores : up(r).known = r.known /\ up(r) \in Stores
    BY DEF Stores, Engines
  <2> HIDE DEF up
  <2>2. g = [x \in Devices |-> IF x = e THEN up(dev[x]) ELSE dev[x]]
    BY <1>1
  <2>3. \A x \in Devices : g[x].known = dev[x].known /\ g[x] \in Stores
    BY <1>1, <2>1, <2>2
  <2>4. dev' = [g EXCEPT ![f] = up(g[f])]
    BY <1>7 DEF IceConnects, up
  <2> HIDE DEF g
  <2>5. dev'[d] = g[d] \/ dev'[d] = up(g[d])
    BY <2>2, <2>4
  <2> QED
    BY <2>1, <2>3, <2>5
<1>8. ASSUME NEW m \in net, Deliver(m) PROVE Unheard \/ Hears(d)
  <2> DEFINE r == dev[m.to]
             u == UserOf[m.from]
             k == Remember(r, u, m.session)
             Told == m.type \in Descriptions
  <2>1. m.to \in Devices /\ r \in Stores /\ k \in Stores
    BY <1>1, RememberedStore DEF IInv, RestTyped, Signals
  <2>2. ASSUME NEW s, NEW out, dev' = [dev EXCEPT ![m.to] = s],
               s.known = r.known
        PROVE  Unheard
    BY <1>2, <2>1, <2>2
  <2>3. ASSUME Told, NEW s, dev' = [dev EXCEPT ![m.to] = s], s.known = k.known
        PROVE  Unheard \/ Hears(d)
    <3>1. CASE m.to = d
      BY <1>1, <2>3, <3>1 DEF Hears
    <3>2. CASE m.to # d
      BY <1>1, <2>1, <2>3, <3>2
    <3> QED
      BY <3>1, <3>2
  <2> HIDE DEF Unheard
  <2>4. ASSUME Ignore(m) PROVE Unheard
    BY <2>2, <2>4 DEF Ignore, Handled
  <2>5. ASSUME NEW out, Handled(m, Reset(r), out) PROVE Unheard
    BY <1>1, <2>2, <2>5 DEF Handled
  <2>6. ASSUME NEW why, RemoteEnd(m, why) PROVE Unheard
    BY <2>4, <2>5, <2>6 DEF RemoteEnd
  <2>7. CASE OnInit(m) \/ OnCancel(m) \/ OnLog(m)
    BY <2>4, <2>5, <2>7 DEF OnInit, OnCancel, OnLog
  <2>8. CASE OnQuit(m) \/ OnTimeout(m) \/ OnJoined(m)
    BY <2>4, <2>6, <2>8 DEF OnQuit, OnTimeout, OnJoined
  <2>9. CASE OnIce(m)
    <3> DEFINE c == <<m.session, m.ice>>
               s == [r EXCEPT !.engine.cands = @ \cup {c}]
               t == [r EXCEPT !.remoteIce = @ \cup {c}]
    <3>1. s.known = r.known /\ t.known = r.known
      BY <2>1 DEF Stores
    <3>2. Ignore(m) \/ Handled(m, s, {}) \/ Handled(m, t, {})
      BY <2>9 DEF OnIce
    <3> HIDE DEF s, t, r
    <3> QED
      BY <2>2, <2>4, <3>1, <3>2 DEF Handled
  <2>10. CASE OnReoffer(m)
    <3>1. \A e : [k EXCEPT !.engine = e].known = k.known
      BY <2>1 DEF Stores
    <3>2. Told /\ (Handled(m, k, {}) \/ \E e : Handled(m, [k EXCEPT !.engine = e], {}))
      BY <2>10 DEF OnReoffer, Descriptions
    <3>3. \E s : s.known = k.known /\ dev' = [dev EXCEPT ![m.to] = s]
      BY <3>1, <3>2 DEF Handled
    <3>4. Told
      BY <3>2
    <3> HIDE DEF k, r, Told
    <3> QED
      BY <2>3, <3>3, <3>4
  <2>11. CASE OnAnswer(m)
    <3> DEFINE s == [k EXCEPT !.engine = ApplyAnswer(@, m.session),
                              !.phase = "Connecting", !.localIce = {},
                              !.timer = TRUE]
    <3>1. s.known = k.known
      BY <2>1 DEF Stores
    <3>2. Told
      BY <2>11 DEF OnAnswer, Descriptions
    <3>3. dev' = [dev EXCEPT ![m.to] = s] \/ dev' = [dev EXCEPT ![m.to] = k]
      BY <2>11 DEF OnAnswer, Handled
    <3> HIDE DEF s, k, r, Told
    <3> QED
      BY <2>3, <3>1, <3>2, <3>3
  <2>12. CASE OnOffer(m)
    <3> DEFINE q == [k EXCEPT !.gen = @ + 1, !.peer = u, !.caller = FALSE,
                              !.offer = m.session, !.up = FALSE,
                              !.phase = "Incoming", !.timer = TRUE]
               out == SignalTo(m.to, DevicesOf(u), u, "JOINED", 0, 0)
    <3>1. Ignore(m) \/ Handled(m, r, out) \/ Handled(m, q, {})
      BY <2>12 DEF OnOffer
    <3>2. q.known = k.known
      BY <2>1 DEF Stores
    <3>3. Told
      BY <2>12 DEF OnOffer, Descriptions
    <3> HIDE DEF q, k, r, out, Told
    <3> QED
      BY <2>2, <2>3, <2>4, <3>1, <3>2, <3>3 DEF Handled
  <2> QED
    BY <1>8, <2>7, <2>8, <2>9, <2>10, <2>11, <2>12 DEF Deliver
<1>9. ASSUME NEW m \in net, Lose(m) PROVE Unheard
  BY <1>9 DEF Lose
<1> HIDE DEF Unheard
<1> QED
  BY <1>3, <1>4, <1>5, <1>6, <1>7, <1>8, <1>9 DEF Next, Unheard

LEMMA RememberedOnce ==
  ASSUME NEW r, r.known \in Seq(Users \X Nat), NEW u \in Users, NEW s \in Nat,
         \A i, j \in DOMAIN r.known : r.known[i] = r.known[j] => i = j,
         Known(r, u, s) \/ Len(r.known) < MaxKnown
  PROVE  /\ \A i, j \in DOMAIN Remember(r, u, s).known :
               Remember(r, u, s).known[i] = Remember(r, u, s).known[j] => i = j
         /\ \A v, t : Known(r, v, t) => Known(Remember(r, u, s), v, t)
<1>1. CASE Known(r, u, s)
  BY <1>1 DEF Remember, Known
<1>2. CASE ~Known(r, u, s)
  <2> DEFINE q == r.known
             w == Append(q, <<u, s>>)
  <2>1. Len(q) \in Nat /\ ~(Len(q) >= MaxKnown)
    BY <1>2, CallAssumption
  <2>2. Remember(r, u, s).known = w
    <3>1. Remember(r, u, s) = [r EXCEPT !.known = w]
      BY <1>2, <2>1 DEF Remember
    <3>2. "known" \in DOMAIN r \/ "known" \notin DOMAIN r
      OBVIOUS
    <3> HIDE DEF w
    <3> QED
      BY <3>1
  <2> DEFINE n == Len(q)
  <2>3. /\ DOMAIN q = 1 .. n /\ DOMAIN w = 1 .. n + 1
        /\ w[n + 1] = <<u, s>>
        /\ \A i \in 1 .. n : w[i] = q[i] /\ i \in DOMAIN w
    BY <2>1
  <2> HIDE DEF n
  <2>4. \A i \in DOMAIN w : i \in 1 .. n \/ i = n + 1
    <3>1. n \in Nat
      BY <2>1 DEF n
    <3> HIDE DEF w
    <3> QED
      BY <2>3, <3>1
  <2>5. \A i \in 1 .. n : q[i] # <<u, s>>
    BY <1>2, <2>3 DEF Known
  <2> HIDE DEF w, q
  <2>6. \A i, j \in DOMAIN w : w[i] = w[j] => i = j
    BY <2>3, <2>4, <2>5 DEF q
  <2>7. \A v, t : Known(r, v, t) => Known(Remember(r, u, s), v, t)
    BY <2>2, <2>3 DEF Known, q
  <2> QED
    BY <2>2, <2>6, <2>7
<1> QED
  BY <1>1, <1>2

\* The sessions that are remembered are different ones of those that there are.
LEMMA Room ==
  ASSUME IInv, RInv, Distinct, engines <= MaxKnown, NEW d \in Devices,
         NEW u \in Users, NEW s \in Nat, Belongs(u, s), ~Known(dev[d], u, s)
  PROVE  Len(dev[d].known) < MaxKnown
<1> DEFINE q == dev[d].known
           S == 1 .. Len(q)
           T == 1 .. engines
           f == [i \in S |-> q[i][2]]
<1>1. q \in Seq(Users \X Nat) /\ engines \in Nat /\ MaxKnown \in Nat
  BY CallAssumption DEF IInv, StoresGood, Good, RestTyped, Stores
<1>2. Len(q) \in Nat /\ DOMAIN q = S
  BY <1>1
<1>3. \A i \in S : q[i] \in Users \X Nat
  BY <1>1
<1>4. ASSUME NEW i \in S
      PROVE  /\ q[i][1] \in Users /\ q[i][2] \in Nat
             /\ q[i] = <<q[i][1], q[i][2]>>
             /\ Belongs(q[i][1], q[i][2])
  <2>1. q[i][1] \in Users /\ q[i][2] \in Nat /\ q[i] = <<q[i][1], q[i][2]>>
    BY <1>3, <1>4
  <2>2. Known(dev[d], q[i][1], q[i][2])
    BY <1>2, <1>4, <2>1 DEF Known
  <2> QED
    BY <2>1, <2>2 DEF Belongs
<1> HIDE DEF q
<1>5. \A i \in S : q[i][2] \in T \ {s}
  <2> SUFFICES ASSUME NEW i \in S PROVE q[i][2] \in T \ {s}
    OBVIOUS
  <2>1. q[i][2] \in T
    BY <1>1, <1>4 DEF RInv
  <2>2. q[i][2] # s
    <3> SUFFICES ASSUME q[i][2] = s PROVE FALSE
      OBVIOUS
    <3>1. q[i][1] = u
      BY <1>4 DEF RInv
    <3>2. q[i] = <<u, s>>
      BY <1>4, <3>1
    <3> QED
      BY <1>2, <3>2 DEF Known, q
  <2> QED
    BY <2>1, <2>2
<1>6. \A i, j \in S : q[i][2] = q[j][2] => i = j
  <2> SUFFICES ASSUME NEW i \in S, NEW j \in S, q[i][2] = q[j][2] PROVE i = j
    OBVIOUS
  <2>1. q[i][1] = q[j][1]
    BY <1>4 DEF RInv
  <2>2. q[i] = q[j]
    BY <1>4, <2>1
  <2> QED
    BY <1>2, <2>2 DEF Distinct, q
<1>7. f \in Injection(S, T \ {s})
  BY <1>5, <1>6 DEF Injection, IsInjective
<1>8. s \in T
  BY <1>1 DEF RInv
<1>9. /\ IsFiniteSet(T) /\ Cardinality(T) = engines
      /\ IsFiniteSet(S) /\ Cardinality(S) = Len(q)
  <2>1. \A n \in Nat : IsFiniteSet(1 .. n) /\ Cardinality(1 .. n) = n
    <3> SUFFICES ASSUME NEW n \in Nat
                 PROVE  IsFiniteSet(1 .. n) /\ Cardinality(1 .. n) = n
      OBVIOUS
    <3>1. 1 \in Int /\ n \in Int /\ (IF 1 > n THEN 0 ELSE n - 1 + 1) = n
      OBVIOUS
    <3> QED
      BY <3>1, FS_Interval
  <2> QED
    BY <1>1, <1>2, <2>1
<1>10. IsFiniteSet(T \ {s}) /\ Cardinality(T \ {s}) = engines - 1
  BY <1>8, <1>9, FS_RemoveElement
<1> HIDE DEF S, T, f
<1>11. Cardinality(S) <= Cardinality(T \ {s})
  BY <1>7, <1>10, FS_Injection
<1> QED
  BY <1>1, <1>2, <1>9, <1>10, <1>11 DEF q

LEMMA NoneForgotten ==
  ASSUME IInv, RInv, Distinct, engines <= MaxKnown, [Next]_vars
  PROVE  Remembers /\ Distinct'
<1> SUFFICES ASSUME NEW d \in Devices
             PROVE  /\ \A u \in Users, s \in Nat :
                          Known(dev[d], u, s) => Known(dev'[d], u, s)
                    /\ \A i, j \in DOMAIN dev'[d].known :
                          dev'[d].known[i] = dev'[d].known[j] => i = j
  BY DEF Remembers, Distinct
<1>1. CASE dev'[d].known = dev[d].known
  BY <1>1 DEF Known, Distinct
<1>2. CASE Hears(d)
  <2>1. PICK m \in net : /\ m.to = d /\ m.type \in Descriptions
                         /\ dev'[d].known
                              = Remember(dev[d], UserOf[m.from], m.session).known
    BY <1>2 DEF Hears
  <2> DEFINE u == UserOf[m.from]
             s == m.session
  <2>2. u \in Users /\ s \in Nat /\ dev[d].known \in Seq(Users \X Nat)
    BY DEF IInv, RestTyped, Signals, Users, StoresGood, Good, Stores
  <2>3. Belongs(u, s)
    BY <2>1 DEF Belongs
  <2>4. Known(dev[d], u, s) \/ Len(dev[d].known) < MaxKnown
    <3> HIDE DEF u, s
    <3> QED
      BY <2>2, <2>3, Room
  <2>5. \A i, j \in DOMAIN dev[d].known :
           dev[d].known[i] = dev[d].known[j] => i = j
    BY DEF Distinct
  <2> DEFINE r == Remember(dev[d], u, s)
  <2>6. /\ \A i, j \in DOMAIN r.known : r.known[i] = r.known[j] => i = j
        /\ \A v, t : Known(dev[d], v, t) => Known(r, v, t)
    <3> HIDE DEF u, s
    <3> QED
      BY <2>2, <2>4, <2>5, RememberedOnce
  <2>7. dev'[d].known = r.known
    BY <2>1
  <2> HIDE DEF r
  <2> QED
    BY <2>6, <2>7 DEF Known
<1> QED
  BY <1>1, <1>2, KnownStep

LEMMA InitDistinct == Init => Distinct
<1> SUFFICES ASSUME Init PROVE Distinct
  OBVIOUS
<1>1. \A d \in Devices : dev[d].known = <<>>
  BY DEF Init, IdleStore
<1> QED
  BY <1>1 DEF Distinct

\* A device rings at most once for a call, however often and however late its
\* offer comes (`on_offer` in a call store that remembers the sessions of its
\* peers), as long as no store drops a session to remember another one
\* (`remember_peer_session` drops the oldest of MAX_KNOWN_PEER_SESSIONS).
THEOREM RingsOnlyOnce == Spec /\ [][Remembers]_vars => RingsOnce
<1> DEFINE OneRing == \A d \in Devices :
              dev[d].phase = "Idle" /\ dev'[d].phase = "Incoming"
              => dev'[d].offer \notin rung[d]
<1>1. IInv /\ IInv' /\ RInv /\ [Next]_vars /\ [Remembers]_vars => RInv'
  BY StillRings, StepRings
<1>2. IInv /\ RInv /\ [Next]_vars => [OneRing]_vars
  BY RingsNew
<1> HIDE DEF OneRing
<1>3. Spec => []IInv
  BY Invariance
<1>4. Spec /\ [][Remembers]_vars => [][OneRing]_vars
  BY <1>1, <1>2, <1>3, InitRings, PTL DEF Spec
<1> QED
  BY <1>4 DEF OneRing, RingsOnce

\* So it does as long as there are no more engines than a store remembers
\* sessions, whatever stores, users and signals do.
THEOREM FewEnginesRingOnce == Spec /\ [](engines <= MaxKnown) => RingsOnce
<1> DEFINE OneRing == \A d \in Devices :
              dev[d].phase = "Idle" /\ dev'[d].phase = "Incoming"
              => dev'[d].offer \notin rung[d]
           Few == engines <= MaxKnown
<1>1. /\ IInv /\ IInv' /\ RInv /\ Distinct /\ Few /\ [Next]_vars
         => (RInv /\ Distinct)'
      /\ Init => RInv /\ Distinct
  BY NoneForgotten, StepRings, InitRings, InitDistinct
<1>2. IInv /\ RInv /\ [Next]_vars => [OneRing]_vars
  BY RingsNew
<1> HIDE DEF OneRing, Few
<1>3. Spec => []IInv
  BY Invariance
<1>4. Spec /\ []Few => [][OneRing]_vars
  BY <1>1, <1>2, <1>3, PTL DEF Spec
<1> QED
  BY <1>4 DEF OneRing, Few, RingsOnce
=============================================================================

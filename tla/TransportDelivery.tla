-------------------------- MODULE TransportDelivery --------------------------
(***************************************************************************)
(* Machine-checked theorems about what Transport delivers: a call is sent  *)
(* at most once, and answered with its own answer.                          *)
(***************************************************************************)
EXTENDS TransportProofs

\* Where the bytes of a request are before they are sent.
Unsent ==
    /\ \A r \in Requests : pc[r] \notin {"await", "http_wait", "done"} =>
         sent[r] = 0
    /\ \A n \in Conns, r \in Requests :
         Queued(n, r) => pc[r] \in {"await", "done"} /\ sent[r] = 0
    /\ AtMostOnce

\* They are in one place of one queue.
QueuedOnce ==
    \A n, m \in Conns : \A i \in 1 .. Len(queue[n]) :
      \A j \in 1 .. Len(queue[m]) :
        queue[n][i] = queue[m][j] /\ queue[n][i] # Handshake => n = m /\ i = j

OInv == TInv /\ Unsent /\ QueuedOnce

------------------------------------------------------------------------------
(* A call leaves the client at most once.                                   *)

\* A packet a step does not append was in the queue before it.
LEMMA QueuedOnceStep ==
  ASSUME OInv, Next
  PROVE  QueuedOnce'
<1>typed. LoopsTyped /\ TInv
  BY DEF OInv, TInv, TypeOK
<1>once. ASSUME NEW n \in Conns, NEW m \in Conns, NEW i \in 1 .. Len(queue[n]),
                NEW j \in 1 .. Len(queue[m]), queue[n][i] = queue[m][j],
                queue[n][i] # Handshake
         PROVE  n = m /\ i = j
  BY <1>once DEF OInv, QueuedOnce
<1>1. ASSUME NEW k \in Conns, NEW e, e = Handshake \/ \A n \in Conns : ~Queued(n, e),
             e \in Requests \cup {Handshake},
             queue' = [queue EXCEPT ![k] = Append(@, e)]
      PROVE  QueuedOnce'
  <2>1. ASSUME NEW n \in Conns, NEW i \in 1 .. Len(queue'[n])
        PROVE  \/ i \in 1 .. Len(queue[n]) /\ queue'[n][i] = queue[n][i]
               \/ n = k /\ i = Len(queue[k]) + 1 /\ queue'[n][i] = e
    <3>1. queue[n] \in Seq(Requests \cup {Handshake})
      BY <1>typed DEF LoopsTyped
    <3>2. CASE n = k
      <4>1. queue'[n] = Append(queue[n], e)
        BY <1>1, <3>2, <1>typed DEF LoopsTyped
      <4>2. QED
        BY <1>1, <2>1, <3>1, <3>2, <4>1, AppendProperties
    <3>3. CASE n # k
      BY <1>1, <2>1, <3>3, <1>typed DEF LoopsTyped
    <3>4. QED
      BY <3>2, <3>3
  <2>2. SUFFICES ASSUME NEW n \in Conns, NEW m \in Conns,
                        NEW i \in 1 .. Len(queue'[n]),
                        NEW j \in 1 .. Len(queue'[m]),
                        queue'[n][i] = queue'[m][j], queue'[n][i] # Handshake
                 PROVE  n = m /\ i = j
    BY DEF QueuedOnce
  <2>3. CASE i \in 1 .. Len(queue[n]) /\ queue'[n][i] = queue[n][i]
    <3>1. CASE j \in 1 .. Len(queue[m]) /\ queue'[m][j] = queue[m][j]
      <4>1. queue[n][i] = queue[m][j] /\ queue[n][i] # Handshake
        BY <2>2, <2>3, <3>1
      <4>2. QED
        BY <1>once, <2>3, <3>1, <4>1
    <3>2. CASE queue'[m][j] = e
      <4>1. Queued(n, e)
        BY <2>2, <2>3, <3>2 DEF Queued
      <4>2. QED
        BY <1>1, <2>2, <3>2, <4>1
    <3>3. QED
      BY <2>1, <3>1, <3>2
  <2>4. CASE n = k /\ i = Len(queue[k]) + 1 /\ queue'[n][i] = e
    <3>1. CASE j \in 1 .. Len(queue[m]) /\ queue'[m][j] = queue[m][j]
      <4>1. Queued(m, e)
        BY <2>2, <2>4, <3>1 DEF Queued
      <4>2. QED
        BY <1>1, <2>2, <2>4, <4>1
    <3>2. QED
      BY <2>1, <2>4, <3>1
  <2>5. QED
    BY <2>1, <2>3, <2>4
<1>2. ASSUME UNCHANGED queue PROVE QueuedOnce'
  BY <1>2 DEF OInv, QueuedOnce
<1>3. ASSUME NEW r \in Requests, Enqueue(r) PROVE QueuedOnce'
  <2>1. CASE UNCHANGED queue
    BY <1>2, <2>1
  <2>2. CASE queue' = [queue EXCEPT ![tx[r]] = Append(@, r)]
    <3>1. CASE tx[r] \in Conns
      <4>1. \A n \in Conns : ~Queued(n, r)
        BY <1>3 DEF Enqueue, OInv, Unsent
      <4>2. QED
        BY <1>1, <2>2, <3>1, <4>1
    <3>2. CASE tx[r] \notin Conns
      <4>1. UNCHANGED queue
        BY <2>2, <3>2, <1>typed DEF LoopsTyped
      <4>2. QED
        BY <1>2, <4>1
    <3>3. QED
      BY <3>1, <3>2
  <2>3. QED
    BY <1>3, <2>1, <2>2 DEF Enqueue, Abandon, loopVars
<1>4. ASSUME NEW d \in Drivers, QueueHandshake(d) PROVE QueuedOnce'
  <2>1. CASE UNCHANGED queue
    BY <1>2, <2>1
  <2>2. CASE queue' = [queue EXCEPT ![conns] = Append(@, Handshake)]
    <3>1. CASE conns \in Conns
      BY <1>1, <2>2, <3>1
    <3>2. CASE conns \notin Conns
      <4>1. UNCHANGED queue
        BY <2>2, <3>2, <1>typed DEF LoopsTyped
      <4>2. QED
        BY <1>2, <4>1
    <3>3. QED
      BY <3>1, <3>2
  <2>3. QED
    BY <1>4, <2>1, <2>2 DEF QueueHandshake
<1>5. ASSUME NEW k \in Conns, LoopWrite(k) PROVE QueuedOnce'
  <2>1. ASSUME NEW n \in Conns, NEW i \in 1 .. Len(queue'[n])
        PROVE  LET o == IF n = k THEN i + 1 ELSE i
               IN  o \in 1 .. Len(queue[n]) /\ queue'[n][i] = queue[n][o]
    <3>1. queue[n] \in Seq(Requests \cup {Handshake})
      BY <1>typed DEF LoopsTyped
    <3>2. CASE n = k
      <4>1. queue'[n] = Tail(queue[n]) /\ queue[n] # <<>>
        BY <1>5, <3>2, <1>typed DEF LoopWrite, LoopsTyped
      <4>2. /\ Len(Tail(queue[n])) = Len(queue[n]) - 1
            /\ \A j \in 1 .. Len(Tail(queue[n])) :
                 Tail(queue[n])[j] = queue[n][j + 1]
        BY <3>1, <4>1, HeadTailProperties
      <4>3. Len(queue[n]) \in Nat
        BY <3>1
      <4>4. QED
        BY <2>1, <3>2, <4>1, <4>2, <4>3
    <3>3. CASE n # k
      BY <1>5, <2>1, <3>3, <1>typed DEF LoopWrite, LoopsTyped
    <3>4. QED
      BY <3>2, <3>3
  <2>2. SUFFICES ASSUME NEW n \in Conns, NEW m \in Conns,
                        NEW i \in 1 .. Len(queue'[n]),
                        NEW j \in 1 .. Len(queue'[m]),
                        queue'[n][i] = queue'[m][j], queue'[n][i] # Handshake
                 PROVE  n = m /\ i = j
    BY DEF QueuedOnce
  <2>3. PICK a \in 1 .. Len(queue[n]) :
          queue'[n][i] = queue[n][a] /\ a = IF n = k THEN i + 1 ELSE i
    BY <2>1
  <2>4. PICK b \in 1 .. Len(queue[m]) :
          queue'[m][j] = queue[m][b] /\ b = IF m = k THEN j + 1 ELSE j
    BY <2>1
  <2>5. n = m /\ a = b
    <3>1. queue[n][a] = queue[m][b] /\ queue[n][a] # Handshake
      BY <2>2, <2>3, <2>4
    <3>2. QED
      BY <1>once, <3>1
  <2>6. QED
    BY <2>3, <2>4, <2>5
<1>6. QED
  BY <1>2, <1>3, <1>4, <1>5, QueueWriters

\* What is transmitted was not before: a queued frame, or an HTTP request.
LEMMA Transmission ==
  ASSUME OInv, Next, NEW s \in Requests
  PROVE  \/ sent'[s] = sent[s]
         \/ /\ sent'[s] = 1 /\ sent[s] = 0
            /\ \/ HttpSend(s) /\ pc'[s] = "http_wait"
               \/ /\ UNCHANGED pc
                  /\ \E n \in Conns : /\ LoopWrite(n)
                                      /\ Head(queue[n]) = s
                                      /\ Queued(n, s)
<1>typed. RequestsTyped /\ TInv
  BY DEF OInv, TInv, TypeOK
<1>uns. Unsent
  BY DEF OInv
<1>1. ASSUME NEW n \in Conns, LoopWrite(n), sent'[s] # sent[s]
      PROVE  /\ sent'[s] = 1 /\ sent[s] = 0 /\ UNCHANGED pc
             /\ Head(queue[n]) = s /\ Queued(n, s)
  <2>1. Head(queue[n]) = s /\ sent'[s] = sent[s] + 1 /\ UNCHANGED pc
    BY <1>1, <1>typed DEF LoopWrite, RequestsTyped
  <2>2. Queued(n, s)
    BY <1>1, <2>1, <1>typed, HeadQueued
  <2>3. sent[s] = 0
    BY <2>2, <1>uns DEF Unsent
  <2>4. QED
    BY <2>1, <2>2, <2>3
<1>2. ASSUME NEW r \in Requests, HttpSend(r), sent'[s] # sent[s]
      PROVE  sent'[s] = 1 /\ sent[s] = 0 /\ HttpSend(s) /\ pc'[s] = "http_wait"
  <2>1. r = s /\ sent'[s] = sent[s] + 1 /\ pc'[s] = "http_wait"
    BY <1>2, <1>typed DEF HttpSend, RequestsTyped
  <2>2. sent[s] = 0
    BY <1>2, <2>1, <1>uns DEF HttpSend, Unsent
  <2>3. QED
    BY <1>2, <2>1, <2>2
<1>3. QED
  BY <1>1, <1>2, SentWriters

\* A transmission takes the frame out of the only place it was in.
LEMMA UnsentStep ==
  ASSUME OInv, Next
  PROVE  Unsent'
<1>typed. LoopsTyped /\ RequestsTyped /\ TInv
  BY DEF OInv, TInv, TypeOK
<1>uns. Unsent
  BY DEF OInv
<1>1. ASSUME NEW s \in Requests
      PROVE  \/ sent'[s] = sent[s]
             \/ /\ sent'[s] = 1 /\ sent[s] = 0
                /\ \/ HttpSend(s) /\ pc'[s] = "http_wait"
                   \/ /\ UNCHANGED pc
                      /\ \E n \in Conns : /\ LoopWrite(n)
                                          /\ Head(queue[n]) = s
                                          /\ Queued(n, s)
  BY Transmission
<1>2. ASSUME NEW s \in Requests, pc'[s] \notin {"await", "http_wait", "done"}
      PROVE  sent'[s] = 0
  <2>1. pc[s] \notin {"await", "http_wait", "done"}
    <3>1. CASE pc'[s] # pc[s]
      <4>1. Issue(s) \/ RequestStep(s)
        BY <3>1, <1>typed, OwnSteps
      <4>2. QED
        BY <1>2, <4>1, <1>typed
           DEF Issue, RequestStep, Route, Gate, GateTimeout, Register, Submit,
               TakeSender, Enqueue, Complete, Timeout, HttpSend, HttpAnswer,
               Abandon, RequestsTyped
    <3>2. QED
      BY <1>2, <3>1
  <2>2. sent[s] = 0
    BY <2>1, <1>uns DEF Unsent
  <2>3. \A n \in Conns : ~Queued(n, s)
    BY <2>1, <1>uns DEF Unsent
  <2>4. QED
    BY <1>1, <1>2, <2>2, <2>3
<1>3. ASSUME NEW n \in Conns, NEW s \in Requests, Queued(n, s)'
      PROVE  pc'[s] \in {"await", "done"} /\ sent'[s] = 0
  <2>1. CASE Queued(n, s)
    <3>1. pc[s] \in {"await", "done"} /\ sent[s] = 0
      BY <2>1, <1>uns DEF Unsent
    <3>2. pc'[s] \in {"await", "done"}
      <4>1. CASE pc'[s] # pc[s]
        <5>1. Issue(s) \/ RequestStep(s)
          BY <4>1, <1>typed, OwnSteps
        <5>2. QED
          BY <3>1, <5>1, <1>typed DEF Issue, RequestStep, Route, Gate,
             GateTimeout, Register, Submit, TakeSender, Enqueue, Complete,
             Timeout, HttpSend, HttpAnswer, Abandon, RequestsTyped
      <4>2. QED
        BY <3>1, <4>1
    <3>3. ASSUME NEW m \in Conns, LoopWrite(m), Head(queue[m]) = s PROVE FALSE
      <4>1. queue[m] \in Seq(Requests \cup {Handshake}) /\ queue[m] # <<>>
            /\ queue'[m] = Tail(queue[m])
        BY <3>3, <1>typed DEF LoopWrite, LoopsTyped
      <4>2. PICK i \in 1 .. Len(queue'[n]) : queue'[n][i] = s
        BY <1>3 DEF Queued
      <4>3. s # Handshake
        BY TransportAssumption
      <4>4. \A k \in Conns : \A j \in 1 .. Len(queue[k]) :
              queue[k][j] = s => k = m /\ j = 1
        <5>1. 1 \in 1 .. Len(queue[m]) /\ queue[m][1] = s
          BY <3>3, <4>1
        <5>2. QED
          BY <4>3, <5>1 DEF OInv, QueuedOnce
      <4>5. CASE n = m
        <5>1. /\ Len(Tail(queue[n])) = Len(queue[n]) - 1
              /\ \A j \in 1 .. Len(Tail(queue[n])) :
                   Tail(queue[n])[j] = queue[n][j + 1]
          BY <4>1, <4>5, HeadTailProperties
        <5>2. Len(queue[n]) \in Nat
          BY <4>1, <4>5
        <5>3. queue[n][i + 1] = s /\ i + 1 \in 1 .. Len(queue[n])
          <6>1. queue'[n] = Tail(queue[n])
            BY <4>1, <4>5
          <6>2. i \in 1 .. Len(queue[n]) - 1
            BY <4>2, <5>1, <6>1
          <6>3. QED
            BY <4>2, <5>1, <5>2, <6>1, <6>2
        <5>4. i + 1 = 1
          BY <4>4, <5>3
        <5>5. QED
          BY <4>2, <5>4
      <4>6. CASE n # m
        <5>1. queue'[n] = queue[n]
          BY <3>3, <4>6, <1>typed DEF LoopWrite, LoopsTyped
        <5>2. QED
          BY <4>2, <4>4, <4>6, <5>1
      <4>7. QED
        BY <4>5, <4>6
    <3>4. ~HttpSend(s)
      BY <3>1 DEF HttpSend
    <3>5. QED
      BY <1>1, <3>1, <3>2, <3>3, <3>4
  <2>2. CASE pc[s] = "enqueue" /\ Enqueue(s) /\ ~Queued(n, s)
    <3>1. pc'[s] = "await" /\ UNCHANGED sent
      <4>1. CASE Abandon(s)
        BY <1>3, <2>2, <4>1 DEF Abandon, Queued, loopVars
      <4>2. CASE ~Abandon(s)
        BY <2>2, <4>2, <1>typed DEF Enqueue, RequestsTyped
      <4>3. QED
        BY <4>1, <4>2
    <3>2. sent[s] = 0
      BY <2>2, <1>uns DEF Unsent
    <3>3. QED
      BY <3>1, <3>2
  <2>3. QED
    BY <1>3, <2>1, <2>2, <1>typed, WireStep
<1>4. ASSUME NEW s \in Requests PROVE sent'[s] <= 1
  BY <1>1, <1>uns DEF Unsent, AtMostOnce
<1>5. QED
  BY <1>2, <1>3, <1>4 DEF Unsent, AtMostOnce

LEMMA OInvStep ==
  ASSUME OInv, [Next]_vars
  PROVE  OInv'
<1>1. CASE Next
  BY <1>1, TInvStep, UnsentStep, QueuedOnceStep DEF OInv
<1>2. CASE UNCHANGED vars
  BY <1>2, TInvStep DEF OInv, Unsent, QueuedOnce, AtMostOnce, Queued,
     vars, reqVars, loopVars
<1>3. QED
  BY <1>1, <1>2

\* "The fallback deliberately never retries a request the socket already
\* accepted": the bytes of a call leave the client at most once.
THEOREM SentAtMostOnce == Spec => []AtMostOnce
<1>1. Init => OInv
  <2>1. Init => Unsent /\ QueuedOnce
    BY DEF Init, Unsent, QueuedOnce, AtMostOnce, Queued
  <2>2. QED
    BY <2>1, InitTyped DEF OInv
<1>2. OInv => AtMostOnce
  BY DEF OInv, Unsent
<1>3. QED
  BY <1>1, OInvStep, <1>2, PTL DEF Spec

------------------------------------------------------------------------------
(* Two requests never compete for one cid.                                  *)

\* A request that can no longer be answered nor answer anybody.
Resolved(r) == ~InFlight(r) /\ OffTheWire(r)

CidsExclusive ==
    /\ \A r \in Requests : pc[r] = "idle" => cid[r] = 0
    /\ \A r, s \in Requests :
         r # s /\ cid[r] = cid[s] /\ cid[r] # 0 => Resolved(r) \/ Resolved(s)

EInv == HInv /\ CidsExclusive

\* A call keeps its cid for ever.
LEMMA CidKept ==
  ASSUME EInv, Next, NEW s \in Requests, cid[s] # 0
  PROVE  pc[s] # "idle" /\ cid'[s] = cid[s]
<1>1. pc[s] # "idle"
  BY DEF EInv, CidsExclusive
<1>2. RequestsTyped
  BY DEF EInv, HInv, TInv, TypeOK
<1>3. ASSUME NEW r \in Requests, Issue(r) PROVE cid'[s] = cid[s]
  BY <1>1, <1>2, <1>3 DEF Issue, RequestsTyped
<1>4. QED
  BY <1>1, <1>3, CidWriters

\* Once over and off the wire, a call stays so.
LEMMA ResolvedStays ==
  ASSUME EInv, Next, NEW s \in Requests, cid[s] # 0, Resolved(s)
  PROVE  Resolved(s)'
<1>typed. RequestsTyped /\ LoopsTyped /\ TInv
  BY DEF EInv, HInv, TInv, TypeOK
<1>1. pc[s] = "done"
  BY CidKept DEF Resolved, InFlight
<1>2. pc'[s] = "done"
  <2>1. CASE pc'[s] # pc[s]
    <3>1. Issue(s) \/ RequestStep(s)
      BY <2>1, <1>typed, OwnSteps
    <3>2. QED
      BY <1>1, <3>1
         DEF Issue, RequestStep, Route, Gate, GateTimeout, Register, Submit,
             TakeSender, Enqueue, Complete, Timeout, HttpSend, HttpAnswer,
             Abandon
  <2>2. QED
    BY <1>1, <2>1
<1>3. ASSUME NEW n \in Conns, loop'[n] # "gone"
      PROVE  ~Queued(n, s)' /\ s \notin server'[n]
  <2>1. CASE loop[n] # "gone"
    <3>1. ~Queued(n, s) /\ s \notin server[n]
      BY <2>1 DEF Resolved, OffTheWire, Queued
    <3>2. ~(LoopWrite(n) /\ Head(queue[n]) = s)
      BY <3>1, <1>typed, HeadQueued
    <3>3. QED
      BY <3>1, <3>2, <1>1, <1>typed, WireStep
  <2>2. CASE loop[n] = "gone"
    <3>1. PICK d \in Drivers : Spawn(d)
      <4>1. ASSUME NEW m \in Conns, LoopStep(m) PROVE FALSE
        BY <1>3, <2>2, <4>1, <1>typed
           DEF LoopStep, LoopWrite, LoopBreak, LoopSilent, LoopMarkClosed,
               LoopSignalClosed, LoopClear, LoopChunk, LoopReply,
               LoopOversize, LoopsTyped
      <4>2. ASSUME NEW d \in Drivers, Retire(d) \/ CloseAbort(d) PROVE FALSE
        BY <1>3, <2>2, <4>2, <1>typed
           DEF Retire, CloseAbort, Aborted, LoopsTyped
      <4>3. QED
        BY <1>3, <2>2, <4>1, <4>2, LoopWriters
    <3>2. n = conns + 1
      BY <1>3, <2>2, <3>1, <1>typed DEF Spawn, LoopsTyped
    <3>3. queue[n] = <<>> /\ server[n] = {}
      BY <3>2, <1>typed DEF EInv, HInv, ConnsSpawned, LoopsTyped
    <3>4. queue'[n] = <<>> /\ server'[n] = {}
      BY <3>1, <3>3 DEF Spawn
    <3>5. QED
      BY <3>4 DEF Queued
  <2>3. QED
    BY <2>1, <2>2
<1>4. QED
  BY <1>2, <1>3 DEF Resolved, OffTheWire, Queued, InFlight

\* CidFree, the named bound of the environment, keeps cids exclusive.
LEMMA CidsExclusiveStep ==
  ASSUME EInv, Next
  PROVE  CidsExclusive'
<1>typed. RequestsTyped /\ TInv /\ TransportTyped
  BY DEF EInv, HInv, TInv, TypeOK
<1>1. ASSUME NEW r \in Requests, pc'[r] = "idle" PROVE cid'[r] = 0
  <2>1. CASE pc[r] = "idle"
    <3>1. cid[r] = 0
      BY <2>1 DEF EInv, CidsExclusive
    <3>2. ASSUME NEW q \in Requests, Issue(q) PROVE cid'[r] = 0
      <4>1. q # r
        BY <1>1, <3>2, <1>typed DEF Issue, RequestsTyped
      <4>2. QED
        BY <3>1, <3>2, <4>1, <1>typed DEF Issue, RequestsTyped
    <3>3. QED
      BY <3>1, <3>2, CidWriters
  <2>2. CASE pc[r] # "idle"
    <3>1. Issue(r) \/ RequestStep(r)
      BY <1>1, <2>2, <1>typed, OwnSteps
    <3>2. QED
      BY <1>1, <2>2, <3>1, <1>typed
         DEF Issue, RequestStep, Route, Gate, GateTimeout, Register, Submit,
             TakeSender, Enqueue, Complete, Timeout, HttpSend, HttpAnswer,
             Abandon, RequestsTyped
  <2>3. QED
    BY <2>1, <2>2
<1>2. ASSUME NEW r \in Requests, NEW s \in Requests, r # s,
             cid'[r] = cid'[s], cid'[r] # 0
      PROVE  Resolved(r)' \/ Resolved(s)'
  <2>1. CASE UNCHANGED cid
    BY <1>2, <2>1, ResolvedStays DEF EInv, CidsExclusive
  <2>2. ASSUME NEW q \in Requests, Issue(q)
        PROVE  Resolved(r)' \/ Resolved(s)'
    <3>1. /\ CidFree(NextCid) /\ cid' = [cid EXCEPT ![q] = NextCid]
          /\ NextCid # 0
      BY <2>2, TransportAssumption, <1>typed DEF Issue, NextCid, TransportTyped
    <3>2. ASSUME NEW t \in Requests, t # q, cid[t] = NextCid PROVE Resolved(t)'
      <4>1. Resolved(t)
        BY <3>1, <3>2 DEF CidFree, Resolved
      <4>2. QED
        BY <3>1, <3>2, <4>1, ResolvedStays
    <3>3. CASE r = q
      BY <1>2, <3>1, <3>2, <3>3, <1>typed DEF RequestsTyped
    <3>4. CASE s = q
      BY <1>2, <3>1, <3>2, <3>4, <1>typed DEF RequestsTyped
    <3>5. CASE r # q /\ s # q
      <4>1. cid[r] = cid[s] /\ cid[r] # 0
        BY <1>2, <3>1, <3>5, <1>typed DEF RequestsTyped
      <4>2. QED
        BY <1>2, <4>1, ResolvedStays DEF EInv, CidsExclusive
    <3>6. QED
      BY <3>3, <3>4, <3>5
  <2>3. QED
    BY <2>1, <2>2, CidWriters
<1>3. QED
  BY <1>1, <1>2 DEF CidsExclusive

------------------------------------------------------------------------------
(* The pending map holds exactly the live executors.                        *)

PInv == EInv /\ PendingOwned

\* Two calls under way, or one and a frame, never share a cid.
LEMMA NoRival ==
  ASSUME EInv, NEW r \in Requests, NEW s \in Requests,
         cid[r] = cid[s], cid[r] # 0,
         ~Resolved(r), ~Resolved(s)
  PROVE  r = s
BY DEF EInv, CidsExclusive

\* A frame the server still has to answer keeps its call unresolved.
LEMMA ServedUnresolved ==
  ASSUME EInv, NEW n \in Conns, NEW r \in Requests,
         loop[n] = "running", r \in server[n]
  PROVE  ~Resolved(r) /\ cid[r] # 0
BY DEF EInv, HInv, TInv, CidsAssigned, Resolved, OffTheWire

\* The entry an answer finds belongs to the request it answers.
LEMMA EntryOfAnswer ==
  ASSUME PInv, NEW n \in Conns, NEW q \in Requests,
         loop[n] = "running", q \in server[n]
  PROVE  /\ cid[q] \in Cids
         /\ pending[cid[q]] \in {q, NoRequest}
<1>1. ~Resolved(q) /\ cid[q] # 0
  BY ServedUnresolved DEF PInv
<1>2. cid[q] \in Cids
  BY <1>1, TransportAssumption
     DEF PInv, EInv, HInv, TInv, TypeOK, RequestsTyped, Cids
<1>3. ASSUME pending[cid[q]] # NoRequest PROVE pending[cid[q]] = q
  <2> DEFINE p == pending[cid[q]]
  <2>1. p \in Requests
    BY <1>2, <1>3 DEF PInv, EInv, HInv, TInv, TypeOK, TransportTyped
  <2>2. Registered(p) /\ cid[p] = cid[q]
    BY <1>2, <1>3 DEF PInv, PendingOwned
  <2>3. ~Resolved(p)
    BY <2>2 DEF Resolved, InFlight, Registered
  <2>4. QED
    BY <1>1, <2>1, <2>2, <2>3, NoRival DEF PInv
<1>4. QED
  BY <1>2, <1>3

\* The entry under the cid of a request being made or given up is its own.
LEMMA EntryOfRequest ==
  ASSUME PInv, NEW r \in Requests, InFlight(r)
  PROVE  /\ cid[r] \in Cids
         /\ pending[cid[r]] \in {r, NoRequest}
         /\ \A s \in Requests \ {r} : cid[s] = cid[r] => ~Registered(s)
<1>1. ~Resolved(r) /\ cid[r] # 0
  BY DEF PInv, EInv, HInv, TInv, CidsAssigned, Resolved, InFlight
<1>2. cid[r] \in Cids
  BY <1>1, TransportAssumption
     DEF PInv, EInv, HInv, TInv, TypeOK, RequestsTyped, Cids
<1>3. ASSUME NEW s \in Requests, cid[s] = cid[r], Registered(s) PROVE s = r
  <2>1. ~Resolved(s)
    BY <1>3 DEF Resolved, InFlight, Registered
  <2>2. QED
    BY <1>1, <1>3, <2>1, NoRival DEF PInv
<1>4. ASSUME pending[cid[r]] # NoRequest PROVE pending[cid[r]] = r
  <2>1. pending[cid[r]] \in Requests
    BY <1>2, <1>4 DEF PInv, EInv, HInv, TInv, TypeOK, TransportTyped
  <2>2. QED
    BY <1>2, <1>3, <1>4, <2>1 DEF PInv, PendingOwned
<1>5. QED
  BY <1>2, <1>3, <1>4

\* Every step leaves the map owned.
LEMMA PendingOwnedStep ==
  ASSUME PInv, Next
  PROVE  PendingOwned'
<1>typed. RequestsTyped /\ TransportTyped /\ TInv /\ EInv
  BY DEF PInv, EInv, HInv, TInv, TypeOK
<1>own. PendingOwned
  BY DEF PInv
<1>none. NoRequest \notin Requests
  BY TransportAssumption
\* A request that leaves its slot alone moves on among the registered phases,
\* unless its oneshot was resolved.
<1>1. ASSUME NEW s \in Requests, slot[s] = "armed", UNCHANGED <<slot, pending>>
      PROVE  /\ Registered(s) => Registered(s)' /\ cid'[s] = cid[s]
             /\ Registered(s)' => Registered(s) \/ Register(s)
  <2>1. ASSUME Registered(s) PROVE cid'[s] = cid[s]
    <3>1. cid[s] # 0
      BY <2>1, <1>typed DEF Registered, TInv, CidsAssigned
    <3>2. QED
      BY <3>1, <1>typed, CidKept
  <2>2. CASE pc'[s] # pc[s]
    <3>1. Issue(s) \/ RequestStep(s)
      BY <2>2, <1>typed, OwnSteps
    <3>2. CASE Abandon(s) /\ Registered(s)
      <4>1. pending[cid[s]] = s /\ cid[s] \in Cids
        BY <1>1, <3>2, <1>own, EntryOfRequest
           DEF PendingOwned, InFlight, Registered
      <4>2. pending'[cid[s]] = NoRequest
        BY <3>2, <4>1, <1>typed DEF Abandon, TransportTyped
      <4>3. QED
        BY <1>1, <4>1, <4>2, <1>none
    <3>3. CASE ~(Abandon(s) /\ Registered(s))
      <4>1. CASE Issue(s) \/ Route(s) \/ Gate(s) \/ GateTimeout(s)
        <5>1. ~Registered(s) /\ ~Registered(s)'
          BY <4>1, <1>typed DEF Issue, Route, Gate, GateTimeout, Registered,
             RequestsTyped
        <5>2. QED
          BY <5>1
      <4>2. CASE Submit(s) \/ TakeSender(s) \/ Enqueue(s)
        <5>1. Registered(s) /\ Registered(s)'
          BY <3>3, <4>2, <1>typed DEF Submit, TakeSender, Enqueue, Registered,
             RequestsTyped
        <5>2. QED
          BY <2>1, <5>1
      <4>3. CASE HttpSend(s) \/ HttpAnswer(s)
        <5>1. ~Registered(s) /\ ~Registered(s)'
          BY <4>3, <1>typed DEF HttpSend, HttpAnswer, Registered,
             RequestsTyped
        <5>2. QED
          BY <5>1
      <4>4. CASE Register(s)
        <5>1. ~Registered(s)
          BY <4>4 DEF Register, Registered
        <5>2. QED
          BY <4>4, <5>1
      <4>5. CASE Complete(s) \/ Timeout(s)
        BY <1>1, <3>3, <4>5 DEF Complete, Timeout, Registered
      <4>6. QED
        BY <3>1, <4>1, <4>2, <4>3, <4>4, <4>5 DEF RequestStep
    <3>4. QED
      BY <3>2, <3>3
  <2>3. CASE pc'[s] = pc[s]
    BY <2>1, <2>3 DEF Registered
  <2>4. QED
    BY <2>2, <2>3
<1>2. CASE UNCHANGED <<slot, pending>> /\ \A r \in Requests : ~Register(r)
  BY <1>1, <1>2, <1>own, <1>typed DEF PendingOwned, TransportTyped
<1>3. ASSUME NEW r \in Requests, Register(r) PROVE PendingOwned'
  <2>1. InFlight(r) /\ ~Registered(r)
    BY <1>3 DEF Register, InFlight, Registered
  <2>2. /\ cid[r] \in Cids
        /\ pending[cid[r]] \in {r, NoRequest}
        /\ \A s \in Requests \ {r} : cid[s] = cid[r] => ~Registered(s)
    BY <2>1, EntryOfRequest
  <2>3. pending[cid[r]] = NoRequest
    BY <2>1, <2>2, <1>own, <1>none DEF PendingOwned
  <2>4. /\ slot' = [slot EXCEPT ![r] = "armed"]
        /\ pending' = [pending EXCEPT ![cid[r]] = r]
        /\ pc' = [pc EXCEPT ![r] = "submit"]
        /\ UNCHANGED cid
    BY <1>3, <2>3 DEF Register, Dropped
  <2>5. ASSUME NEW c \in Cids, pending'[c] # NoRequest
        PROVE  /\ Registered(pending[c])'
               /\ cid'[pending'[c]] = c
               /\ slot'[pending'[c]] = "armed"
    <3>1. CASE c = cid[r]
      BY <2>2, <2>4, <3>1, <1>typed
         DEF Registered, RequestsTyped, TransportTyped
    <3>2. CASE c # cid[r]
      <4>1. pending'[c] = pending[c] /\ pending[c] \in Requests
        BY <2>4, <2>5, <3>2, <1>typed DEF TransportTyped
      <4>2. /\ Registered(pending[c]) /\ cid[pending[c]] = c
            /\ slot[pending[c]] = "armed"
        BY <2>5, <4>1, <1>own DEF PendingOwned
      <4>3. pending[c] # r
        BY <3>2, <4>2
      <4>4. QED
        BY <2>4, <4>1, <4>2, <4>3, <1>typed DEF Registered, RequestsTyped
    <3>3. QED
      BY <3>1, <3>2
  <2>6. ASSUME NEW s \in Requests, Registered(s)', slot'[s] = "armed"
        PROVE  pending'[cid'[s]] = s
    <3>1. CASE s = r
      BY <2>2, <2>4, <3>1, <1>typed DEF TransportTyped
    <3>2. CASE s # r
      <4>1. Registered(s) /\ slot[s] = "armed"
        BY <2>4, <2>6, <3>2, <1>typed DEF Registered, RequestsTyped
      <4>2. pending[cid[s]] = s /\ cid[s] # cid[r]
        BY <2>2, <3>2, <4>1, <1>own DEF PendingOwned
      <4>3. cid[s] \in Cids
        BY <4>1, EntryOfRequest DEF InFlight, Registered
      <4>4. QED
        BY <2>4, <4>2, <4>3, <1>typed DEF TransportTyped
    <3>3. QED
      BY <3>1, <3>2
  <2>7. QED
    BY <2>5, <2>6 DEF PendingOwned
<1>4. ASSUME NEW r \in Requests, Registered(r), Abandon(r) PROVE PendingOwned'
  <2>1. /\ cid[r] \in Cids
        /\ pending[cid[r]] \in {r, NoRequest}
        /\ \A s \in Requests \ {r} : cid[s] = cid[r] => ~Registered(s)
    BY <1>4, EntryOfRequest DEF InFlight, Registered
  <2>2. /\ \A s \in Requests \ {r} : slot'[s] = slot[s] /\ pc'[s] = pc[s]
        /\ ~Registered(r)'
        /\ pending' = [pending EXCEPT ![cid[r]] = NoRequest]
        /\ UNCHANGED cid
    BY <1>4, <2>1, <1>typed
       DEF Abandon, Dropped, Registered, RequestsTyped
  <2>3. ASSUME NEW c \in Cids, pending'[c] # NoRequest
        PROVE  /\ Registered(pending[c])'
               /\ cid'[pending'[c]] = c
               /\ slot'[pending'[c]] = "armed"
    <3>1. c # cid[r] /\ pending'[c] = pending[c] /\ pending[c] \in Requests
      BY <2>1, <2>2, <2>3, <1>typed DEF TransportTyped
    <3>2. /\ Registered(pending[c]) /\ cid[pending[c]] = c
          /\ slot[pending[c]] = "armed"
      BY <2>3, <3>1, <1>own DEF PendingOwned
    <3>3. pending[c] # r
      BY <3>1, <3>2
    <3>4. QED
      BY <2>2, <3>1, <3>2, <3>3 DEF Registered
  <2>4. ASSUME NEW s \in Requests, Registered(s)', slot'[s] = "armed"
        PROVE  pending'[cid'[s]] = s
    <3>1. s # r /\ Registered(s) /\ slot[s] = "armed"
      BY <2>2, <2>4 DEF Registered
    <3>2. pending[cid[s]] = s /\ cid[s] # cid[r]
      BY <2>1, <3>1, <1>own DEF PendingOwned
    <3>3. cid[s] \in Cids
      BY <3>1, EntryOfRequest DEF InFlight, Registered
    <3>4. QED
      BY <2>2, <3>2, <3>3, <1>typed DEF TransportTyped
  <2>5. QED
    BY <2>3, <2>4 DEF PendingOwned
<1>5. ASSUME NEW n \in Conns, NEW q \in Requests, NEW kind, kind # "armed",
             NEW origins, loop[n] = "running", q \in server[n],
             Deliver(cid[q], kind, origins), UNCHANGED <<pc, cid>>
      PROVE  PendingOwned'
  <2>1. cid[q] \in Cids /\ pending[cid[q]] \in {q, NoRequest}
    BY <1>5, EntryOfAnswer
  <2>2. CASE pending[cid[q]] = NoRequest
    BY <1>5, <2>2, <1>own DEF Deliver, PendingOwned, Registered
  <2>3. CASE pending[cid[q]] = q
    <3>1. /\ pending' = [pending EXCEPT ![cid[q]] = NoRequest]
          /\ slot' = [slot EXCEPT ![q] = kind]
      BY <1>5, <2>3, <1>none DEF Deliver
    <3>2. ASSUME NEW c \in Cids, pending'[c] # NoRequest
          PROVE  /\ Registered(pending[c])'
                 /\ cid'[pending'[c]] = c
                 /\ slot'[pending'[c]] = "armed"
      <4>1. c # cid[q] /\ pending'[c] = pending[c] /\ pending[c] \in Requests
        BY <2>1, <3>1, <3>2, <1>typed DEF TransportTyped
      <4>2. /\ Registered(pending[c]) /\ cid[pending[c]] = c
            /\ slot[pending[c]] = "armed"
        BY <3>2, <4>1, <1>own DEF PendingOwned
      <4>3. QED
        BY <1>5, <3>1, <4>1, <4>2, <1>typed DEF Registered, RequestsTyped
    <3>3. ASSUME NEW s \in Requests, Registered(s)', slot'[s] = "armed"
          PROVE  pending'[cid'[s]] = s
      <4>1. s # q /\ Registered(s) /\ slot[s] = "armed"
        BY <1>5, <3>1, <3>3, <1>typed DEF Registered, RequestsTyped
      <4>2. pending[cid[s]] = s /\ cid[s] # cid[q]
        BY <2>3, <4>1, <1>own DEF PendingOwned
      <4>3. cid[s] \in Cids
        BY <4>1, EntryOfRequest DEF InFlight, Registered
      <4>4. QED
        BY <1>5, <3>1, <4>2, <4>3, <1>typed DEF TransportTyped
    <3>4. QED
      BY <3>2, <3>3 DEF PendingOwned
  <2>4. QED
    BY <2>1, <2>2, <2>3
<1>6. ASSUME NEW n \in Conns, NEW q \in Requests,
             LoopReply(n, q) \/ LoopOversize(n, q)
      PROVE  PendingOwned'
  <2>1. CASE LoopReply(n, q)
    BY <1>5, <2>1, Zenon DEF LoopReply
  <2>2. CASE LoopOversize(n, q)
    BY <1>5, <2>2, Zenon DEF LoopOversize
  <2>3. QED
    BY <1>6, <2>1, <2>2
<1>7. ASSUME ClearPending, UNCHANGED <<pc, cid>> PROVE PendingOwned'
  <2>1. \A c \in Cids : pending'[c] = NoRequest
    BY <1>7 DEF ClearPending
  <2>2. ASSUME NEW s \in Requests, Registered(s)', slot'[s] = "armed"
        PROVE  FALSE
    <3>1. Registered(s) /\ slot[s] = "armed" /\ \A c \in Cids : pending[c] # s
      BY <1>7, <2>2, <1>typed DEF ClearPending, Registered, RequestsTyped
    <3>2. pending[cid[s]] = s
      BY <3>1, <1>own DEF PendingOwned
    <3>3. cid[s] \in Cids
      BY <3>1, EntryOfRequest DEF InFlight, Registered
    <3>4. QED
      BY <3>1, <3>2, <3>3
  <2>3. QED
    BY <2>1, <2>2 DEF PendingOwned
<1>8. QED
  <2>1. ASSUME NEW n \in Conns, LoopClear(n) PROVE PendingOwned'
    BY <1>7, <2>1 DEF LoopClear
  <2>2. ASSUME NEW d \in Drivers, CloseClear(d) PROVE PendingOwned'
    BY <1>7, <2>2 DEF CloseClear
  <2>3. QED
    BY <1>2, <1>3, <1>4, <1>6, <2>1, <2>2, PendingWriters

LEMMA PInvStep ==
  ASSUME PInv, [Next]_vars
  PROVE  PInv'
<1>1. HInv'
  BY HInvStep DEF PInv, EInv
<1>2. CASE Next
  BY <1>1, <1>2, CidsExclusiveStep, PendingOwnedStep DEF PInv, EInv
<1>3. CASE UNCHANGED vars
  BY <1>1, <1>3 DEF PInv, EInv, CidsExclusive, PendingOwned, Resolved,
     InFlight, OffTheWire, Registered, vars, reqVars, loopVars
<1>4. QED
  BY <1>2, <1>3

\* The pending map holds exactly the live executors: nothing leaks in it, and
\* nobody waits on a oneshot that no reply, close or timeout can find.
THEOREM PendingAlwaysOwned == Spec => []PendingOwned
<1>1. Init => PInv
  <2>1. Init => HInv
    BY InitHInv
  <2>2. Init => CidsExclusive /\ PendingOwned
    BY DEF Init, CidsExclusive, PendingOwned, Registered
  <2>3. QED
    BY <2>1, <2>2 DEF PInv, EInv
<1>2. PInv => PendingOwned
  BY DEF PInv
<1>3. QED
  BY <1>1, PInvStep, <1>2, PTL DEF Spec

------------------------------------------------------------------------------
(* A caller is answered with its own answer.                                *)

\* What the server answers was sent, and what is reassembled belongs to it.
Origins ==
    /\ \A n \in Conns : \A r \in server[n] : sent[r] = 1
    /\ \A n \in Conns, c \in Cids : \A r \in partial[n][c] :
         r \in server[n] /\ cid[r] = c

OwnAnswers == \A r \in Requests :
    /\ slot[r] = "reply" => body[r] = {r} /\ sent[r] = 1
    /\ slot[r] = "too_large" => sent[r] = 1
    /\ outcome[r] = "ok" => body[r] = {r} /\ sent[r] = 1
    /\ outcome[r] = "too_large" => sent[r] = 1
    /\ outcome[r] # "none" <=> pc[r] = "done"
    /\ pc[r] = "http_wait" => sent[r] = 1

DInv == PInv /\ OInv /\ Origins /\ OwnAnswers

\* Nothing is sent back.
LEMMA SentStays ==
  ASSUME OInv, Next, NEW s \in Requests, sent[s] = 1
  PROVE  sent'[s] = 1
BY Transmission

\* Reassembly only ever holds chunks of one call.
LEMMA OriginsStep ==
  ASSUME DInv, Next
  PROVE  Origins'
<1>typed. LoopsTyped /\ TInv /\ EInv /\ OInv /\ RequestsTyped
  BY DEF DInv, PInv, EInv, HInv, TInv, TypeOK
<1>1. ASSUME NEW n \in Conns, NEW s \in Requests, s \in server'[n]
      PROVE  sent'[s] = 1
  <2>1. CASE s \in server[n]
    BY <2>1, <1>typed, SentStays DEF DInv, Origins
  <2>2. CASE LoopWrite(n) /\ Head(queue[n]) = s
    <3>1. sent[s] = 0
      BY <2>2, <1>typed, HeadQueued DEF OInv, Unsent
    <3>2. sent'[s] = sent[s] + 1
      BY <2>2, <1>typed, TransportAssumption DEF LoopWrite, RequestsTyped
    <3>3. QED
      BY <3>1, <3>2
  <2>3. QED
    BY <1>1, <1>typed, <2>1, <2>2, WireStep
<1>2. ASSUME NEW n \in Conns, NEW c \in Cids, NEW s \in Requests,
             s \in partial'[n][c]
      PROVE  s \in server'[n] /\ cid'[s] = c
  <2>1. \/ s \in partial[n][c]
        \/ LoopChunk(n, s) /\ cid[s] = c
    <3>1. ASSUME NEW m \in Conns, NEW q \in Requests, LoopChunk(m, q)
          PROVE  s \in partial[n][c] \/ (LoopChunk(n, s) /\ cid[s] = c)
      <4>1. partial' = [partial EXCEPT ![m][cid[q]] = @ \cup {q}]
        BY <3>1 DEF LoopChunk
      <4>2. s \in partial[n][c] \/ (m = n /\ cid[q] = c /\ s = q)
        BY <1>2, <4>1, <1>typed DEF LoopsTyped
      <4>3. QED
        BY <3>1, <4>2
    <3>2. ASSUME NEW m \in Conns, NEW k, partial' = StreamTaken(m, k)
          PROVE  s \in partial[n][c]
      BY <1>2, <3>2, <1>typed DEF StreamTaken, LoopsTyped
    <3>3. QED
      BY <1>2, <3>1, <3>2, PartialWriters DEF LoopReply, LoopOversize
  <2>2. s \in server[n] /\ cid[s] = c
    BY <2>1 DEF LoopChunk, DInv, Origins
  <2>3. cid'[s] = c
    <3>1. cid[s] # 0
      BY <2>2 DEF Cids
    <3>2. QED
      BY <2>2, <3>1, <1>typed, CidKept
  <2>4. s \in server'[n]
    <3>1. ASSUME NEW m \in Conns, LoopWrite(m) PROVE s \in server'[n]
      <4>1. server' = [server EXCEPT ![m] = @ \cup {Head(queue[m])}] \/ UNCHANGED server
        BY <3>1 DEF LoopWrite
      <4>2. QED
        BY <2>2, <4>1, <1>typed DEF LoopsTyped
    <3>2. ASSUME NEW m \in Conns, NEW q \in Requests, LoopReply(m, q)
          PROVE  s \in server'[n]
      <4>1. CASE m = n /\ q = s
        <5>1. partial'[n] = [partial[n] EXCEPT ![c] = {}]
          BY <2>2, <3>2, <4>1, <1>typed DEF LoopReply, StreamTaken, LoopsTyped
        <5>2. partial'[n][c] = {}
          BY <5>1, <1>typed DEF LoopsTyped
        <5>3. QED
          BY <1>2, <5>2
      <4>2. CASE ~(m = n /\ q = s)
        BY <2>2, <3>2, <4>2, <1>typed DEF LoopReply, LoopsTyped
      <4>3. QED
        BY <4>1, <4>2
    <3>3. QED
      BY <2>2, <3>1, <3>2, ServerWriters
  <2>5. QED
    BY <2>3, <2>4
<1>3. TypeOK'
  BY <1>typed, TInvStep DEF TInv
<1>4. QED
  BY <1>1, <1>2, <1>3 DEF Origins, TypeOK, LoopsTyped

\* The chunks under the cid of an answer are that answer's.
LEMMA StreamOfAnswer ==
  ASSUME DInv, NEW n \in Conns, NEW q \in Requests,
         loop[n] = "running", q \in server[n]
  PROVE  partial[n][cid[q]] \cup {q} = {q}
<1>typed. LoopsTyped /\ EInv
  BY DEF DInv, PInv, EInv, HInv, TInv, TypeOK
<1>1. cid[q] \in Cids
  BY EntryOfAnswer DEF DInv
<1>2. ASSUME NEW t \in partial[n][cid[q]] PROVE t = q
  <2>1. t \in Requests /\ t \in server[n] /\ cid[t] = cid[q]
    BY <1>1, <1>typed DEF DInv, Origins, LoopsTyped
  <2>2. QED
    BY <2>1, <1>typed, NoRival, ServedUnresolved
<1>3. QED
  BY <1>2

\* The step of a loop that resolves a request.
LEMMA DeliveryStep ==
  ASSUME DInv, NEW n \in Conns, NEW q \in Requests,
         LoopReply(n, q) \/ LoopOversize(n, q)
  PROVE  /\ UNCHANGED <<pc, cid, outcome, sent>>
         /\ \/ UNCHANGED <<slot, body>>
            \/ /\ outcome[q] = "none"
               /\ \A s \in Requests \ {q} : slot'[s] = slot[s] /\ body'[s] = body[s]
               /\ slot'[q] = "reply" => body'[q] = {q}
               /\ sent[q] = 1
<1>typed. LoopsTyped /\ RequestsTyped /\ TransportTyped /\ PInv
  BY DEF DInv, PInv, EInv, HInv, TInv, TypeOK
<1>none. NoRequest \notin Requests
  BY TransportAssumption
<1>1. loop[n] = "running" /\ q \in server[n] /\ UNCHANGED <<pc, cid, outcome, sent>>
  BY DEF LoopReply, LoopOversize
<1>2. cid[q] \in Cids /\ pending[cid[q]] \in {q, NoRequest}
  BY <1>1, <1>typed, EntryOfAnswer
<1>3. sent[q] = 1
  BY <1>1 DEF DInv, Origins
<1>4. CASE pending[cid[q]] = NoRequest
  BY <1>1, <1>4 DEF LoopReply, LoopOversize, Deliver
<1>5. CASE pending[cid[q]] = q
  <2>1. Registered(q)
    BY <1>2, <1>5, <1>none DEF DInv, PInv, PendingOwned
  <2>2. outcome[q] = "none"
    BY <2>1 DEF Registered, DInv, OwnAnswers
  <2>3. CASE LoopReply(n, q)
    <3>1. body' = [body EXCEPT ![q] = {q}] /\ slot' = [slot EXCEPT ![q] = "reply"]
      BY <1>1, <1>5, <1>none, <2>3, StreamOfAnswer DEF LoopReply, Deliver
    <3>2. QED
      BY <1>1, <1>3, <2>2, <3>1, <1>typed DEF RequestsTyped
  <2>4. CASE LoopOversize(n, q)
    <3>1. body' = [body EXCEPT ![q] = {}] /\ slot' = [slot EXCEPT ![q] = "too_large"]
      BY <1>5, <1>none, <2>4 DEF LoopOversize, Deliver
    <3>2. QED
      BY <1>1, <1>3, <2>2, <3>1, <1>typed DEF RequestsTyped
  <2>5. QED
    BY <2>3, <2>4
<1>6. QED
  BY <1>2, <1>4, <1>5

\* Every step leaves callers with their own answers.
LEMMA OwnAnswersStep ==
  ASSUME DInv, Next
  PROVE  OwnAnswers'
<1>typed. RequestsTyped /\ TInv /\ OInv
  BY DEF DInv, PInv, EInv, HInv, TInv, TypeOK
<1>own. OwnAnswers
  BY DEF DInv
<1>1. ASSUME NEW n \in Conns, NEW q \in Requests,
             LoopReply(n, q) \/ LoopOversize(n, q)
      PROVE  OwnAnswers'
  BY <1>1, <1>own, DeliveryStep DEF OwnAnswers
<1>2. ASSUME \A n \in Conns, q \in Requests :
               ~LoopReply(n, q) /\ ~LoopOversize(n, q),
             NEW s \in Requests
      PROVE  /\ slot'[s] = "reply" => body'[s] = {s} /\ sent'[s] = 1
             /\ slot'[s] = "too_large" => sent'[s] = 1
             /\ outcome'[s] = "ok" => body'[s] = {s} /\ sent'[s] = 1
             /\ outcome'[s] = "too_large" => sent'[s] = 1
             /\ outcome'[s] # "none" <=> pc'[s] = "done"
             /\ pc'[s] = "http_wait" => sent'[s] = 1
  <2>1. body'[s] = body[s] \/ body'[s] = {s}
    BY <1>2, <1>typed, BodyWriters DEF HttpAnswer, RequestsTyped
  <2>2. slot'[s] \in {"reply", "too_large"} => slot[s] = slot'[s]
    <3>1. ASSUME NEW r \in Requests, Register(r) \/ Abandon(r)
          PROVE  slot'[s] \in {"reply", "too_large"} => slot[s] = slot'[s]
      BY <3>1, <1>typed DEF Register, Abandon, Dropped, RequestsTyped
    <3>2. ASSUME ClearPending
          PROVE  slot'[s] \in {"reply", "too_large"} => slot[s] = slot'[s]
      BY <3>2, <1>typed DEF ClearPending, RequestsTyped
    <3>3. QED
      BY <1>2, <3>1, <3>2, PendingWriters DEF LoopClear, CloseClear
  <2>3. /\ slot'[s] = "reply" => body'[s] = {s} /\ sent'[s] = 1
        /\ slot'[s] = "too_large" => sent'[s] = 1
    BY <2>1, <2>2, <1>own, <1>typed, SentStays DEF OwnAnswers
  <2>4. CASE outcome'[s] = outcome[s] /\ pc'[s] = pc[s]
    BY <2>1, <2>3, <2>4, <1>own, <1>typed, SentStays DEF OwnAnswers
  <2>5. CASE ~(outcome'[s] = outcome[s] /\ pc'[s] = pc[s])
    <3>1. Issue(s) \/ RequestStep(s)
      BY <2>5, <1>typed, OwnSteps
    <3>2. CASE Complete(s)
      <4>1. /\ outcome'[s] \in {"ok", "too_large", "error"}
            /\ outcome'[s] = "ok" => slot[s] = "reply"
            /\ outcome'[s] = "too_large" => slot[s] = "too_large"
            /\ pc'[s] = "done" /\ UNCHANGED <<slot, body, sent>>
        BY <3>2, <1>typed DEF Complete, Results, RequestsTyped
      <4>2. QED
        BY <4>1, <1>own DEF OwnAnswers
    <3>3. CASE HttpAnswer(s)
      <4>1. sent[s] = 1 /\ UNCHANGED sent
        BY <3>3, <1>own DEF HttpAnswer, OwnAnswers
      <4>2. /\ outcome'[s] \in {"ok", "error"}
            /\ outcome'[s] = "ok" => body'[s] = {s}
            /\ pc'[s] = "done"
        BY <3>3, <1>typed DEF HttpAnswer, RequestsTyped
      <4>3. QED
        BY <2>3, <4>1, <4>2
    <3>4. CASE HttpSend(s)
      <4>1. \/ pc'[s] = "done" /\ outcome'[s] = "error"
            \/ pc'[s] = "http_wait" /\ outcome'[s] = outcome[s] /\ sent'[s] = sent[s] + 1
        BY <3>4, <1>typed DEF HttpSend, RequestsTyped
      <4>2. sent[s] = 0 /\ outcome[s] = "none"
        BY <3>4, <1>own, <1>typed DEF HttpSend, OInv, Unsent, OwnAnswers
      <4>3. QED
        BY <2>3, <4>1, <4>2
    <3>5. ASSUME Abandon(s) PROVE pc'[s] = "done" /\ outcome'[s] = "error"
      BY <3>5, <1>typed DEF Abandon, RequestsTyped
    <3>6. CASE Submit(s) \/ TakeSender(s) \/ Enqueue(s) \/ Timeout(s)
      <4>1. CASE Abandon(s)
        BY <2>3, <3>5, <4>1
      <4>2. CASE ~Abandon(s)
        <5>1. /\ outcome'[s] = outcome[s]
              /\ pc[s] # "done" /\ pc'[s] \notin {"done", "http_wait"}
          BY <3>6, <4>2, <1>typed
             DEF Submit, TakeSender, Enqueue, Timeout, RequestsTyped
        <5>2. QED
          BY <2>3, <5>1, <1>own DEF OwnAnswers
      <4>3. QED
        BY <4>1, <4>2
    <3>7. CASE Issue(s) \/ Route(s) \/ Gate(s) \/ GateTimeout(s) \/ Register(s)
      <4>1. /\ pc[s] # "done" /\ pc'[s] # "http_wait"
            /\ \/ outcome'[s] = outcome[s] /\ pc'[s] # "done"
               \/ outcome'[s] = "error" /\ pc'[s] = "done"
        BY <3>7, <1>typed DEF Issue, Route, Gate, GateTimeout, Register,
           RequestsTyped
      <4>2. QED
        BY <2>3, <4>1, <1>own DEF OwnAnswers
    <3>8. QED
      BY <3>1, <3>2, <3>3, <3>4, <3>6, <3>7 DEF RequestStep
  <2>6. QED
    BY <2>4, <2>5
<1>3. QED
  BY <1>1, <1>2 DEF OwnAnswers

LEMMA InitDInv == Init => DInv
<1>1. Init => Unsent /\ QueuedOnce /\ Origins /\ OwnAnswers
  BY DEF Init, Unsent, QueuedOnce, AtMostOnce, Queued, Origins, OwnAnswers
<1>2. Init => HInv /\ TInv
  BY InitHInv, InitTyped
<1>3. Init => CidsExclusive /\ PendingOwned
  BY DEF Init, CidsExclusive, PendingOwned, Registered
<1>4. QED
  BY <1>1, <1>2, <1>3 DEF DInv, PInv, EInv, OInv

LEMMA DInvStep ==
  ASSUME DInv, [Next]_vars
  PROVE  DInv'
<1>1. PInv' /\ OInv'
  BY PInvStep, OInvStep DEF DInv
<1>2. CASE Next
  BY <1>1, <1>2, OriginsStep, OwnAnswersStep DEF DInv
<1>3. CASE UNCHANGED vars
  BY <1>1, <1>3 DEF DInv, Origins, OwnAnswers, vars, reqVars, loopVars
<1>4. QED
  BY <1>2, <1>3

\* A caller that is told "ok" holds the answer to its own request, however late
\* other answers come, cids are reused and chunks of two answers interleave.
THEOREM NeverMisdelivered == Spec => []NoMisdelivery
<1>1. DInv => NoMisdelivery
  BY DEF DInv, OwnAnswers, NoMisdelivery
<1>2. QED
  BY InitDInv, DInvStep, <1>1, PTL DEF Spec

------------------------------------------------------------------------------
(* The transport implements its contract (safety; TLC checks the liveness). *)

\* The refinement mapping of Contract.
Status(r) == IF pc[r] = "idle" THEN "idle"
             ELSE IF pc[r] = "done" THEN outcome[r] ELSE "open"
Answered(r) == IF outcome[r] = "ok" THEN body[r] ELSE {}

\* What a caller can see of a step.
LEMMA Visible ==
  ASSUME DInv, Next, NEW r \in Requests
  PROVE  \/ UNCHANGED <<Status(r), sent[r], Answered(r)>>
         \/ /\ Status(r) = "idle" /\ Status(r)' = "open"
            /\ UNCHANGED <<sent[r], Answered(r)>>
         \/ /\ Status(r) \in {"open", "error"} /\ sent[r] = 0 /\ sent'[r] = 1
            /\ UNCHANGED <<Status(r), Answered(r)>>
         \/ /\ Status(r) = "open" /\ sent[r] = 1 /\ Status(r)' = "ok"
            /\ Answered(r)' = {r} /\ UNCHANGED sent[r]
         \/ /\ Status(r) = "open" /\ sent[r] = 1 /\ Status(r)' = "too_large"
            /\ UNCHANGED <<sent[r], Answered(r)>>
         \/ /\ Status(r) = "open" /\ Status(r)' = "error"
            /\ UNCHANGED <<sent[r], Answered(r)>>
<1>typed. RequestsTyped /\ TInv /\ OInv
  BY DEF DInv, PInv, EInv, HInv, TInv, TypeOK
<1>own. OwnAnswers /\ OwnAnswers'
  BY OwnAnswersStep DEF DInv
<1>1. CASE pc'[r] = pc[r] /\ outcome'[r] = outcome[r]
  <2>1. UNCHANGED <<Status(r), Answered(r)>>
    BY <1>1, <1>own DEF Status, Answered, OwnAnswers
  <2>2. CASE sent'[r] # sent[r]
    <3>1. sent[r] = 0 /\ sent'[r] = 1
      BY <2>2, <1>typed, Transmission
    <3>2. pc[r] \in {"await", "done"}
      <4>1. ~HttpSend(r) \/ pc'[r] # "http_wait"
        BY <1>1 DEF HttpSend
      <4>2. PICK n \in Conns : Queued(n, r)
        BY <2>2, <4>1, <1>typed, Transmission
      <4>3. QED
        BY <4>2 DEF DInv, OInv, Unsent
    <3>3. outcome[r] \notin {"ok", "too_large"}
      BY <3>1, <1>own DEF OwnAnswers
    <3>4. Status(r) \in {"open", "error"}
      BY <3>2, <3>3, <1>own, <1>typed DEF Status, OwnAnswers, RequestsTyped
    <3>5. QED
      BY <2>1, <3>1, <3>4
  <2>3. QED
    BY <2>1, <2>2
<1>2. CASE ~(pc'[r] = pc[r] /\ outcome'[r] = outcome[r])
  <2>1. Issue(r) \/ RequestStep(r)
    BY <1>2, <1>typed, OwnSteps
  <2>2. pc[r] # "done" /\ outcome[r] = "none"
    <3>1. pc[r] # "done"
      BY <2>1 DEF Issue, RequestStep, Route, Gate, GateTimeout, Register,
         Submit, TakeSender, Enqueue, Complete, Timeout, HttpSend, HttpAnswer
    <3>2. QED
      BY <3>1, <1>own DEF OwnAnswers
  <2>3. CASE Issue(r)
    <3>1. /\ pc[r] = "idle" /\ pc'[r] \notin {"idle", "done"}
          /\ UNCHANGED <<sent, outcome, body>>
      BY <2>3, <1>typed DEF Issue, RequestsTyped, reqVars
    <3>2. QED
      BY <2>2, <3>1 DEF Status, Answered
  <2>4. ASSUME pc[r] # "idle", pc'[r] = "done", outcome'[r] = "error",
               UNCHANGED sent
        PROVE  /\ Status(r) = "open" /\ Status(r)' = "error"
               /\ UNCHANGED <<sent[r], Answered(r)>>
    BY <2>2, <2>4 DEF Status, Answered
  <2>5. ASSUME pc[r] # "idle", pc'[r] \notin {"idle", "done"},
               UNCHANGED outcome
        PROVE  UNCHANGED <<Status(r), Answered(r)>> /\ Status(r) = "open"
    BY <2>2, <2>5 DEF Status, Answered
  <2>6. ASSUME Abandon(r), pc[r] # "idle"
        PROVE  /\ Status(r) = "open" /\ Status(r)' = "error"
               /\ UNCHANGED <<sent[r], Answered(r)>>
    <3>1. pc'[r] = "done" /\ outcome'[r] = "error" /\ UNCHANGED sent
      BY <2>6, <1>typed DEF Abandon, RequestsTyped
    <3>2. QED
      BY <2>4, <2>6, <3>1
  <2>7. CASE Route(r) \/ Gate(r) \/ Register(r)
    <3>1. /\ pc[r] # "idle" /\ pc'[r] \notin {"idle", "done"}
          /\ UNCHANGED <<sent, outcome>>
      BY <2>7, <1>typed DEF Route, Gate, Register, RequestsTyped
    <3>2. QED
      BY <2>5, <3>1
  <2>8. CASE GateTimeout(r)
    <3>1. /\ pc[r] # "idle" /\ pc'[r] = "done" /\ outcome'[r] = "error"
          /\ UNCHANGED sent
      BY <2>8, <1>typed DEF GateTimeout, RequestsTyped
    <3>2. QED
      BY <2>4, <3>1
  <2>9. CASE Submit(r) \/ TakeSender(r) \/ Enqueue(r) \/ Timeout(r)
    <3>1. CASE Abandon(r)
      BY <2>6, <2>9, <3>1 DEF Submit, TakeSender, Enqueue, Timeout
    <3>2. CASE ~Abandon(r)
      <4>1. /\ pc[r] # "idle" /\ pc'[r] \notin {"idle", "done"}
            /\ UNCHANGED <<sent, outcome>>
        BY <2>9, <3>2, <1>typed
           DEF Submit, TakeSender, Enqueue, Timeout, RequestsTyped
      <4>2. QED
        BY <2>5, <4>1
    <3>3. QED
      BY <3>1, <3>2
  <2>10. CASE Complete(r)
    <3>1. /\ pc[r] = "await" /\ pc'[r] = "done"
          /\ \/ outcome'[r] = "error"
             \/ outcome'[r] = "ok" /\ slot[r] = "reply"
             \/ outcome'[r] = "too_large" /\ slot[r] = "too_large"
          /\ UNCHANGED <<sent, slot, body>>
      BY <2>10, <1>typed DEF Complete, Results, RequestsTyped
    <3>2. CASE outcome'[r] # "error"
      BY <2>2, <3>1, <3>2, <1>own DEF Status, Answered, OwnAnswers
    <3>3. CASE outcome'[r] = "error"
      BY <2>4, <3>1, <3>3
    <3>4. QED
      BY <3>2, <3>3
  <2>11. CASE HttpSend(r)
    <3>1. CASE pc'[r] = "http_wait"
      <4>1. /\ pc[r] = "http" /\ sent[r] = 0 /\ sent'[r] = 1
            /\ UNCHANGED outcome
        BY <2>11, <3>1, <1>typed
           DEF HttpSend, RequestsTyped, OInv, Unsent
      <4>2. QED
        BY <2>5, <3>1, <4>1
    <3>2. CASE pc'[r] # "http_wait"
      <4>1. /\ pc[r] = "http" /\ pc'[r] = "done" /\ outcome'[r] = "error"
            /\ UNCHANGED sent
        BY <2>11, <3>2, <1>typed DEF HttpSend, RequestsTyped
      <4>2. QED
        BY <2>4, <4>1
    <3>3. QED
      BY <3>1, <3>2
  <2>12. CASE HttpAnswer(r)
    <3>1. /\ pc[r] = "http_wait" /\ pc'[r] = "done" /\ UNCHANGED sent
          /\ outcome'[r] \in {"ok", "error"}
          /\ outcome'[r] = "ok" => body'[r] = {r}
      BY <2>12, <1>typed DEF HttpAnswer, RequestsTyped
    <3>2. sent[r] = 1
      BY <3>1, <1>own DEF OwnAnswers
    <3>3. QED
      BY <2>2, <3>1, <3>2 DEF Status, Answered
  <2>13. QED
    BY <2>1, <2>3, <2>7, <2>8, <2>9, <2>10, <2>11, <2>12 DEF RequestStep
<1>3. QED
  BY <1>1, <1>2

\* A step is visible to one caller at most.
LEMMA OneAtATime ==
  ASSUME DInv, Next
  PROVE  \E r : \A s \in Requests \ {r} :
           UNCHANGED <<Status(s), sent[s], Answered(s)>>
<1>typed. RequestsTyped /\ TInv /\ OInv
  BY DEF DInv, PInv, EInv, HInv, TInv, TypeOK
<1>1. ASSUME NEW r \in Requests, Issue(r) \/ RequestStep(r),
             NEW s \in Requests \ {r}
      PROVE  UNCHANGED <<pc[s], outcome[s], sent[s], body[s]>>
  <2>1. CASE Issue(r) \/ Route(r) \/ Gate(r) \/ GateTimeout(r) \/ Register(r)
    BY <1>1, <2>1, <1>typed DEF Issue, Route, Gate, GateTimeout, Register,
       RequestsTyped
  <2>2. ASSUME Abandon(r)
        PROVE  UNCHANGED <<pc[s], outcome[s], sent[s], body[s]>>
    BY <1>1, <2>2, <1>typed DEF Abandon, RequestsTyped
  <2>3. CASE Submit(r) \/ TakeSender(r) \/ Enqueue(r) \/ Timeout(r)
    BY <1>1, <2>2, <2>3, <1>typed DEF Submit, TakeSender, Enqueue, Timeout,
       RequestsTyped
  <2>4. CASE Complete(r) \/ HttpSend(r) \/ HttpAnswer(r)
    BY <1>1, <2>4, <1>typed DEF Complete, HttpSend, HttpAnswer, RequestsTyped
  <2>5. QED
    BY <1>1, <2>1, <2>3, <2>4 DEF RequestStep
<1>2. CASE \E r \in Requests : Issue(r) \/ RequestStep(r)
  BY <1>1, <1>2 DEF Status, Answered
<1>3. ASSUME NEW n \in Conns, LoopStep(n)
      PROVE  \E r : \A s \in Requests \ {r} :
               UNCHANGED <<Status(s), sent[s], Answered(s)>>
  <2>1. CASE LoopWrite(n)
    <3>1. \A s \in Requests \ {Head(queue[n])} : sent'[s] = sent[s]
      BY <2>1, <1>typed DEF LoopWrite, RequestsTyped
    <3>2. UNCHANGED <<pc, outcome, body>>
      BY <2>1 DEF LoopWrite
    <3>3. QED
      BY <3>1, <3>2 DEF Status, Answered
  <2>2. ASSUME NEW q \in Requests, LoopReply(n, q) \/ LoopOversize(n, q)
        PROVE  \A s \in Requests \ {q} :
                 UNCHANGED <<Status(s), sent[s], Answered(s)>>
    BY <2>2, DeliveryStep DEF Status, Answered
  <2>3. CASE \E q \in Requests : LoopReply(n, q) \/ LoopOversize(n, q)
    BY <2>2, <2>3
  <2>4. CASE ~LoopWrite(n) /\ \A q \in Requests :
                               ~LoopReply(n, q) /\ ~LoopOversize(n, q)
    <3>1. UNCHANGED <<pc, outcome, sent, body>>
      BY <1>3, <2>4 DEF LoopStep, LoopBreak, LoopSilent, LoopMarkClosed,
         LoopSignalClosed, LoopClear, LoopChunk, reqVars
    <3>2. QED
      BY <3>1 DEF Status, Answered
  <2>5. QED
    BY <2>1, <2>3, <2>4
<1>4. ASSUME NEW d \in Drivers, DriverStep(d)
      PROVE  \A s \in Requests : UNCHANGED <<Status(s), sent[s], Answered(s)>>
  <2>1. UNCHANGED <<pc, outcome, sent, body>>
    BY <1>4
       DEF DriverStep, Connect, Dial, Retire, Spawn, StoreTask, QueueHandshake,
           PublishSender, MarkOpen, SignalOpen, CloseSignal, CloseClear,
           CloseMark, CloseSender, CloseTake, CloseAbort, reqVars
  <2>2. QED
    BY <2>1 DEF Status, Answered
<1>5. QED
  BY <1>2, <1>3, <1>4 DEF Next

\* The sockets, threads and timers implement the contract: one transmission at
\* most, the caller's own answer or an error, a result that never changes.
THEOREM ImplementsContract == Spec => Contract!Spec
<1>1. Init => Contract!Init
  BY DEF Init, Contract!Init
<1>2. ASSUME DInv, [Next]_vars PROVE [Contract!Next]_(Contract!vars)
  <2>1. CASE Next
    <3>1. PICK r : \A s \in Requests \ {r} :
                     UNCHANGED <<Status(s), sent[s], Answered(s)>>
      BY <1>2, <2>1, OneAtATime
    <3> DEFINE status == [s \in Requests |-> Status(s)]
               answer == [s \in Requests |-> Answered(s)]
    <3>2. sent \in [Requests -> Nat] /\ sent' \in [Requests -> Nat]
      BY <1>2, DInvStep DEF DInv, OInv, TInv, TypeOK, RequestsTyped
    <3>3. \/ \A s \in Requests : UNCHANGED <<Status(s), sent[s], Answered(s)>>
          \/ r \in Requests
      BY <3>1
    <3>4. CASE \A s \in Requests : UNCHANGED <<Status(s), sent[s], Answered(s)>>
      <4>1. UNCHANGED <<status, sent, answer>>
        BY <3>2, <3>4
      <4>2. QED
        BY <4>1 DEF Contract!vars, Status, Answered
    <3>5. CASE r \in Requests
      <4>1. /\ status' = [status EXCEPT ![r] = Status(r)']
            /\ answer' = [answer EXCEPT ![r] = Answered(r)']
            /\ sent' = [sent EXCEPT ![r] = sent'[r]]
        BY <3>1, <3>2, <3>5
      <4>2. /\ UNCHANGED Status(r) => UNCHANGED status
            /\ UNCHANGED Answered(r) => UNCHANGED answer
            /\ UNCHANGED sent[r] => UNCHANGED sent
        BY <3>1, <3>2, <3>5
      <4>3. /\ status[r] = Status(r)
            /\ status = [s \in Requests |->
                           IF pc[s] = "idle" THEN "idle"
                           ELSE IF pc[s] = "done" THEN outcome[s] ELSE "open"]
            /\ answer = [s \in Requests |->
                           IF outcome[s] = "ok" THEN body[s] ELSE {}]
        BY <3>5 DEF Status, Answered
      <4>4. /\ status' = [s \in Requests |->
                            IF pc[s] = "idle" THEN "idle"
                            ELSE IF pc[s] = "done" THEN outcome[s] ELSE "open"]'
            /\ answer' = [s \in Requests |->
                            IF outcome[s] = "ok" THEN body[s] ELSE {}]'
        BY DEF Status, Answered
      <4> HIDE DEF status, answer
      <4>5. \/ Contract!Call(r) \/ Contract!Transmit(r) \/ Contract!Answer(r)
            \/ Contract!Overflow(r) \/ Contract!Refuse(r)
            \/ UNCHANGED <<status, sent, answer>>
        <5>1. CASE UNCHANGED <<Status(r), sent[r], Answered(r)>>
          BY <4>2, <5>1
        <5>2. CASE /\ Status(r) = "idle" /\ Status(r)' = "open"
                   /\ UNCHANGED <<sent[r], Answered(r)>>
          BY <4>1, <4>2, <4>3, <4>4, <5>2 DEF Contract!Call
        <5>3. CASE /\ Status(r) \in {"open", "error"} /\ sent[r] = 0
                   /\ sent'[r] = 1
                   /\ UNCHANGED <<Status(r), Answered(r)>>
          BY <4>1, <4>2, <4>3, <4>4, <5>3 DEF Contract!Transmit
        <5>4. CASE /\ Status(r) = "open" /\ sent[r] = 1 /\ Status(r)' = "ok"
                   /\ Answered(r)' = {r} /\ UNCHANGED sent[r]
          BY <4>1, <4>2, <4>3, <4>4, <5>4 DEF Contract!Answer
        <5>5. CASE /\ Status(r) = "open" /\ Status(r)' = "error"
                   /\ UNCHANGED <<sent[r], Answered(r)>>
          BY <4>1, <4>2, <4>3, <4>4, <5>5 DEF Contract!Refuse
        <5>6. CASE /\ Status(r) = "open" /\ sent[r] = 1
                   /\ Status(r)' = "too_large"
                   /\ UNCHANGED <<sent[r], Answered(r)>>
          BY <4>1, <4>2, <4>3, <4>4, <5>6 DEF Contract!Overflow
        <5>7. QED
          BY <1>2, <2>1, <3>5, <5>1, <5>2, <5>3, <5>4, <5>5, <5>6, Visible
      <4>6. CASE UNCHANGED <<status, sent, answer>>
        BY <4>3, <4>4, <4>6 DEF Contract!vars
      <4>7. QED
        BY <3>5, <4>5, <4>6 DEF Contract!Next
    <3>6. QED
      BY <3>3, <3>4, <3>5
  <2>2. CASE UNCHANGED vars
    BY <2>2 DEF Contract!vars, vars, reqVars
  <2>3. QED
    BY <1>2, <2>1, <2>2
<1>3. QED
  BY <1>1, <1>2, InitDInv, DInvStep, PTL DEF Spec, Contract!Spec

==============================================================================

--------------------------- MODULE TransportProofs ---------------------------
(***************************************************************************)
(* Machine-checked theorems about Transport, for every set of requests and *)
(* drivers, every counter width, queue capacity and number of connections: *)
(* the types, and the handshake that goes first.                           *)
(***************************************************************************)
EXTENDS Transport, SequenceTheorems, TLAPS

Queued(n, r) == \E i \in 1 .. Len(queue[n]) : queue[n][i] = r

\* Only the manager connects, and only with a connection number left.
SpawnRoom ==
    /\ \A d \in Drivers : driver[d] \in ConnectPhases => d = Manager
    /\ driver[Manager] \in {"dialing", "retire", "spawn"} => conns < MaxConns

\* A connection not yet spawned is blank, and connect works on the last one.
ConnsSpawned ==
    /\ \A n \in Conns : n > conns =>
         queue[n] = <<>> /\ server[n] = {} /\ ~greeted[n]
    /\ driver[Manager] \in {"store", "greet", "publish", "open", "signal"}
         => conns > 0

\* Every request under way, and every frame on the wire, has a cid.
CidsAssigned ==
    /\ \A r \in Requests : pc[r] = "idle" \/ cid[r] # 0
    /\ \A n \in Conns, r \in Requests :
         Queued(n, r) \/ r \in server[n] => cid[r] # 0

\* The handshake has left, or is the next packet to leave.
Ready(n) == greeted[n] \/ (queue[n] # <<>> /\ Head(queue[n]) = Handshake)

SenderAfterHandshake ==
    /\ writeTx # 0 => Ready(writeTx)
    /\ \A r \in Requests : tx[r] # 0 => Ready(tx[r])
    /\ \A r \in Requests : pc[r] = "enqueue" => tx[r] # 0
    /\ \A n \in Conns : queue[n] # <<>> => Ready(n)
    /\ driver[Manager] \in {"store", "greet"} =>
         queue[conns] = <<>> /\ ~greeted[conns]
    /\ driver[Manager] = "publish" => Ready(conns)
    /\ HandshakeFirst

\* Types alone are not inductive: spawning a loop needs room for its number,
\* and delivering an answer needs the cid it is looked up by.
TInv == TypeOK /\ SpawnRoom /\ CidsAssigned

------------------------------------------------------------------------------
(* Type correctness.                                                        *)

\* The program starts well typed.
LEMMA InitTyped == Init => TInv
<1> SUFFICES ASSUME Init PROVE TInv
  OBVIOUS
<1> USE TransportAssumption DEF Init
<1>1. RequestsTyped
  BY DEF RequestsTyped, ReqPhases, Slots
<1>2. TransportTyped
  BY DEF TransportTyped, Cids
<1>3. AdapterTyped
  <2>1. watch \in BOOLEAN /\ isOpen \in BOOLEAN
    BY Zenon
  <2>2. writeTx \in 0 .. MaxConns /\ ioTask \in 0 .. MaxConns
    OBVIOUS
  <2>3. QED
    BY <2>1, <2>2 DEF AdapterTyped
<1>4. LoopsTyped
  <2>1. queue \in [Conns -> Seq(Requests \cup {Handshake})]
    OBVIOUS
  <2>2. QED
    BY <2>1 DEF LoopsTyped, LoopPhases
<1>5. DriversTyped
  BY DEF DriversTyped
<1>6. SpawnRoom
  BY DEF SpawnRoom, ConnectPhases
<1>7. CidsAssigned
  BY DEF CidsAssigned, Queued
<1>8. QED
  BY <1>1, <1>2, <1>3, <1>4, <1>5, <1>6, <1>7 DEF TypeOK, TInv

\* A step of a request leaves every variable well typed.
LEMMA RequestTyped ==
  ASSUME TInv, NEW r \in Requests, Issue(r) \/ RequestStep(r)
  PROVE  TypeOK' /\ SpawnRoom'
<1>typed. RequestsTyped /\ TransportTyped /\ AdapterTyped /\ LoopsTyped /\ DriversTyped
  BY DEF TInv, TypeOK
<1> USE TransportAssumption, <1>typed DEF reqVars, adaptVars, loopVars,
        driverVars
<1> DEFINE Frame == /\ UNCHANGED <<adaptVars, driverVars>>
                    /\ UNCHANGED <<conns, loop, greeted, server, partial>>
<1>0. ASSUME Frame, RequestsTyped', TransportTyped', LoopsTyped'
      PROVE  TypeOK' /\ SpawnRoom'
  <2>1. AdapterTyped' /\ DriversTyped' /\ SpawnRoom'
    BY <1>0 DEF AdapterTyped, DriversTyped, SpawnRoom, TInv
  <2>2. QED
    BY <1>0, <2>1 DEF TypeOK
<1>1. ASSUME UNCHANGED loopVars PROVE LoopsTyped'
  BY <1>1 DEF LoopsTyped
<1>2. ASSUME UNCHANGED <<counter, pending>> PROVE TransportTyped'
  BY <1>2 DEF TransportTyped
<1>3. CASE Issue(r)
  <2>1. NextCid \in 0 .. CidMod - 1 /\ NextCounter \in 0 .. CidMod - 1
    BY DEF NextCid, NextCounter, TransportTyped
  <2>2. RequestsTyped' /\ TransportTyped'
    BY <1>3, <2>1 DEF Issue, RequestsTyped, TransportTyped, ReqPhases
  <2>3. Frame /\ UNCHANGED loopVars
    BY <1>3 DEF Issue
  <2>4. QED
    BY <1>0, <1>1, <2>2, <2>3
<1>4. CASE Route(r) \/ Gate(r) \/ GateTimeout(r) \/ Complete(r)
  <2>0. Results(r) \subseteq {"ok", "too_large", "error"}
    BY DEF Results
  <2>1. RequestsTyped'
    <3>1. CASE Route(r) \/ Gate(r) \/ GateTimeout(r)
      BY <3>1 DEF Route, Gate, GateTimeout, RequestsTyped, ReqPhases
    <3>2. CASE Complete(r)
      <4>1. PICK result \in Results(r) :
              outcome' = [outcome EXCEPT ![r] = result]
        BY <3>2 DEF Complete
      <4>2. outcome' \in [Requests -> {"none", "ok", "too_large", "error"}]
        <5>1. result \in {"none", "ok", "too_large", "error"}
          BY <2>0
        <5>2. outcome \in [Requests -> {"none", "ok", "too_large", "error"}]
          BY DEF RequestsTyped
        <5>3. QED
          BY <4>1, <5>1, <5>2
      <4>3. QED
        BY <3>2, <4>2 DEF Complete, RequestsTyped, ReqPhases
    <3>3. QED
      BY <1>4, <3>1, <3>2
  <2>2. Frame /\ UNCHANGED loopVars /\ UNCHANGED <<counter, pending>>
    BY <1>4 DEF Route, Gate, GateTimeout, Complete
  <2>3. QED
    BY <1>0, <1>1, <1>2, <2>1, <2>2
<1>5. CASE HttpSend(r) \/ HttpAnswer(r)
  <2>1. RequestsTyped'
    BY <1>5 DEF HttpSend, HttpAnswer, RequestsTyped, ReqPhases
  <2>2. Frame /\ UNCHANGED loopVars /\ UNCHANGED <<counter, pending>>
    BY <1>5 DEF HttpSend, HttpAnswer
  <2>3. QED
    BY <1>0, <1>1, <1>2, <2>1, <2>2
<1>6. Dropped(pending[cid[r]]) \in [Requests -> Slots]
  BY DEF Dropped, RequestsTyped, Slots
<1>7. CASE Register(r)
  <2>1. RequestsTyped' /\ TransportTyped'
    BY <1>6, <1>7 DEF Register, RequestsTyped, TransportTyped, ReqPhases, Slots
  <2>2. Frame /\ UNCHANGED loopVars
    BY <1>7 DEF Register
  <2>3. QED
    BY <1>0, <1>1, <2>1, <2>2
<1>8. ASSUME Abandon(r) PROVE TypeOK' /\ SpawnRoom'
  <2>1. RequestsTyped' /\ TransportTyped'
    BY <1>6, <1>8 DEF Abandon, RequestsTyped, TransportTyped, ReqPhases
  <2>2. Frame /\ UNCHANGED loopVars
    BY <1>8 DEF Abandon
  <2>3. QED
    BY <1>0, <1>1, <2>1, <2>2
<1>9. CASE Submit(r)
  <2>1. CASE isOpen /\ ~Abandon(r)
    <3>1. RequestsTyped'
      BY <1>9, <2>1 DEF Submit, RequestsTyped, ReqPhases
    <3>2. Frame /\ UNCHANGED loopVars /\ UNCHANGED <<counter, pending>>
      BY <1>9, <2>1 DEF Submit
    <3>3. QED
      BY <1>0, <1>1, <1>2, <3>1, <3>2
  <2>2. QED
    BY <1>8, <1>9, <2>1 DEF Submit
<1>10. CASE TakeSender(r)
  <2>1. CASE writeTx # 0 /\ ~Abandon(r)
    <3>1. RequestsTyped'
      BY <1>10, <2>1 DEF TakeSender, RequestsTyped, AdapterTyped, ReqPhases
    <3>2. Frame /\ UNCHANGED loopVars /\ UNCHANGED <<counter, pending>>
      BY <1>10, <2>1 DEF TakeSender
    <3>3. QED
      BY <1>0, <1>1, <1>2, <3>1, <3>2
  <2>2. QED
    BY <1>8, <1>10, <2>1 DEF TakeSender
<1>11. CASE Enqueue(r)
  <2>1. CASE ~Abandon(r)
    <3>1. RequestsTyped'
      BY <1>11, <2>1 DEF Enqueue, RequestsTyped, ReqPhases
    <3>2. Frame /\ UNCHANGED <<counter, pending>>
      BY <1>11, <2>1 DEF Enqueue
    <3>3. queue' = [queue EXCEPT ![tx[r]] = Append(@, r)]
      BY <1>11, <2>1 DEF Enqueue
    <3>4. \A n \in Conns :
            Append(queue[n], r) \in Seq(Requests \cup {Handshake})
      BY DEF LoopsTyped
    <3>5. LoopsTyped'
      BY <3>2, <3>3, <3>4 DEF LoopsTyped
    <3>6. QED
      BY <1>0, <1>2, <3>1, <3>2, <3>5
  <2>2. QED
    BY <1>8, <1>11, <2>1 
<1>12. CASE Timeout(r)
  BY <1>8, <1>12 DEF Timeout
<1>13. QED
  BY <1>3, <1>4, <1>5, <1>7, <1>9, <1>10, <1>11, <1>12 DEF RequestStep

\* A step of an I/O loop leaves every variable well typed.
LEMMA LoopTyped ==
  ASSUME TInv, NEW n \in Conns, LoopStep(n)
  PROVE  TypeOK' /\ SpawnRoom'
<1>typed. RequestsTyped /\ TransportTyped /\ AdapterTyped /\ LoopsTyped /\ DriversTyped
  BY DEF TInv, TypeOK
<1> USE TransportAssumption, <1>typed DEF reqVars, adaptVars, loopVars,
        driverVars
<1> DEFINE Frame == UNCHANGED <<counter, driverVars, conns>>
<1>0. ASSUME Frame, RequestsTyped', TransportTyped', AdapterTyped',
             LoopsTyped'
      PROVE  TypeOK' /\ SpawnRoom'
  BY <1>0 DEF DriversTyped, SpawnRoom, TInv, TypeOK
<1>1. ASSUME UNCHANGED adaptVars PROVE AdapterTyped'
  BY <1>1 DEF AdapterTyped
<1>2. ASSUME UNCHANGED <<counter, pending>> PROVE TransportTyped'
  BY <1>2 DEF TransportTyped
<1>3. ASSUME UNCHANGED reqVars PROVE RequestsTyped'
  BY <1>3 DEF RequestsTyped
<1>4. CASE LoopWrite(n)
  <2>1. /\ queue[n] \in Seq(Requests \cup {Handshake})
        /\ queue[n] # <<>>
    BY <1>4 DEF LoopWrite, LoopsTyped
  <2>2. /\ Tail(queue[n]) \in Seq(Requests \cup {Handshake})
        /\ Head(queue[n]) \in Requests \cup {Handshake}
    BY <2>1, HeadTailProperties
  <2>3. LoopsTyped'
    <3>1. queue' \in [Conns -> Seq(Requests \cup {Handshake})]
      BY <1>4, <2>2 DEF LoopWrite, LoopsTyped
    <3>2. greeted' \in [Conns -> BOOLEAN]
      BY <1>4, Zenon DEF LoopWrite, LoopsTyped
    <3>3. server' \in [Conns -> SUBSET Requests]
      <4>1. CASE Head(queue[n]) = Handshake
        BY <1>4, <4>1 DEF LoopWrite, LoopsTyped
      <4>2. CASE Head(queue[n]) # Handshake
        <5>1. server[n] \cup {Head(queue[n])} \subseteq Requests
          BY <2>2, <4>2 DEF LoopsTyped
        <5>2. server' = [server EXCEPT ![n] = @ \cup {Head(queue[n])}]
          BY <1>4, <4>2 DEF LoopWrite
        <5>3. QED
          BY <5>1, <5>2 DEF LoopsTyped
      <4>3. QED
        BY <4>1, <4>2
    <3>4. UNCHANGED <<conns, loop, partial>>
      BY <1>4 DEF LoopWrite
    <3>5. QED
      BY <3>1, <3>2, <3>3, <3>4 DEF LoopsTyped
  <2>4. RequestsTyped'
    <3>1. sent' \in [Requests -> Nat]
      <4>0. sent \in [Requests -> Nat]
        BY DEF RequestsTyped
      <4>1. CASE Head(queue[n]) = Handshake
        <5>1. sent' = sent
          BY <1>4, <4>1 DEF LoopWrite
        <5>2. QED
          BY <4>0, <5>1
      <4>2. CASE Head(queue[n]) # Handshake
        <5>1. sent' = [sent EXCEPT ![Head(queue[n])] = @ + 1]
          BY <1>4, <4>2 DEF LoopWrite
        <5>2. QED
          BY <2>2, <4>0, <4>2, <5>1
      <4>3. QED
        BY <4>1, <4>2
    <3>2. UNCHANGED <<pc, cid, tx, slot, body, outcome>>
      BY <1>4 DEF LoopWrite
    <3>3. QED
      BY <3>1, <3>2 DEF RequestsTyped
  <2>5. Frame /\ UNCHANGED adaptVars /\ UNCHANGED <<counter, pending>>
    BY <1>4 DEF LoopWrite
  <2>6. QED
    BY <1>0, <1>1, <1>2, <2>3, <2>4, <2>5
<1>5. CASE LoopBreak(n) \/ LoopSilent(n) \/ LoopMarkClosed(n)
            \/ LoopSignalClosed(n)
  <2>1. LoopsTyped'
    BY <1>5 DEF LoopBreak, LoopSilent, LoopMarkClosed, LoopSignalClosed,
       LoopsTyped, LoopPhases
  <2>2. /\ watch' \in BOOLEAN /\ isOpen' \in BOOLEAN
    BY <1>5, Zenon DEF LoopBreak, LoopSilent, LoopMarkClosed, LoopSignalClosed,
       AdapterTyped
  <2>3. UNCHANGED <<writeTx, ioTask>>
    BY <1>5 DEF LoopBreak, LoopSilent, LoopMarkClosed, LoopSignalClosed
  <2>4. AdapterTyped'
    BY <2>2, <2>3 DEF AdapterTyped
  <2>5. Frame /\ UNCHANGED reqVars /\ UNCHANGED <<counter, pending>>
    BY <1>5 DEF LoopBreak, LoopSilent, LoopMarkClosed, LoopSignalClosed
  <2>6. QED
    BY <1>0, <1>2, <1>3, <2>1, <2>4, <2>5
<1>6. CASE LoopClear(n)
  <2>1. LoopsTyped'
    BY <1>6 DEF LoopClear, LoopsTyped, LoopPhases
  <2>2. RequestsTyped' /\ TransportTyped'
    BY <1>6 DEF LoopClear, ClearPending, RequestsTyped, TransportTyped, Slots
  <2>3. Frame /\ UNCHANGED adaptVars
    BY <1>6 DEF LoopClear
  <2>4. QED
    BY <1>0, <1>1, <2>1, <2>2, <2>3
<1>7. ASSUME NEW r \in Requests, LoopChunk(n, r) PROVE TypeOK' /\ SpawnRoom'
  <2>1. LoopsTyped'
    BY <1>7 DEF LoopChunk, LoopsTyped
  <2>2. Frame /\ UNCHANGED <<reqVars, adaptVars>> /\ UNCHANGED <<counter, pending>>
    BY <1>7 DEF LoopChunk
  <2>3. QED
    BY <1>0, <1>1, <1>2, <1>3, <2>1, <2>2
<1>8. ASSUME NEW r \in Requests, LoopReply(n, r) PROVE TypeOK' /\ SpawnRoom'
  <2>1. LoopsTyped'
    BY <1>8 DEF LoopReply, StreamTaken, LoopsTyped
  <2>2. partial[n][cid[r]] \cup {r} \subseteq Requests
    <3>1. cid[r] \in Cids
      BY <1>8 DEF LoopReply, TInv, CidsAssigned, RequestsTyped, Cids
    <3>2. QED
      BY <3>1 DEF LoopsTyped
  <2>3. RequestsTyped' /\ TransportTyped'
    BY <1>8, <2>2 DEF LoopReply, Deliver, RequestsTyped, TransportTyped, Slots
  <2>4. Frame /\ UNCHANGED adaptVars
    BY <1>8 DEF LoopReply
  <2>5. QED
    BY <1>0, <1>1, <2>1, <2>3, <2>4
<1>9. ASSUME NEW r \in Requests, LoopOversize(n, r) PROVE TypeOK' /\ SpawnRoom'
  <2>1. LoopsTyped'
    BY <1>9 DEF LoopOversize, StreamTaken, LoopsTyped
  <2>2. RequestsTyped' /\ TransportTyped'
    BY <1>9 DEF LoopOversize, Deliver, RequestsTyped, TransportTyped, Slots
  <2>3. Frame /\ UNCHANGED adaptVars
    BY <1>9 DEF LoopOversize
  <2>4. QED
    BY <1>0, <1>1, <2>1, <2>2, <2>3
<1>10. QED
  BY <1>4, <1>5, <1>6, <1>7, <1>8, <1>9 DEF LoopStep

\* A step of a driver leaves every variable well typed.
LEMMA DriverTyped ==
  ASSUME TInv, NEW d \in Drivers, DriverStep(d)
  PROVE  TypeOK' /\ SpawnRoom'
<1>typed. RequestsTyped /\ TransportTyped /\ AdapterTyped /\ LoopsTyped
          /\ DriversTyped
  BY DEF TInv, TypeOK
<1>room. SpawnRoom
  BY DEF TInv
<1> USE TransportAssumption, <1>typed DEF reqVars, adaptVars, loopVars,
        driverVars
<1>1. CASE Connect(d) \/ Dial(d) \/ CloseTake(d)
  <2>1. DriversTyped'
    BY <1>1 DEF Connect, Dial, CloseTake, At, DriversTyped, AdapterTyped,
       ConnectPhases, ClosePhases
  <2>2. ioTask' \in 0 .. MaxConns /\ UNCHANGED <<watch, isOpen, writeTx>>
    BY <1>1 DEF Connect, Dial, CloseTake, AdapterTyped
  <2>3. SpawnRoom'
    BY <1>1, <1>room DEF Connect, Dial, CloseTake, At, SpawnRoom,
       DriversTyped, ConnectPhases
  <2>4. UNCHANGED <<counter, pending, reqVars, loopVars>>
    BY <1>1 DEF Connect, Dial, CloseTake
  <2>5. QED
    BY <2>1, <2>2, <2>3, <2>4 DEF TypeOK, AdapterTyped, RequestsTyped,
       TransportTyped, LoopsTyped
<1>2. CASE Retire(d) \/ CloseAbort(d)
  <2>1. DriversTyped'
    BY <1>2 DEF Retire, CloseAbort, Aborted, At, DriversTyped,
       ConnectPhases, ClosePhases
  <2>2. LoopsTyped'
    BY <1>2 DEF Retire, CloseAbort, Aborted, LoopsTyped, LoopPhases
  <2>3. SpawnRoom'
    BY <1>2, <1>room DEF Retire, CloseAbort, At, SpawnRoom,
       DriversTyped, ConnectPhases
  <2>4. UNCHANGED <<counter, pending, reqVars, adaptVars>>
    BY <1>2 DEF Retire, CloseAbort
  <2>5. QED
    BY <2>1, <2>2, <2>3, <2>4 DEF TypeOK, AdapterTyped, RequestsTyped,
       TransportTyped
<1>3. CASE Spawn(d)
  <2>1. d = Manager /\ conns < MaxConns
    BY <1>3, <1>room DEF Spawn, SpawnRoom, ConnectPhases
  <2>2. DriversTyped' /\ SpawnRoom'
    BY <1>3, <2>1, <1>room DEF Spawn, At, DriversTyped, SpawnRoom,
       ConnectPhases
  <2>3. LoopsTyped'
    BY <1>3, <2>1 DEF Spawn, LoopsTyped, LoopPhases, Conns
  <2>4. UNCHANGED <<counter, pending, reqVars, adaptVars>>
    BY <1>3 DEF Spawn
  <2>5. QED
    BY <2>2, <2>3, <2>4 DEF TypeOK, AdapterTyped, RequestsTyped,
       TransportTyped
<1>4. CASE StoreTask(d) \/ PublishSender(d) \/ CloseSender(d)
  <2>1. DriversTyped' /\ SpawnRoom'
    BY <1>4, <1>room DEF StoreTask, PublishSender, CloseSender, At,
       DriversTyped, SpawnRoom, ConnectPhases, ClosePhases
  <2>2. /\ writeTx' \in 0 .. MaxConns /\ ioTask' \in 0 .. MaxConns
        /\ UNCHANGED <<watch, isOpen>>
    BY <1>4 DEF StoreTask, PublishSender, CloseSender, AdapterTyped,
       LoopsTyped
  <2>3. UNCHANGED <<counter, pending, reqVars, loopVars>>
    BY <1>4 DEF StoreTask, PublishSender, CloseSender
  <2>4. QED
    BY <2>1, <2>2, <2>3 DEF TypeOK, AdapterTyped, RequestsTyped,
       TransportTyped, LoopsTyped
<1>5. CASE MarkOpen(d) \/ SignalOpen(d) \/ CloseSignal(d) \/ CloseMark(d)
  <2>1. DriversTyped' /\ SpawnRoom'
    BY <1>5, <1>room DEF MarkOpen, SignalOpen, CloseSignal, CloseMark, At,
       DriversTyped, SpawnRoom, ConnectPhases, ClosePhases
  <2>2. watch' \in BOOLEAN /\ isOpen' \in BOOLEAN
    BY <1>5, Zenon DEF MarkOpen, SignalOpen, CloseSignal, CloseMark,
       AdapterTyped
  <2>3. UNCHANGED <<counter, pending, reqVars, loopVars, writeTx, ioTask>>
    BY <1>5 DEF MarkOpen, SignalOpen, CloseSignal, CloseMark
  <2>4. QED
    BY <2>1, <2>2, <2>3 DEF TypeOK, AdapterTyped, RequestsTyped,
       TransportTyped, LoopsTyped
<1>6. CASE QueueHandshake(d)
  <2>1. DriversTyped' /\ SpawnRoom'
    BY <1>6, <1>room DEF QueueHandshake, At, DriversTyped, SpawnRoom,
       ConnectPhases
  <2>2. \A n \in Conns :
          Append(queue[n], Handshake) \in Seq(Requests \cup {Handshake})
    BY DEF LoopsTyped
  <2>3. queue' = queue \/ queue' = [queue EXCEPT ![conns] = Append(@, Handshake)]
    BY <1>6 DEF QueueHandshake
  <2>4. UNCHANGED <<counter, pending, reqVars, adaptVars, conns, loop, greeted,
                    server, partial>>
    BY <1>6 DEF QueueHandshake
  <2>5. LoopsTyped'
    <3>1. queue' \in [Conns -> Seq(Requests \cup {Handshake})]
      <4>1. CASE UNCHANGED queue
        BY <4>1 DEF LoopsTyped
      <4>2. CASE queue' = [queue EXCEPT ![conns] = Append(@, Handshake)]
        BY <2>2, <4>2 DEF LoopsTyped
      <4>3. QED
        BY <2>3, <4>1, <4>2
    <3>2. QED
      BY <2>4, <3>1 DEF LoopsTyped
  <2>6. QED
    BY <2>1, <2>4, <2>5 DEF TypeOK, AdapterTyped, RequestsTyped,
       TransportTyped
<1>7. CASE CloseClear(d)
  <2>1. DriversTyped' /\ SpawnRoom'
    BY <1>7, <1>room DEF CloseClear, At, DriversTyped, SpawnRoom,
       ConnectPhases, ClosePhases
  <2>2. RequestsTyped' /\ TransportTyped'
    BY <1>7 DEF CloseClear, ClearPending, RequestsTyped, TransportTyped, Slots
  <2>3. UNCHANGED <<adaptVars, loopVars>>
    BY <1>7 DEF CloseClear
  <2>4. QED
    BY <2>1, <2>2, <2>3 DEF TypeOK, AdapterTyped, LoopsTyped
<1>8. QED
  BY <1>1, <1>2, <1>3, <1>4, <1>5, <1>6, <1>7 DEF DriverStep

------------------------------------------------------------------------------
(* Which steps write which variable.                                        *)

\* Only Issue hands out a cid.
LEMMA CidWriters ==
  Next =>
    \/ UNCHANGED <<cid, counter>>
    \/ \E r \in Requests : Issue(r)
<1> SUFFICES ASSUME Next
             PROVE  \/ UNCHANGED <<cid, counter>>
                    \/ \E r \in Requests : Issue(r)
  OBVIOUS
<1> USE DEF reqVars, adaptVars, loopVars, driverVars
<1>1. CASE \E r \in Requests : Issue(r) \/ RequestStep(r)
  BY <1>1 DEF RequestStep, Route, Gate, GateTimeout, Register, Submit,
     TakeSender, Enqueue, Complete, Timeout, HttpSend, HttpAnswer, Abandon
<1>2. CASE \E n \in Conns : LoopStep(n)
  BY <1>2 DEF LoopStep, LoopWrite, LoopBreak, LoopSilent, LoopMarkClosed,
     LoopSignalClosed, LoopClear, LoopChunk, LoopReply, LoopOversize
<1>3. CASE \E d \in Drivers : DriverStep(d)
  BY <1>3 DEF DriverStep, Connect, Dial, Retire, Spawn, StoreTask,
     QueueHandshake, PublishSender, MarkOpen, SignalOpen, CloseSignal,
     CloseClear, CloseMark, CloseSender, CloseTake, CloseAbort, Aborted
<1>4. QED
  BY <1>1, <1>2, <1>3 DEF Next

\* Only a send and a connect put a packet in a write queue, and only its
\* loop takes one out.
LEMMA QueueWriters ==
  Next =>
    \/ UNCHANGED queue
    \/ \E r \in Requests : Enqueue(r)
    \/ \E n \in Conns : LoopWrite(n)
    \/ \E d \in Drivers : QueueHandshake(d)
<1> SUFFICES ASSUME Next
             PROVE  \/ UNCHANGED queue
                    \/ \E r \in Requests : Enqueue(r)
                    \/ \E n \in Conns : LoopWrite(n)
                    \/ \E d \in Drivers : QueueHandshake(d)
  OBVIOUS
<1> USE DEF reqVars, adaptVars, loopVars, driverVars
<1>1. CASE \E r \in Requests : Issue(r) \/ RequestStep(r)
  BY <1>1 DEF RequestStep, Issue, Route, Gate, GateTimeout, Register, Submit,
     TakeSender, Complete, Timeout, HttpSend, HttpAnswer, Abandon
<1>2. CASE \E n \in Conns : LoopStep(n)
  BY <1>2 DEF LoopStep, LoopBreak, LoopSilent, LoopMarkClosed,
     LoopSignalClosed, LoopClear, LoopChunk, LoopReply, LoopOversize
<1>3. CASE \E d \in Drivers : DriverStep(d)
  BY <1>3 DEF DriverStep, Connect, Dial, Retire, Spawn, StoreTask,
     PublishSender, MarkOpen, SignalOpen, CloseSignal, CloseClear, CloseMark,
     CloseSender, CloseTake, CloseAbort, Aborted
<1>4. QED
  BY <1>1, <1>2, <1>3 DEF Next

\* The server holds what a loop wrote and has not seen answered.
LEMMA ServerWriters ==
  Next =>
    \/ UNCHANGED server
    \/ \E n \in Conns : LoopWrite(n)
    \/ \E n \in Conns, r \in Requests : LoopReply(n, r)
<1> SUFFICES ASSUME Next
             PROVE  \/ UNCHANGED server
                    \/ \E n \in Conns : LoopWrite(n)
                    \/ \E n \in Conns, r \in Requests : LoopReply(n, r)
  OBVIOUS
<1> USE DEF reqVars, adaptVars, loopVars, driverVars
<1>1. CASE \E r \in Requests : Issue(r) \/ RequestStep(r)
  BY <1>1 DEF RequestStep, Issue, Route, Gate, GateTimeout, Register, Submit,
     TakeSender, Enqueue, Complete, Timeout, HttpSend, HttpAnswer,
     Abandon
<1>2. CASE \E n \in Conns : LoopStep(n)
  BY <1>2 DEF LoopStep, LoopBreak, LoopSilent, LoopMarkClosed,
     LoopSignalClosed, LoopClear, LoopChunk, LoopOversize
<1>3. CASE \E d \in Drivers : DriverStep(d)
  BY <1>3 DEF DriverStep, Connect, Dial, Retire, Spawn, StoreTask,
     QueueHandshake, PublishSender, MarkOpen, SignalOpen, CloseSignal,
     CloseClear, CloseMark, CloseSender, CloseTake, CloseAbort, Aborted
<1>4. QED
  BY <1>1, <1>2, <1>3 DEF Next

\* Only a write to the socket or an HTTP POST counts as a transmission.
LEMMA SentWriters ==
  Next =>
    \/ UNCHANGED sent
    \/ \E n \in Conns : LoopWrite(n)
    \/ \E r \in Requests : HttpSend(r)
<1> SUFFICES ASSUME Next
             PROVE  \/ UNCHANGED sent
                    \/ \E n \in Conns : LoopWrite(n)
                    \/ \E r \in Requests : HttpSend(r)
  OBVIOUS
<1> USE DEF reqVars, adaptVars, loopVars, driverVars
<1>1. CASE \E r \in Requests : Issue(r) \/ RequestStep(r)
  BY <1>1 DEF RequestStep, Issue, Route, Gate, GateTimeout, Register, Submit,
     TakeSender, Enqueue, Complete, Timeout, HttpAnswer, Abandon
<1>2. CASE \E n \in Conns : LoopStep(n)
  BY <1>2 DEF LoopStep, LoopBreak, LoopSilent, LoopMarkClosed,
     LoopSignalClosed, LoopClear, LoopChunk, LoopReply, LoopOversize
<1>3. CASE \E d \in Drivers : DriverStep(d)
  BY <1>3 DEF DriverStep, Connect, Dial, Retire, Spawn, StoreTask,
     QueueHandshake, PublishSender, MarkOpen, SignalOpen, CloseSignal,
     CloseClear, CloseMark, CloseSender, CloseTake, CloseAbort, Aborted
<1>4. QED
  BY <1>1, <1>2, <1>3 DEF Next

\* A connection is greeted by its own loop.
LEMMA GreetedWriters ==
  Next =>
    \/ UNCHANGED greeted
    \/ \E n \in Conns : LoopWrite(n)
<1> SUFFICES ASSUME Next
             PROVE  \/ UNCHANGED greeted
                    \/ \E n \in Conns : LoopWrite(n)
  OBVIOUS
<1> USE DEF reqVars, adaptVars, loopVars, driverVars
<1>1. CASE \E r \in Requests : Issue(r) \/ RequestStep(r)
  BY <1>1 DEF RequestStep, Issue, Route, Gate, GateTimeout, Register, Submit,
     TakeSender, Enqueue, Complete, Timeout, HttpSend, HttpAnswer,
     Abandon
<1>2. CASE \E n \in Conns : LoopStep(n)
  BY <1>2 DEF LoopStep, LoopBreak, LoopSilent, LoopMarkClosed,
     LoopSignalClosed, LoopClear, LoopChunk, LoopReply, LoopOversize
<1>3. CASE \E d \in Drivers : DriverStep(d)
  BY <1>3 DEF DriverStep, Connect, Dial, Retire, Spawn, StoreTask,
     QueueHandshake, PublishSender, MarkOpen, SignalOpen, CloseSignal,
     CloseClear, CloseMark, CloseSender, CloseTake, CloseAbort, Aborted
<1>4. QED
  BY <1>1, <1>2, <1>3 DEF Next

\* Reassembly is the I/O loop's alone.
LEMMA PartialWriters ==
  Next =>
    \/ UNCHANGED partial
    \/ \E n \in Conns, r \in Requests : LoopChunk(n, r) \/ LoopReply(n, r) \/ LoopOversize(n, r)
<1> SUFFICES ASSUME Next
             PROVE  \/ UNCHANGED partial
                    \/ \E n \in Conns, r \in Requests : LoopChunk(n, r) \/ LoopReply(n, r) \/ LoopOversize(n, r)
  OBVIOUS
<1> USE DEF reqVars, adaptVars, loopVars, driverVars
<1>1. CASE \E r \in Requests : Issue(r) \/ RequestStep(r)
  BY <1>1 DEF RequestStep, Issue, Route, Gate, GateTimeout, Register, Submit,
     TakeSender, Enqueue, Complete, Timeout, HttpSend, HttpAnswer,
     Abandon
<1>2. CASE \E n \in Conns : LoopStep(n)
  BY <1>2 DEF LoopStep, LoopWrite, LoopBreak, LoopSilent, LoopMarkClosed,
     LoopSignalClosed, LoopClear
<1>3. CASE \E d \in Drivers : DriverStep(d)
  BY <1>3 DEF DriverStep, Connect, Dial, Retire, Spawn, StoreTask,
     QueueHandshake, PublishSender, MarkOpen, SignalOpen, CloseSignal,
     CloseClear, CloseMark, CloseSender, CloseTake, CloseAbort, Aborted
<1>4. QED
  BY <1>1, <1>2, <1>3 DEF Next

\* A request takes the sender it will use once.
LEMMA TxWriters ==
  Next =>
    \/ UNCHANGED tx
    \/ \E r \in Requests : TakeSender(r)
<1> SUFFICES ASSUME Next
             PROVE  \/ UNCHANGED tx
                    \/ \E r \in Requests : TakeSender(r)
  OBVIOUS
<1> USE DEF reqVars, adaptVars, loopVars, driverVars
<1>1. CASE \E r \in Requests : Issue(r) \/ RequestStep(r)
  BY <1>1 DEF RequestStep, Issue, Route, Gate, GateTimeout, Register, Submit,
     Enqueue, Complete, Timeout, HttpSend, HttpAnswer, Abandon
<1>2. CASE \E n \in Conns : LoopStep(n)
  BY <1>2 DEF LoopStep, LoopWrite, LoopBreak, LoopSilent, LoopMarkClosed,
     LoopSignalClosed, LoopClear, LoopChunk, LoopReply, LoopOversize
<1>3. CASE \E d \in Drivers : DriverStep(d)
  BY <1>3 DEF DriverStep, Connect, Dial, Retire, Spawn, StoreTask,
     QueueHandshake, PublishSender, MarkOpen, SignalOpen, CloseSignal,
     CloseClear, CloseMark, CloseSender, CloseTake, CloseAbort, Aborted
<1>4. QED
  BY <1>1, <1>2, <1>3 DEF Next

\* The sender is published by connect and withdrawn by close.
LEMMA WriteTxWriters ==
  Next =>
    \/ UNCHANGED writeTx
    \/ \E d \in Drivers : PublishSender(d) \/ CloseSender(d)
<1> SUFFICES ASSUME Next
             PROVE  \/ UNCHANGED writeTx
                    \/ \E d \in Drivers : PublishSender(d) \/ CloseSender(d)
  OBVIOUS
<1> USE DEF reqVars, adaptVars, loopVars, driverVars
<1>1. CASE \E r \in Requests : Issue(r) \/ RequestStep(r)
  BY <1>1 DEF RequestStep, Issue, Route, Gate, GateTimeout, Register, Submit,
     TakeSender, Enqueue, Complete, Timeout, HttpSend, HttpAnswer,
     Abandon
<1>2. CASE \E n \in Conns : LoopStep(n)
  BY <1>2 DEF LoopStep, LoopWrite, LoopBreak, LoopSilent, LoopMarkClosed,
     LoopSignalClosed, LoopClear, LoopChunk, LoopReply, LoopOversize
<1>3. CASE \E d \in Drivers : DriverStep(d)
  BY <1>3 DEF DriverStep, Connect, Dial, Retire, Spawn, StoreTask,
     QueueHandshake, MarkOpen, SignalOpen, CloseSignal, CloseClear, CloseMark,
     CloseTake, CloseAbort, Aborted
<1>4. QED
  BY <1>1, <1>2, <1>3 DEF Next

\* The pending map and the oneshots change together, in six places.
LEMMA PendingWriters ==
  Next =>
    \/ UNCHANGED <<slot, pending>>
    \/ \E r \in Requests : Register(r)
    \/ \E r \in Requests : Registered(r) /\ Abandon(r)
    \/ \E n \in Conns, r \in Requests : LoopReply(n, r) \/ LoopOversize(n, r)
    \/ \E n \in Conns : LoopClear(n)
    \/ \E d \in Drivers : CloseClear(d)
<1> SUFFICES ASSUME Next
             PROVE  \/ UNCHANGED <<slot, pending>>
                    \/ \E r \in Requests : Register(r)
                    \/ \E r \in Requests : Registered(r) /\ Abandon(r)
                    \/ \E n \in Conns, r \in Requests : LoopReply(n, r) \/ LoopOversize(n, r)
                    \/ \E n \in Conns : LoopClear(n)
                    \/ \E d \in Drivers : CloseClear(d)
  OBVIOUS
<1> USE DEF reqVars, adaptVars, loopVars, driverVars
<1>1. CASE \E r \in Requests : Issue(r) \/ RequestStep(r)
  BY <1>1 DEF RequestStep, Registered, Issue, Route, Gate, GateTimeout,
     Submit, TakeSender, Enqueue, Complete, Timeout, HttpSend, HttpAnswer
<1>2. CASE \E n \in Conns : LoopStep(n)
  BY <1>2 DEF LoopStep, LoopWrite, LoopBreak, LoopSilent, LoopMarkClosed,
     LoopSignalClosed, LoopChunk
<1>3. CASE \E d \in Drivers : DriverStep(d)
  BY <1>3 DEF DriverStep, Connect, Dial, Retire, Spawn, StoreTask,
     QueueHandshake, PublishSender, MarkOpen, SignalOpen, CloseSignal,
     CloseMark, CloseSender, CloseTake, CloseAbort, Aborted
<1>4. QED
  BY <1>1, <1>2, <1>3 DEF Next

\* A request's future and its outcome move by its own steps.
LEMMA PcWriters ==
  Next =>
    \/ UNCHANGED <<pc, outcome>>
    \/ \E r \in Requests : Issue(r) \/ RequestStep(r)
<1> SUFFICES ASSUME Next
             PROVE  \/ UNCHANGED <<pc, outcome>>
                    \/ \E r \in Requests : Issue(r) \/ RequestStep(r)
  OBVIOUS
<1> USE DEF reqVars, adaptVars, loopVars, driverVars
<1>1. CASE \E r \in Requests : Issue(r) \/ RequestStep(r)
  BY <1>1 DEF RequestStep, Route, Gate, GateTimeout, Register, Submit,
     TakeSender, Enqueue, Complete, Timeout, HttpSend, HttpAnswer, Abandon
<1>2. CASE \E n \in Conns : LoopStep(n)
  BY <1>2 DEF LoopStep, LoopWrite, LoopBreak, LoopSilent, LoopMarkClosed,
     LoopSignalClosed, LoopClear, LoopChunk, LoopReply, LoopOversize
<1>3. CASE \E d \in Drivers : DriverStep(d)
  BY <1>3 DEF DriverStep, Connect, Dial, Retire, Spawn, StoreTask,
     QueueHandshake, PublishSender, MarkOpen, SignalOpen, CloseSignal,
     CloseClear, CloseMark, CloseSender, CloseTake, CloseAbort, Aborted
<1>4. QED
  BY <1>1, <1>2, <1>3 DEF Next

\* Answer bytes come with a reply, or from an HTTP response.
LEMMA BodyWriters ==
  Next =>
    \/ UNCHANGED body
    \/ \E r \in Requests : HttpAnswer(r)
    \/ \E n \in Conns, r \in Requests : LoopReply(n, r) \/ LoopOversize(n, r)
<1> SUFFICES ASSUME Next
             PROVE  \/ UNCHANGED body
                    \/ \E r \in Requests : HttpAnswer(r)
                    \/ \E n \in Conns, r \in Requests : LoopReply(n, r) \/ LoopOversize(n, r)
  OBVIOUS
<1> USE DEF reqVars, adaptVars, loopVars, driverVars
<1>1. CASE \E r \in Requests : Issue(r) \/ RequestStep(r)
  BY <1>1 DEF RequestStep, Issue, Route, Gate, GateTimeout, Register, Submit,
     TakeSender, Enqueue, Complete, Timeout, HttpSend, Abandon
<1>2. CASE \E n \in Conns : LoopStep(n)
  BY <1>2 DEF LoopStep, LoopWrite, LoopBreak, LoopSilent, LoopMarkClosed,
     LoopSignalClosed, LoopClear, LoopChunk
<1>3. CASE \E d \in Drivers : DriverStep(d)
  BY <1>3 DEF DriverStep, Connect, Dial, Retire, Spawn, StoreTask,
     QueueHandshake, PublishSender, MarkOpen, SignalOpen, CloseSignal,
     CloseClear, CloseMark, CloseSender, CloseTake, CloseAbort, Aborted
<1>4. QED
  BY <1>1, <1>2, <1>3 DEF Next

\* Loops are spawned by connect, and end by themselves or aborted.
LEMMA LoopWriters ==
  Next =>
    \/ UNCHANGED <<conns, loop>>
    \/ \E n \in Conns : LoopStep(n)
    \/ \E d \in Drivers : Spawn(d) \/ Retire(d) \/ CloseAbort(d)
<1> SUFFICES ASSUME Next
             PROVE  \/ UNCHANGED <<conns, loop>>
                    \/ \E n \in Conns : LoopStep(n)
                    \/ \E d \in Drivers : Spawn(d) \/ Retire(d) \/ CloseAbort(d)
  OBVIOUS
<1> USE DEF reqVars, adaptVars, loopVars, driverVars
<1>1. CASE \E r \in Requests : Issue(r) \/ RequestStep(r)
  BY <1>1 DEF RequestStep, Issue, Route, Gate, GateTimeout, Register, Submit,
     TakeSender, Enqueue, Complete, Timeout, HttpSend, HttpAnswer,
     Abandon
<1>2. CASE \E n \in Conns : LoopStep(n)
  BY <1>2 DEF LoopStep, LoopWrite, LoopBreak, LoopSilent, LoopMarkClosed,
     LoopSignalClosed, LoopClear, LoopChunk, LoopReply, LoopOversize
<1>3. CASE \E d \in Drivers : DriverStep(d)
  BY <1>3 DEF DriverStep, Connect, Dial, StoreTask, QueueHandshake,
     PublishSender, MarkOpen, SignalOpen, CloseSignal, CloseClear, CloseMark,
     CloseSender, CloseTake, Aborted
<1>4. QED
  BY <1>1, <1>2, <1>3 DEF Next

\* Only a connect spawns a loop.
LEMMA ConnsWriters ==
  Next =>
    \/ UNCHANGED conns
    \/ \E d \in Drivers : Spawn(d)
<1> SUFFICES ASSUME Next
             PROVE  \/ UNCHANGED conns
                    \/ \E d \in Drivers : Spawn(d)
  OBVIOUS
<1> USE DEF reqVars, adaptVars, loopVars, driverVars
<1>1. CASE \E r \in Requests : Issue(r) \/ RequestStep(r)
  BY <1>1 DEF RequestStep, Issue, Route, Gate, GateTimeout, Register, Submit,
     TakeSender, Enqueue, Complete, Timeout, HttpSend, HttpAnswer,
     Abandon
<1>2. CASE \E n \in Conns : LoopStep(n)
  BY <1>2 DEF LoopStep, LoopWrite, LoopBreak, LoopSilent, LoopMarkClosed,
     LoopSignalClosed, LoopClear, LoopChunk, LoopReply, LoopOversize
<1>3. CASE \E d \in Drivers : DriverStep(d)
  BY <1>3 DEF DriverStep, Connect, Dial, Retire, StoreTask, QueueHandshake,
     PublishSender, MarkOpen, SignalOpen, CloseSignal, CloseClear,
     CloseMark, CloseSender, CloseTake, CloseAbort, Aborted
<1>4. QED
  BY <1>1, <1>2, <1>3 DEF Next

\* The drivers drive themselves.
LEMMA DriverWriters ==
  Next =>
    \/ UNCHANGED driver
    \/ \E d \in Drivers : DriverStep(d)
<1> SUFFICES ASSUME Next
             PROVE  \/ UNCHANGED driver
                    \/ \E d \in Drivers : DriverStep(d)
  OBVIOUS
<1> USE DEF reqVars, adaptVars, loopVars, driverVars
<1>1. CASE \E r \in Requests : Issue(r) \/ RequestStep(r)
  BY <1>1 DEF RequestStep, Issue, Route, Gate, GateTimeout, Register, Submit,
     TakeSender, Enqueue, Complete, Timeout, HttpSend, HttpAnswer,
     Abandon
<1>2. CASE \E n \in Conns : LoopStep(n)
  BY <1>2 DEF LoopStep, LoopWrite, LoopBreak, LoopSilent, LoopMarkClosed,
     LoopSignalClosed, LoopClear, LoopChunk, LoopReply, LoopOversize
<1>3. CASE \E d \in Drivers : DriverStep(d)
  BY <1>3
<1>4. QED
  BY <1>1, <1>2, <1>3 DEF Next

------------------------------------------------------------------------------
(* What is on the wire.                                                     *)

\* A frame joins a queue when its request is enqueued, and leaves it for the
\* server; nothing else puts it there.
LEMMA WireStep ==
  ASSUME TInv, Next, NEW n \in Conns, NEW s \in Requests
  PROVE  /\ Queued(n, s)' => \/ Queued(n, s)
                             \/ pc[s] = "enqueue" /\ tx[s] = n /\ Enqueue(s)
         /\ s \in server'[n] => \/ s \in server[n]
                                \/ LoopWrite(n) /\ Head(queue[n]) = s
<1>typed. RequestsTyped /\ LoopsTyped
  BY DEF TInv, TypeOK
<1>1. ASSUME Queued(n, s)'
      PROVE  Queued(n, s) \/ (pc[s] = "enqueue" /\ tx[s] = n /\ Enqueue(s))
  <2>1. CASE UNCHANGED queue
    BY <1>1, <2>1 DEF Queued
  <2>2. ASSUME NEW r \in Requests, Enqueue(r)
        PROVE  Queued(n, s) \/ (pc[s] = "enqueue" /\ tx[s] = n /\ Enqueue(s))
    <3>1. CASE UNCHANGED queue
      BY <1>1, <3>1 DEF Queued
    <3>2. CASE queue' = [queue EXCEPT ![tx[r]] = Append(@, r)]
      <4>1. CASE n = tx[r]
        <5>1. queue'[n] = Append(queue[n], r)
          BY <3>2, <4>1, <1>typed DEF LoopsTyped
        <5>2. PICK i \in 1 .. Len(queue'[n]) : queue'[n][i] = s
          BY <1>1 DEF Queued
        <5>3. queue[n] \in Seq(Requests \cup {Handshake})
          BY <1>typed DEF LoopsTyped
        <5>4. i \in 1 .. Len(queue[n]) \/ s = r
          BY <5>1, <5>2, <5>3, AppendProperties
        <5>5. CASE i \in 1 .. Len(queue[n])
          BY <5>1, <5>2, <5>3, <5>5, AppendProperties DEF Queued
        <5>6. CASE s = r
          BY <2>2, <4>1, <5>6 DEF Enqueue
        <5>7. QED
          BY <5>4, <5>5, <5>6
      <4>2. CASE n # tx[r]
        BY <1>1, <3>2, <4>2, <1>typed DEF Queued, LoopsTyped
      <4>3. QED
        BY <4>1, <4>2
    <3>3. QED
      BY <2>2, <3>1, <3>2 DEF Enqueue, Abandon, loopVars
  <2>3. ASSUME NEW m \in Conns, LoopWrite(m) PROVE Queued(n, s)
    <3>1. queue' = [queue EXCEPT ![m] = Tail(@)] /\ queue[m] # <<>>
      BY <2>3 DEF LoopWrite
    <3>2. CASE n = m
      <4>1. PICK i \in 1 .. Len(queue'[n]) : queue'[n][i] = s
        BY <1>1 DEF Queued
      <4>2. queue[n] \in Seq(Requests \cup {Handshake})
        BY <1>typed DEF LoopsTyped
      <4>3. queue'[n] = Tail(queue[n])
        BY <3>1, <3>2, <1>typed DEF LoopsTyped
      <4>4. queue[n] # <<>>
        BY <3>1, <3>2
      <4>5. /\ Len(Tail(queue[n])) = Len(queue[n]) - 1
            /\ \A j \in 1 .. Len(Tail(queue[n])) :
                 Tail(queue[n])[j] = queue[n][j + 1]
        BY <4>2, <4>4, HeadTailProperties
      <4>6. Len(queue[n]) \in Nat
        BY <4>2
      <4>7. queue[n][i + 1] = s /\ i + 1 \in 1 .. Len(queue[n])
        BY <4>1, <4>3, <4>5, <4>6
      <4>8. QED
        BY <4>7 DEF Queued
    <3>3. CASE n # m
      BY <1>1, <3>1, <3>3, <1>typed DEF Queued, LoopsTyped
    <3>4. QED
      BY <3>2, <3>3
  <2>4. ASSUME NEW d \in Drivers, QueueHandshake(d) PROVE Queued(n, s)
    <3>1. CASE UNCHANGED queue
      BY <1>1, <3>1 DEF Queued
    <3>2. CASE queue' = [queue EXCEPT ![conns] = Append(@, Handshake)]
      <4>1. CASE n = conns
        <5>1. queue'[n] = Append(queue[n], Handshake)
          BY <3>2, <4>1, <1>typed DEF LoopsTyped
        <5>2. PICK i \in 1 .. Len(queue'[n]) : queue'[n][i] = s
          BY <1>1 DEF Queued
        <5>3. queue[n] \in Seq(Requests \cup {Handshake})
          BY <1>typed DEF LoopsTyped
        <5>4. s # Handshake
          BY TransportAssumption
        <5>5. i \in 1 .. Len(queue[n]) /\ queue[n][i] = s
          BY <5>1, <5>2, <5>3, <5>4, AppendProperties
        <5>6. QED
          BY <5>5 DEF Queued
      <4>2. CASE n # conns
        BY <1>1, <3>2, <4>2, <1>typed DEF Queued, LoopsTyped
      <4>3. QED
        BY <4>1, <4>2
    <3>3. QED
      BY <2>4, <3>1, <3>2 DEF QueueHandshake
  <2>5. QED
    BY <2>1, <2>2, <2>3, <2>4, QueueWriters
<1>2. ASSUME s \in server'[n]
      PROVE  s \in server[n] \/ (LoopWrite(n) /\ Head(queue[n]) = s)
  <2>1. ASSUME NEW m \in Conns, LoopWrite(m)
        PROVE  s \in server[n] \/ (LoopWrite(n) /\ Head(queue[n]) = s)
    <3>1. CASE UNCHANGED server
      BY <1>2, <3>1
    <3>2. CASE server' = [server EXCEPT ![m] = @ \cup {Head(queue[m])}]
      BY <1>2, <2>1, <3>2, <1>typed DEF LoopsTyped
    <3>3. QED
      BY <2>1, <3>1, <3>2 DEF LoopWrite
  <2>2. ASSUME NEW m \in Conns, NEW r \in Requests, LoopReply(m, r)
        PROVE  s \in server[n]
    BY <1>2, <2>2, <1>typed DEF LoopReply, LoopsTyped
  <2>3. QED
    BY <1>2, <2>1, <2>2, ServerWriters
<1>3. QED
  BY <1>1, <1>2

\* The frame a loop writes was queued.
LEMMA HeadQueued ==
  ASSUME TInv, NEW n \in Conns, NEW s \in Requests, LoopWrite(n),
         Head(queue[n]) = s
  PROVE  Queued(n, s)
<1>1. queue[n] \in Seq(Requests \cup {Handshake}) /\ queue[n] # <<>>
  BY DEF TInv, TypeOK, LoopsTyped, LoopWrite
<1>2. 1 \in 1 .. Len(queue[n]) /\ queue[n][1] = s
  BY <1>1
<1>3. QED
  BY <1>2 DEF Queued

\* A cid, once handed out, stays with its request and its frames.
LEMMA CidsStay ==
  ASSUME TInv, Next
  PROVE  CidsAssigned'
<1>typed. RequestsTyped /\ TransportTyped
  BY DEF TInv, TypeOK
<1>1. ASSUME NEW s \in Requests PROVE cid[s] # 0 => cid'[s] # 0
  <2>1. ASSUME NEW r \in Requests, Issue(r) PROVE cid[s] # 0 => cid'[s] # 0
    BY <2>1, <1>typed, TransportAssumption
       DEF Issue, NextCid, RequestsTyped, TransportTyped
  <2>2. QED
    BY <2>1, CidWriters
<1>2. ASSUME NEW s \in Requests PROVE pc'[s] = "idle" \/ cid'[s] # 0
  <2>1. CASE UNCHANGED pc
    BY <1>1, <2>1 DEF TInv, CidsAssigned
  <2>2. ASSUME NEW r \in Requests, Issue(r) \/ RequestStep(r)
        PROVE  pc'[s] = "idle" \/ cid'[s] # 0
    <3>1. CASE Issue(r)
      BY <1>1, <3>1, <1>typed, TransportAssumption
         DEF Issue, NextCid, RequestsTyped, TransportTyped, TInv, CidsAssigned
    <3>2. CASE RequestStep(r)
      <4>1. pc[r] # "idle" /\ \A t \in Requests \ {r} : pc'[t] = pc[t]
        BY <3>2, <1>typed DEF RequestStep, Route, Gate, GateTimeout, Register,
           Submit, TakeSender, Enqueue, Complete, Timeout, HttpSend,
           HttpAnswer, Abandon, RequestsTyped
      <4>2. QED
        BY <1>1, <4>1 DEF TInv, CidsAssigned
    <3>3. QED
      BY <2>2, <3>1, <3>2
  <2>3. QED
    BY <2>1, <2>2, PcWriters
<1>3. ASSUME NEW n \in Conns, NEW s \in Requests, Queued(n, s)' \/ s \in server'[n]
      PROVE  cid'[s] # 0
  BY <1>1, <1>3, WireStep, HeadQueued DEF TInv, CidsAssigned
<1>4. QED
  BY <1>2, <1>3 DEF CidsAssigned

\* Typing is inductive.
LEMMA TInvStep ==
  ASSUME TInv, [Next]_vars
  PROVE  TInv'
<1>1. CASE Next
  BY <1>1, RequestTyped, LoopTyped, DriverTyped, CidsStay DEF Next, TInv
<1>2. CASE UNCHANGED vars
  BY <1>2 DEF TInv, TypeOK, SpawnRoom, CidsAssigned, Queued, vars,
     reqVars, adaptVars, loopVars, driverVars, RequestsTyped,
     TransportTyped, AdapterTyped, LoopsTyped, DriversTyped
<1>3. QED
  BY <1>1, <1>2

\* Every reachable state of the transport is well typed: no connection number
\* beyond those spawned, no cid outside the counter's range.
THEOREM TypeCorrect == Spec => []TypeOK
<1>1. TInv => TypeOK
  BY DEF TInv
<1>2. QED
  BY InitTyped, TInvStep, <1>1, PTL DEF Spec

------------------------------------------------------------------------------
(* The handshake goes first.                                                *)

\* Once a connection is ready for requests it stays so.
LEMMA ReadyStays ==
  ASSUME TInv, Next, NEW n \in Conns, Ready(n)
  PROVE  Ready(n)'
<1>typed. LoopsTyped
  BY DEF TInv, TypeOK
<1>1. ASSUME NEW m \in Conns, LoopWrite(m) PROVE Ready(n)'
  <2>1. queue' = [queue EXCEPT ![m] = Tail(@)]
    BY <1>1 DEF LoopWrite
  <2>2. CASE n = m
    BY <1>1, <2>2, <1>typed DEF LoopWrite, Ready, LoopsTyped
  <2>3. CASE n # m
    <3>1. queue'[n] = queue[n] /\ greeted'[n] = greeted[n]
      BY <1>1, <2>3, <1>typed DEF LoopWrite, LoopsTyped
    <3>2. QED
      BY <3>1 DEF Ready
  <2>4. QED
    BY <2>2, <2>3
<1>2. ASSUME UNCHANGED greeted PROVE Ready(n)'
  <2>1. CASE greeted[n]
    BY <1>2, <2>1 DEF Ready
  <2>2. CASE ~greeted[n]
    <3>1. queue[n] # <<>> /\ Head(queue[n]) = Handshake
      BY <2>2 DEF Ready
    <3>2. queue[n] \in Seq(Requests \cup {Handshake})
      BY <1>typed DEF LoopsTyped
    <3>3. ASSUME NEW e, NEW m,
                 queue' = [queue EXCEPT ![m] = Append(@, e)]
          PROVE  Ready(n)'
      <4>1. queue'[n] = queue[n] \/ queue'[n] = Append(queue[n], e)
        BY <3>3, <1>typed DEF LoopsTyped
      <4>2. Append(queue[n], e) # <<>> /\ Head(Append(queue[n], e)) = Handshake
        BY <3>1, <3>2, HeadTailAppend
      <4>3. QED
        BY <3>1, <4>1, <4>2 DEF Ready
    <3>4. ASSUME UNCHANGED queue PROVE Ready(n)'
      BY <3>1, <3>4 DEF Ready
    <3>5. ASSUME NEW r \in Requests, Enqueue(r) PROVE Ready(n)'
      BY <3>3, <3>4, <3>5 DEF Enqueue, Abandon, loopVars
    <3>6. ASSUME NEW d \in Drivers, QueueHandshake(d) PROVE Ready(n)'
      BY <3>3, <3>4, <3>6 DEF QueueHandshake
    <3>7. QED
      BY <3>4, <3>5, <3>6, <1>1, QueueWriters
  <2>3. QED
    BY <2>1, <2>2
<1>3. QED
  BY <1>1, <1>2, GreetedWriters

\* Only a request's own steps move it.
LEMMA OwnSteps ==
  ASSUME TInv, Next, NEW s \in Requests,
         pc'[s] # pc[s] \/ outcome'[s] # outcome[s]
  PROVE  Issue(s) \/ RequestStep(s)
<1>typed. RequestsTyped
  BY DEF TInv, TypeOK
<1>1. PICK r \in Requests : Issue(r) \/ RequestStep(r)
  BY PcWriters
<1>2. \A t \in Requests \ {r} : pc'[t] = pc[t] /\ outcome'[t] = outcome[t]
  <2>1. CASE Issue(r) \/ Route(r) \/ Gate(r) \/ GateTimeout(r) \/ Register(r)
    BY <2>1, <1>typed DEF Issue, Route, Gate, GateTimeout, Register,
       RequestsTyped
  <2>2. ASSUME Abandon(r)
        PROVE  \A t \in Requests \ {r} :
                 pc'[t] = pc[t] /\ outcome'[t] = outcome[t]
    BY <2>2, <1>typed DEF Abandon, RequestsTyped
  <2>3. CASE Submit(r) \/ TakeSender(r) \/ Enqueue(r) \/ Timeout(r)
    BY <2>2, <2>3, <1>typed DEF Submit, TakeSender, Enqueue, Timeout,
       RequestsTyped
  <2>4. CASE Complete(r) \/ HttpSend(r) \/ HttpAnswer(r)
    BY <2>4, <1>typed DEF Complete, HttpSend, HttpAnswer, RequestsTyped
  <2>5. QED
    BY <1>1, <2>1, <2>3, <2>4 DEF RequestStep
<1>3. QED
  BY <1>1, <1>2

\* Only a driver's own steps move it.
LEMMA OwnDriverSteps ==
  ASSUME TInv, Next, NEW d \in Drivers, driver'[d] # driver[d]
  PROVE  DriverStep(d)
<1>typed. DriversTyped
  BY DEF TInv, TypeOK
<1>1. PICK e \in Drivers : DriverStep(e)
  BY DriverWriters
<1>2. \A f \in Drivers \ {e} : driver'[f] = driver[f]
  <2>1. \E p : At(e, p)
    BY <1>1 DEF DriverStep, Connect, Dial, Retire, Spawn, StoreTask,
       QueueHandshake, PublishSender, MarkOpen, SignalOpen, CloseSignal,
       CloseClear, CloseMark, CloseSender, CloseTake, CloseAbort
  <2>2. QED
    BY <2>1, <1>typed DEF At, DriversTyped
<1>3. QED
  BY <1>1, <1>2

\* The invariant behind HandshakeFirst.
HInv == TInv /\ ConnsSpawned /\ SenderAfterHandshake

\* No connection is used before anything was done to it.
LEMMA ConnsStep ==
  ASSUME HInv, Next
  PROVE  ConnsSpawned'
<1>typed. RequestsTyped /\ LoopsTyped /\ AdapterTyped /\ DriversTyped /\ TInv
          /\ SpawnRoom
  BY DEF HInv, TInv, TypeOK
<1>1. ASSUME NEW n \in Conns, n > conns'
      PROVE  queue'[n] = <<>> /\ server'[n] = {} /\ ~greeted'[n]
  <2>1. n > conns
    BY <1>1, <1>typed, ConnsWriters DEF Spawn, LoopsTyped, Conns
  <2>2. queue[n] = <<>> /\ server[n] = {} /\ ~greeted[n]
    BY <2>1 DEF HInv, ConnsSpawned
  <2>3. ~Ready(n)
    BY <2>2 DEF Ready
  <2>4. queue'[n] = <<>>
    <3>1. ASSUME NEW r \in Requests, Enqueue(r) PROVE queue'[n] = <<>>
      <4>1. tx[r] # n
        BY <2>1, <2>3, <3>1, <1>typed, TransportAssumption
           DEF Enqueue, HInv, SenderAfterHandshake, Conns
      <4>2. QED
        BY <2>2, <3>1, <4>1, <1>typed DEF Enqueue, Abandon, loopVars,
           LoopsTyped
    <3>2. ASSUME NEW m \in Conns, LoopWrite(m) PROVE queue'[n] = <<>>
      BY <2>2, <3>2, <1>typed DEF LoopWrite, LoopsTyped
    <3>3. ASSUME NEW d \in Drivers, QueueHandshake(d) PROVE queue'[n] = <<>>
      <4>1. n # conns
        BY <2>1, <1>typed DEF LoopsTyped, Conns
      <4>2. QED
        BY <2>2, <3>3, <4>1, <1>typed DEF QueueHandshake, LoopsTyped
    <3>4. QED
      BY <2>2, <3>1, <3>2, <3>3, QueueWriters
  <2>5. ASSUME NEW m \in Conns, LoopWrite(m) PROVE m # n
    BY <2>2, <2>5 DEF LoopWrite
  <2>6. server'[n] = {}
    <3>1. ASSUME NEW m \in Conns, LoopWrite(m) PROVE server'[n] = {}
      BY <2>2, <2>5, <3>1, <1>typed DEF LoopWrite, LoopsTyped
    <3>2. ASSUME NEW m \in Conns, NEW r \in Requests, LoopReply(m, r)
          PROVE  server'[n] = {}
      BY <2>2, <3>2, <1>typed DEF LoopReply, LoopsTyped
    <3>3. QED
      BY <2>2, <3>1, <3>2, ServerWriters
  <2>7. ~greeted'[n]
    BY <2>2, <2>5, <1>typed, GreetedWriters DEF LoopWrite, LoopsTyped
  <2>8. QED
    BY <2>4, <2>6, <2>7
<1>2. ASSUME driver'[Manager] \in {"store", "greet", "publish", "open", "signal"}
      PROVE  conns' > 0
  <2>1. CASE driver'[Manager] = driver[Manager]
    <3>1. conns > 0
      BY <1>2, <2>1 DEF HInv, ConnsSpawned
    <3>2. QED
      BY <3>1, <1>typed, ConnsWriters DEF Spawn, LoopsTyped
  <2>2. CASE driver'[Manager] # driver[Manager]
    <3>1. DriverStep(Manager) 
      BY <2>2, <1>typed, TransportAssumption, OwnDriverSteps
    <3>2. CASE Spawn(Manager)
      BY <3>2, <1>typed DEF Spawn, LoopsTyped
    <3>3. CASE ~Spawn(Manager)
      <4>1. driver[Manager] \in {"store", "greet", "publish", "open"}
        BY <1>2, <3>1, <3>3, <1>typed, TransportAssumption
           DEF DriverStep, Connect, Dial, Retire, StoreTask, QueueHandshake,
               PublishSender, MarkOpen, SignalOpen, CloseSignal, CloseClear,
               CloseMark, CloseSender, CloseTake, CloseAbort, At, DriversTyped
      <4>2. conns > 0
        BY <4>1 DEF HInv, ConnsSpawned
      <4>3. QED
        BY <4>2, <1>typed, ConnsWriters DEF Spawn, LoopsTyped
    <3>4. QED
      BY <3>2, <3>3
  <2>3. QED
    BY <2>1, <2>2
<1>3. QED
  BY <1>1, <1>2 DEF ConnsSpawned

\* A greeted connection stays greeted.
LEMMA GreetedStays ==
  ASSUME TInv, Next, NEW n \in Conns, greeted[n]
  PROVE  greeted'[n]
<1>typed. LoopsTyped
  BY DEF TInv, TypeOK
<1>1. ASSUME NEW m \in Conns, LoopWrite(m) PROVE greeted'[n]
  BY <1>1, <1>typed DEF LoopWrite, LoopsTyped
<1>2. QED
  BY <1>1, GreetedWriters

\* No queue that requests can reach lacks the handshake.
LEMMA SenderStep ==
  ASSUME HInv, Next
  PROVE  SenderAfterHandshake'
<1>typed. RequestsTyped /\ LoopsTyped /\ AdapterTyped /\ DriversTyped /\ TInv
          /\ SpawnRoom
  BY DEF HInv, TInv, TypeOK
<1>sah. SenderAfterHandshake /\ ConnsSpawned
  BY DEF HInv
<1>mgr. ASSUME NEW d \in Drivers, driver[d] \in ConnectPhases
        PROVE  d = Manager
  BY <1>mgr, <1>typed DEF SpawnRoom
<1>1. ASSUME writeTx' # 0 PROVE Ready(writeTx)'
  <2>1. CASE UNCHANGED writeTx
    <3>1. writeTx \in Conns /\ Ready(writeTx)
      BY <1>1, <2>1, <1>typed, <1>sah, TransportAssumption
         DEF SenderAfterHandshake, AdapterTyped, Conns
    <3>2. QED
      BY <2>1, <3>1, <1>typed, ReadyStays DEF Ready
  <2>2. ASSUME NEW d \in Drivers, PublishSender(d) PROVE Ready(writeTx)'
    <3>1. d = Manager /\ driver[Manager] = "publish"
      BY <2>2, <1>mgr DEF PublishSender, ConnectPhases
    <3>2. conns \in Conns /\ Ready(conns)
      BY <3>1, <1>sah, <1>typed, TransportAssumption
         DEF SenderAfterHandshake, ConnsSpawned, LoopsTyped, Conns
    <3>3. writeTx' = conns
      BY <2>2 DEF PublishSender
    <3>4. QED
      BY <3>2, <3>3, <1>typed, ReadyStays DEF Ready
  <2>3. QED
    BY <1>1, <2>1, <2>2, WriteTxWriters DEF CloseSender
<1>2. ASSUME NEW r \in Requests, tx'[r] # 0 PROVE Ready(tx[r])'
  <2>1. tx'[r] \in {tx[r], writeTx}
    BY <1>typed, TxWriters DEF TakeSender, Abandon, RequestsTyped
  <2>2. tx'[r] \in Conns /\ Ready(tx'[r])
    BY <1>2, <2>1, <1>typed, <1>sah, TransportAssumption
       DEF SenderAfterHandshake, AdapterTyped, RequestsTyped, Conns
  <2>3. QED
    BY <2>2, <1>typed, ReadyStays DEF Ready
<1>3. ASSUME NEW r \in Requests, pc'[r] = "enqueue" PROVE tx'[r] # 0
  <2>1. CASE pc[r] = "enqueue"
    <3>1. tx[r] # 0
      BY <2>1, <1>sah DEF SenderAfterHandshake
    <3>2. QED
      BY <3>1, <1>typed, TxWriters DEF TakeSender, Abandon, RequestsTyped
  <2>2. CASE pc[r] # "enqueue"
    <3>1. Issue(r) \/ RequestStep(r)
      BY <1>3, <2>2, <1>typed, OwnSteps
    <3>2. TakeSender(r)
      BY <1>3, <3>1, <2>2, <1>typed
         DEF Issue, RequestStep, Route, Gate, GateTimeout, Register, Submit,
             Enqueue, Complete, Timeout, HttpSend, HttpAnswer, Abandon,
             RequestsTyped
    <3>3. QED
      BY <1>3, <3>2, <1>typed DEF TakeSender, Abandon, RequestsTyped
  <2>3. QED
    BY <2>1, <2>2
<1>4. ASSUME NEW n \in Conns, queue'[n] # <<>> PROVE Ready(n)'
  <2>1. CASE Ready(n)
    BY <2>1, <1>typed, ReadyStays
  <2>2. CASE ~Ready(n)
    <3>1. queue[n] = <<>>
      BY <2>2, <1>sah DEF SenderAfterHandshake
    <3>2. ASSUME NEW r \in Requests, Enqueue(r) PROVE FALSE
      <4>1. tx[r] # n
        BY <2>2, <3>2, <1>sah, TransportAssumption
           DEF Enqueue, SenderAfterHandshake, Conns
      <4>2. QED
        BY <1>4, <3>1, <3>2, <4>1, <1>typed
           DEF Enqueue, Abandon, loopVars, LoopsTyped
    <3>3. ASSUME NEW m \in Conns, LoopWrite(m) PROVE FALSE
      BY <1>4, <3>1, <3>3, <1>typed DEF LoopWrite, LoopsTyped
    <3>4. ASSUME NEW d \in Drivers, QueueHandshake(d) PROVE Ready(n)'
      <4>1. queue'[n] = Append(<<>>, Handshake)
        BY <1>4, <3>1, <3>4, <1>typed DEF QueueHandshake, LoopsTyped
      <4>2. queue'[n] # <<>> /\ Head(queue'[n]) = Handshake
        BY <4>1
      <4>3. QED
        BY <4>2 DEF Ready
    <3>5. QED
      BY <1>4, <3>1, <3>2, <3>3, <3>4, QueueWriters
  <2>3. QED
    BY <2>1, <2>2
<1>5. ASSUME driver'[Manager] \in {"store", "greet"}
      PROVE  queue'[conns'] = <<>> /\ ~greeted'[conns']
  <2>1. CASE Spawn(Manager)
    <3>1. conns + 1 \in Conns /\ conns' = conns + 1
      BY <2>1, <1>typed, TransportAssumption
         DEF Spawn, SpawnRoom, LoopsTyped, Conns
    <3>2. queue[conns + 1] = <<>> /\ ~greeted[conns + 1]
      BY <3>1, <1>sah, <1>typed DEF ConnsSpawned, LoopsTyped
    <3>3. QED
      BY <2>1, <3>1, <3>2 DEF Spawn
  <2>2. CASE ~Spawn(Manager)
    <3>1. driver[Manager] \in {"store", "greet"} /\ ~QueueHandshake(Manager)
      <4>1. CASE driver'[Manager] = driver[Manager]
        BY <1>5, <4>1, <1>typed, TransportAssumption
           DEF QueueHandshake, At, DriversTyped
      <4>2. CASE driver'[Manager] # driver[Manager]
        <5>1. DriverStep(Manager)
          BY <4>2, <1>typed, TransportAssumption, OwnDriverSteps
        <5>2. QED
          BY <1>5, <5>1, <2>2, <1>typed, TransportAssumption DEF DriverStep,
             Connect, Dial, Retire, StoreTask, QueueHandshake, PublishSender,
             MarkOpen, SignalOpen, CloseSignal, CloseClear, CloseMark,
             CloseSender, CloseTake, CloseAbort, At, DriversTyped
      <4>3. QED
        BY <4>1, <4>2
    <3>2. conns \in Conns /\ queue[conns] = <<>> /\ ~greeted[conns]
      BY <3>1, <1>sah, <1>typed
         DEF ConnsSpawned, SenderAfterHandshake, LoopsTyped, Conns
    <3>3. ~Ready(conns)
      BY <3>2 DEF Ready
    <3>4. UNCHANGED conns
      BY <2>2, <1>mgr, ConnsWriters DEF Spawn, ConnectPhases
    <3>5. queue'[conns] = <<>>
      <4>1. ASSUME NEW r \in Requests, Enqueue(r) PROVE queue'[conns] = <<>>
        <5>1. tx[r] # conns
          BY <3>2, <3>3, <4>1, <1>sah, <1>typed
             DEF Enqueue, SenderAfterHandshake, LoopsTyped, ConnsSpawned, Conns
        <5>2. QED
          BY <3>2, <4>1, <5>1, <1>typed
             DEF Enqueue, Abandon, loopVars, LoopsTyped
      <4>2. ASSUME NEW m \in Conns, LoopWrite(m) PROVE queue'[conns] = <<>>
        BY <3>2, <4>2, <1>typed DEF LoopWrite, LoopsTyped
      <4>3. \A d \in Drivers : ~QueueHandshake(d)
        BY <3>1, <1>mgr DEF QueueHandshake, ConnectPhases
      <4>4. QED
        BY <3>2, <4>1, <4>2, <4>3, QueueWriters
    <3>6. ~greeted'[conns]
      <4>1. ASSUME NEW m \in Conns, LoopWrite(m) PROVE m # conns
        BY <3>2, <4>1 DEF LoopWrite
      <4>2. QED
        BY <3>2, <4>1, <1>typed, GreetedWriters DEF LoopWrite, LoopsTyped
    <3>7. QED
      BY <3>4, <3>5, <3>6
  <2>3. QED
    BY <2>1, <2>2
<1>6. ASSUME driver'[Manager] = "publish" PROVE Ready(conns)'
  <2>1. CASE driver[Manager] = "publish"
    <3>1. conns \in Conns /\ Ready(conns)
      BY <2>1, <1>sah, <1>typed
         DEF ConnsSpawned, SenderAfterHandshake, LoopsTyped, Conns
    <3>2. UNCHANGED conns
      BY <2>1, <1>mgr, ConnsWriters DEF Spawn, ConnectPhases
    <3>3. QED
      BY <3>1, <3>2, <1>typed, ReadyStays DEF Ready
  <2>2. CASE driver[Manager] # "publish"
    <3>1. DriverStep(Manager)
      BY <1>6, <2>2, <1>typed, TransportAssumption, OwnDriverSteps
    <3>2. QueueHandshake(Manager) /\ loop[conns] # "gone"
      BY <1>6, <3>1, <2>2, <1>typed, TransportAssumption
         DEF DriverStep, Connect, Dial, Retire, Spawn, StoreTask,
             QueueHandshake, PublishSender, MarkOpen, SignalOpen, CloseSignal,
             CloseClear, CloseMark, CloseSender, CloseTake, CloseAbort, At,
             DriversTyped
    <3>3. conns \in Conns /\ queue[conns] = <<>>
      BY <3>2, <1>sah, <1>typed DEF QueueHandshake, ConnsSpawned,
         SenderAfterHandshake, LoopsTyped, Conns
    <3>4. queue'[conns] = Append(<<>>, Handshake) /\ UNCHANGED conns
      BY <3>2, <3>3, <1>typed DEF QueueHandshake, LoopsTyped
    <3>5. queue'[conns'] # <<>> /\ Head(queue'[conns']) = Handshake
      BY <3>4
    <3>6. QED
      BY <3>5 DEF Ready
  <2>3. QED
    BY <2>1, <2>2
<1>7. ASSUME NEW n \in Conns, server'[n] # {} PROVE greeted'[n]
  <2>1. CASE greeted[n]
    BY <2>1, <1>typed, GreetedStays
  <2>2. CASE ~greeted[n]
    <3>1. PICK s \in Requests : s \in server'[n]
      <4>1. server'[n] \subseteq Requests
        BY RequestTyped, LoopTyped, DriverTyped, <1>typed
           DEF Next, TypeOK, LoopsTyped
      <4>2. QED
        BY <1>7, <4>1
    <3>2. LoopWrite(n) /\ Head(queue[n]) = s
      BY <2>2, <3>1, <1>typed, <1>sah, WireStep
         DEF SenderAfterHandshake, HandshakeFirst
    <3>3. queue[n] # <<>> /\ Head(queue[n]) # Handshake
      BY <3>2, TransportAssumption DEF LoopWrite
    <3>4. QED
      BY <2>2, <3>3, <1>sah DEF SenderAfterHandshake, Ready
  <2>3. QED
    BY <2>1, <2>2
<1>8. QED
  BY <1>1, <1>2, <1>3, <1>4, <1>5, <1>6, <1>7
     DEF SenderAfterHandshake, HandshakeFirst

LEMMA InitHInv == Init => HInv
<1>1. Init => ConnsSpawned /\ SenderAfterHandshake
  BY TransportAssumption
     DEF Init, ConnsSpawned, SenderAfterHandshake, HandshakeFirst
<1>2. QED
  BY <1>1, InitTyped DEF HInv

LEMMA HInvStep ==
  ASSUME HInv, [Next]_vars
  PROVE  HInv'
<1>1. CASE Next
  BY <1>1, TInvStep, ConnsStep, SenderStep DEF HInv
<1>2. CASE UNCHANGED vars
  BY <1>2, TInvStep DEF HInv, ConnsSpawned, SenderAfterHandshake,
     HandshakeFirst, Ready, vars, reqVars, adaptVars, loopVars, driverVars
<1>3. QED
  BY <1>1, <1>2

\* The gateway reads the credential before anything else on a connection,
\* whatever close, reconnect and the requests of another thread do meanwhile.
THEOREM HandshakeAlwaysFirst == Spec => []HandshakeFirst
<1>1. HInv => HandshakeFirst
  BY DEF HInv, SenderAfterHandshake
<1>2. QED
  BY InitHInv, HInvStep, <1>1, PTL DEF Spec

==============================================================================

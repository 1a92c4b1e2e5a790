------------------------------ MODULE Transport ------------------------------
(***************************************************************************)
(* Request/response correlation over the abridged TCP socket: what         *)
(* MezonTransport (mezon-client/src/transport.rs) and AbridgedTcpAdapter    *)
(* (abridged_tcp_adapter.rs) do between a call and its result.              *)
(*                                                                         *)
(* Every await, lock and atomic access is a step of its own: the tasks run *)
(* on a tokio runtime with two worker threads.  Three kinds of process     *)
(* interleave: the requests, one I/O loop per TCP connection, and the       *)
(* drivers that call connect() and close() (the connection manager, and    *)
(* the heartbeat or a user's reconnect, which only close).                  *)
(***************************************************************************)
EXTENDS Naturals, Sequences, FiniteSets

CONSTANTS
    Requests,      \* the calls made during a behaviour, each made once
    Pings,         \* those made by ping_roundtrip: no connect gate
    HttpCapable,   \* those made by send_api_request_with_http_fallback
    Drivers,       \* the tasks that open and close the connection
    Manager,       \* the one driver that calls connect
    CidMod,        \* 2^16 in the code: the cid counter is an AtomicU16
    MaxConns,      \* bound on the number of I/O loops ever spawned
    QueueCap,      \* WRITE_QUEUE_CAPACITY
    NoRequest,     \* an empty entry of the pending map
    Handshake      \* the first packet of a connection, not a request

ASSUME TransportAssumption ==
    /\ Pings \subseteq Requests
    /\ HttpCapable \subseteq Requests \ Pings
    /\ Manager \in Drivers
    /\ CidMod \in Nat /\ CidMod > 1
    /\ MaxConns \in Nat /\ MaxConns > 0
    /\ QueueCap \in Nat /\ QueueCap > 0
    /\ NoRequest \notin Requests
    /\ Handshake \notin Requests

Cids  == 1 .. CidMod - 1
Conns == 1 .. MaxConns

VARIABLES
    counter,   \* MezonTransport.cid_counter
    pc,        \* where each request's future is suspended
    cid,       \* the correlation id it was given; 0 before
    tx,        \* the connection whose write queue it holds a sender of; 0: none
    slot,      \* its oneshot channel
    body,      \* the requests whose reply bytes the oneshot carries
    outcome,   \* what the caller was told
    sent,      \* how many times its bytes left the client
    pending,   \* MezonTransport.pending_requests
    watch,     \* the connected_tx / connected_rx watch channel
    isOpen,    \* AbridgedTcpAdapter.is_connected
    writeTx,   \* AbridgedTcpAdapter.write_tx: a connection, 0 for None
    ioTask,    \* AbridgedTcpAdapter.io_task: a connection, 0 for None
    conns,     \* number of I/O loops spawned so far
    loop,      \* the state of each I/O loop
    queue,     \* its mpsc write queue
    greeted,   \* whether its handshake reached the socket
    server,    \* requests its server end has received and not fully answered
    partial,   \* IoLoopState.streams: cid -> origins of the chunks held
    driver,    \* where each driver is inside connect or close
    held       \* the I/O task a driver has taken in order to abort it

reqVars    == <<pc, cid, tx, slot, body, outcome, sent>>
adaptVars  == <<watch, isOpen, writeTx, ioTask>>
loopVars   == <<conns, loop, queue, greeted, server, partial>>
driverVars == <<driver, held>>
vars == <<counter, reqVars, pending, adaptVars, loopVars, driverVars>>

ReqPhases == {"idle", "route", "gate", "register", "submit", "sender",
              "enqueue", "await", "http", "http_wait", "done"}
Slots     == {"none", "armed", "reply", "too_large", "dropped"}
LoopPhases == {"none", "running", "closing", "telling", "clearing", "gone"}
ConnectPhases == {"dialing", "retire", "spawn", "store", "greet", "publish",
                  "open", "signal"}
ClosePhases == {"clear", "unopen", "untx", "take", "abort"}

InFlight(r) == pc[r] \notin {"idle", "done"}
\* A request whose executor may be in the pending map.
Registered(r) == pc[r] \in {"submit", "sender", "enqueue", "await"}
\* No frame of request r is queued or waits for (the rest of) its answer.
OffTheWire(r) == \A n \in Conns :
    loop[n] # "gone" => /\ \A i \in 1 .. Len(queue[n]) : queue[n][i] # r
                        /\ r \notin server[n]

Init ==
    /\ counter = 1
    /\ pc = [r \in Requests |-> "idle"]
    /\ cid = [r \in Requests |-> 0]
    /\ tx = [r \in Requests |-> 0]
    /\ slot = [r \in Requests |-> "none"]
    /\ body = [r \in Requests |-> {}]
    /\ outcome = [r \in Requests |-> "none"]
    /\ sent = [r \in Requests |-> 0]
    /\ pending = [c \in Cids |-> NoRequest]
    /\ watch = FALSE /\ isOpen = FALSE
    /\ writeTx = 0 /\ ioTask = 0
    /\ conns = 0
    /\ loop = [n \in Conns |-> "none"]
    /\ queue = [n \in Conns |-> <<>>]
    /\ greeted = [n \in Conns |-> FALSE]
    /\ server = [n \in Conns |-> {}]
    /\ partial = [n \in Conns |-> [c \in Cids |-> {}]]
    /\ driver = [d \in Drivers |-> "idle"]
    /\ held = [d \in Drivers |-> 0]

------------------------------------------------------------------------------
(* A request.                                                              *)

\* fetch_add wraps at CidMod and the value 0 is skipped.
NextCid == IF counter = 0 THEN 1 ELSE counter
\* (mutant) the counter as a wider integer
CounterNeverWraps == NextCid + 1
NextCounter == (NextCid + 1) % CidMod

\* Named bound of the environment: by the time the 16-bit counter comes back
\* to a cid, its previous holder is resolved and all of its frames are off the
\* wire (65 535 calls later in the code, which does not check it).
CidFree(c) == \A s \in Requests : cid[s] = c => ~InFlight(s) /\ OffTheWire(s)

Issue(r) ==
    /\ pc[r] = "idle"
    /\ CidFree(NextCid)
    /\ cid' = [cid EXCEPT ![r] = NextCid]
    /\ counter' = NextCounter
    /\ pc' = [pc EXCEPT ![r] = IF r \in Pings THEN "register"
                               ELSE IF r \in HttpCapable THEN "route"
                               ELSE "gate"]
    /\ UNCHANGED <<tx, slot, body, outcome, sent, pending, adaptVars,
                   loopVars, driverVars>>

\* has_fallback && !is_open().  Whether a session is armed is not this module's
\* state (see SessionTokens), so a closed socket may lead either way.
Route(r) ==
    /\ pc[r] = "route"
    /\ \/ pc' = [pc EXCEPT ![r] = "gate"]
       \/ ~isOpen /\ pc' = [pc EXCEPT ![r] = "http"]
    /\ UNCHANGED <<counter, cid, tx, slot, body, outcome, sent, pending,
                   adaptVars, loopVars, driverVars>>

Gate(r) ==
    /\ pc[r] = "gate"
    /\ watch
    /\ pc' = [pc EXCEPT ![r] = "register"]
    /\ UNCHANGED <<counter, cid, tx, slot, body, outcome, sent, pending,
                   adaptVars, loopVars, driverVars>>

GateTimeout(r) ==
    /\ pc[r] = "gate"
    /\ ~watch
    /\ pc' = [pc EXCEPT ![r] = "done"]
    /\ outcome' = [outcome EXCEPT ![r] = "error"]
    /\ UNCHANGED <<counter, cid, tx, slot, body, sent, pending, adaptVars,
                   loopVars, driverVars>>

\* Dropping an executor closes its oneshot channel.
Dropped(s) == IF s = NoRequest THEN slot ELSE [slot EXCEPT ![s] = "dropped"]

\* HashMap::insert: an executor already under that cid is dropped.
Register(r) ==
    /\ pc[r] = "register"
    /\ slot' = [Dropped(pending[cid[r]]) EXCEPT ![r] = "armed"]
    /\ pending' = [pending EXCEPT ![cid[r]] = r]
    /\ pc' = [pc EXCEPT ![r] = "submit"]
    /\ UNCHANGED <<counter, cid, tx, body, outcome, sent, adaptVars,
                   loopVars, driverVars>>

\* (mutant) the error path forgets the entry
AbandonLeavesEntry(r) ==
    /\ pc' = [pc EXCEPT ![r] = "done"]
    /\ outcome' = [outcome EXCEPT ![r] = "error"]
    /\ UNCHANGED <<counter, cid, tx, slot, body, sent, pending, adaptVars,
                   loopVars, driverVars>>

\* pending.remove(&cid) and an error for the caller.
Abandon(r) ==
    /\ slot' = Dropped(pending[cid[r]])
    /\ pending' = [pending EXCEPT ![cid[r]] = NoRequest]
    /\ pc' = [pc EXCEPT ![r] = "done"]
    /\ outcome' = [outcome EXCEPT ![r] = "error"]
    /\ UNCHANGED <<counter, cid, tx, body, sent, adaptVars, loopVars,
                   driverVars>>

\* adapter.send and send_ping: the is_open() check, and for an envelope the
\* size cap ...
Submit(r) ==
    /\ pc[r] = "submit"
    /\ \/ (~isOpen \/ r \notin Pings) /\ Abandon(r)
       \/ /\ isOpen
          /\ pc' = [pc EXCEPT ![r] = "sender"]
          /\ UNCHANGED <<counter, cid, tx, slot, body, outcome, sent, pending,
                         adaptVars, loopVars, driverVars>>

\* ... the clone of the sender under the write_tx lock ...
TakeSender(r) ==
    /\ pc[r] = "sender"
    /\ \/ writeTx = 0 /\ Abandon(r)
       \/ /\ writeTx # 0
          /\ tx' = [tx EXCEPT ![r] = writeTx]
          /\ pc' = [pc EXCEPT ![r] = "enqueue"]
          /\ UNCHANGED <<counter, cid, slot, body, outcome, sent, pending,
                         adaptVars, loopVars, driverVars>>

\* ... and send_timeout into the bounded queue, which fails once the loop has
\* dropped the receiver, or when the queue stays full.
Enqueue(r) ==
    /\ pc[r] = "enqueue"
    /\ \/ /\ loop[tx[r]] = "gone" \/ Len(queue[tx[r]]) = QueueCap
          /\ Abandon(r)
       \/ /\ loop[tx[r]] # "gone" /\ Len(queue[tx[r]]) < QueueCap
          /\ queue' = [queue EXCEPT ![tx[r]] = Append(@, r)]
          /\ pc' = [pc EXCEPT ![r] = "await"]
          /\ UNCHANGED <<counter, cid, tx, slot, body, outcome, sent, pending,
                         adaptVars, conns, loop, greeted, server, partial,
                         driverVars>>

\* send_with_timeout and complete_api_request.  An answer may be an error
\* envelope.  One that was too large comes as a success with a code of its own
\* and no body, which complete_api_request passes on to its caller.
Results(r) ==
    CASE slot[r] = "reply"     -> IF r \in Pings THEN {"ok"} ELSE {"ok", "error"}
      [] slot[r] = "too_large" -> {"too_large"}
      [] OTHER                 -> {"error"}

\* (mutant) a request the socket dropped is replayed over HTTP
CompleteRetriesOverHttp(r) ==
    /\ pc[r] = "await"
    /\ slot[r] # "armed"
    /\ IF slot[r] = "dropped" /\ r \in HttpCapable
         THEN pc' = [pc EXCEPT ![r] = "http"] /\ UNCHANGED outcome
         ELSE /\ pc' = [pc EXCEPT ![r] = "done"]
              /\ \E result \in Results(r) :
                   outcome' = [outcome EXCEPT ![r] = result]
    /\ UNCHANGED <<counter, cid, tx, slot, body, sent, pending, adaptVars,
                   loopVars, driverVars>>

\* (mutant) a dropped executor is taken for an empty answer
CompleteIgnoresDrop(r) ==
    /\ pc[r] = "await"
    /\ slot[r] # "armed"
    /\ pc' = [pc EXCEPT ![r] = "done"]
    /\ outcome' = [outcome EXCEPT ![r] =
                     IF slot[r] = "too_large" THEN "too_large" ELSE "ok"]
    /\ UNCHANGED <<counter, cid, tx, slot, body, sent, pending, adaptVars,
                   loopVars, driverVars>>

\* The oneshot resolved, with a reply or because its executor was dropped.
Complete(r) ==
    /\ pc[r] = "await"
    /\ slot[r] # "armed"
    /\ pc' = [pc EXCEPT ![r] = "done"]
    /\ \E result \in Results(r) : outcome' = [outcome EXCEPT ![r] = result]
    /\ UNCHANGED <<counter, cid, tx, slot, body, sent, pending, adaptVars,
                   loopVars, driverVars>>

\* The send (or ping) timeout: tokio polls the oneshot first, so it only fires
\* while the oneshot is still armed.
Timeout(r) ==
    /\ pc[r] = "await"
    /\ slot[r] = "armed"
    /\ Abandon(r)

\* send_api_request_over_http.  It may fail before anything is sent (no
\* session, no token could be minted).
HttpSend(r) ==
    /\ pc[r] = "http"
    /\ \/ /\ sent' = [sent EXCEPT ![r] = @ + 1]
          /\ pc' = [pc EXCEPT ![r] = "http_wait"]
          /\ UNCHANGED outcome
       \/ /\ pc' = [pc EXCEPT ![r] = "done"]
          /\ outcome' = [outcome EXCEPT ![r] = "error"]
          /\ UNCHANGED sent
    /\ UNCHANGED <<counter, cid, tx, slot, body, pending, adaptVars,
                   loopVars, driverVars>>

\* A 2xx response to this very POST, or a status, network error or timeout.
HttpAnswer(r) ==
    /\ pc[r] = "http_wait"
    /\ pc' = [pc EXCEPT ![r] = "done"]
    /\ \/ /\ outcome' = [outcome EXCEPT ![r] = "ok"]
          /\ body' = [body EXCEPT ![r] = {r}]
       \/ /\ outcome' = [outcome EXCEPT ![r] = "error"]
          /\ UNCHANGED body
    /\ UNCHANGED <<counter, cid, tx, slot, sent, pending, adaptVars,
                   loopVars, driverVars>>

RequestStep(r) ==
    \/ Route(r) \/ Gate(r) \/ GateTimeout(r) \/ Register(r) \/ Submit(r)
    \/ TakeSender(r) \/ Enqueue(r) \/ Complete(r) \/ Timeout(r)
    \/ HttpSend(r) \/ HttpAnswer(r)

------------------------------------------------------------------------------
(* The I/O loop of connection n.                                            *)

\* write_rx.recv() then write_all: the oldest packet goes out.
LoopWrite(n) ==
    /\ loop[n] = "running"
    /\ queue[n] # <<>>
    /\ queue' = [queue EXCEPT ![n] = Tail(@)]
    /\ IF Head(queue[n]) = Handshake
         THEN /\ greeted' = [greeted EXCEPT ![n] = TRUE]
              /\ UNCHANGED <<server, sent>>
         ELSE /\ server' = [server EXCEPT ![n] = @ \cup {Head(queue[n])}]
              /\ sent' = [sent EXCEPT ![Head(queue[n])] = @ + 1]
              /\ UNCHANGED greeted
    /\ UNCHANGED <<counter, pc, cid, tx, slot, body, outcome, pending,
                   adaptVars, conns, loop, partial, driverVars>>

\* on_message with a nonzero cid: resolve the pending request, or else route
\* the frame as a push, which touches nothing here.
Deliver(c, kind, origins) ==
    IF pending[c] = NoRequest
      THEN UNCHANGED <<pending, slot, body>>
      ELSE /\ pending' = [pending EXCEPT ![c] = NoRequest]
           /\ slot' = [slot EXCEPT ![pending[c]] = kind]
           /\ body' = [body EXCEPT ![pending[c]] = origins]

\* A chunk without the fin flag of the answer to r (any order: the server
\* answers requests as it likes).
LoopChunk(n, r) ==
    /\ loop[n] = "running"
    /\ r \in server[n]
    /\ partial' = [partial EXCEPT ![n][cid[r]] = @ \cup {r}]
    /\ UNCHANGED <<counter, reqVars, pending, adaptVars, conns, loop, queue,
                   greeted, server, driverVars>>

\* (mutant) streams.get instead of streams.remove
StreamKept(n, c) == partial

\* streams.remove(&cid)
StreamTaken(n, c) == [partial EXCEPT ![n][c] = {}]

\* The final chunk (or the only one, a pong, a realtime envelope with a cid).
LoopReply(n, r) ==
    /\ loop[n] = "running"
    /\ r \in server[n]
    /\ server' = [server EXCEPT ![n] = @ \ {r}]
    /\ partial' = StreamTaken(n, cid[r])
    /\ Deliver(cid[r], "reply", partial[n][cid[r]] \cup {r})
    /\ UNCHANGED <<counter, pc, cid, tx, outcome, sent, adaptVars, conns,
                   loop, queue, greeted, driverVars>>

\* A chunk that takes the reassembly over MAX_API_RESPONSE_LEN: the stream is
\* forgotten and the request failed; the rest of the answer is still to come.
LoopOversize(n, r) ==
    /\ loop[n] = "running"
    /\ r \in server[n]
    /\ partial[n][cid[r]] # {}
    /\ partial' = StreamTaken(n, cid[r])
    /\ Deliver(cid[r], "too_large", {})
    /\ UNCHANGED <<counter, pc, cid, tx, outcome, sent, adaptVars, conns,
                   loop, queue, greeted, server, driverVars>>

\* The loop breaks (server closed, read or write error, a write that stalls,
\* frame desync, an HTTP answer) and runs its exit code to the end: abort()
\* only takes effect at an await, and there is none.
LoopBreak(n) ==
    /\ loop[n] = "running"
    /\ loop' = [loop EXCEPT ![n] = "closing"]
    /\ UNCHANGED <<counter, reqVars, pending, adaptVars, conns, queue,
                   greeted, server, partial, driverVars>>

\* The connection in whose connect() a driver still owns the sender.
HeldByConnect(n) ==
    conns = n /\ \E d \in Drivers : driver[d] \in {"store", "greet", "publish"}

\* Every sender is gone and the queue is empty: the loop ends without running
\* its callbacks (LoopExit::WriteChannelClosed).
LoopSilent(n) ==
    /\ loop[n] = "running"
    /\ queue[n] = <<>>
    /\ writeTx # n /\ ~HeldByConnect(n)
    /\ \A r \in Requests : ~(pc[r] = "enqueue" /\ tx[r] = n)
    /\ loop' = [loop EXCEPT ![n] = "gone"]
    /\ UNCHANGED <<counter, reqVars, pending, adaptVars, conns, queue,
                   greeted, server, partial, driverVars>>

LoopMarkClosed(n) ==
    /\ loop[n] = "closing"
    /\ isOpen' = FALSE
    /\ loop' = [loop EXCEPT ![n] = "telling"]
    /\ UNCHANGED <<counter, reqVars, pending, watch, writeTx, ioTask, conns,
                   queue, greeted, server, partial, driverVars>>

LoopSignalClosed(n) ==
    /\ loop[n] = "telling"
    /\ watch' = FALSE
    /\ loop' = [loop EXCEPT ![n] = "clearing"]
    /\ UNCHANGED <<counter, reqVars, pending, isOpen, writeTx, ioTask, conns,
                   queue, greeted, server, partial, driverVars>>

\* pending_requests.lock().clear()
ClearPending ==
    /\ pending' = [c \in Cids |-> NoRequest]
    /\ slot' = [r \in Requests |->
                  IF \E c \in Cids : pending[c] = r THEN "dropped" ELSE slot[r]]

LoopClear(n) ==
    /\ loop[n] = "clearing"
    /\ ClearPending
    /\ loop' = [loop EXCEPT ![n] = "gone"]
    /\ UNCHANGED <<counter, pc, cid, tx, body, outcome, sent, adaptVars,
                   conns, queue, greeted, server, partial, driverVars>>

LoopStep(n) ==
    \/ LoopWrite(n) \/ LoopBreak(n) \/ LoopSilent(n) \/ LoopMarkClosed(n)
    \/ LoopSignalClosed(n) \/ LoopClear(n)
    \/ \E r \in Requests :
         LoopChunk(n, r) \/ LoopReply(n, r) \/ LoopOversize(n, r)

------------------------------------------------------------------------------
(* connect(), by the manager.                                               *)

At(d, p) == driver' = [driver EXCEPT ![d] = p]

Connect(d) ==
    /\ d = Manager
    /\ driver[d] = "idle"
    /\ conns < MaxConns
    /\ At(d, "dialing")
    /\ UNCHANGED <<counter, reqVars, pending, adaptVars, loopVars, held>>

\* TCP and TLS, then io_task.take(); or a failure, which changes nothing.
Dial(d) ==
    /\ driver[d] = "dialing"
    /\ \/ /\ At(d, "idle")
          /\ UNCHANGED <<held, ioTask>>
       \/ /\ At(d, "retire")
          /\ held' = [held EXCEPT ![d] = ioTask]
          /\ ioTask' = 0
    /\ UNCHANGED <<counter, reqVars, pending, watch, isOpen, writeTx,
                   loopVars>>

\* abort() and the join of the task a driver holds: a loop at an await is
\* dropped on the spot, one in its exit code is waited for.
Aborted(d) ==
    /\ held' = [held EXCEPT ![d] = 0]
    /\ \/ held[d] = 0 /\ UNCHANGED loop
       \/ /\ held[d] # 0
          /\ loop[held[d]] \in {"running", "gone"}
          /\ loop' = [loop EXCEPT ![held[d]] = "gone"]

Retire(d) ==
    /\ driver[d] = "retire"
    /\ Aborted(d)
    /\ At(d, "spawn")
    /\ UNCHANGED <<counter, reqVars, pending, adaptVars, conns, queue,
                   greeted, server, partial>>

Spawn(d) ==
    /\ driver[d] = "spawn"
    /\ conns' = conns + 1
    /\ loop' = [loop EXCEPT ![conns + 1] = "running"]
    /\ At(d, "store")
    /\ UNCHANGED <<counter, reqVars, pending, adaptVars, queue, greeted,
                   server, partial, held>>

\* (mutant) the sender is published before the handshake is queued
StoreTaskAndPublish(d) ==
    /\ driver[d] = "store"
    /\ ioTask' = conns
    /\ writeTx' = conns
    /\ At(d, "greet")
    /\ UNCHANGED <<counter, reqVars, pending, watch, isOpen, loopVars, held>>

\* The ready signal arrives and the task is stored, or the deadline passes
\* first and the loop is left to itself.
StoreTask(d) ==
    /\ driver[d] = "store"
    /\ \/ ioTask' = conns /\ At(d, "greet")
       \/ UNCHANGED ioTask /\ At(d, "idle")
    /\ UNCHANGED <<counter, reqVars, pending, watch, isOpen, writeTx,
                   loopVars, held>>

QueueHandshake(d) ==
    /\ driver[d] = "greet"
    /\ \/ /\ loop[conns] = "gone"
          /\ At(d, "idle")
          /\ UNCHANGED queue
       \/ /\ loop[conns] # "gone"
          /\ queue' = [queue EXCEPT ![conns] = Append(@, Handshake)]
          /\ At(d, "publish")
    /\ UNCHANGED <<counter, reqVars, pending, adaptVars, conns, loop,
                   greeted, server, partial, held>>

PublishSender(d) ==
    /\ driver[d] = "publish"
    /\ writeTx' = conns
    /\ At(d, "open")
    /\ UNCHANGED <<counter, reqVars, pending, watch, isOpen, ioTask,
                   loopVars, held>>

MarkOpen(d) ==
    /\ driver[d] = "open"
    /\ isOpen' = TRUE
    /\ At(d, "signal")
    /\ UNCHANGED <<counter, reqVars, pending, watch, writeTx, ioTask,
                   loopVars, held>>

SignalOpen(d) ==
    /\ driver[d] = "signal"
    /\ watch' = TRUE
    /\ At(d, "idle")
    /\ UNCHANGED <<counter, reqVars, pending, isOpen, writeTx, ioTask,
                   loopVars, held>>

------------------------------------------------------------------------------
(* close(), by any driver.                                                  *)

CloseSignal(d) ==
    /\ driver[d] = "idle"
    /\ conns > 0
    /\ watch' = FALSE
    /\ At(d, "clear")
    /\ UNCHANGED <<counter, reqVars, pending, isOpen, writeTx, ioTask,
                   loopVars, held>>

CloseClear(d) ==
    /\ driver[d] = "clear"
    /\ ClearPending
    /\ At(d, "unopen")
    /\ UNCHANGED <<counter, pc, cid, tx, body, outcome, sent, adaptVars,
                   loopVars, held>>

CloseMark(d) ==
    /\ driver[d] = "unopen"
    /\ isOpen' = FALSE
    /\ At(d, "untx")
    /\ UNCHANGED <<counter, reqVars, pending, watch, writeTx, ioTask,
                   loopVars, held>>

CloseSender(d) ==
    /\ driver[d] = "untx"
    /\ writeTx' = 0
    /\ At(d, "take")
    /\ UNCHANGED <<counter, reqVars, pending, watch, isOpen, ioTask,
                   loopVars, held>>

CloseTake(d) ==
    /\ driver[d] = "take"
    /\ held' = [held EXCEPT ![d] = ioTask]
    /\ ioTask' = 0
    /\ At(d, "abort")
    /\ UNCHANGED <<counter, reqVars, pending, watch, isOpen, writeTx,
                   loopVars>>

CloseAbort(d) ==
    /\ driver[d] = "abort"
    /\ Aborted(d)
    /\ At(d, "idle")
    /\ UNCHANGED <<counter, reqVars, pending, adaptVars, conns, queue,
                   greeted, server, partial>>

DriverStep(d) ==
    \/ Connect(d) \/ Dial(d) \/ Retire(d) \/ Spawn(d) \/ StoreTask(d)
    \/ QueueHandshake(d) \/ PublishSender(d) \/ MarkOpen(d) \/ SignalOpen(d)
    \/ CloseSignal(d) \/ CloseClear(d) \/ CloseMark(d) \/ CloseSender(d)
    \/ CloseTake(d) \/ CloseAbort(d)

Next ==
    \/ \E r \in Requests : Issue(r) \/ RequestStep(r)
    \/ \E n \in Conns : LoopStep(n)
    \/ \E d \in Drivers : DriverStep(d)

Spec == Init /\ [][Next]_vars

\* Timers fire and the runtime polls every task that is ready; nothing is
\* assumed of the server, the network or the drivers.
FairSpec == Spec /\ \A r \in Requests : WF_vars(RequestStep(r))

------------------------------------------------------------------------------
(* Properties.                                                              *)

RequestsTyped ==
    /\ pc \in [Requests -> ReqPhases]
    /\ cid \in [Requests -> 0 .. CidMod - 1]
    /\ tx \in [Requests -> 0 .. MaxConns]
    /\ slot \in [Requests -> Slots]
    /\ body \in [Requests -> SUBSET Requests]
    /\ outcome \in [Requests -> {"none", "ok", "too_large", "error"}]
    /\ sent \in [Requests -> Nat]

TransportTyped ==
    /\ counter \in 0 .. CidMod - 1
    /\ pending \in [Cids -> Requests \cup {NoRequest}]

AdapterTyped ==
    /\ watch \in BOOLEAN /\ isOpen \in BOOLEAN
    /\ writeTx \in 0 .. MaxConns /\ ioTask \in 0 .. MaxConns

LoopsTyped ==
    /\ conns \in 0 .. MaxConns
    /\ loop \in [Conns -> LoopPhases]
    /\ queue \in [Conns -> Seq(Requests \cup {Handshake})]
    /\ greeted \in [Conns -> BOOLEAN]
    /\ server \in [Conns -> SUBSET Requests]
    /\ partial \in [Conns -> [Cids -> SUBSET Requests]]

DriversTyped ==
    /\ driver \in [Drivers -> {"idle"} \cup ConnectPhases \cup ClosePhases]
    /\ held \in [Drivers -> 0 .. MaxConns]

TypeOK ==
    /\ RequestsTyped /\ TransportTyped /\ AdapterTyped /\ LoopsTyped
    /\ DriversTyped

\* A caller that is told "ok" holds the answer to its own request: never that
\* of a request whose answer came late, of a cid's previous holder, or a
\* mixture of two chunked answers (on_message, process_raw_buffer).
NoMisdelivery == \A r \in Requests : outcome[r] = "ok" => body[r] = {r}

\* The pending map holds exactly the live executors: every entry belongs to a
\* request still waiting under that cid (nothing leaks), and a request whose
\* oneshot is armed can be found by the reply, the close and the timeout that
\* must resolve it (nothing is orphaned).
PendingOwned ==
    /\ \A c \in Cids : pending[c] # NoRequest =>
         /\ Registered(pending[c])
         /\ cid[pending[c]] = c
         /\ slot[pending[c]] = "armed"
    /\ \A r \in Requests :
         Registered(r) /\ slot[r] = "armed" => pending[cid[r]] = r

\* The gateway reads the credential before anything else on a connection,
\* whatever close, reconnect and the requests of another thread do meanwhile.
HandshakeFirst == \A n \in Conns : server[n] # {} => greeted[n]

\* "The fallback deliberately never retries a request the socket already
\* accepted": the bytes of a call leave the client at most once.
AtMostOnce == \A r \in Requests : sent[r] <= 1

\* The promise to the caller, as a specification of its own.
Contract == INSTANCE RpcContract WITH
    status <- [r \in Requests |-> IF pc[r] = "idle" THEN "idle"
                                  ELSE IF pc[r] = "done" THEN outcome[r]
                                  ELSE "open"],
    answer <- [r \in Requests |-> IF outcome[r] = "ok" THEN body[r] ELSE {}]

\* The sockets, threads and timers implement the contract, its liveness
\* included: one transmission at most, the caller's own answer or an error,
\* a result that never changes.
KeepsContract == Contract!FairSpec
==============================================================================

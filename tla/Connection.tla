------------------------------ MODULE Connection ------------------------------
(***************************************************************************)
(* The life of the realtime connection (mezon-store/src/connection.rs): the *)
(* manager's loop, which connects, confirms and reconnects; the close       *)
(* callback, which a dying I/O loop runs on its own thread; the heartbeat;  *)
(* and the task that a change of server starts.  They share the connection  *)
(* generation, the status, the endpoint health, the queue of reports and    *)
(* the wake-up permit, and each of them may close the transport.            *)
(*                                                                         *)
(* Which credential an attempt carries, and what the gateway makes of it,   *)
(* are left out: an attempt is accepted or fails.  One node; a node change  *)
(* is the gateway's answer "moved".                                         *)
(***************************************************************************)
EXTENDS Naturals, FiniteSets

CONSTANTS
    MaxFaults,     \* bound on dials, sockets and handshakes that go wrong
    MaxReconnects, \* bound on the changes of server
    MaxMoves,      \* bound on the moves and remints by the gateway
    MaxLogins,     \* bound on the logins, each of which is another user's
    Overlaps,      \* whether the user may change it during an attempt
    Heartbeat,     \* whether the heartbeat runs
    Nudges,        \* whether wake-ups come that change nothing
    Stalls         \* whether a thread may be held up for a round trip

ASSUME ConnectionAssumption ==
    /\ MaxFaults \in Nat /\ MaxReconnects \in Nat
    /\ MaxMoves \in Nat /\ MaxLogins \in Nat
    /\ Overlaps \in BOOLEAN /\ Heartbeat \in BOOLEAN
    /\ Nudges \in BOOLEAN /\ Stalls \in BOOLEAN

\* No more connections than reasons to open one.
MaxConns == 1 + MaxLogins + MaxReconnects + MaxMoves + 2 * MaxFaults
Conns    == 1 .. MaxConns
Users    == 1 .. MaxLogins
Closers  == {"manager", "heartbeat", "reconnect"}

VARIABLES
    auth,        \* the user auth_state holds a session of; 0: nobody
    mgr,         \* where the manager is in its loop
    session,     \* whose session it read at the top
    user,        \* connected_user_id; 0: none
    pending,     \* generation of pending_endpoint_refresh; 0: none
    request,     \* generation of the last request to the gateway; 0: the
                 \* pacing allows another
    attempt,     \* generation of the attempt under way
    gen,         \* connection_generation
    status,      \* AppApi's ConnectionStatus
    healthy,     \* endpoint_health.connected_since.is_some()
    reports,     \* generations of the requests in the endpoint_refresh queue
    permit,      \* the permit parked in wake
    acked,       \* connect_ack_rx has changed since the attempt began
    events,      \* SessionRefreshed events not yet dispatched, by connection
    conns,       \* how many connections the adapter has opened
    open,        \* the adapter's is_connected
    task,        \* the connection whose I/O loop is in io_task; 0: none
    joining,     \* the I/O loop each closer waits for; 0: none
    loop,        \* where the I/O loop of each connection is
    of,          \* the generation its close callback compares with
    confirmed,   \* its connection_confirmed
    peer,        \* what the gateway makes of it
    hb,          \* where the heartbeat is
    seen,        \* the generation it observed
    rc,          \* where the reconnect task is
    faults, reconnects, moves, logins

localVars  == <<session, user, pending, request, attempt>>
mgrVars    == <<mgr, localVars>>
sharedVars == <<gen, status, healthy, reports, permit>>
ackVars    == <<acked, events>>
socketVars == <<open, conns, task, joining>>
loopVars   == <<loop, of, confirmed, peer>>
netVars    == <<socketVars, loopVars>>
hbVars     == <<hb, seen>>
budgets    == <<faults, reconnects, moves, logins>>
vars == <<auth, mgrVars, sharedVars, ackVars, netVars, hbVars, rc, budgets>>

Init ==
    /\ auth = 0 /\ mgr = "top" /\ session = 0 /\ user = 0
    /\ pending = 0 /\ request = 0 /\ attempt = 0
    /\ gen = 0 /\ status = "disconnected" /\ healthy = FALSE
    /\ reports = {} /\ permit = FALSE /\ acked = FALSE /\ events = {}
    /\ conns = 0 /\ open = FALSE /\ task = 0
    /\ joining = [c \in Closers |-> 0]
    /\ loop = [n \in Conns |-> "none"]
    /\ of = [n \in Conns |-> 0]
    /\ confirmed = [n \in Conns |-> FALSE]
    /\ peer = [n \in Conns |-> "new"]
    /\ hb = "timer" /\ seen = 0 /\ rc = "idle"
    /\ faults = 0 /\ reconnects = 0 /\ moves = 0 /\ logins = 0

\* Nobody is in the middle of steps that no await separates.
Undisturbed ==
    /\ \A n \in Conns : loop[n] \in {"none", "running", "gone"}
    /\ mgr \notin {"publish", "mark", "record", "announce"}
    /\ hb \in {"timer", "look", "ping"} /\ rc = "idle" /\ events = {}

\* A round trip to the gateway takes longer than any such steps.
RoundTrip == Stalls \/ Undisturbed

Fault == faults < MaxFaults /\ faults' = faults + 1
Sound == UNCHANGED faults
Bump == gen' = gen + 1

\* An aborted I/O loop dies where it awaits; one that is in its close callback
\* runs to the end of it.
Abort(n) == IF n # 0 /\ loop[n] = "running"
              THEN [loop EXCEPT ![n] = "gone"] ELSE loop
TakeTask(c) ==
    /\ joining' = [joining EXCEPT ![c] = task]
    /\ task' = 0
    /\ loop' = Abort(task)
Joined(c) == joining[c] # 0 => loop[joining[c]] = "gone"
Released(c) == joining' = [joining EXCEPT ![c] = 0]

\* MezonTransport::close, up to the join of the I/O loop.
Close(c) ==
    /\ open' = FALSE
    /\ TakeTask(c)
    /\ UNCHANGED <<conns, of, confirmed, peer>>

------------------------------------------------------------------------------
(* The manager.                                                             *)

Top ==
    /\ mgr = "top"
    /\ session' = auth
    /\ \/ /\ auth # 0
          /\ mgr' = "reports"
          /\ UNCHANGED <<user, pending, healthy, gen>>
       \/ /\ auth = 0
          /\ pending' = 0 /\ healthy' = FALSE /\ user' = 0
          /\ IF user # 0 THEN Bump /\ mgr' = "logoutClose"
                         ELSE mgr' = "sleep" /\ UNCHANGED gen
    /\ UNCHANGED <<auth, request, attempt, status, reports, permit, ackVars,
                   netVars, hbVars, rc, budgets>>

\* (mutant) a logout leaves the status as it was
LoggedOutSilently ==
    /\ mgr = "loggedOut"
    /\ mgr' = "sleep"
    /\ UNCHANGED <<auth, localVars, sharedVars, ackVars, netVars, hbVars, rc,
                   budgets>>

LoggedOut ==
    /\ mgr = "loggedOut"
    /\ status' = "disconnected"
    /\ mgr' = "sleep"
    /\ UNCHANGED <<auth, localVars, gen, healthy, reports, permit, ackVars,
                   netVars, hbVars, rc, budgets>>

\* Reports about an older connection are dropped, and all of them while the
\* user has pinned a server.
TakeReports ==
    /\ mgr = "reports"
    /\ reports' = {}
    /\ pending' \in {0, IF gen \in reports THEN gen ELSE pending}
    /\ mgr' = "paced"
    /\ UNCHANGED <<auth, session, user, request, attempt, gen, status,
                   healthy, permit, ackVars, netVars, hbVars, rc, budgets>>

\* Ask the gateway for a node, if there is a report and its pacing allows it.
Ask ==
    /\ mgr = "paced"
    /\ \/ mgr' = "decide" /\ UNCHANGED <<pending, request>>
       \/ /\ pending # 0 /\ request = 0
          /\ pending' = 0
          /\ IF pending = gen THEN mgr' = "asking" /\ request' = pending
                              ELSE mgr' = "top" /\ UNCHANGED request
    /\ UNCHANGED <<auth, session, user, attempt, sharedVars, ackVars, netVars,
                   hbVars, rc, budgets>>

\* Stale, kept where it is, an error, or a session that is another user's.
AskEnds ==
    /\ mgr = "asking"
    /\ IF request # gen
         THEN mgr' = "top" /\ UNCHANGED pending
         ELSE \/ mgr' = "backoff" /\ UNCHANGED pending
              \/ mgr' \in {"askFailed", "top"} /\ pending' = request
    /\ UNCHANGED <<auth, session, user, request, attempt, sharedVars, ackVars,
                   netVars, hbVars, rc, budgets>>

Leave(live) ==
    IF live
      THEN Bump /\ status' = "disconnected" /\ mgr' = "leaveClose"
      ELSE mgr' = "decide" /\ UNCHANGED <<gen, status>>

AskMoves ==
    /\ mgr = "asking" /\ request = gen /\ auth = session
    /\ moves < MaxMoves /\ moves' = moves + 1
    /\ healthy' = FALSE /\ user' = 0
    /\ Leave(user # 0)
    /\ UNCHANGED <<auth, session, pending, request, attempt, reports, permit,
                   ackVars, netVars, hbVars, rc, faults, reconnects, logins>>

Connected == user = session /\ open

\* (mutant) a wait throws away the permit that was parked before it
SleepDiscards ==
    /\ mgr = "decide"
    /\ request' = 0
    /\ IF Connected
         THEN mgr' = "sleep" /\ permit' = FALSE /\ UNCHANGED healthy
         ELSE /\ mgr' = IF open THEN "staleClose" ELSE "begin"
              /\ healthy' = FALSE /\ UNCHANGED permit
    /\ UNCHANGED <<auth, session, user, pending, attempt, gen, status, reports,
                   ackVars, netVars, hbVars, rc, budgets>>

Decide ==
    /\ mgr = "decide"
    /\ request' = 0
    /\ IF Connected
         THEN mgr' = "sleep" /\ UNCHANGED healthy
         ELSE /\ mgr' = IF open THEN "staleClose" ELSE "begin"
              /\ healthy' = FALSE
    /\ UNCHANGED <<auth, session, user, pending, attempt, gen, status,
                   reports, permit, ackVars, netVars, hbVars, rc, budgets>>

\* A reminted session_id retires the connection that was made without one.
Remint ==
    /\ mgr = "decide"
    /\ moves < MaxMoves /\ moves' = moves + 1
    /\ user' = 0
    /\ Leave(user # 0 \/ open)
    /\ UNCHANGED <<auth, session, pending, request, attempt, healthy, reports,
                   permit, ackVars, netVars, hbVars, rc, faults, reconnects,
                   logins>>

Closes == {"logoutClose", "leaveClose", "staleClose", "refusedClose"}
AfterClose == [logoutClose |-> "loggedOut", leaveClose |-> "decide",
               staleClose |-> "begin", refusedClose |-> "failed"]

ManagerCloses ==
    /\ mgr \in Closes
    /\ Close("manager")
    /\ mgr' = AfterClose[mgr]
    /\ UNCHANGED <<auth, localVars, sharedVars, ackVars, hbVars, rc, budgets>>

\* Every step of the manager that follows a close starts with the join of the
\* I/O loop it took.
ManagerJoins ==
    /\ joining["manager"] # 0 /\ Joined("manager")
    /\ Released("manager")
    /\ UNCHANGED <<auth, mgrVars, sharedVars, ackVars, open, conns, task,
                   loopVars, hbVars, rc, budgets>>

\* (mutant) the attempt takes the generation it is about to retire
BeginReadsFirst ==
    /\ mgr = "begin"
    /\ Stalls \/ events = {}
    /\ Overlaps \/ rc = "idle"
    /\ Bump /\ attempt' = gen
    /\ status' = "connecting"
    /\ acked' = FALSE
    /\ mgr' = "dial"
    /\ UNCHANGED <<auth, session, user, pending, request, healthy, reports,
                   permit, events, netVars, hbVars, rc, budgets>>

\* (mutant) fetch_add has bumped already, and one is added twice
BeginBumpsTwice ==
    /\ mgr = "begin"
    /\ Stalls \/ events = {}
    /\ Overlaps \/ rc = "idle"
    /\ Bump /\ attempt' = gen + 2
    /\ status' = "connecting"
    /\ acked' = FALSE
    /\ mgr' = "dial"
    /\ UNCHANGED <<auth, session, user, pending, request, healthy, reports,
                   permit, events, netVars, hbVars, rc, budgets>>

Begin ==
    /\ mgr = "begin"
    /\ Stalls \/ events = {}
    /\ Overlaps \/ rc = "idle"
    /\ Bump /\ attempt' = gen + 1
    /\ status' = "connecting"
    /\ acked' = FALSE
    /\ mgr' = "dial"
    /\ UNCHANGED <<auth, session, user, pending, request, healthy, reports,
                   permit, events, netVars, hbVars, rc, budgets>>

\* The adapter retires the I/O loop of the connection before ...
Dial ==
    /\ mgr = "dial"
    /\ \/ Fault /\ mgr' = "unreachable"
          /\ UNCHANGED <<task, joining, loop>>
       \/ RoundTrip /\ Sound /\ TakeTask("manager") /\ mgr' = "spawn"
    /\ UNCHANGED <<auth, localVars, sharedVars, ackVars, open, conns, of,
                   confirmed, peer, hbVars, rc, reconnects, moves, logins>>

\* ... starts its own ...
Spawn ==
    /\ mgr = "spawn"
    /\ conns < MaxConns
    /\ conns' = conns + 1
    /\ task' = conns + 1
    /\ loop' = [loop EXCEPT ![conns + 1] = "running"]
    /\ of' = [of EXCEPT ![conns + 1] = attempt]
    /\ mgr' = "publish"
    /\ UNCHANGED <<auth, localVars, sharedVars, ackVars, open, joining,
                   confirmed, peer, hbVars, rc, budgets>>

\* ... and only then says that it is open.
Publish ==
    /\ mgr = "publish"
    /\ open' = TRUE
    /\ mgr' = "grace"
    /\ UNCHANGED <<auth, localVars, sharedVars, ackVars, conns, task, joining,
                   loopVars, hbVars, rc, budgets>>

\* (mutant) the end of the grace period is taken for acceptance
GraceTrusts ==
    /\ mgr = "grace"
    /\ mgr' = IF ~open THEN "refusedClose" ELSE "mark"
    /\ UNCHANGED <<auth, localVars, sharedVars, ackVars, netVars, hbVars, rc,
                   budgets>>

\* The gateway's first event, or the end of the grace period.
Grace ==
    /\ mgr = "grace"
    /\ mgr' = IF ~open THEN "refusedClose"
              ELSE IF acked THEN "mark" ELSE "ping"
    /\ UNCHANGED <<auth, localVars, sharedVars, ackVars, netVars, hbVars, rc,
                   budgets>>

\* A ping goes to the connection the adapter opened last.
Answered == loop[conns] = "running" /\ peer[conns] = "up"

Ping ==
    /\ mgr = "ping"
    /\ \/ Answered /\ Sound /\ mgr' = "mark"
       \/ ~Answered /\ mgr' = "refusedClose"
          /\ IF loop[conns] = "running" /\ peer[conns] = "new" THEN Fault
                                                               ELSE Sound
    /\ UNCHANGED <<auth, localVars, sharedVars, ackVars, netVars, hbVars, rc,
                   reconnects, moves, logins>>

\* A confirmed handshake is recorded in steps that other threads run between.
Mark ==
    /\ mgr = "mark"
    /\ confirmed' = [confirmed EXCEPT ![conns] = TRUE]
    /\ mgr' = "record"
    /\ UNCHANGED <<auth, localVars, sharedVars, ackVars, socketVars, loop, of,
                   peer, hbVars, rc, budgets>>

Record ==
    /\ mgr = "record"
    /\ healthy' = TRUE
    /\ user' = session
    /\ pending' = 0
    /\ mgr' = "announce"
    /\ UNCHANGED <<auth, session, request, attempt, gen, status, reports,
                   permit, ackVars, netVars, hbVars, rc, budgets>>

Announce ==
    /\ mgr = "announce"
    /\ status' = "connected"
    /\ mgr' = "top"
    /\ UNCHANGED <<auth, localVars, gen, healthy, reports, permit, ackVars,
                   netVars, hbVars, rc, budgets>>

\* A node that cannot be reached is reported; one that refuses, only after
\* every credential.  A refused session_id is retried at once.
Failed ==
    /\ mgr \in {"failed", "unreachable"}
    /\ user' = 0
    /\ status' = "disconnected"
    /\ \/ pending' \in {0, attempt} /\ healthy' = FALSE
       \/ mgr = "failed" /\ UNCHANGED <<pending, healthy>>
    /\ mgr' \in {"top", "backoff"}
    /\ UNCHANGED <<auth, session, request, attempt, gen, reports, permit,
                   ackVars, netVars, hbVars, rc, budgets>>

\* wait_or_wake: a permit parked before the wait is thrown away.
BackoffBegins ==
    /\ mgr \in {"backoff", "askFailed"}
    /\ permit' = FALSE
    /\ mgr' = IF mgr = "backoff" THEN "waiting" ELSE "askWaiting"
    /\ UNCHANGED <<auth, localVars, gen, status, healthy, reports, ackVars,
                   netVars, hbVars, rc, budgets>>

BackoffEnds ==
    /\ mgr \in {"waiting", "askWaiting"}
    /\ permit' = FALSE
    /\ mgr' = IF mgr = "waiting" THEN "top" ELSE "decide"
    /\ UNCHANGED <<auth, localVars, gen, status, healthy, reports, ackVars,
                   netVars, hbVars, rc, budgets>>

\* With a report left over the wait has a timer.
Wake ==
    /\ mgr = "sleep"
    /\ permit \/ pending # 0
    /\ permit' = FALSE
    /\ mgr' = "top"
    /\ UNCHANGED <<auth, localVars, gen, status, healthy, reports, ackVars,
                   netVars, hbVars, rc, budgets>>

ManagerStep ==
    \/ ManagerJoins
    \/ /\ joining["manager"] = 0
       /\ \/ Top \/ LoggedOut \/ TakeReports \/ Ask \/ AskEnds \/ AskMoves
          \/ Decide \/ Remint \/ ManagerCloses \/ Begin \/ Dial \/ Spawn
          \/ Publish \/ Grace \/ Ping \/ Mark \/ Record \/ Announce \/ Failed
          \/ BackoffBegins \/ BackoffEnds \/ Wake

------------------------------------------------------------------------------
(* The I/O loop's close callback, the heartbeat, the reconnect task.        *)

\* An older attempt's callback stays quiet.
CallbackLooks(n) ==
    /\ loop[n] = "dead"
    /\ loop' = [loop EXCEPT ![n] = IF of[n] = gen THEN "health" ELSE "gone"]
    /\ UNCHANGED <<auth, mgrVars, sharedVars, ackVars, socketVars, of,
                   confirmed, peer, hbVars, rc, budgets>>

CallbackReports(n) ==
    /\ loop[n] = "health"
    /\ loop' = [loop EXCEPT ![n] = "status"]
    /\ IF confirmed[n]
         THEN /\ healthy' = FALSE
              /\ reports' \in {reports, reports \cup {of[n]}}
         ELSE UNCHANGED <<healthy, reports>>
    /\ UNCHANGED <<auth, mgrVars, gen, status, permit, ackVars, socketVars,
                   of, confirmed, peer, hbVars, rc, budgets>>

CallbackTells(n) ==
    /\ loop[n] = "status"
    /\ loop' = [loop EXCEPT ![n] = "wake"]
    /\ status' = "disconnected"
    /\ UNCHANGED <<auth, mgrVars, gen, healthy, reports, permit, ackVars,
                   socketVars, of, confirmed, peer, hbVars, rc, budgets>>

CallbackWakes(n) ==
    /\ loop[n] = "wake"
    /\ loop' = [loop EXCEPT ![n] = "gone"]
    /\ permit' = TRUE
    /\ UNCHANGED <<auth, mgrVars, gen, status, healthy, reports, ackVars,
                   socketVars, of, confirmed, peer, hbVars, rc, budgets>>

CallbackStep(n) ==
    \/ CallbackLooks(n) \/ CallbackReports(n) \/ CallbackTells(n)
    \/ CallbackWakes(n)

Beat ==
    /\ Heartbeat
    /\ hb = "timer" /\ open /\ healthy
    /\ hb' = "look"
    /\ UNCHANGED <<auth, mgrVars, sharedVars, ackVars, netVars, seen, rc,
                   budgets>>

BeatPings ==
    /\ hb = "look"
    /\ seen' = gen
    /\ hb' = "ping"
    /\ UNCHANGED <<auth, mgrVars, sharedVars, ackVars, netVars, rc, budgets>>

\* (mutant) a heartbeat that gets no answer is not held against the node
BeatForgives ==
    /\ hb = "ping"
    /\ hb' = "timer"
    /\ UNCHANGED <<auth, mgrVars, sharedVars, ackVars, netVars, seen, rc,
                   budgets>>

\* What was observed of a connection that has been replaced is not used.
BeatEnds ==
    /\ hb = "ping"
    /\ hb' = IF ~Answered /\ gen = seen /\ healthy THEN "failed" ELSE "timer"
    /\ UNCHANGED <<auth, mgrVars, sharedVars, ackVars, netVars, seen, rc,
                   budgets>>

\* A node that has been slow for three heartbeats is reported.
BeatIsSlow ==
    /\ hb = "ping" /\ Answered /\ gen = seen /\ healthy
    /\ reports' = reports \cup {seen}
    /\ hb' = "wake"
    /\ UNCHANGED <<auth, mgrVars, gen, status, healthy, permit, ackVars,
                   netVars, seen, rc, budgets>>

BeatRetires ==
    /\ hb = "failed"
    /\ IF gen = seen THEN Bump /\ hb' = "report"
                     ELSE hb' = "timer" /\ UNCHANGED gen
    /\ UNCHANGED <<auth, mgrVars, status, healthy, reports, permit, ackVars,
                   netVars, seen, rc, budgets>>

BeatReports ==
    /\ hb = "report"
    /\ healthy' = FALSE
    /\ reports' = reports \cup {seen + 1}
    /\ hb' = "close"
    /\ UNCHANGED <<auth, mgrVars, gen, status, permit, ackVars, netVars, seen,
                   rc, budgets>>

BeatCloses ==
    /\ hb = "close"
    /\ Close("heartbeat")
    /\ hb' = "join"
    /\ UNCHANGED <<auth, mgrVars, sharedVars, ackVars, seen, rc, budgets>>

BeatTells ==
    /\ hb = "join" /\ Joined("heartbeat")
    /\ Released("heartbeat")
    /\ status' = "disconnected"
    /\ hb' = "wake"
    /\ UNCHANGED <<auth, mgrVars, gen, healthy, reports, permit, ackVars,
                   open, conns, task, loopVars, seen, rc, budgets>>

BeatWakes ==
    /\ hb = "wake"
    /\ permit' = TRUE
    /\ hb' = "timer"
    /\ UNCHANGED <<auth, mgrVars, gen, status, healthy, reports, ackVars,
                   netVars, seen, rc, budgets>>

HeartbeatStep ==
    \/ Beat \/ BeatPings \/ BeatEnds \/ BeatIsSlow \/ BeatRetires
    \/ BeatReports \/ BeatCloses \/ BeatTells \/ BeatWakes

Attempting == {"dial", "spawn", "publish", "grace", "ping", "mark", "record",
               "announce"}

\* The user chose another server.  Bound: one such task at a time.
Reconnect ==
    /\ rc = "idle" /\ auth # 0
    /\ Overlaps \/ mgr \notin Attempting
    /\ reconnects < MaxReconnects /\ reconnects' = reconnects + 1
    /\ rc' = "bump"
    /\ UNCHANGED <<auth, mgrVars, sharedVars, ackVars, netVars, hbVars,
                   faults, moves, logins>>

ReconnectRetires ==
    /\ rc = "bump"
    /\ Bump
    /\ rc' = "close"
    /\ UNCHANGED <<auth, mgrVars, status, healthy, reports, permit, ackVars,
                   netVars, hbVars, budgets>>

ReconnectCloses ==
    /\ rc = "close"
    /\ Close("reconnect")
    /\ rc' = "join"
    /\ UNCHANGED <<auth, mgrVars, sharedVars, ackVars, hbVars, budgets>>

ReconnectWakes ==
    /\ rc = "join" /\ Joined("reconnect")
    /\ Released("reconnect")
    /\ permit' = TRUE
    /\ rc' = "idle"
    /\ UNCHANGED <<auth, mgrVars, gen, status, healthy, reports, ackVars,
                   open, conns, task, loopVars, hbVars, budgets>>

ReconnectStep == ReconnectRetires \/ ReconnectCloses \/ ReconnectWakes

------------------------------------------------------------------------------
(* The gateway, the network, the dispatcher and the user.                   *)

\* The gateway accepts a handshake and pushes a session, which is published
\* if the connection is still the latest.
Accept(n) ==
    /\ loop[n] = "running" /\ peer[n] = "new" /\ RoundTrip
    /\ peer' = [peer EXCEPT ![n] = "up"]
    /\ events' = IF of[n] = gen THEN events \cup {n} ELSE events
    /\ UNCHANGED <<auth, mgrVars, sharedVars, acked, socketVars, loop, of,
                   confirmed, hbVars, rc, budgets>>

\* The ack, and the wake-up that a change of auth_state is.
Dispatch(n) ==
    /\ n \in events
    /\ events' = events \ {n}
    /\ acked' = TRUE
    /\ permit' = (permit \/ auth # 0)
    /\ UNCHANGED <<auth, mgrVars, gen, status, healthy, reports, netVars,
                   hbVars, rc, budgets>>

\* Refused, reset or closed by the other side.
Die(n) ==
    /\ loop[n] = "running"
    /\ Fault
    /\ open' = FALSE
    /\ loop' = [loop EXCEPT ![n] = "dead"]
    /\ UNCHANGED <<auth, mgrVars, sharedVars, ackVars, conns, task, joining,
                   of, confirmed, peer, hbVars, rc, reconnects, moves,
                   logins>>

\* The other side is gone, and no packet says so.
FallSilent(n) ==
    /\ loop[n] = "running" /\ peer[n] = "up"
    /\ Fault
    /\ peer' = [peer EXCEPT ![n] = "silent"]
    /\ UNCHANGED <<auth, mgrVars, sharedVars, ackVars, socketVars, loop, of,
                   confirmed, hbVars, rc, reconnects, moves, logins>>

Login ==
    /\ auth = 0
    /\ logins < MaxLogins /\ logins' = logins + 1
    /\ auth' = logins + 1
    /\ permit' = TRUE
    /\ UNCHANGED <<mgrVars, gen, status, healthy, reports, ackVars, netVars,
                   hbVars, rc, faults, reconnects, moves>>

Logout ==
    /\ auth # 0
    /\ auth' = 0
    /\ permit' = TRUE
    /\ UNCHANGED <<mgrVars, gen, status, healthy, reports, ackVars, netVars,
                   hbVars, rc, budgets>>

\* The network is back, or auth_state goes from Connecting to Authenticated:
\* a wake-up that changes nothing the manager looks at.
Nudge ==
    /\ Nudges
    /\ permit' = TRUE
    /\ UNCHANGED <<auth, mgrVars, gen, status, healthy, reports, ackVars,
                   netVars, hbVars, rc, budgets>>

Next ==
    \/ ManagerStep
    \/ HeartbeatStep
    \/ Reconnect \/ ReconnectStep
    \/ \E n \in Conns : CallbackStep(n) \/ Accept(n) \/ Die(n) \/ FallSilent(n)
    \/ \E n \in Conns : Dispatch(n)
    \/ Login \/ Logout \/ Nudge

Spec == Init /\ [][Next]_vars

\* Every thread runs what it can; a gateway that is asked answers.
FairSpec ==
    /\ Spec
    /\ WF_vars(ManagerStep) /\ WF_vars(HeartbeatStep) /\ WF_vars(ReconnectStep)
    /\ \A n \in Conns : /\ WF_vars(CallbackStep(n)) /\ WF_vars(Accept(n))
                        /\ WF_vars(Dispatch(n))

------------------------------------------------------------------------------
(* Properties.                                                              *)

ManagerTyped ==
    /\ auth \in 0 .. MaxLogins /\ session \in 0 .. MaxLogins
    /\ user \in 0 .. MaxLogins
    /\ mgr \in Closes \cup Attempting
         \cup {"top", "loggedOut", "reports", "paced", "asking", "decide",
               "begin", "failed", "unreachable", "backoff", "askFailed",
               "waiting", "askWaiting", "sleep"}
    /\ request \in 0 .. gen /\ pending \in 0 .. gen /\ attempt \in 0 .. gen

SharedTyped ==
    /\ gen \in Nat
    /\ status \in {"disconnected", "connecting", "connected"}
    /\ healthy \in BOOLEAN /\ permit \in BOOLEAN
    /\ reports \subseteq 0 .. gen
    /\ acked \in BOOLEAN /\ events \subseteq Conns

AdapterTyped ==
    /\ open \in BOOLEAN
    /\ conns \in 0 .. MaxConns /\ task \in 0 .. conns
    /\ joining \in [Closers -> 0 .. conns]
    /\ loop \in [Conns -> {"none", "running", "dead", "health", "status",
                           "wake", "gone"}]
    /\ of \in [Conns -> 0 .. gen]
    /\ confirmed \in [Conns -> BOOLEAN]
    /\ peer \in [Conns -> {"new", "up", "silent"}]

HelpersTyped ==
    /\ hb \in {"timer", "look", "ping", "failed", "report", "close", "join",
               "wake"}
    /\ seen \in 0 .. gen
    /\ rc \in {"idle", "bump", "close", "join"}
    /\ faults \in 0 .. MaxFaults /\ reconnects \in 0 .. MaxReconnects
    /\ moves \in 0 .. MaxMoves /\ logins \in 0 .. MaxLogins

\* Types; no generation anywhere is ahead of connection_generation.
TypeOK == ManagerTyped /\ SharedTyped /\ AdapterTyped /\ HelpersTyped

\* The manager waits for a wake-up, and nobody is about to give one.
AtRest ==
    /\ mgr = "sleep" /\ ~permit /\ pending = 0 /\ joining["manager"] = 0
    /\ hb \in {"timer", "look", "ping"} /\ rc = "idle" /\ events = {}
    /\ \A n \in Conns : loop[n] \in {"none", "running", "gone"}

\* The wake-up "fired on auth-state changes and on socket disconnect" is never
\* lost: the manager only rests with an open connection of the user who is
\* logged in, or offline with nobody.
NoLostWake ==
    AtRest => IF auth = 0 THEN user = 0 /\ ~open ELSE user = auth /\ open

\* The connection it rests with is of the latest generation: its events are
\* published and its close is heard.
Listens == AtRest /\ auth # 0 => task # 0 /\ of[task] = gen

\* A replaced connection leaves no trace: at rest the status is that of the
\* connection the manager holds, and its heartbeat is on.
StatusSettles ==
    AtRest => IF auth = 0 THEN status = "disconnected" /\ ~healthy
                          ELSE status = "connected" /\ healthy

\* Running out the grace period is no evidence: an attempt is only confirmed
\* once the gateway has accepted that very connection.
ConfirmedByGateway == mgr = "mark" => peer[conns] # "new"

Alive == task # 0 /\ loop[task] = "running" /\ peer[task] = "up"

\* Whatever goes wrong with sockets, in the end whoever is logged in has a
\* connection that works, or the app is offline with nobody.
Recovers == <>[](auth # 0 => Alive /\ open /\ user = auth)
==============================================================================

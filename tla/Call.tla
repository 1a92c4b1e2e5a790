-------------------------------- MODULE Call --------------------------------
(* One-to-one calls: the CallStore of every device (mezon-store/call.rs), the *)
(* call engine it drives (mezon-call/engine.rs) and the signals they exchange.*)
(*                                                                            *)
(* `dev[d]` is the store of device d, engine included.  Every `forward` is a  *)
(* task of its own on the background pool, so the signals of one call arrive  *)
(* in any order and a failed send is only logged; the server fans a signal    *)
(* out to all devices of the receiving user.                                  *)
EXTENDS Naturals, Sequences, FiniteSets

CONSTANTS
    Devices,        \* the devices on which the application runs
    UserOf,         \* UserOf[d]: the user logged in on d
    Scripts,        \* bound: the sequences of <<device, user>> in which
                    \* start_call is used
    IceOf,          \* bound: IceOf[d] ICE candidates an engine on d gathers
    MaxFaults,      \* bound: sends that fail and renegotiations, together
    MaxPendingIce,  \* MAX_PENDING_ICE
    MaxKnown        \* MAX_KNOWN_PEER_SESSIONS

ASSUME CallAssumption ==
    /\ \A s \in Scripts : \A i \in DOMAIN s :
          s[i][1] \in Devices /\ s[i][2] # UserOf[s[i][1]]
    /\ IceOf \in [Devices -> Nat]
    /\ MaxFaults \in Nat /\ MaxPendingIce \in Nat
    /\ MaxKnown \in Nat \ {0}

VARIABLES
    dev,       \* dev[d]: the store of device d and its engine
    net,       \* signals and pushes on their way
    logs,      \* start-call log requests that wait for their answer
    calls,     \* the uses of start_call so far
    engines,   \* engines created so far; an engine's number is its SDP session
    lost,      \* sends that failed
    reoffers,  \* renegotiations started
    rung       \* rung[d]: history, the sessions that have rung on d

vars == <<dev, net, logs, calls, engines, lost, reoffers, rung>>

Users == {UserOf[d] : d \in Devices}
DevicesOf(u) == {d \in Devices : UserOf[d] = u}
NoPeer == "nobody"

ASSUME NobodyIsNoUser == NoPeer \notin Users

InCall == {"Outgoing", "Connecting", "Connected"}
Unanswered == {"Outgoing", "Incoming", "Connecting"}

(* No engine, and the engine that `spawn_engine` starts.                      *)
NoEngine == [id |-> 0, caller |-> FALSE, offered |-> FALSE, remote |-> 0,
             answers |-> 0, gathered |-> 0, cands |-> {}, ice |-> "new"]
NewEngine(caller, cands) ==
    [NoEngine EXCEPT !.id = engines + 1, !.caller = caller, !.cands = cands]

(* The store while no call is on: what `new` builds, and what `reset_state`   *)
(* leaves except for the generation and the sessions it remembers.            *)
IdleStore ==
    [phase |-> "Idle", peer |-> NoPeer, caller |-> FALSE, offer |-> 0, sid |-> 0,
     engine |-> NoEngine, gen |-> 0, up |-> FALSE,
     localIce |-> {}, remoteIce |-> {}, known |-> <<>>, message |-> 0,
     timer |-> FALSE, grace |-> FALSE]

(* (mutant) The engine of the call that is over is left behind.               *)
ResetKeepsEngine(r) ==
    [IdleStore EXCEPT !.gen = r.gen + 1, !.known = r.known, !.engine = r.engine]

Reset(r) == [IdleStore EXCEPT !.gen = r.gen + 1, !.known = r.known]

Init ==
    /\ dev = [d \in Devices |-> IdleStore]
    /\ net = {} /\ logs = {}
    /\ calls = <<>> /\ engines = 0 /\ lost = 0 /\ reoffers = 0
    /\ rung = [d \in Devices |-> {}]

-----------------------------------------------------------------------------
(* Signals.                                                                   *)

(* Users have one DM channel in common, which every signal names.             *)
SignalTo(d, ds, u, type, session, ice) ==
    {[type |-> type, from |-> d, to |-> t, chan |-> {UserOf[d], u},
      session |-> session, ice |-> ice, gen |-> dev[d].gen] : t \in ds}

(* `send_to_peer`: nothing is sent when there is no peer.                     *)
ToPeer(d, type, session, ice) ==
    SignalTo(d, DevicesOf(dev[d].peer), dev[d].peer, type, session, ice)

(* The pushes and the call log take another way than the signals do.          *)
OtherPaths == {"CANCEL", "LOG"}

(* Bound on the delays: a user takes seconds to get from one call to the next,*)
(* so what a device sent to another in one call arrives before what it sends  *)
(* there in its next.  Signals of one call come in any order.                 *)
Deliverable(m) ==
    \/ m.type \in OtherPaths
    \/ \A n \in net : n.from = m.from /\ n.to = m.to /\ n.type \notin OtherPaths
                      => n.gen >= m.gen

FromPeer(m) == dev[m.to].peer = UserOf[m.from]

(* The signal m has been handled, its receiver is left as r, `out` was sent.  *)
Handled(m, r, out) ==
    /\ dev' = [dev EXCEPT ![m.to] = r]
    /\ net' = (net \ {m}) \cup out

Ignore(m) == Handled(m, dev[m.to], {})

(* The terminal log goes to the channel, if the start log was answered.       *)
TerminalLog(d) ==
    IF dev[d].message = 0 THEN {}
    ELSE SignalTo(d, (DevicesOf(dev[d].peer) \cup DevicesOf(UserOf[d])) \ {d},
                  dev[d].peer, "LOG", dev[d].message, 0)

(* What `terminate` sends.                                                    *)
Farewell(d, reason, notify) ==
    LET r == dev[d]
        last == IF reason = "Timeout" /\ r.phase = "Incoming" THEN "TIMEOUT"
                ELSE "QUIT"
    IN  (IF notify THEN ToPeer(d, last, 0, 0) ELSE {})
        \cup (IF r.caller
              THEN TerminalLog(d) \cup ToPeer(d, "CANCEL", r.sid, 0)
              ELSE {})

(* `end_call`: the call is ended from this side.                              *)
EndCall(d, reason) ==
    /\ dev' = [dev EXCEPT ![d] = Reset(@)]
    /\ net' = net \cup Farewell(d, reason, TRUE)
    /\ UNCHANGED <<logs, calls, engines, lost, reoffers, rung>>

(* `on_remote_end`: the call is ended by its peer.                            *)
RemoteEnd(m, reason) ==
    IF FromPeer(m) /\ dev[m.to].phase # "Idle"
    THEN Handled(m, Reset(dev[m.to]), Farewell(m.to, reason, FALSE))
    ELSE Ignore(m)

-----------------------------------------------------------------------------
(* The user.                                                                  *)

StartCall(d, u) ==
    /\ dev[d].phase = "Idle"
    /\ calls' = Append(calls, <<d, u>>)
    /\ \E s \in Scripts : Len(calls) < Len(s) /\ SubSeq(s, 1, Len(calls) + 1) = calls'
    /\ engines' = engines + 1
    /\ dev' = [dev EXCEPT ![d] =
                 [dev[d] EXCEPT !.phase = "Outgoing", !.peer = u, !.caller = TRUE,
                                !.gen = @ + 1, !.engine = NewEngine(TRUE, {}),
                                !.up = FALSE, !.timer = TRUE]]
    /\ logs' = logs \cup {[dev |-> d, gen |-> dev[d].gen + 1, call |-> engines + 1]}
    /\ UNCHANGED <<net, lost, reoffers, rung>>

(* (mutant) The answer is kept whichever call is on.                          *)
LogAnsweredLate(l) ==
    /\ l \in logs
    /\ logs' = logs \ {l}
    /\ dev' = [dev EXCEPT ![l.dev].message = l.call]
    /\ UNCHANGED <<net, calls, engines, lost, reoffers, rung>>

(* The answer of the start log, which only the call it was asked for may keep.*)
(* A request that fails changes nothing and is never answered here.           *)
LogAnswered(l) ==
    /\ l \in logs
    /\ logs' = logs \ {l}
    /\ dev' = IF dev[l.dev].gen = l.gen
              THEN [dev EXCEPT ![l.dev].message = l.call] ELSE dev
    /\ UNCHANGED <<net, calls, engines, lost, reoffers, rung>>

Accept(d) ==
    LET r == dev[d] IN
    /\ r.phase = "Incoming"
    /\ r.offer # 0
    /\ dev' = [dev EXCEPT ![d] =
                 [r EXCEPT !.phase = "Connecting", !.offer = 0, !.remoteIce = {},
                           !.engine = [NewEngine(FALSE, r.remoteIce) EXCEPT
                                         !.remote = r.offer, !.answers = 1],
                           !.timer = TRUE]]
    /\ engines' = engines + 1
    /\ UNCHANGED <<net, logs, calls, lost, reoffers, rung>>

(* The offer is taken before the account is asked for: without an account the *)
(* call goes on ringing and can no longer be accepted.                        *)
AcceptWithoutAccount(d) ==
    /\ dev[d].phase = "Incoming"
    /\ dev[d].offer # 0
    /\ dev' = [dev EXCEPT ![d].offer = 0]
    /\ UNCHANGED <<net, logs, calls, engines, lost, reoffers, rung>>

(* `hangup`, `decline` and `logout_teardown`.                                 *)
Hangup(d) == dev[d].phase # "Idle" /\ EndCall(d, "LocalHangup")

-----------------------------------------------------------------------------
(* The engine: its events as the store handles them.                          *)

HasEngine(d) == dev[d].engine.id # 0

StepStore(d, r, out) ==
    /\ dev' = [dev EXCEPT ![d] = r]
    /\ net' = net \cup out
    /\ UNCHANGED <<logs, calls, engines, lost, reoffers, rung>>

LocalOffer(d) ==
    LET r == dev[d] IN
    /\ r.engine.caller /\ ~r.engine.offered
    /\ StepStore(d, [r EXCEPT !.engine.offered = TRUE, !.sid = r.engine.id],
                 ToPeer(d, "OFFER", r.engine.id, 0))

LocalAnswer(d) ==
    LET r == dev[d] IN
    /\ r.engine.answers > 0
    /\ StepStore(d, [r EXCEPT !.engine.answers = @ - 1],
                 ToPeer(d, "ANSWER", r.engine.id, 0))

(* (mutant) Every candidate goes out at once.                                 *)
LocalIceAtOnce(d) ==
    LET r == dev[d] IN
    /\ r.engine.caller \/ r.engine.remote # 0
    /\ r.engine.gathered < IceOf[d]
    /\ StepStore(d, [r EXCEPT !.engine.gathered = @ + 1],
                 ToPeer(d, "ICE", r.engine.id, r.engine.gathered + 1))

(* A candidate goes out at once, except that the caller keeps its own until   *)
(* the callee has answered: nobody has an engine for them before that.        *)
LocalIce(d) ==
    LET r == dev[d]
        g == [r EXCEPT !.engine.gathered = @ + 1]
        c == r.engine.gathered + 1
    IN
    /\ r.engine.caller \/ r.engine.remote # 0
    /\ r.engine.gathered < IceOf[d]
    /\ IF r.phase # "Outgoing"
       THEN StepStore(d, g, ToPeer(d, "ICE", r.engine.id, c))
       ELSE StepStore(d, IF Cardinality(r.localIce) < MaxPendingIce
                         THEN [g EXCEPT !.localIce = @ \cup {c}] ELSE g, {})

(* The engines of d and of e hold each other's description.                   *)
Paired(d, e) ==
    /\ HasEngine(d) /\ HasEngine(e)
    /\ dev[d].engine.remote = dev[e].engine.id
    /\ dev[e].engine.remote = dev[d].engine.id

(* WebRTC: two engines that hold each other's description and a candidate of  *)
(* either one find a route.                                                   *)
IceConnects(d, e) ==
    /\ Paired(d, e)
    /\ dev[d].engine.cands # {}
    /\ "new" \in {dev[d].engine.ice, dev[e].engine.ice}
    /\ dev' = [dev EXCEPT ![d].engine.ice = "up", ![e].engine.ice = "up"]
    /\ UNCHANGED <<net, logs, calls, engines, lost, reoffers, rung>>

Connected(d) ==
    LET r == dev[d] IN
    /\ r.engine.ice = "up"
    /\ r.phase # "Connected"
    /\ StepStore(d, [r EXCEPT !.phase = "Connected", !.up = TRUE, !.timer = FALSE,
                              !.grace = FALSE],
                 ToPeer(d, "INIT", 0, 0)
                 \cup (IF r.caller THEN ToPeer(d, "CANCEL", r.sid, 0) ELSE {}))

(* `Disconnected`, which counts only as long as the call never was up.        *)
Disconnected(d) ==
    LET r == dev[d] IN
    /\ r.engine.remote # 0 /\ ~r.up /\ ~r.grace
    /\ StepStore(d, [r EXCEPT !.grace = TRUE], {})

(* `Failed`, which counts only as long as the call never was up.              *)
EngineFails(d) == HasEngine(d) /\ ~dev[d].up /\ EndCall(d, "Failed")

-----------------------------------------------------------------------------
(* The timers.                                                                *)

NoAnswer(d) ==
    /\ dev[d].timer
    /\ dev[d].phase \in Unanswered
    /\ EndCall(d, "Timeout")

GraceOver(d) == dev[d].grace /\ EndCall(d, "Failed")

-----------------------------------------------------------------------------
(* What the engine does with a remote description.                            *)

(* A caller that still waits for its answer drops an offer (glare).  An offer *)
(* of another session than the one at hand is refused, or restarts ICE.       *)
ApplyOffer(e, session) ==
    IF e.caller /\ e.remote = 0 THEN {e}
    ELSE LET answered == [e EXCEPT !.remote = session, !.answers = @ + 1]
         IN  IF session = e.remote THEN {answered}
             ELSE {e, [answered EXCEPT !.gathered = 0]}

(* Only the first answer fits; a later one is refused and changes nothing.    *)
ApplyAnswer(e, session) == IF e.remote = 0 THEN [e EXCEPT !.remote = session] ELSE e

(* `remember_peer_session`: the oldest one makes room.                        *)
Known(r, u, session) == \E i \in DOMAIN r.known : r.known[i] = <<u, session>>

(* (mutant) Nothing is remembered.                                            *)
Forget(r, u, session) == r

Remember(r, u, session) ==
    IF Known(r, u, session) THEN r
    ELSE [r EXCEPT !.known = Append(IF Len(@) >= MaxKnown THEN Tail(@) ELSE @,
                                    <<u, session>>)]

(* `matches_ring_sync`: a signal without a session fits any ring.             *)
MatchesRingSync(m) == m.session = 0 \/ m.session = dev[m.to].offer

-----------------------------------------------------------------------------
(* Signals, as `handle_event` takes them.                                     *)

Ringing(m) == dev[m.to].phase = "Incoming"

(* The caller is connected to another device of this user.                    *)
OnInit(m) ==
    /\ m.type = "INIT"
    /\ IF Ringing(m) /\ FromPeer(m) THEN Handled(m, Reset(dev[m.to]), {}) ELSE Ignore(m)
    /\ UNCHANGED rung

(* An offer of the peer of the call that is on: a renegotiation.              *)
OnReoffer(m) ==
    LET r == Remember(dev[m.to], UserOf[m.from], m.session) IN
    /\ m.type = "OFFER"
    /\ FromPeer(m) /\ dev[m.to].phase # "Idle"
    /\ IF HasEngine(m.to)
       THEN \E e \in ApplyOffer(r.engine, m.session) :
                Handled(m, [r EXCEPT !.engine = e], {})
       ELSE Handled(m, r, {})
    /\ UNCHANGED rung

(* Any other offer: known already, or the device is busy, or it rings.        *)
OnOffer(m) ==
    LET u == UserOf[m.from]
        r == dev[m.to]
    IN
    /\ m.type = "OFFER"
    /\ ~(FromPeer(m) /\ r.phase # "Idle")
    /\ \/ /\ Known(r, u, m.session)
          /\ Ignore(m) /\ UNCHANGED rung
       \/ /\ ~Known(r, u, m.session) /\ r.phase # "Idle"
          /\ Handled(m, r, SignalTo(m.to, DevicesOf(u), u, "JOINED", 0, 0))
          /\ UNCHANGED rung
       \/ /\ ~Known(r, u, m.session) /\ r.phase = "Idle"
          /\ Handled(m, [Remember(r, u, m.session) EXCEPT
                           !.gen = @ + 1, !.peer = u, !.caller = FALSE,
                           !.offer = m.session, !.up = FALSE, !.phase = "Incoming",
                           !.timer = TRUE], {})
          /\ rung' = [rung EXCEPT ![m.to] = @ \cup {m.session}]

(* (mutant) The answer stops the no-answer timer instead of restarting it.    *)
OnAnswerStopsTimer(m) ==
    LET r == Remember(dev[m.to], UserOf[m.from], m.session) IN
    /\ m.type = "ANSWER"
    /\ IF FromPeer(m) /\ r.phase \in {"Outgoing", "Connecting"}
       THEN /\ dev' = [dev EXCEPT ![m.to] =
                         [r EXCEPT !.engine = ApplyAnswer(@, m.session),
                                   !.phase = "Connecting", !.localIce = {},
                                   !.timer = FALSE]]
            /\ net' = (net \ {m}) \cup
                      UNION {ToPeer(m.to, "ICE", r.engine.id, c) : c \in r.localIce}
       ELSE Handled(m, r, {})
    /\ UNCHANGED rung

(* The answer goes to the engine, whichever call it answers.                  *)
OnAnswer(m) ==
    LET r == Remember(dev[m.to], UserOf[m.from], m.session) IN
    /\ m.type = "ANSWER"
    /\ IF FromPeer(m) /\ r.phase \in {"Outgoing", "Connecting"}
       THEN /\ dev' = [dev EXCEPT ![m.to] =
                         [r EXCEPT !.engine = ApplyAnswer(@, m.session),
                                   !.phase = "Connecting", !.localIce = {},
                                   !.timer = TRUE]]
            /\ net' = (net \ {m}) \cup
                      UNION {ToPeer(m.to, "ICE", r.engine.id, c) : c \in r.localIce}
       ELSE Handled(m, r, {})
    /\ UNCHANGED rung

OnIce(m) ==
    LET r == dev[m.to]
        c == <<m.session, m.ice>>
    IN
    /\ m.type = "ICE"
    /\ CASE ~FromPeer(m) -> Ignore(m)
         [] FromPeer(m) /\ HasEngine(m.to) ->
              Handled(m, [r EXCEPT !.engine.cands = @ \cup {c}], {})
         [] FromPeer(m) /\ ~HasEngine(m.to) ->
              IF Cardinality(r.remoteIce) < MaxPendingIce
              THEN Handled(m, [r EXCEPT !.remoteIce = @ \cup {c}], {})
              ELSE Ignore(m)
    /\ UNCHANGED rung

(* (mutant) A call that is up ignores QUIT with the other end signals.        *)
OnQuitWhileUp(m) ==
    /\ m.type = "QUIT"
    /\ IF dev[m.to].up THEN Ignore(m) ELSE RemoteEnd(m, "RemoteQuit")
    /\ UNCHANGED rung

(* Ends the call whichever call it was sent in.                               *)
OnQuit(m) == m.type = "QUIT" /\ RemoteEnd(m, "RemoteQuit") /\ UNCHANGED rung

(* The ring of the peer ran out; not within 30 s of the start of this call.   *)
OnTimeout(m) ==
    /\ m.type = "TIMEOUT"
    /\ \/ Ignore(m)
       \/ ~dev[m.to].up /\ RemoteEnd(m, "Timeout")
    /\ UNCHANGED rung

(* Another device of the callee may still ring: the caller waits on.          *)
OnJoined(m) ==
    /\ m.type = "JOINED"
    /\ IF dev[m.to].up \/ dev[m.to].caller THEN Ignore(m) ELSE RemoteEnd(m, "Busy")
    /\ UNCHANGED rung

(* CLEAR_CALL and the CANCEL_CALL push, one message here: they go out         *)
(* together and do the same, so that the second to arrive finds nothing to do.*)
OnCancel(m) ==
    /\ m.type = "CANCEL"
    /\ IF Ringing(m) /\ FromPeer(m) /\ MatchesRingSync(m)
       THEN Handled(m, Reset(dev[m.to]), {}) ELSE Ignore(m)
    /\ UNCHANGED rung

(* The terminal log of a call, whichever call it was, ends the ring.          *)
OnLog(m) ==
    /\ m.type = "LOG"
    /\ IF Ringing(m) /\ {UserOf[m.to], dev[m.to].peer} = m.chan
       THEN Handled(m, Reset(dev[m.to]), {}) ELSE Ignore(m)
    /\ UNCHANGED rung

Deliver(m) ==
    /\ m \in net /\ Deliverable(m)
    /\ \/ OnInit(m) \/ OnReoffer(m) \/ OnOffer(m) \/ OnAnswer(m) \/ OnIce(m)
       \/ OnQuit(m) \/ OnTimeout(m) \/ OnJoined(m) \/ OnCancel(m) \/ OnLog(m)
    /\ UNCHANGED <<logs, calls, engines, lost, reoffers>>

-----------------------------------------------------------------------------
(* The surroundings.                                                          *)

(* A forward that fails is logged and not repeated.                           *)
Lose(m) ==
    /\ m \in net
    /\ lost + reoffers < MaxFaults
    /\ lost' = lost + 1
    /\ net' = net \ {m}
    /\ UNCHANGED <<dev, logs, calls, engines, reoffers, rung>>

(* A web client switches its camera on: it offers again in the same session.  *)
Reoffer(d) ==
    /\ dev[d].up /\ dev[d].caller
    /\ lost + reoffers < MaxFaults
    /\ reoffers' = reoffers + 1
    /\ net' = net \cup ToPeer(d, "OFFER", dev[d].engine.id, 0)
    /\ UNCHANGED <<dev, logs, calls, engines, lost, rung>>

Next ==
    \/ \E d \in Devices, u \in Users : StartCall(d, u)
    \/ \E l \in logs : LogAnswered(l)
    \/ \E d \in Devices :
          \/ Accept(d) \/ AcceptWithoutAccount(d) \/ Hangup(d)
          \/ LocalOffer(d) \/ LocalAnswer(d) \/ LocalIce(d)
          \/ Connected(d) \/ Disconnected(d) \/ EngineFails(d)
          \/ NoAnswer(d) \/ GraceOver(d) \/ Reoffer(d)
    \/ \E d, e \in Devices : IceConnects(d, e)
    \/ \E m \in net : Deliver(m) \/ Lose(m)

Spec == Init /\ [][Next]_vars

-----------------------------------------------------------------------------
(* Properties.                                                                *)

Candidates == Nat \X Nat

Engines ==
    [id : Nat, caller : BOOLEAN, offered : BOOLEAN, remote : Nat, answers : Nat,
     gathered : Nat, cands : SUBSET Candidates, ice : {"new", "up"}]

Stores ==
    [phase : {"Idle"} \cup InCall \cup {"Incoming"}, peer : Users \cup {NoPeer},
     caller : BOOLEAN, offer : Nat, sid : Nat, engine : Engines, gen : Nat,
     up : BOOLEAN, localIce : SUBSET Nat, remoteIce : SUBSET Candidates,
     known : Seq(Users \X Nat), message : Nat, timer : BOOLEAN, grace : BOOLEAN]

Signals ==
    [type : {"OFFER", "ANSWER", "ICE", "INIT", "QUIT", "TIMEOUT", "JOINED"} \cup OtherPaths,
     from : Devices, to : Devices, chan : SUBSET Users, session : Nat, ice : Nat,
     gen : Nat]

LogRequests == [dev : Devices, gen : Nat, call : Nat \ {0}]

(* The fields of a store that have to agree.                                  *)
Coherent(r) ==
    /\ r.phase = "Idle" <=> r.peer = NoPeer
    /\ r.phase \in InCall <=> r.engine.id # 0
    /\ r.engine.id = 0 => r.engine = NoEngine
    /\ r.phase = "Connected" <=> r.up

(* Type invariant.  It includes that a call has its engine from the dial or   *)
(* the accept until `reset_state`, and no other phase has one.                *)
TypeOK ==
    /\ dev \in [Devices -> Stores]
    /\ \A m \in net : m \in Signals
    /\ \A l \in logs : l \in LogRequests
    /\ engines \in Nat /\ lost \in Nat /\ reoffers \in Nat
    /\ rung \in [Devices -> SUBSET Nat]
    /\ \A d \in Devices : Coherent(dev[d])

(* The engine of e is, or will be by a description on its way, the other end  *)
(* of the engine of d.                                                        *)
Expects(e, d) ==
    \/ Paired(d, e)
    \/ /\ HasEngine(d) /\ dev[d].engine.remote = 0
       /\ dev[d].engine.id \in {dev[e].offer, dev[e].engine.remote}
    \/ /\ HasEngine(e) /\ dev[e].engine.remote = 0
       /\ dev[d].engine.remote = dev[e].engine.id

(* No ICE candidate falls between the two ends of a call, whether its callee  *)
(* rings, has just accepted or is paired: each one is held back by the        *)
(* caller, on its way, kept for the engine that `accept` will start, or at    *)
(* the other engine.  The buffers `pending_local_ice` and                     *)
(* `pending_remote_ice` and their two flushes are there for this.             *)
CandidatesKept ==
    lost = 0 =>
    \A d, e \in Devices : Expects(e, d) =>
        \A c \in 1..dev[d].engine.gathered :
            LET id == dev[d].engine.id IN
            \/ c \in dev[d].localIce
            \/ <<id, c>> \in dev[e].engine.cands \cup dev[e].remoteIce
            \/ \E m \in net : m.type = "ICE" /\ m.to = e /\ m.session = id /\ m.ice = c

(* The message that `write_terminal_log` will overwrite with how the call     *)
(* ended is the start log of this very call, however late the server answers  *)
(* the log of a call that is over (`write_start_call_log`).                   *)
LogOfThisCall ==
    \A d \in Devices : dev[d].message # 0 => dev[d].message = dev[d].engine.id

(* An offer that is repeated (a renegotiation that arrives when the call is   *)
(* over) does not make a device ring again for a call it has had.             *)
RingsOnce ==
    [][\A d \in Devices : dev[d].phase = "Idle" /\ dev'[d].phase = "Incoming"
          => dev'[d].offer \notin rung[d]]_vars

(* No call waits for its other end for ever: whatever arrives in whatever     *)
(* order, a call that is not up has its no-answer timer running.              *)
TimerArmed == \A d \in Devices : dev[d].phase \in Unanswered => dev[d].timer

(* Nobody goes on talking to a call that is over: the other end of a call     *)
(* that is up is there, or its QUIT is on its way (users with one device; a   *)
(* QUIT that the network loses is sent by nobody again).                      *)
NoZombie ==
    lost = 0 =>
    \A d \in Devices : dev[d].phase = "Connected" =>
        \/ \E e \in Devices : HasEngine(e) /\ dev[e].engine.id = dev[d].engine.remote
        \/ \E m \in net : m.type = "QUIT" /\ m.to = d
=============================================================================

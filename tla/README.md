# Mezon Desktop: specification, model checking and proofs

Mezon Desktop is a native chat client in Rust. This directory holds TLA+
modules for the parts of it where tasks, threads, sockets and servers
interleave, TLC configurations that check them on small instances, and proofs
that TLAPS checks for every value of the constants. Paths below are relative
to `src/crates/` unless they start with `src/docs`.

Status: the transport, the session's credentials, the connection manager, the
signalling of calls, the upload jobs and the message window of a channel are
modelled and checked, and the theorems below are proved. The other components are inventoried and planned.

Contents: 1 Inventory, 2 Modules and how they correspond to the code, 3 Runs,
4 Bounds and fairness, 5 Proofs, 6 Disagreements and observations,
7 What is not modelled, 8 Plan.

## 1. Inventory

### 1.1 The parts and how they meet

```
   views (mezon-ui)            main thread: GPUI entities, one at a time
        |  read / call
   stores (mezon-store)        auth_state, connection, messages, call, ...
        |  AppApi                   ^  RealtimeDispatch: events by kind
        v                           |
   MezonTransport (mezon-client)    |  tokio runtime, two workers
        |  send_message             |  on_message / on_close callbacks
   AbridgedTcpAdapter  ------->  I/O loop (one task per TCP connection)
        |
   gateway (TLS socket)      API server (HTTPS: fallback, SessionRefresh)
```

* Main-thread code runs to its next `await` undisturbed. The connection
  manager, the heartbeat, the token watch and every store live there.
* The tokio runtime (`mezon-client/src/transport_runtime.rs`) has two worker
  threads: requests, I/O loops, their callbacks, `connect`/`close` and the
  HTTP fallback interleave at every await, lock and atomic access.
* A background pool runs the file jobs (saving and clearing the session), in no
  order of its own.

| Component | State | Operations | Meets the others by |
|---|---|---|---|
| Request transport (`mezon-client/src/transport.rs`, `abridged_tcp_adapter.rs`) | `pending_requests`, `cid_counter`, `connected` watch; `write_tx`, `is_connected`, `io_task`; per I/O loop its queue and the chunks it holds | `send_api_request*`, `ping_roundtrip`, `connect`, `close`, I/O loop, `on_message`, `on_close` | called by every store; callbacks to the manager and to `RealtimeDispatch` |
| Session credentials (`transport.rs`, `mezon-store/src/connection.rs`, `keychain.rs`, `login.rs`) | `auth_state.session`, `http_fallback`, `fallback_refresh_lock`, `renewed_tokens`, the session file | mint, adopt, rotate, ask the gateway, apply a push, log in, log out, save, clear | watch channel, events, background jobs |
| Connection manager (`mezon-store/src/connection.rs`, `mezon-client/src/endpoint_health.rs`) | `connection_generation`, `ConnectionStatus`, `EndpointHealth`, `endpoint_refresh` queue, `wake`, ack watch, `connected_user_id` | manager loop, close callback, heartbeat, `reconnect()` | `wake.notify_one()`, generations captured by callbacks, reports to the gateway |
| Call signalling (`mezon-store/src/call.rs`, `mezon-call`) | phase, peer, generation, `offer`, the engine and its descriptions, `pending_local_ice`, `pending_remote_ice`, the sessions seen, the id of the start log, the timers | start, accept, hang up, engine events, signalling events, no-answer and ICE timers | one background task per signal sent; the gateway fans a signal out to every device of a user; the call log over the API |
| Keyed caches (`mezon-store/src/cache.rs`) | entries, LRU order, freshness per key | get, insert, evict with protected keys, invalidate | used by the channel, message and clan stores |
| Clan loading (`mezon-store/src/clan_load.rs`, `clan.rs`) | active clan, load generation, stage | staged load with an await per stage | calls into channel, role, emoji, presence stores |
| Messages (`mezon-store/src/messages.rs`, `message.rs`) | per channel: rows, those still being sent among them, the newest id heard of, freshness, viewing older; of the open one: loading flags, `latest_fetch`, `fetch_generation`, the waiting jump; the channels joined | open, leave, page up and down, jump, send, answer, echo, event, resync, edit, delete, last seen | requests, realtime events, the connection watch, badges of the clan |
| Upload jobs (`upload_jobs.rs`, `presign.rs`, the job part of `messages.rs`, `mezon-client/src/app_api.rs`) | `upload_jobs`, `running_upload_jobs`, `failed_uploads`, their file, the save generation; per job a task with its queue of outcomes; the upload registry | send, record an outcome, patch, complete, retry, discard, restore after a login or a reconnection | HTTP, detached saves, the connection watch, deletions seen when a message is read again |
| Voice and media (`mezon-voice`, `mezon-store/src/voice.rs`) | room, tracks, reconnect attempts | join, leave, publish, recover | native engine callbacks |
| Other stores (`channel.rs`, `badge.rs`, `presence.rs`, `inbox.rs`, ...) | entities by id | apply event, fetch, reset | events on the main thread |
| Wallet, updater, native integration, media pipelines, disk caches, UI, CLI and MCP, protocol, vendored code | see `PROJECT.json` | | |

### 1.2 What is hard, and what makes each part correct

*Request transport.* Cids are 16 bits and reused. A reply can come after its
time-out or after a reconnect, in chunks, or be too large. Registering an
executor and handing over the frame are two steps, and `close()` empties the
map in between. The manager's `connect` overlaps with a `close` by the
heartbeat or by a change of server. Correct means: a caller only ever gets its
own answer; nobody stays in the pending map and nobody falls out of it; the
handshake is the first thing the gateway reads; a call leaves the client at
most once; and every call gets a result.

*Session credentials.* A refresh token is single-use, and four parties
replace it: sends over HTTP, the manager's rotation, the server's pushes and a
login. All of them copy a session, wait, and write. Saves are detached. Correct
means: no token is spent again once its replacement has arrived, every minted
pair reaches the disk, the disk ends up with what the app holds, nothing of one
login ends up in the next, and a logout is final.

*Connection manager.* It sleeps on a permit that others must leave behind. The
close callback and the heartbeat run elsewhere and act step by step, guarded by
a generation they looked at earlier. A peer can vanish without a packet. Correct
means: the manager never rests over a connection that is dead, deaf or not its
user's; the status shown is that of the connection held; only the gateway's
word confirms an attempt; and the app recovers after the last fault.

*Call signalling.* Signals of one call overtake each other and may be lost;
pushes and logs take another way and can belong to a call that is over; a user
may have several devices; the timer races the answer. Correct means: no
candidate falls between the two ends, a call ends with its own log, a device
rings once for a call, no unanswered call waits for ever, and nobody talks on to
a call that is over.

*Upload jobs.* A message is sent before its files are up; the job must bring them
into the message through failures, logouts, other users' logins and crashes. Two
copies of a job exist, one in the store and one in its task, and a third on disk,
written by detached saves that overtake each other. Correct means: the file ends
up with what the store holds, a job has one task, is not forgotten and not left
idle, no file stays "uploading" without anyone at it, and a job is closed only
when its message lists its files, never fewer than before.

*Messages.* A window of rows grows at both ends, from pages asked for before it
changed, from events, and from the answers to what the user sends, which race
their echoes. It is trimmed at one end while a page for that end is under way.
Events are lost with the connection. Correct means: a window that counts as the
newest ends with the newest message once everything has arrived, a live message is
joined to the one before it, a message is in the window once, a row that says
"sending" has a request under way, and no spinner, guard or jump waits for an
answer that came long ago.

*Caches.* Eviction with protected keys must end and keep the order. *Clan
loading.* Only the stages of the last selection may go on.

The 40 concrete hazards, each at its line with the properties aimed at it or
the reason there is none yet, are in `PROJECT.json`.

## 2. Modules and how they correspond to the code

| Module | What it is |
|---|---|
| `Transport` | requests, I/O loops, `connect`/`close` and the HTTP fallback, one step per await, lock or atomic access |
| `RpcContract` | what a caller may rely on, with no sockets in it; `Transport` implements it |
| `SessionTokens` | who mints, copies, adopts, pushes, saves and clears the session |
| `Connection` | the manager's loop, the close callback, the heartbeat and the reconnect task |
| `Call` | the `CallStore` of every device, its engine's session state, signals, pushes and logs |
| `Uploads` | the jobs of the store, their file, the tasks that upload and patch, the upload registry |
| `Timeline` | the window of one channel in `MessagesStore`, the pages, sends and events that change it, and the server's log |
| `MC...` | model values for TLC; bounds are in the `.cfg` files |
| `TransportProofs`, `TransportDelivery`, `TokensProofs`, `ConnectionProofs`, `CallProofs`, `UploadsProofs`, `TimelineProofs` | the theorems and their proofs |

`PROJECT.json` "map" gives the source lines of every definition. Definitions
marked *(mutant)* in a module model a plausible bug at the place they stand
for; no specification uses them. Each property is checked to fail when its
mutant replaces the definition.

### Transport

A request goes through `pc`: `idle`, `route` (is the socket open? else HTTP),
`gate` (wait for `connected`), `register` (executor into `pending`), `submit`,
`sender` and `enqueue` (the adapter's `send_message`, with the write queue's
capacity), `await` (the oneshot against the timer), or `http`/`http_wait`, then
`done`. `Pings` skip the gate, only `HttpCapable` calls may fall back. An I/O
loop is `running`, then `closing`, `telling`, `clearing`, `gone`: the exit code
and the close callback step by step, unless it is aborted at an await. Drivers
run `connect` (dial, join the old loop, spawn, store the task, queue the
handshake, publish the sender, set the flag, signal) and `close` (signal, clear,
flag, sender, take the task, abort).

Abstractions: a frame is its request; the answer's bytes are the set of
requests they came from, so a chunk of somebody else's answer shows. Connections
are numbered. The HTTP side is one send and one answer.

### SessionTokens

Credentials are numbered in the order the servers mint them, so "later" is a
comparison of numbers; a session is the numbers of its JWT, its refresh token
and its `session_id`. `minter` follows `refresh_fallback_token` through its
lock and POST; `ServerMints` is the API server, which replaces a refresh token
once. `watcher` is the token watch, `mgr` the parts of the manager's loop that
touch credentials, `jobs` the saves and clears queued on the background pool,
which run in any order. `RenewTimesOut` is `refresh_jwt_within`: it may fire while
the renewal waits for the answer or for its save, and the save is then cancelled
if it has not begun. `linked` is the login whose connection can still deliver
events: a logout changes nothing about it before the manager is at the top of its
loop, so `ServerPush` and `PushArrives` may bring one login's credentials while
another is held. `Quit` loses everything except the disk.

Three variables are history and guard nothing: `raced` (jobs that leave different
things on disk were queued together), `cut` (the last save of the session held was
cancelled), `crossed` (logins whose credentials a push or an adopted pair put into
one session). The properties except what they record, and only that.

### Connection

`mgr` is where the manager is in its loop; `session`, `user`, `pending`,
`request` and `attempt` are its local variables. `gen`, `status`, `healthy`,
`reports`, `permit`, `acked`/`events` are what it shares. The adapter is
reduced to its flag, its `io_task` and its loops (`Transport` has the rest),
but `close` still takes the task, aborts it and joins it, because a loop already
in its close callback is waited for only by the closer that took it. `hb` and
`rc` are the heartbeat and the task behind `reconnect()`. Whether a gateway
accepts an attempt, moves it to another node or vanishes is the environment's
choice (`peer`, `Fault`, `MaxMoves`).

Two constants say how far threads may drift apart. `Overlaps` lets the user
change the server while an attempt is under way. `Stalls` lets a thread be held
up, in the middle of steps that no await separates, for as long as a round trip
to the gateway takes; without it such steps finish before the next round trip
does. Every run has `Stalls = FALSE`; `ConnectionDeaf` has `Overlaps = TRUE`.
What a stall does is in section 6.

### Call

`dev[d]` is the store of device `d`, its engine included; `net` holds the signals
under way and `logs` the requests for the start log. Each method of the store is
an action (`StartCall`, `Accept`, `Hangup` for hanging up, declining and logging
out), each engine event that counts is one (`LocalOffer`, `LocalAnswer`,
`LocalIce`, `Connected`, `Disconnected`, `EngineFails`), so are the timers, and
`Deliver` is `handle_event` with one operator per kind of signal. `EndCall` and
`RemoteEnd` are the two ways into `terminate`, with what it sends and
`reset_state`. `gen` is the store's generation, by which late answers are told
apart; `sid`, `offer` and `remote` are SDP sessions, numbered by the engine that
made them.

Abstractions: an engine is its two descriptions, its candidates and whether a
route was found; two engines that hold each other's description and a candidate
find one (`IceConnects`), and may do so even when they should not. `CLEAR_CALL`
and the `CANCEL_CALL` push are one message, since the second to arrive finds
nothing to do. A time-out signal is free to arrive before or after the 30 s the
store measures. Microphone, camera, tones and the remote media status are left
out. A start log that fails changes nothing, so it has no step.

### Uploads

`jobs`, `failed`, `running` are the store's; `saves` the detached saves not yet
run, in the order of their generations; `disk` the file; `tasks` the tasks, each
with the files it still has to upload, those it has finished, those the last
answered patch listed, and the outcomes in its channel; `registry` is the upload
registry; `server[i]` what message `i` lists. `Send` is a message with attachments
up to the start of its task; `FileEnds`, `Sync`, `Outcome`, `Complete`, `Reread`
and `Discard` are the task and what it calls in the store; `Connect` is the first
half of `restore_upload_jobs`, `LoadApplied` the half after the file is read;
`Save`/`SaveFails` one detached save; `Logout` is `reset`; `Crash` leaves the file
and the server.

Abstractions: a job's window is `age` (`fresh`, then `expired`, then `old`), the
same for all its files; a failed patch may or may not have reached the server; a
save that finds a later generation in `LAST_WRITTEN` does nothing, so running a
save drops those before it. Left out: the text and tokens a patch carries, upload
URLs and their pruning, the cap and the expiry of the failed uploads, the `Storing`
state, paths that are not UTF-8, topics, and a viewer that is not known yet.

### Timeline

`store` is the `MessagesStore` as far as one channel is concerned: `rows`,
`last` (`last_message_ids`), `hasMore`, `older` (`viewing_older`), `cached` and
`fresh` (the entry of the keyed cache and whether its stamp counts), `active`,
`loading`, `loadingMore`, `gen`, `latest`, `jump` (`pending_jump`), `joined`, and
in `asks` the requests it has made. A method of the store is an operator from the
store to the store (`Activate`, `Refetch`, `LoadMore`, `TryJump`, `Resync`,
`Send`), an answer another (`PageArrives`, `OlderArrives`, `NewerArrives`,
`AroundArrives`, `Reconcile`, `Reject`, `EventArrives`), chosen in `Handled`. The
actions are the user's (`Open`, `Leave`, `Unfocus`, `Close`, `ScrollUp`, `ScrollDown`,
`ReachTop`, `ReachBottom`, `Present`, `Jump`, `Write`), the cache's (`Expire`,
`Evict`), the network's (`Deliver`, `Disconnect`, `Reconnect`, `Lag`) and the
server's (`Post`, `Serve`, with a refusal or the answer). The user may do any of it
at any time: nothing waits for answers unless the code does. `doubt` is history and
guards nothing: it says that, since the last resync, something happened after which
the code no longer knows where the channel ends (`Confuses`, and a join or the badges
refused; section 6), and `RestsCurrent` and `LiveJoins` except that.

Abstractions: a message is its position in the server's log; rows are a set,
because the store sorts them by `sort_id` after every change, and `SortKey` is
that order; all other channels are one place the user may be in. `Clan` says how
the server subscribes the client: with the open clan, whose badges also name its
channels' tails, or channel by channel (a direct message). Left out: topics,
edits and deletions, resending a failed message, reactions and polls, attachments
(`Uploads`), unread counts and the marker of the last message seen, a fetch of
another channel that is still out, the reset at logout, delays.

### How they compose

`Transport` refines `RpcContract`. `Connection` and `SessionTokens` each use an
abstraction of their neighbours: `Connection` of the adapter, `SessionTokens` of
the manager. The drivers of `Transport` are the manager, the heartbeat and the
reconnect task of `Connection`: both let a close from another task overlap a
connect. A composed module is in the plan. `Call`, `Uploads` and `Timeline` stand on
their own: a signal, a patch or a page may be lost or answered late, which is what
the transport allows, and `Uploads` and `Timeline` see the connection only as its
transitions to connected and away from it.

## 3. Runs

| Run | Checks | Shows |
|---|---|---|
| `TransportContract` | `TypeOK`, `NoMisdelivery`, `PendingOwned`, `HandshakeFirst`, `AtMostOnce`, `KeepsContract` | a ping and a call that may fall back to HTTP, sharing one cid across a reconnect; late, chunked and oversized answers, a full write queue; the refinement of `RpcContract` with its liveness (0.4 million) |
| `TokensRotation` | `NeverSpentTwice`, `MintReachesDisk` | two sends and a rotation that all want a new pair; the rotation times out at any point, the app is quit (0.5 million) |
| `TokensLogins` | `TypeOK`, `OneLogin`, `DiskFollows`, `StaysLoggedOut` | two logins, pushes, gateway answers, a rotation and a quit in every order, what was meant for the first arriving in the second included (7.0 million) |
| `ConnectionWakes` | `TypeOK`, `NoLostWake`, `Listens`, `StatusSettles`, `ConfirmedByGateway` | two users, a fault, a change of server, the heartbeat (6.9 million) |
| `ConnectionRecovers` | `Recovers` | under fairness, a fault and a move, wake-ups at any time (0.4 million) |
| `CallPair` | `TypeOK`, `CandidatesKept`, `LogOfThisCall`, `TimerArmed`, `NoZombie`, `RingsOnce` | two calls in a row: a redial, a call back (or both at once), a third party's; signals in any order, one of them lost or one renegotiation |
| `UploadRestarts` | `TypeOK`, `DiskNewest`, `RunningIsLive`, `NeverForgotten`, `NoSpinnerLeft`, `ClosesWhenTold`, `NothingStuck`, `Cumulative` | two users taking turns (A, B, A), two files in one message or in two, and two events out of crash, failed write, deletion, ageing (4.1 million) |
| `TimelineWindow` | `TypeOK`, `NoTwins`, `RestsCurrent`, `LiveJoins`, `NoGhosts`, `NothingHangs` | a channel of the open clan: three moves of the user in any combination, one message sent, others' messages, and one lost connection, lag or refusal (5.1 million) |
| `TokensLogoutSpent`, `TokensDeadSession`, `ConnectionDeaf`, `TimelineDirect` | one each | counterexamples, section 6 |

`TransportContract` has one driver. A close by another task in the middle of a
connect is what its five safety properties are proved for (section 5): the theorems
hold for any set of drivers.

`NeverSpentTwice` has its own run because it does not survive everything that may
happen: a logout, a suspension in the middle of a mint, or a pushed JWT that re-arms
an older refresh token lets a token be spent twice (sections 5 and 6). `TokensLogins`
runs the rest of the system together.

## 4. Bounds and fairness

Every bound is a constant named in its module.

* `CidMod` 2 makes the 16-bit counter wrap after every call, so the two calls have
  one cid. `CidFree` is a bound on the environment:
  a cid comes round only when its last holder is resolved and off the wire. The
  code does not check it; 65 535 calls lie in between. Everything said about
  misdelivery, in the runs and in the theorems, rests on it.
* `MaxConns` 2 is one reconnect, enough for a loop of the connection before, its
  late frames and the close before it. `QueueCap` 2 is full with the handshake and
  one frame, while there are two to send.
* Two sends and one rotation are the smallest set in which one waits for the
  lock, one posts and one has finished. `MaxMints` 4 lets each of them mint after
  the login did. In `TokensLogins` three credentials are two logins and one more, which
  is a push, an answer of the gateway or the rotation's.
* Two logins are enough for "the previous user"; one fault of any kind and one
  change of server meet every state of the manager. In `Connection`, `MaxConns`
  is computed from the other bounds and never stops an attempt in the runs.
* `Call`: two calls (`Scripts`) are enough for "the call before"; three devices
  give a caller, a callee and a third party. One candidate of one device and
  `MaxPendingIce` 1 fill the buffers, and `MaxKnown` 2 (8 in the code) still
  holds every session of two calls. `MaxFaults` 1 is one lost signal or one
  renegotiation. Two bounds are assumptions about the world: `Deliverable` keeps
  what a device sends another in one call before what it sends there in the next
  (a user takes seconds to get there), logs and pushes excepted; and the instance
  has one device per user, which `NoZombie` and the observations of section 6
  depend on, while the theorems hold for any number.
* `Uploads`: `Batch` 1 (4 in the code) patches after each file, `MaxSyncFailures` 2
  (3) gives one retry and one giving up, `MaxSaves` 2 lets saves overtake,
  `MaxEvents` 2 combines, say, a failed write with a crash. `Layouts` puts the two
  files in one message or one in each. `AtRest` is an assumption about the world:
  users find the file at rest when they log in or out, and read when they send,
  as reading and writing it takes milliseconds; crashes and tasks find it in any
  state. The read and its result are one step. What goes wrong without this is
  in section 6.
* `Timeline`: `Cap` 3 (200 in the code) with `Page` 2 (50) trims a window that two
  pages filled, or a page and two events; `History` 3 leaves something above the
  first page, and `MaxLog` 5 has room for two messages, sent or received. Three
  moves open a channel and leave it, read up, jump or come back. Some things take
  more, so larger instances were run outside the project's runs, without an error:
  five moves without a send (19 million states), four moves with one (42 million),
  seven moves without a fault (1.6 million).
  Two constants are assumptions about the world: `Clan`, the channel is one of the
  open clan (a direct message fails, section 6), and `InOrder`, the server serves and
  answers in the order it is asked. `RestsCurrent` and `LiveJoins` need both,
  `NoTwins` and the cap `InOrder`; `NoGhosts` and `NothingHangs` need neither. A request
  for a join or the badges that is refused stands for all the attempts the code makes
  (`CLAN_JOIN_MAX_ATTEMPTS`, `BADGE_SEED_MAX_ATTEMPTS`); badges asked for before a loss,
  which the code drops by its `socket_generation`, may arrive in the model.
  The two properties say what they leave out: `RestsCurrent` is about a store with
  nothing under way, a fresh entry and a user at the bottom; `LiveJoins` about a fresh
  entry whose newest page is there and whose badges are back.
* Deadlock is checked in the runs of `Transport` and `SessionTokens`. In the others
  it is not: the app may rest for good, which is what `NoLostWake`, `TimerArmed`
  and `NothingStuck` are about. `Timeline` stops when its bounds are used up.

Fairness. `Transport`: weak fairness of each request's own steps. Its timer
fires and the runtime polls a ready task; nothing is asked of servers, sockets
or drivers. `SessionTokens`: each minter, the token watch and the
background pool run what is ready; the servers' answers are free to come or fail
(a POST that never comes back ends at its time-out, `MintFails`). `Connection`: the manager, the heartbeat, the reconnect task, the
callbacks and the dispatcher do what they can, and a gateway that is asked
answers (`Accept`); faults are bounded, so they stop. No fairness of faults,
logins or logouts is assumed. `Recovers` needs the gateway's fairness: no client
recovers from a gateway that never answers.

## 5. Proofs

All theorems are for every value of the constants that satisfies the named
assumptions (`TransportAssumption`, `TokensAssumption`, `NoSessionAssumption`,
`ConnectionAssumption`, `CallAssumption`, `NobodyIsNoUser`, `UploadsAssumption`,
`TimelineAssumption`), which TLC evaluates in the runs.

| Theorem | Module | Inductive invariant |
|---|---|---|
| `TypeCorrect` | `TransportProofs` | `TInv`: the types, room for another loop's number while one is being opened, and a cid for whoever is under way |
| `HandshakeAlwaysFirst` | `TransportProofs` | `HInv`: in any queue a sender can reach, the handshake has left or is at the head |
| `SentAtMostOnce` | `TransportDelivery` | `OInv`: bytes not yet sent are in one place of one queue |
| `PendingAlwaysOwned` | `TransportDelivery` | `PInv`: two calls with one cid are never both unresolved |
| `NeverMisdelivered` | `TransportDelivery` | `DInv`: what is answered was sent, what is reassembled under a cid belongs to its holder |
| `ImplementsContract` | `TransportDelivery` | `DInv`, and each step moves at most one call, as a contract step or a stutter |
| `TypeCorrect` | `TokensProofs` | `TInv`: a pair somebody waits to use is there |
| `SpentOnce` | `TokensProofs` | `SInv`: who waits for the lock started from the pair the fallback still has, or will find a live one there; nobody holds a newer pair than the fallback |
| `DiskAlwaysFollows` | `TokensProofs` | `FInv`: unless jobs raced or one was cut, every job queued leaves on disk what `auth_state` holds, and with none queued it is there |
| `OneLoginOnly` | `TokensProofs` | `UInv`: every credential held, saved, asked for, answered or pushed is of one login, unless its login is `crossed` |
| `LogoutIsFinal` | `TokensProofs` | none needed: whatever sets a session is a login or a quit, or asks first whether somebody is logged in |
| `TypeCorrect` | `ConnectionProofs` | `TInv`: and the heartbeat reports under the generation it began |
| `OnlyGatewayConfirms` | `ConnectionProofs` | `CInv`: until its connection is open an attempt has heard nothing; from then on what it hears comes from its own connection |
| `NoWakeIsLost`, `AlwaysListens`, `StatusAlwaysSettles` | `ConnectionProofs` | `WInv`, with `TInv` and `CInv`: a manager that sleeps without a connection of the user has somebody on the way to wake it, whose turn ends in the wake-up (`Roused`, `Kick`); an open connection is the current generation's and has its loop (`Tended`); what is shown is behind only while somebody is about to show it (`Shown`) |
| `TypeCorrect` | `CallProofs` | `TypeOK` itself: its part `Coherent` ties phase, peer and engine |
| `TimerAlwaysArmed` | `CallProofs` | `TimerArmed` with the types |
| `LogAlwaysOfThisCall` | `CallProofs` | a log request of the generation in use asks for the engine in use; generations are never ahead of the store's |
| `CandidatesAlwaysKept`, `NoZombieEver` | `CallProofs` | `PInv`, with `IInv`: a signal carries what its sender's engine is or was (`Truthful`), and once an engine knows another, no signal of an earlier call is on the way between them (`Linked`, `Flushed`); then each candidate is at the peer or in a signal to it (`Carried`), and the other end of a call that is up is there or has said good-bye (`Answering`) |
| `RingsOnlyOnce`, `FewEnginesRingOnce` | `CallProofs` | `RInv`, with `IInv`: a session belongs to one user for ever (`Belongs`: an engine of theirs, an offer or answer on the way, a memory of it), and a session that has rung is remembered for some user; `Distinct`: no session is remembered twice |
| `TypeCorrect`, `DiskAlwaysNewest`, `RunningAlwaysLive`, `NothingForgotten`, `ClosesOnlyWhenTold`, `ListsGrow` | `UploadsProofs` | `IInv`: the last save under way is what the store holds; a task and its job agree on what is pending and finished up to the outcomes in the channel; a message lists nothing its task or its job does not count as finished |
| `NoSpinnerEverLeft`, `NothingEverStuck` | `UploadsProofs` | `JInv`, relative to `IInv`: an uploading file is in its task's hands; an idle unfinished job of the viewer is one the pending restore will find, in the file and in every save on its way there |
| `TypeCorrect`, `NothingEverHangs`, `NoGhostEver` | `TimelineProofs` | `IInv`: `Steady`, of a store and the answers it may expect: a loading channel waits for the page of its own generation, and fetches, events and sends name messages that exist |
| `NoTwinEver`, `WindowBounded` | `TimelineProofs` | `OInv`, with `IInv`: sends are served and answered in the order they were made (`SendsInTurn`, `LogBefore`), an answer says what the log says and none ahead of the answer to a send brings a later one (`Told`); rows have distinct ids and places, and no row is being sent whose message is there (`Neat`) |

The shape is the same everywhere: `Init => Inv`, `Inv /\ [Next]_vars => Inv'`
with one step per action, `Inv => property`, and one temporal step. Types alone
are seldom inductive: an action takes something out of a place that is empty at
other times, or computes a number that is a member only because of where another
process is. Those facts are the named parts next to the types. Each strengthened
invariant was checked with TLC before it was proved.

`SpentOnce` assumes `Alone`: nobody logs out, the server pushes no tokens, and
no token expires in the middle of an await. All three are needed: TLC breaks
`NeverSpentTwice` without any of them. `OneLoginOnly` and `DiskAlwaysFollows` assume
nothing beyond the constants: what the code leaves open is in the properties
themselves, as the exceptions `crossed`, `raced` and `cut`.
`OnlyGatewayConfirms` assumes `~Stalls`,
not the absence of overlaps: with a dispatcher held up for a round trip, an event
of the connection before counts as the new attempt's acceptance, since the ack
channel carries no generation (`connection.rs:832`).

Every property of `UploadRestarts` is proved, so the sizes of that run bound
nothing that is claimed of `Uploads`. Only what the module itself assumes does
(`AtRest`, and that a user sends after the file was read). `NoSpinnerLeft` and
`NothingStuck` need the second invariant, because a job may be in memory without
being in the file, and the restore that is under way sees the file alone.

`NoWakeIsLost`, `AlwaysListens` and `StatusAlwaysSettles` assume `~Stalls` and
`~Overlaps`: nobody is held up for as long as a whole round trip, and the user does
not change the server during an attempt. Neither can go: `ConnectionDeaf` shows
`Listens` broken by a change of server, and section 6 describes the stall. The three
are about a manager at rest (`AtRest`), in the middle of an attempt nothing is claimed. The
argument is about who is left to wake it. A `Notify` keeps one permit, so a wake-up
is lost only if nobody is going to give one: `Kick` lists who is (the heartbeat that
has given up, the reconnect task, the callback of a loop that ended under the current
generation, a login not yet announced), and every step that ends one of them either
wakes the manager or leaves a connection open. `Unmasked` and `Undivided` say that
a close under way and an attempt under way are never both about the same connection.

`CandidatesAlwaysKept` assumes `IceFits`, that an engine gathers no more candidates
than the buffer holds (`MAX_PENDING_ICE`, 128, `call.rs:31`): the caller drops those
beyond it. `NoZombieEver` assumes `OneDevice`, one device for each user: with two,
the one that lost the race ends the call of the other (section 6). Both hold
as long as no signal was lost, which the properties say themselves. The
difficult part is an engine's number: generations are a device's own, so a signal
that comes late is told from one of this call only because `Flushed` says that none of an
earlier call is on the way once the two engines know one another.

`RingsOnlyOnce` assumes that no step makes a store drop a session (`Remembers`): it
remembers `MAX_KNOWN_PEER_SESSIONS` (8, `call.rs:32`) of them and gives up the oldest,
and an offer repeated after that rings again, so the property does not hold without a bound.
`FewEnginesRingOnce` has the bound instead of the assumption: as long as no more engines were
started than a store remembers sessions, the sessions it knows are different ones of
these, so there is room for one it does not know (`Room`). What the proof adds is
that the user remembered with a session is the user of the offer: a store looks for the pair,
and the history `rung` has the session alone.

`TimelineProofs` says of every method of the store, and of every answer, that it
leaves a steady store steady. `TypeCorrect`, `NothingEverHangs` and `NoGhostEver` use
none of the assumptions about the world of section 4; `TypeCorrect` is about `Typed`, which
is `TypeOK` without its two bounds. `NoTwinEver` and `WindowBounded` assume `InOrder`.
The server answers one socket in the order it is asked (section 4), and
without an order an echo can replace the row of another send with the same text,
whose own answer then finds no row and adds a second one. With the order, the first
row with the text of the echo is the echo's own (`EchoFindsRow`), so an answer always
finds what it is about. The cap rests on the same fact: `trim_messages` counts the
rows that come after a row, so two rows with one sort key would both stay
(`KeysDiffer`, `TrimFits`). The rest of `OInv` is the order itself, carried through
every queue by `TurnKept` (the store takes an answer or asks for more) and
`TurnServed` (the server answers or writes).

Only model-checked: the liveness properties (`KeepsContract`'s liveness part,
`MintReachesDisk`, `Recovers`), which are beyond the prover, as is everything
about ENABLED; and `RestsCurrent` and `LiveJoins` of `Timeline`, whose inductive
invariant would have to follow every page and event under way. Every other safety
property of a passing run is also proved.

## 6. Disagreements and observations

### With the documentation

Each is a run that TLC refutes; `PROJECT.json` "findings" quotes both sides.

* `TokensLogoutSpent`: `transport.rs:773` promises that a refresh token can never
  be spent twice. A logout empties `http_fallback`, which is the only place the
  next in line for the lock looks for a live pair, so it posts the token the
  first has just spent.
* `TokensDeadSession`: `login.rs:275` drops the stored session before anything
  else so that a quit leaves nothing to replay. A save queued earlier may run
  after the clear and write the session back.
* `ConnectionDeaf`: a change of server during an attempt. `reconnect()` retires
  the generation and its close finds no I/O loop to stop yet; the attempt is
  confirmed under a retired generation, so its close callback stays quiet and the
  manager sleeps over a dead socket that the app shows as connected.
* `TimelineDirect`: `messages.rs:16155` says, in a test, that a live message must
  not be sewn onto a window detached from the tail. `set_channel` records the newest
  id of a page as the tail only if none is known (`messages.rs:9053`), so the page
  fetched after lost events leaves the old tail standing. For the clan's channels the
  badges correct it, for a direct message nothing does. A jump whose page holds the
  old tail then counts as being at the end, and the next live message is joined to
  it, with a hole in between that cannot be loaded.

### Observations

Seen while the modules were written. Most are not spoken of in any document; where a
comment of the code says otherwise it is quoted. None is a run of its own. Each names
what in the model, or in a property, keeps it apart, if anything does.

*Transport* (`mezon-client/src/transport.rs`, `abridged_tcp_adapter.rs`).

* An answer over the size cap is logged as "failing request"
  (`abridged_tcp_adapter.rs:597`), but nothing on the way to the caller treats
  `RESPONSE_CODE_TOO_LARGE` as a failure: `complete_api_request` (4473) returns it as
  a success with an empty body, and it is left to each method of the API to look at
  the code. `RpcContract` has it as a third kind of result.

*Session credentials* (`mezon-store/src/connection.rs`).

* A comment at 1434 says of the save after a renewal "Awaited, not detached: quitting
  inside this window would otherwise leave the file holding a refresh token the server
  has already rotated away". The timeout of `refresh_jwt_within` (1846) drops that
  await, and with it a save that has not begun. `auth_state` holds the pair by then, so
  the token watch (1125) finds it already adopted and does not save it either: the file
  keeps the spent token until the next save. `cut` records it.
* What is under way at a logout is not stopped before the manager is at the top of its
  loop (350), and neither `WatchAdopt` (1116) nor the handler of a pushed refresh (1302)
  asks whose credentials it applies: after a quick login of another user they go into
  that user's session. `crossed` records it.
* `set_http_fallback` compares JWTs only. A push that carries a JWT without a refresh
  token makes the manager re-arm the fallback with a newer JWT and the refresh token
  of its snapshot, which a send may have spent meanwhile. `TokensRotation` has no
  pushes.
* Two detached saves queued together may run in either order, so an older session
  may stay on disk. `raced` records it.

*Calls* (`mezon-store/src/call.rs`).

* Of two devices that ring, the one that lost the race may still send `QUIT` (it
  accepted) or `TIMEOUT` (its ring ran out 30 s after the call began). The caller
  takes either for the callee's and ends a call that the other device has just
  answered; that one is left connected to nobody. One device per user in the run.
* A signal is not tied to a call beyond its sender, so `QUIT`, `ANSWER` and `OFFER`
  that arrive a call late count for the next: it is ended, its engine is given the
  answer, or a new call is taken for a renegotiation and answered without a ring.
  `Deliverable` excludes the delays this takes.
* A late terminal log, or a `CANCEL_CALL` without a session, dismisses the next
  ring of the same peer. This is in the run; no property forbids it.
* Once a call was up, `Disconnected` and `Failed` do nothing: if the `QUIT` is lost,
  the other end talks on until its user hangs up. Hence `lost = 0` in `NoZombie`.
* Two users who call each other at once drop each other's offers and both time out.
* `accept` takes the offer before it asks for the account; without an account the
  call rings on and cannot be accepted any more.

*Upload jobs* (`mezon-store/src/messages.rs`, `upload_jobs.rs`).

* The restore takes the jobs it resumes out of the store and saves; each comes
  back when its message has been read again, a round trip later. A quit in between
  loses them from the file too. `NeverForgotten` speaks of one process.
* A save before the file was read (a send within milliseconds of the login)
  replaces what the file held. `AtRest` and the guard of `Send` exclude it.
* The user for whom the file is read is captured before the read; a change of user
  within it restores the jobs for the wrong one. `AtRest` excludes it.
* Jobs go on after a logout, with the transport of whoever is logged in.
* A resumed job whose message was deleted is discarded before it is in the store:
  its files are not settled in the registry and stay "uploading". `NoSpinnerLeft`
  excepts deleted messages for this reason.
* A second login of the same process reads the file again: it can replace a job in
  memory by an older version of it, or resume one that was completed while its
  last save failed. `fromFile` and `lostWrite` mark what is concerned.
* A patch carries the text of the message as it was sent, and overwrites an edit
  made while the files were uploading; after a crash a resumed job may patch a
  shorter list than the server has, so `Cumulative` excepts jobs from the file.

*Connection* (`mezon-store/src/connection.rs`).

* A comment at line 119 says that a callback of an older attempt stays quiet, "so a
  socket that dies while its successor is already up cannot mark the new one
  disconnected". The close callback compares generations once (847) and acts in several
  steps; held up in between for as long as a whole connect takes, it marks the
  successor, and TLC breaks `StatusSettles` with `Stalls` TRUE. The runs have it
  FALSE, and claim nothing of delays of that length.

*Messages* (`mezon-store/src/messages.rs`).

* `apply_initial_fetch_result` frees the slot of the latest fetch when the newest one
  settles. An older page that lands after it finds the slot empty and replaces the
  newer rows. `InOrder` excludes it.
* A page asked for before a resync and landing after it in a channel that was left
  makes the entry fresh again, without what was lost. In a clan the badges come after
  it and tell the tail.
* `load_more` refuses a second page while one is out: "Guard against duplicate fetches
  while one is already in flight" (2185). `activate` of a fresh channel clears the flag
  while a page asked for in the last visit is still on its way, so the guard then lets
  a second one out. If the first was a page around a message, it replaces the window,
  and the second is joined to a row that is not there any more: a hole. If both are
  the same older page, the second adds nothing and `has_more` is cleared. If both are
  the same newer page, the second is empty and `reconciled_tail_after_empty_page` sets
  the recorded tail back to the row it was asked for: the window counts as being
  elsewhere than it is until the next event or resync. The last is in `Confuses`; of
  the first two no property speaks.
* A page that was superseded is stored after all when the cache has dropped the
  channel meanwhile, as a page is passed over only while there are rows to keep.
* After a resync a page can land before the badges. A window that ends at the old
  tail is then taken for detached, or, after a jump, one that holds the old tail for
  the newest: a live message is joined to it over a gap until the badges are back.
  `LiveJoins` waits for the badges. A page of newer messages asked for in that time is
  joined to rows that live messages may have pushed out.
* The user sends, then scrolls up before the answer. A message of somebody else moves
  the tail only; the answer then replaces the row and becomes the tail itself, and
  what lies between is not looked for: a hole above the user's own message. No
  property forbids holes inside a window.
* A page of older messages is joined to the first row of the window as it is when the
  page lands. If events have trimmed that row away meanwhile, a hole stays. It takes
  a full window that is left, or read at its end, with a page on the way.
* If every attempt at a join or at the badges fails, events do not come, or the tails
  stay old, until the next resync. `doubt` records it.
* `load_more_bottom` asks for nothing while the last row has no id: a failed row at the
  end of a window that is not at the tail keeps the rest of the channel from being
  loaded by scrolling.
* `push_grouped` trims the oldest row without setting `has_more`. With the whole
  history loaded, the first message past the cap makes the oldest one unreachable
  until the channel is loaded again.
* A row being sent, or failed, at the end of the window keeps the recorded tail from
  advancing with live messages that come before it in the order. The second half of
  `Confuses`.
* `finish_loading_more` clears the guard of the open channel even when the answer is
  another's, so a second page can be asked for while the first is out. One channel in
  the model.
* The deletion of the tail while the user reads above takes the last id with it;
  deletions are left out of the model.
* A reset forgets which fetch is the latest, so a page asked for by the user before
  may be stored for the next; logouts are left out of the model.
* The connection watch keeps only the latest status: a loss and a return between two
  looks at it are one unchanged value, and no resync follows.

## 7. What is not modelled

* In the modelled parts. `Transport`: the encoding of requests, backpressure of
  the socket itself, TLS. `SessionTokens`: the pacing of refreshes, `id_token`,
  the signup without a username, importing an older session file.
  `Connection`: the ladder of credentials an attempt goes through when the
  gateway refuses it, and the probe that ends in a logout; the values of delays
  and pacing (a delay is a step that may take any time); the identity of nodes.
  `Call`, `Uploads` and `Timeline`: as section 2 says, and the media of a call.
* Not yet: topics, edits and deletions of messages, their unread counts; caches,
  clan loading, voice reconnects (section 8). The hazards of these parts are listed with a note.
* Not planned: media pipelines, native integration, disk caches, views, CLI and
  MCP server, generated and vendored code: data and platform I/O rather than
  control.

## 8. Plan

In this order, the most important behaviour first.

1. *Done:* `Transport` with `RpcContract`, `SessionTokens`, `Connection`, `Call`,
   `Uploads`, `Timeline`, and the theorems of section 5.
2. A proof of `LiveJoins` and `RestsCurrent` of `Timeline`.
3. `RefreshPacer` and the credential ladder, as an extension of `Connection`:
   refused session_ids and JWTs, the hold, the probe that ends in a logout.
   Abstract specification: a session is given up only after the server said it is
   gone. Properties: a probe never logs out another user's new login; no more
   refreshes than the pacing allows.
4. `KeyedCache`, checked against a reference LRU over bounded inputs, with the
   operator lemmas proved; `ClanLoad`, generation-guarded stages, with a proof
   that only the last selection's stages apply.
5. `Timeline`: deletions, topics, the reset at logout
   and a second channel whose answers come late; abstract specification: a window
   is a contiguous piece of the server's log plus the rows still being sent.
6. A composition of `Connection` with `Transport` through the shared adapter.

Recursive definitions stay out of the modules to be proved about.

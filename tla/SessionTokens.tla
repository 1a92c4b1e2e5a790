---------------------------- MODULE SessionTokens ----------------------------
(***************************************************************************)
(* The credentials of a login and everyone who replaces them: the HTTP      *)
(* fallback, which mints a token pair when its JWT has expired              *)
(* (mezon-client/src/transport.rs), the connection manager, which rotates   *)
(* the pair and asks the gateway for a session_id, the watch that adopts    *)
(* what the fallback minted, the events the server pushes                   *)
(* (mezon-store/src/connection.rs), and the background jobs that write the  *)
(* session to disk (keychain.rs).                                           *)
(*                                                                         *)
(* The manager, the watch, the pushes, login and logout run on the main     *)
(* thread, in steps that end where the code awaits; minters run on the      *)
(* tokio workers and jobs on the background pool, in no order of their own. *)
(*                                                                         *)
(* Credentials are numbered in the order the servers mint them: a later JWT *)
(* expires later.                                                           *)
(***************************************************************************)
EXTENDS Naturals, FiniteSets

CONSTANTS
    Sends,       \* calls that go over HTTP, each of which may have to mint
    Rotations,   \* calls of renew_fallback_token by the manager
    MaxMints,    \* bound on the credentials ever minted
    MaxLogins,   \* bound on the logins, each of which is another user's
    MaxQuits,    \* bound on the times the app is quit and started again
    Pushes,      \* what a pushed refresh carries besides a session_id
    Gateway,     \* whether the gateway is asked for session_ids
    Logouts,     \* whether the user logs out
    Suspends,    \* whether the machine may sleep in the middle of anything
    NoSession

ASSUME TokensAssumption ==
    /\ Sends \cap Rotations = {} /\ "free" \notin Sends \cup Rotations
    /\ MaxMints \in Nat /\ MaxLogins \in Nat /\ MaxQuits \in Nat
    /\ Pushes \subseteq {"jwt", "pair"}
    /\ Gateway \in BOOLEAN /\ Logouts \in BOOLEAN /\ Suspends \in BOOLEAN

Minters  == Sends \cup Rotations
Mints    == 1 .. MaxMints
Logins   == 1 .. MaxLogins
Sessions == [jwt : Mints, refresh : Mints, sid : Mints]
Pairs    == [jwt : Mints, refresh : Mints]
Savers   == {"login", "push", "watch", "manager", "gateway"}

Pushed   == [jwt : Mints, refresh : 0 .. MaxMints, sid : Mints]

ASSUME NoSessionAssumption == NoSession \notin Sessions \cup Pairs \cup Pushed

VARIABLES
    auth,        \* the session auth_state holds, or NoSession
    fallback,    \* MezonTransport.http_fallback
    lock,        \* who holds fallback_refresh_lock
    minter,      \* where each minting call is
    stale,       \* the fallback session it started from
    answer,      \* the pair the server minted for it; 0: none
    published,   \* the renewed_tokens watch channel ...
    unseen,      \* ... and whether the token watch has yet to look at it
    watcher,     \* the token watch: waiting for a change, or for its save
    mgr,         \* where the manager is in its loop
    snap,        \* its local copy of the session
    rotation,    \* the renewal it waits for, and where it goes next
    asked,       \* the session_id the gateway mints for it; 0: none
    jobs,        \* background jobs: keychain saves, and the clear of a logout
    disk,        \* the stored session
    raced,       \* jobs with different effects have been queued at once
    cut,         \* the last save of auth was cancelled before it ran
    linked,      \* the login whose connection may deliver events; 0: none
    push,        \* a refresh_session_event on its way; NoSession: none
    minted,      \* how many credentials the servers have minted
    owner,       \* the login each one belongs to
    usable,      \* the refresh token the server accepts, per login; 0: none
    revoking,    \* the logins whose SessionLogout is under way
    expired,     \* JWTs up to this number have expired
    superseded,  \* refresh tokens this run was given a replacement for
    crossed,     \* logins whose credentials met in one session
    quits

saveVars    == <<jobs, raced, cut>>
sessionVars == <<auth, saveVars, disk>>
tokenVars   == <<fallback, published, unseen, watcher>>
mintVars    == <<lock, minter, stale, answer>>
mgrVars     == <<mgr, snap, rotation, asked>>
serverVars  == <<linked, push, minted, owner, usable, revoking, expired>>
historyVars == <<superseded, crossed, quits>>
vars == <<sessionVars, tokenVars, mintVars, mgrVars,
          serverVars, historyVars>>

User(s) == owner[s.jwt]
Expired(s) == s.jwt <= expired
LoggedIn == auth # NoSession
Live == fallback # NoSession /\ ~Expired(fallback)
\* Session::apply_refresh with an empty session_id.
Apply(s, pair) == [s EXCEPT !.jwt = pair.jwt, !.refresh = pair.refresh]
\* What a job leaves on disk.
Effect(j) == IF j.by = "logout" THEN NoSession ELSE j.session
\* Queue jobs that all leave the same on disk.
Queue(new) ==
    /\ jobs' = jobs \cup new
    /\ raced' = (jobs # {} /\ (raced \/ \E j \in jobs, k \in new :
                                           Effect(j) # Effect(k)))
    /\ cut' = FALSE
Save(by, s) == Queue({[by |-> by, session |-> s]})
Saving(by) == \E j \in jobs : j.by = by
NoRotation == [call |-> "none", next |-> "top", before |-> NoSession]
\* A credential of login l goes into session s of whoever is logged in.
Meets(l, s) == IF User(s) = l THEN {} ELSE {l, User(s)}

Init ==
    /\ auth = NoSession /\ fallback = NoSession
    /\ lock = "free"
    /\ minter = [m \in Minters |-> "idle"]
    /\ stale = [m \in Minters |-> NoSession]
    /\ answer = [m \in Minters |-> 0]
    /\ published = NoSession /\ unseen = FALSE /\ watcher = "wait"
    /\ mgr = "top" /\ snap = NoSession /\ rotation = NoRotation /\ asked = 0
    /\ jobs = {} /\ disk = NoSession
    /\ raced = FALSE /\ cut = FALSE
    /\ linked = 0 /\ push = NoSession
    /\ minted = 0
    /\ owner = [v \in Mints |-> 0]
    /\ usable = [l \in Logins |-> 0]
    /\ revoking = {}
    /\ expired = 0
    /\ superseded = {}
    /\ crossed = {}
    /\ quits = 0

\* The servers mint the next credential, for login l.
Mint(l) ==
    /\ minted < MaxMints
    /\ minted' = minted + 1
    /\ owner' = [owner EXCEPT ![minted + 1] = l]

------------------------------------------------------------------------------
(* Minting a pair for the HTTP fallback: refresh_fallback_token.            *)

MintBegin(m) ==
    /\ minter[m] = IF m \in Sends THEN "idle" ELSE "begin"
    /\ \/ /\ fallback # NoSession
          /\ m \in Rotations \/ Expired(fallback)
          /\ stale' = [stale EXCEPT ![m] = fallback]
          /\ minter' = [minter EXCEPT ![m] = "lock"]
       \/ /\ m \in Rotations
          /\ fallback = NoSession
          /\ minter' = [minter EXCEPT ![m] = "failed"]
          /\ UNCHANGED stale
    /\ UNCHANGED <<sessionVars, tokenVars, lock, answer, mgrVars, serverVars,
                   historyVars>>

\* Behind the lock, a pair that somebody else minted meanwhile is used ...
MintReuse(m) ==
    /\ minter[m] = "lock" /\ lock = "free"
    /\ Live
    /\ stale' = [stale EXCEPT ![m] = fallback]
    /\ minter' = [minter EXCEPT ![m] = "done"]
    /\ UNCHANGED <<sessionVars, tokenVars, lock, answer, mgrVars, serverVars,
                   historyVars>>

\* (mutant) what was read before the lock is not looked at again
MintPostUnchecked(m) ==
    /\ minter[m] = "lock" /\ lock = "free"
    /\ lock' = m
    /\ minter' = [minter EXCEPT ![m] = "post"]
    /\ UNCHANGED <<sessionVars, tokenVars, stale, answer, mgrVars, serverVars,
                   historyVars>>

\* ... or else the refresh token it started from is sent.
MintPost(m) ==
    /\ minter[m] = "lock" /\ lock = "free"
    /\ ~Live
    /\ lock' = m
    /\ minter' = [minter EXCEPT ![m] = "post"]
    /\ UNCHANGED <<sessionVars, tokenVars, stale, answer, mgrVars, serverVars,
                   historyVars>>

\* The server spends the refresh token and mints its successor.
ServerMints(m) ==
    /\ minter[m] = "post" /\ answer[m] = 0
    /\ LET l == owner[stale[m].refresh] IN
         /\ usable[l] = stale[m].refresh
         /\ Mint(l)
         /\ usable' = [usable EXCEPT ![l] = minted + 1]
    /\ answer' = [answer EXCEPT ![m] = minted + 1]
    /\ UNCHANGED <<sessionVars, tokenVars, lock, minter, stale, mgrVars,
                   linked, push, revoking, expired, historyVars>>

\* A refusal, a throttle, a network error or a timeout: before or after the
\* server acted.
MintFails(m) ==
    /\ minter[m] = "post"
    /\ minter' = [minter EXCEPT ![m] = "failed"]
    /\ lock' = "free"
    /\ UNCHANGED <<sessionVars, tokenVars, stale, answer, mgrVars, serverVars,
                   historyVars>>

\* The answer replaces the fallback and is published, whatever happened to the
\* session meanwhile.
MintDone(m) ==
    /\ minter[m] = "post" /\ answer[m] # 0
    /\ LET pair == [jwt |-> answer[m], refresh |-> answer[m]] IN
         /\ fallback' = pair
         /\ published' = pair
         /\ stale' = [stale EXCEPT ![m] = pair]
    /\ unseen' = TRUE
    /\ superseded' = superseded \cup {stale[m].refresh}
    /\ minter' = [minter EXCEPT ![m] = "done"]
    /\ lock' = "free"
    /\ UNCHANGED <<sessionVars, watcher, answer, mgrVars, serverVars, crossed,
                   quits>>

MinterStep(m) ==
    \/ MintBegin(m) \/ MintReuse(m) \/ MintPost(m) \/ ServerMints(m)
    \/ MintFails(m) \/ MintDone(m)

------------------------------------------------------------------------------
(* The token watch.                                                         *)

\* Adopt what the fallback minted and save the session, awaiting the save.
WatchAdopt ==
    /\ watcher = "wait" /\ unseen
    /\ unseen' = FALSE
    /\ IF LoggedIn /\ auth.jwt # published.jwt
         THEN /\ auth' = Apply(auth, published)
              /\ Save("watch", Apply(auth, published))
              /\ crossed' = crossed \cup Meets(User(published), auth)
              /\ watcher' = "saving"
         ELSE UNCHANGED <<auth, saveVars, crossed, watcher>>
    /\ UNCHANGED <<disk, fallback, published, mintVars, mgrVars, serverVars,
                   superseded, quits>>

\* (mutant) what was published during the save is taken for seen
WatchSavedAndSeen ==
    /\ watcher = "saving" /\ ~Saving("watch")
    /\ watcher' = "wait"
    /\ unseen' = FALSE
    /\ UNCHANGED <<sessionVars, fallback, published, mintVars, mgrVars,
                   serverVars, historyVars>>

WatchSaved ==
    /\ watcher = "saving" /\ ~Saving("watch")
    /\ watcher' = "wait"
    /\ UNCHANGED <<sessionVars, fallback, published, unseen, mintVars,
                   mgrVars, serverVars, historyVars>>

------------------------------------------------------------------------------
(* The manager's loop, as far as it touches credentials.                    *)

\* set_http_fallback(Some(..)): an older JWT does not displace a newer one.
Arm(s) == IF fallback # NoSession /\ s.jwt < fallback.jwt
            THEN fallback
            ELSE [jwt |-> s.jwt, refresh |-> s.refresh]

Top ==
    /\ mgr = "top"
    /\ snap' = auth
    /\ IF LoggedIn
         THEN mgr' = "report" /\ UNCHANGED <<fallback, linked>>
         ELSE fallback' = NoSession /\ linked' = 0 /\ UNCHANGED mgr
    /\ UNCHANGED <<sessionVars, published, unseen, watcher, mintVars,
                   rotation, asked, push, minted, owner, usable, revoking,
                   expired, historyVars>>

ArmFromSnapshot ==
    /\ \/ mgr = "report" /\ mgr' = "ladder"
       \/ mgr = "rearm" /\ mgr' = "top"
    /\ fallback' = Arm(snap)
    /\ UNCHANGED <<sessionVars, published, unseen, watcher, mintVars, snap,
                   rotation, asked, serverVars, historyVars>>

\* Nothing to renew: wait for a wake-up, or go and connect, which retires the
\* connection there was, and re-arm the fallback once the handshake is
\* confirmed.
Ladder ==
    /\ mgr = "ladder"
    /\ \/ mgr' = "top" /\ linked' \in {linked, 0}
       \/ mgr' = "rearm" /\ linked' \in {owner[snap.sid], User(snap)}
    /\ UNCHANGED <<sessionVars, tokenVars, mintVars, snap, rotation, asked,
                   push, minted, owner, usable, revoking, expired,
                   historyVars>>

\* refresh_jwt_for_fallback: for a gateway report, before a handshake that
\* needs the JWT, or once a handshake is confirmed.
Rotate ==
    /\ mgr \in {"report", "ladder"}
    /\ \E m \in Rotations :
         /\ minter[m] = "idle"
         /\ minter' = [minter EXCEPT ![m] = "begin"]
         /\ rotation' = [call |-> m, next |-> mgr, before |-> snap]
    /\ mgr' = "rotating"
    /\ UNCHANGED <<sessionVars, tokenVars, lock, stale, answer, snap, asked,
                   serverVars, historyVars>>

\* (mutant) what is saved is the local copy
RenewSavesSnapshot ==
    /\ mgr = "rotating"
    /\ minter[rotation.call] = "done"
    /\ LET pair == stale[rotation.call] IN
         IF LoggedIn /\ User(auth) = User(pair)
           THEN /\ auth' = Apply(auth, pair)
                /\ snap' = Apply(auth, pair)
                /\ Save("manager", Apply(snap, pair))
                /\ mgr' = "saving"
                /\ UNCHANGED rotation
           ELSE /\ snap' = Apply(snap, pair)
                /\ mgr' = rotation.next /\ rotation' = NoRotation
                /\ UNCHANGED <<auth, saveVars>>
    /\ UNCHANGED <<disk, tokenVars, mintVars, asked, serverVars, historyVars>>

\* The pair goes into the session auth_state holds now, unless that is no
\* longer the same user's, and the result is saved, awaited.
RenewApply ==
    /\ mgr = "rotating"
    /\ minter[rotation.call] = "done"
    /\ LET pair == stale[rotation.call] IN
         IF LoggedIn /\ User(auth) = User(pair)
           THEN /\ auth' = Apply(auth, pair)
                /\ snap' = Apply(auth, pair)
                /\ Save("manager", Apply(auth, pair))
                /\ mgr' = "saving"
                /\ UNCHANGED rotation
           ELSE /\ snap' = Apply(snap, pair)
                /\ mgr' = rotation.next /\ rotation' = NoRotation
                /\ UNCHANGED <<auth, saveVars>>
    /\ UNCHANGED <<disk, tokenVars, mintVars, asked, serverVars, historyVars>>

\* The renewal failed: the session is what it was.
RenewFails ==
    /\ mgr = "rotating"
    /\ minter[rotation.call] = "failed"
    /\ mgr' = rotation.next /\ rotation' = NoRotation
    /\ UNCHANGED <<sessionVars, tokenVars, mintVars, snap, asked, serverVars,
                   historyVars>>

\* For a report it took longer than its timeout, whatever it was waiting for:
\* the call itself goes on, a save that has not started is cancelled, and the
\* manager carries on with the session it had.
RenewTimesOut ==
    /\ mgr \in {"rotating", "saving"} /\ rotation.next = "report"
    /\ mgr' = "report" /\ rotation' = NoRotation
    /\ snap' = rotation.before
    /\ \/ /\ mgr = "saving" /\ Saving("manager")
          /\ jobs' = {j \in jobs : j.by # "manager"}
          /\ cut' = TRUE
          /\ UNCHANGED raced
       \/ UNCHANGED saveVars
    /\ UNCHANGED <<auth, disk, tokenVars, mintVars, asked, serverVars,
                   historyVars>>

ManagerSaved ==
    /\ mgr = "saving" /\ ~Saving("manager")
    /\ mgr' = rotation.next /\ rotation' = NoRotation
    /\ UNCHANGED <<sessionVars, tokenVars, mintVars, snap, asked, serverVars,
                   historyVars>>

\* GetHealthyEndpoint, as a report or to remint a refused session_id.
Ask ==
    /\ Gateway
    /\ mgr = "report" \/ (mgr = "ladder" /\ ~Expired(snap))
    /\ mgr' = IF mgr = "report" THEN "reporting" ELSE "reminting"
    /\ Mint(User(snap))
    /\ asked' = minted + 1
    /\ UNCHANGED <<sessionVars, tokenVars, mintVars, snap, rotation, linked,
                   push, usable, revoking, expired, historyVars>>

Asking == {"reporting", "reminting"}

\* (mutant) whose session it is by now is not looked at
MovesAnyUser ==
    /\ mgr = "reporting" /\ LoggedIn
    /\ auth' = [auth EXCEPT !.sid = asked]
    /\ snap' = auth'
    /\ Save("gateway", auth')
    /\ mgr' = "report" /\ asked' = 0
    /\ UNCHANGED <<disk, tokenVars, mintVars, rotation, serverVars,
                   historyVars>>

\* (mutant) the local copy comes back as the session
MovesSnapshot ==
    /\ mgr = "reporting"
    /\ auth' = [snap EXCEPT !.sid = asked]
    /\ snap' = auth'
    /\ Save("gateway", auth')
    /\ mgr' = "report" /\ asked' = 0
    /\ UNCHANGED <<disk, tokenVars, mintVars, rotation, serverVars,
                   historyVars>>

\* apply_healthy_endpoint_to_auth: an answer is for the user it was asked for.
ForSameUser == LoggedIn /\ User(auth) = User(snap)

\* The gateway moves the client to another node, with a session_id for it: the
\* connection to the one it leaves is retired ...
GatewayMoves ==
    /\ mgr = "reporting" /\ ForSameUser
    /\ auth' = [auth EXCEPT !.sid = asked]
    /\ snap' = auth'
    /\ Save("gateway", auth')
    /\ mgr' = "report" /\ asked' = 0
    /\ linked' = 0
    /\ UNCHANGED <<disk, tokenVars, mintVars, rotation, push, minted, owner,
                   usable, revoking, expired, historyVars>>

\* ... or leaves it where it is: the session_id in use is kept.
GatewayKeeps ==
    /\ mgr = "reporting" /\ ForSameUser
    /\ snap' = auth
    /\ Save("gateway", auth)
    /\ mgr' = "top" /\ asked' = 0
    /\ UNCHANGED <<auth, disk, tokenVars, mintVars, rotation, serverVars,
                   historyVars>>

\* A refused session_id is replaced on any node, saved by a detached job and
\* once more by one the manager waits for.
GatewayRemints ==
    /\ mgr = "reminting" /\ ForSameUser
    /\ LET s == [auth EXCEPT !.sid = asked] IN
         /\ auth' = s /\ snap' = s
         /\ Queue([by : {"gateway", "manager"}, session : {s}])
         /\ fallback' = Arm(s)
    /\ rotation' = [NoRotation EXCEPT !.next = "ladder"]
    /\ mgr' = "saving" /\ asked' = 0
    /\ linked' = 0
    /\ UNCHANGED <<disk, published, unseen, watcher, mintVars, push, minted,
                   owner, usable, revoking, expired, historyVars>>

\* An error, a stale report, or a session that is another user's by now.
AskFails ==
    /\ mgr \in Asking
    /\ mgr' \in {"top", IF mgr = "reporting" THEN "report" ELSE "ladder"}
    /\ asked' = 0
    /\ UNCHANGED <<sessionVars, tokenVars, mintVars, snap, rotation,
                   serverVars, historyVars>>

ManagerStep ==
    \/ Top \/ ArmFromSnapshot \/ Ladder \/ Rotate \/ RenewApply
    \/ RenewFails \/ RenewTimesOut \/ ManagerSaved \/ Ask
    \/ GatewayMoves \/ GatewayKeeps \/ GatewayRemints \/ AskFails

------------------------------------------------------------------------------
(* The server's pushes, login, logout, the background pool, time.           *)

\* A handshake makes the server push a new session_id, with a JWT, or with a
\* whole pair, to the login whose connection it is.  0 stands for an empty
\* field.  Bound: one event under way.
ServerPush ==
    /\ linked # 0 /\ push = NoSession
    /\ Mint(linked)
    /\ \/ /\ "jwt" \in Pushes
          /\ push' = [jwt |-> minted + 1, refresh |-> 0, sid |-> minted + 1]
          /\ UNCHANGED usable
       \/ /\ "pair" \in Pushes
          /\ push' = [jwt |-> minted + 1, refresh |-> minted + 1,
                      sid |-> minted + 1]
          /\ usable' = [usable EXCEPT ![linked] = minted + 1]
    /\ UNCHANGED <<sessionVars, tokenVars, mintVars, mgrVars, linked, revoking,
                   expired, historyVars>>

\* The connection is lost, or its generation retired, before the event is
\* published to the stores.
PushLost ==
    /\ push # NoSession
    /\ push' = NoSession
    /\ UNCHANGED <<sessionVars, tokenVars, mintVars, mgrVars, linked, minted,
                   owner, usable, revoking, expired, historyVars>>

\* (mutant) an empty field of the event replaces what the session holds
PushArrivesWhole ==
    /\ push # NoSession
    /\ push' = NoSession
    /\ IF LoggedIn
         THEN auth' = push /\ Save("push", push)
         ELSE UNCHANGED <<auth, saveVars>>
    /\ UNCHANGED <<disk, tokenVars, mintVars, mgrVars, linked, minted, owner,
                   usable, revoking, expired, historyVars>>

\* Applied in the order of arrival to the session that is held by then, and
\* saved by a detached job.
PushArrives ==
    /\ push # NoSession
    /\ push' = NoSession
    /\ LET s == [jwt |-> push.jwt, sid |-> push.sid,
                 refresh |-> IF push.refresh = 0 THEN auth.refresh
                                                 ELSE push.refresh] IN
         IF LoggedIn
           THEN /\ auth' = s /\ Save("push", s)
                /\ crossed' = crossed \cup Meets(User(push), auth)
           ELSE UNCHANGED <<auth, saveVars, crossed>>
    /\ superseded' = IF LoggedIn /\ push.refresh # 0
                       THEN superseded \cup {auth.refresh} ELSE superseded
    /\ UNCHANGED <<disk, tokenVars, mintVars, mgrVars, linked, minted, owner,
                   usable, revoking, expired, quits>>

Login ==
    /\ ~LoggedIn
    /\ \E l \in Logins :
         /\ \A k \in 1 .. l - 1 : \E v \in Mints : owner[v] = k
         /\ \A v \in Mints : owner[v] # l
         /\ Mint(l)
         /\ usable' = [usable EXCEPT ![l] = minted + 1]
    /\ LET s == [jwt |-> minted + 1, refresh |-> minted + 1,
                 sid |-> minted + 1] IN
         auth' = s /\ Save("login", s)
    /\ UNCHANGED <<disk, tokenVars, mintVars, mgrVars, linked, push, revoking,
                   expired, historyVars>>

\* The connection, and an event it has delivered, outlive the session: the
\* manager retires them at the top of its loop.
Logout ==
    /\ Logouts /\ LoggedIn
    /\ Save("logout", auth)
    /\ auth' = NoSession
    /\ UNCHANGED <<disk, tokenVars, mintVars, mgrVars, serverVars,
                   historyVars>>

\* The pool runs its jobs in any order: save_session's rename, or
\* clear_session, after which the server is told.
RunJob(j) ==
    /\ j \in jobs
    /\ jobs' = jobs \ {j}
    /\ disk' = Effect(j)
    /\ revoking' = IF j.by = "logout" THEN revoking \cup {User(j.session)}
                                      ELSE revoking
    /\ UNCHANGED <<auth, raced, cut, tokenVars, mintVars, mgrVars, linked,
                   push, minted, owner, usable, expired, historyVars>>

Revoke(l) ==
    /\ l \in revoking
    /\ revoking' = revoking \ {l}
    /\ usable' = [usable EXCEPT ![l] = 0]
    /\ UNCHANGED <<sessionVars, tokenVars, mintVars, mgrVars, linked, push,
                   minted, owner, expired, historyVars>>

\* Nobody is between reading a credential and using it.
Settled ==
    /\ jobs = {} /\ lock = "free" /\ ~unseen
    /\ \A m \in Minters : minter[m] \notin {"begin", "lock"}
    /\ mgr \in {"top", "report", "ladder"}

\* Every JWT minted so far expires.  A JWT lives ten minutes, longer than any
\* of the awaits here last: unless the machine sleeps through one of them.
Expire ==
    /\ expired < minted
    /\ Suspends \/ Settled
    /\ expired' = minted
    /\ UNCHANGED <<sessionVars, tokenVars, mintVars, mgrVars, linked, push,
                   minted, owner, usable, revoking, historyVars>>

\* The app goes away, with whatever its jobs had not done, and comes back
\* with what is on disk (resolve_initial_auth_state).
Quit ==
    /\ quits < MaxQuits
    /\ quits' = quits + 1
    /\ auth' = disk
    /\ fallback' = NoSession /\ lock' = "free"
    /\ minter' = [m \in Minters |->
                    IF minter[m] = "idle" THEN "idle" ELSE "failed"]
    /\ stale' = [m \in Minters |-> NoSession]
    /\ answer' = [m \in Minters |-> 0]
    /\ published' = NoSession /\ unseen' = FALSE /\ watcher' = "wait"
    /\ mgr' = "top" /\ snap' = NoSession /\ rotation' = NoRotation
    /\ asked' = 0
    /\ jobs' = {} /\ raced' = FALSE /\ cut' = FALSE
    /\ linked' = 0 /\ push' = NoSession /\ revoking' = {}
    /\ superseded' = {}
    /\ UNCHANGED <<disk, minted, owner, usable, expired, crossed>>

Next ==
    \/ \E m \in Minters : MinterStep(m)
    \/ WatchAdopt \/ WatchSaved
    \/ ManagerStep
    \/ ServerPush \/ PushLost \/ PushArrives \/ Login \/ Logout
    \/ \E j \in jobs : RunJob(j)
    \/ \E l \in Logins : Revoke(l)
    \/ Expire \/ Quit

Spec == Init /\ [][Next]_vars

\* The pool, the workers and the main thread run what is ready to run.
FairSpec ==
    /\ Spec
    /\ \A m \in Minters : WF_vars(MinterStep(m))
    /\ WF_vars(WatchAdopt \/ WatchSaved)
    /\ WF_vars(\E j \in jobs : RunJob(j))

------------------------------------------------------------------------------
(* Properties.                                                              *)

Jobs == [by : Savers \cup {"logout"}, session : Sessions]

SessionsTyped ==
    /\ auth \in Sessions \cup {NoSession}
    /\ jobs \subseteq Jobs
    /\ disk \in Sessions \cup {NoSession}
    /\ raced \in BOOLEAN /\ cut \in BOOLEAN

TokensTyped ==
    /\ fallback \in Pairs \cup {NoSession}
    /\ published \in Pairs \cup {NoSession}
    /\ unseen \in BOOLEAN
    /\ watcher \in {"wait", "saving"}

MintsTyped ==
    /\ lock \in Minters \cup {"free"}
    /\ minter \in [Minters -> {"idle", "begin", "lock", "post", "done",
                               "failed"}]
    /\ stale \in [Minters -> Pairs \cup {NoSession}]
    /\ answer \in [Minters -> 0 .. MaxMints]

ManagerTyped ==
    /\ mgr \in {"top", "report", "ladder", "rearm", "rotating", "saving"}
                 \cup Asking
    /\ snap \in Sessions \cup {NoSession}
    /\ rotation \in [call : Rotations \cup {"none"},
                     next : {"top", "report", "ladder"},
                     before : Sessions \cup {NoSession}]
    /\ asked \in 0 .. MaxMints

ServersTyped ==
    /\ linked \in 0 .. MaxLogins
    /\ push \in Pushed \cup {NoSession}
    /\ minted \in 0 .. MaxMints
    /\ owner \in [Mints -> 0 .. MaxLogins]
    /\ usable \in [Logins -> 0 .. MaxMints]
    /\ revoking \subseteq 0 .. MaxLogins
    /\ expired \in 0 .. MaxMints

HistoryTyped ==
    /\ superseded \subseteq Mints
    /\ crossed \subseteq 0 .. MaxLogins
    /\ quits \in 0 .. MaxQuits

TypeOK ==
    /\ SessionsTyped /\ TokensTyped /\ MintsTyped
    /\ ManagerTyped /\ ServersTyped /\ HistoryTyped

\* "The connection store and a concurrent send can never spend the same
\* refresh token twice": no POST carries a refresh token whose replacement
\* this run of the app has received.
NeverSpentTwice ==
    \A m \in Minters : minter[m] = "post" /\ answer[m] = 0 =>
        stale[m].refresh \notin superseded

\* "Persist what auth_state holds, never the local copy": with every save and
\* clear done the disk holds what auth_state holds, whoever replaced a part of
\* it, unless two jobs that differ were queued at once, which the pool may run
\* in any order, or the manager's timeout cancelled the last save.
DiskFollows == jobs = {} /\ ~raced /\ ~cut => disk = auth

\* No mint is lost: a pair the fallback publishes, or a later one, is on disk
\* in the end, however the mints and the saves of the token watch overlap,
\* unless the manager applied it first and its timeout cancelled the save, or
\* the app is quit, which clears the channel.
MintReachesDisk ==
    \A v \in Mints :
        (published # NoSession /\ published.refresh = v) ~>
            \/ disk # NoSession /\ disk.refresh >= v
            \/ cut
            \/ published = NoSession

OfOneLogin(s) ==
    \/ s = NoSession \/ User(s) \in crossed
    \/ owner[s.refresh] = User(s) /\ owner[s.sid] = User(s)

\* What auth_state and the disk hold was minted for one login, unless a push or
\* an adopted pair of another login was put into that session: an answer of the
\* gateway or a renewal that comes after a logout and another user's login
\* gives that user nothing of somebody else's, nor does a quit.
OneLogin == OfOneLogin(auth) /\ OfOneLogin(disk)

\* A logout is final on disk: once the background jobs are done there is no
\* session there for the next launch to replay.
LogoutClearsDisk == ~LoggedIn /\ jobs = {} => disk = NoSession

\* After a logout nobody but a login, or a launch, brings a session back.
StaysLoggedOut == [][auth = NoSession => \/ auth' = NoSession
                                         \/ Login \/ Quit]_vars
==============================================================================

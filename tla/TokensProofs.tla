----------------------------- MODULE TokensProofs -----------------------------
(***************************************************************************)
(* Machine-checked facts about SessionTokens, for any sets of sends and     *)
(* rotations and any bounds: its types, whose credentials a session holds,  *)
(* that a logout is final, that minting is single-flight and that the disk  *)
(* follows the session.                                                     *)
(***************************************************************************)
EXTENDS SessionTokens, TLAPS

\* A pair somebody waits to use is there.
MintsInv ==
    /\ MintsTyped
    /\ \A m \in Minters :
         minter[m] \in {"lock", "post", "done"} => stale[m] \in Pairs

\* What the token watch has yet to look at is a pair.
TokensInv == TokensTyped /\ (unseen => published \in Pairs)

\* Past the top of its loop the manager holds a session; while it waits it
\* knows for what.
ManagerInv ==
    /\ ManagerTyped
    /\ mgr # "top" => snap \in Sessions
    /\ mgr = "rotating" => rotation.call \in Rotations
    /\ mgr \in {"rotating", "saving"} /\ rotation.next = "report" =>
         rotation.before \in Sessions
    /\ mgr \in Asking => asked \in Mints

\* Types alone are not inductive: a pair is taken out of a place that is
\* empty at other times.
TInv ==
    /\ SessionsTyped /\ TokensInv /\ MintsInv
    /\ ManagerInv /\ ServersTyped /\ HistoryTyped

------------------------------------------------------------------------------
(* Type correctness.                                                        *)

\* The program starts well typed.
LEMMA InitTyped == Init => TInv
<1> SUFFICES ASSUME Init PROVE TInv
  OBVIOUS
<1> USE TokensAssumption, NoSessionAssumption DEF Init
<1>1. SessionsTyped
  BY DEF SessionsTyped
<1>2. TokensInv
  BY DEF TokensInv, TokensTyped
<1>3. MintsInv
  BY DEF MintsInv, MintsTyped
<1>4. ManagerInv
  BY DEF ManagerInv, ManagerTyped, NoRotation, Asking
<1>5. ServersTyped
  BY DEF ServersTyped
<1>6. HistoryTyped
  BY DEF HistoryTyped
<1>7. QED
  BY <1>1, <1>2, <1>3, <1>4, <1>5, <1>6 DEF TInv

\* A group of variables that a step leaves alone stays well typed.
LEMMA Frames ==
  /\ SessionsTyped /\ UNCHANGED sessionVars => SessionsTyped'
  /\ TokensInv /\ UNCHANGED tokenVars => TokensInv'
  /\ MintsInv /\ UNCHANGED mintVars => MintsInv'
  /\ ManagerInv /\ UNCHANGED mgrVars => ManagerInv'
  /\ ServersTyped /\ UNCHANGED serverVars => ServersTyped'
  /\ HistoryTyped /\ UNCHANGED historyVars => HistoryTyped'
<1>1. SessionsTyped /\ UNCHANGED sessionVars => SessionsTyped'
  BY DEF SessionsTyped, sessionVars, saveVars
<1>2. TokensInv /\ UNCHANGED tokenVars => TokensInv'
  BY DEF TokensInv, TokensTyped, tokenVars
<1>3. MintsInv /\ UNCHANGED mintVars => MintsInv'
  BY DEF MintsInv, MintsTyped, mintVars
<1>4. ManagerInv /\ UNCHANGED mgrVars => ManagerInv'
  BY DEF ManagerInv, ManagerTyped, mgrVars
<1>5. ServersTyped /\ UNCHANGED serverVars => ServersTyped'
  BY DEF ServersTyped, serverVars
<1>6. HistoryTyped /\ UNCHANGED historyVars => HistoryTyped'
  BY DEF HistoryTyped, historyVars
<1>7. QED
  BY <1>1, <1>2, <1>3, <1>4, <1>5, <1>6

\* A session with a new pair is a session.
LEMMA ApplyTyped ==
  ASSUME NEW s \in Sessions, NEW pair \in Pairs
  PROVE  Apply(s, pair) \in Sessions
BY DEF Apply, Sessions, Pairs

\* Minting a credential keeps the servers' books well typed.
LEMMA MintTyped ==
  ASSUME ServersTyped, NEW l \in 0 .. MaxLogins, Mint(l)
  PROVE  /\ minted + 1 \in Mints /\ minted' \in 0 .. MaxMints
         /\ owner' \in [Mints -> 0 .. MaxLogins]
BY TokensAssumption DEF ServersTyped, Mint, Mints

\* The owner of a credential is a login, or nobody.
LEMMA UserTyped ==
  ASSUME ServersTyped, NEW s \in Sessions \cup Pairs
  PROVE  User(s) \in 0 .. MaxLogins
BY DEF ServersTyped, User, Sessions, Pairs

\* Who meets in a session are logins.
LEMMA MeetsTyped ==
  ASSUME ServersTyped, NEW p \in Sessions \cup Pairs \cup Pushed,
         NEW s \in Sessions
  PROVE  Meets(User(p), s) \subseteq 0 .. MaxLogins
BY DEF ServersTyped, Meets, User, Sessions, Pairs, Pushed

\* Queued jobs are jobs.
LEMMA QueueTyped ==
  ASSUME SessionsTyped, NEW new, new \subseteq Jobs, Queue(new)
  PROVE  jobs' \subseteq Jobs /\ raced' \in BOOLEAN /\ cut' \in BOOLEAN
<1>1. jobs' \subseteq Jobs
  BY DEF SessionsTyped, Queue
<1>2. raced' \in BOOLEAN
  BY Zenon DEF Queue
<1>3. cut' \in BOOLEAN
  BY DEF Queue
<1>4. QED
  BY <1>1, <1>2, <1>3

\* A saved session is one.
LEMMA SaveTyped ==
  ASSUME SessionsTyped, NEW by \in Savers \cup {"logout"}, NEW s \in Sessions,
         Save(by, s)
  PROVE  jobs' \subseteq Jobs /\ raced' \in BOOLEAN /\ cut' \in BOOLEAN
<1>1. {[by |-> by, session |-> s]} \subseteq Jobs
  BY DEF Jobs
<1>2. QED
  BY <1>1, QueueTyped DEF Save

\* What is queued after a save.
LEMMA SaveJobs ==
  ASSUME NEW by, NEW s, Save(by, s)
  PROVE  \A j \in jobs' : j \in jobs \/ (j.by = by /\ j.session = s)
BY DEF Save, Queue

\* A step of a minting call leaves everything well typed.
LEMMA MinterTyped ==
  ASSUME TInv, NEW m \in Minters, MinterStep(m)
  PROVE  TInv'
<1> USE TokensAssumption, NoSessionAssumption
<1>1. CASE MintBegin(m)
  <2>1. MintsInv'
    BY <1>1 DEF TInv, MintBegin, MintsInv, MintsTyped, Pairs, TokensInv,
       TokensTyped, Sessions, Minters, Mints
  <2>2. QED
    BY <1>1, <2>1, Frames DEF TInv, MintBegin
<1>2. CASE MintReuse(m)
  <2>1. MintsInv'
    BY <1>2 DEF TInv, MintReuse, Live, MintsInv, MintsTyped, Pairs, TokensInv,
       TokensTyped, Sessions, Minters, Mints
  <2>2. QED
    BY <1>2, <2>1, Frames DEF TInv, MintReuse
<1>3. CASE MintPost(m)
  <2>1. MintsInv'
    BY <1>3 DEF TInv, MintPost, MintsInv, MintsTyped, Pairs, Minters, Mints
  <2>2. QED
    BY <1>3, <2>1, Frames DEF TInv, MintPost
<1>4. CASE ServerMints(m)
  <2>1. MintsInv'
    BY <1>4 DEF TInv, ServerMints, Mint, MintsInv, MintsTyped, Pairs,
       ServersTyped, Pushed, Sessions, Mints, Logins, Minters
  <2>2. ServersTyped'
    <3>1. /\ owner[stale[m].refresh] \in 0 .. MaxLogins
          /\ Mint(owner[stale[m].refresh])
      BY <1>4 DEF TInv, ServerMints, MintsInv, ServersTyped, Pairs
    <3>2. minted + 1 \in Mints
      BY <3>1, MintTyped DEF TInv
    <3>3. usable' \in [Logins -> 0 .. MaxMints]
      <4>1. minted + 1 \in 0 .. MaxMints
        BY <3>2 DEF Mints
      <4>2. usable \in [Logins -> 0 .. MaxMints]
        BY DEF TInv, ServersTyped
      <4>3. usable' = [usable EXCEPT ![owner[stale[m].refresh]] = minted + 1]
        BY <1>4 DEF ServerMints
      <4>4. QED
        BY <4>1, <4>2, <4>3
    <3>4. UNCHANGED <<linked, push, revoking, expired>>
      BY <1>4 DEF ServerMints
    <3>5. QED
      BY <3>1, <3>3, <3>4, MintTyped DEF TInv, ServersTyped
  <2>3. QED
    BY <1>4, <2>1, <2>2, Frames DEF TInv, ServerMints
<1>5. CASE MintFails(m)
  <2>1. MintsInv'
    BY <1>5 DEF TInv, MintFails, MintsInv, MintsTyped, Pairs, Minters, Mints
  <2>2. QED
    BY <1>5, <2>1, Frames DEF TInv, MintFails
<1>6. CASE MintDone(m)
  <2>1. TokensInv'
    <3>1. answer[m] \in Mints
      BY <1>6 DEF TInv, MintDone, MintsInv, MintsTyped, Mints
    <3>2. [jwt |-> answer[m], refresh |-> answer[m]] \in Pairs
      BY <3>1 DEF Pairs
    <3>3. QED
      BY <1>6, <3>2 DEF TInv, MintDone, TokensInv, TokensTyped
  <2>2. MintsInv'
    BY <1>6 DEF TInv, MintDone, Pairs, MintsInv, MintsTyped, Minters, Mints
  <2>3. HistoryTyped'
    BY <1>6 DEF TInv, MintDone, Pairs, HistoryTyped, Mints, MintsInv,
       MintsTyped, Minters
  <2>4. QED
    BY <1>6, <2>1, <2>2, <2>3, Frames DEF TInv, MintDone
<1>7. QED
  BY <1>1, <1>2, <1>3, <1>4, <1>5, <1>6 DEF MinterStep

\* So does the token watch.
LEMMA WatchTyped ==
  ASSUME TInv, WatchAdopt \/ WatchSaved
  PROVE  TInv'
<1> USE TokensAssumption, NoSessionAssumption
<1>1. CASE WatchAdopt
  <2>1. SessionsTyped'
    <3>1. CASE LoggedIn /\ auth.jwt # published.jwt
      <4>1. Apply(auth, published) \in Sessions
        BY <1>1, <3>1, ApplyTyped DEF TInv, WatchAdopt, LoggedIn,
           SessionsTyped, TokensInv
      <4>2. QED
        BY <1>1, <3>1, <4>1, SaveTyped DEF TInv, WatchAdopt, SessionsTyped,
           Savers
    <3>2. CASE ~(LoggedIn /\ auth.jwt # published.jwt)
      BY <1>1, <3>2 DEF TInv, WatchAdopt, saveVars, SessionsTyped
    <3>3. QED
      BY <3>1, <3>2
  <2>2. TokensInv'
    BY <1>1 DEF TInv, WatchAdopt, Apply, Save, Queue, LoggedIn, TokensInv,
       TokensTyped, Pairs, Sessions
  <2>3. HistoryTyped'
    <3>1. CASE LoggedIn /\ auth.jwt # published.jwt
      <4>1. published \in Pairs /\ auth \in Sessions
        BY <1>1, <3>1 DEF TInv, WatchAdopt, LoggedIn, SessionsTyped, TokensInv
      <4>2. Meets(User(published), auth) \subseteq 0 .. MaxLogins
        BY <4>1, MeetsTyped DEF TInv
      <4>3. QED
        BY <1>1, <3>1, <4>2 DEF TInv, WatchAdopt, HistoryTyped
    <3>2. CASE ~(LoggedIn /\ auth.jwt # published.jwt)
      BY <1>1, <3>2 DEF TInv, WatchAdopt, HistoryTyped
    <3>3. QED
      BY <3>1, <3>2
  <2>4. QED
    BY <1>1, <2>1, <2>2, <2>3, Frames DEF TInv, WatchAdopt
<1>2. CASE WatchSaved
  <2>1. TokensInv'
    BY <1>2 DEF TInv, WatchSaved, TokensInv, TokensTyped, Pairs, Sessions
  <2>2. QED
    BY <1>2, <2>1, Frames DEF TInv, WatchSaved
<1>3. QED
  BY <1>1, <1>2 DEF TInv

\* So does the manager.
LEMMA ManagerTypes ==
  ASSUME TInv, ManagerStep
  PROVE  TInv'
<1> USE TokensAssumption, NoSessionAssumption
<1>1. CASE Top
  <2>1. TokensInv'
    BY <1>1 DEF TInv, Top, LoggedIn, TokensInv, TokensTyped, Pairs, Sessions
  <2>2. ManagerInv'
    BY <1>1 DEF TInv, Top, LoggedIn, ManagerInv, ManagerTyped, Asking,
       Sessions, SessionsTyped, Jobs, Savers
  <2>3. ServersTyped'
    BY <1>1 DEF TInv, Top, ServersTyped
  <2>4. QED
    BY <1>1, <2>1, <2>2, <2>3, Frames DEF TInv, Top
<1>2. CASE ArmFromSnapshot
  <2>1. TokensInv'
    BY <1>2 DEF TInv, ArmFromSnapshot, Arm, TokensInv, TokensTyped, Pairs,
       Sessions, ManagerInv, ManagerTyped, Asking
  <2>2. ManagerInv'
    BY <1>2 DEF TInv, ArmFromSnapshot, Arm, ManagerInv, ManagerTyped, Asking,
       Sessions
  <2>3. QED
    BY <1>2, <2>1, <2>2, Frames DEF TInv, ArmFromSnapshot
<1>3. CASE Ladder
  <2>1. ManagerInv'
    BY <1>3 DEF TInv, Ladder, ManagerInv, ManagerTyped, Asking, Sessions
  <2>2. ServersTyped'
    <3>1. User(snap) \in 0 .. MaxLogins /\ owner[snap.sid] \in 0 .. MaxLogins
      BY <1>3 DEF TInv, Ladder, ManagerInv, ServersTyped, User, Sessions
    <3>2. QED
      BY <1>3, <3>1 DEF TInv, Ladder, ServersTyped
  <2>3. QED
    BY <1>3, <2>1, <2>2, Frames DEF TInv, Ladder
<1>4. CASE Rotate
  <2>1. MintsInv'
    BY <1>4 DEF TInv, Rotate, MintsInv, MintsTyped, Pairs, Minters, Mints
  <2>2. ManagerInv'
    BY <1>4 DEF TInv, Rotate, ManagerInv, ManagerTyped, Asking, Sessions
  <2>3. QED
    BY <1>4, <2>1, <2>2, Frames DEF TInv, Rotate
<1>5. CASE RenewApply
  <2>1. SessionsTyped' /\ ManagerInv'
    <3> DEFINE pair == stale[rotation.call]
    <3>1. pair \in Pairs /\ snap \in Sessions
      BY <1>5 DEF TInv, RenewApply, MintsInv, ManagerInv, Minters
    <3>2. Apply(snap, pair) \in Sessions
      BY <3>1, ApplyTyped
    <3>3. CASE LoggedIn /\ User(auth) = User(pair)
      <4>1. Apply(auth, pair) \in Sessions
        BY <3>1, <3>3, ApplyTyped DEF TInv, LoggedIn, SessionsTyped
      <4>2. /\ auth' = Apply(auth, pair) /\ snap' = Apply(auth, pair)
            /\ Save("manager", Apply(auth, pair)) /\ mgr' = "saving"
            /\ UNCHANGED <<disk, rotation, asked>> /\ mgr = "rotating"
        BY <1>5, <3>3 DEF RenewApply
      <4>3. QED
        BY <4>1, <4>2, SaveTyped DEF TInv, SessionsTyped, Savers, ManagerInv,
           ManagerTyped, Asking
    <3>4. CASE ~(LoggedIn /\ User(auth) = User(pair))
      BY <1>5, <3>2, <3>4 DEF TInv, RenewApply, saveVars, NoRotation,
         SessionsTyped,
         ManagerInv, ManagerTyped, Asking
    <3>5. QED
      BY <3>3, <3>4
  <2>2. QED
    BY <1>5, <2>1, Frames DEF TInv, RenewApply
<1>6. CASE RenewFails
  <2>1. ManagerInv'
    BY <1>6 DEF TInv, RenewFails, NoRotation, ManagerInv, ManagerTyped, Asking
  <2>2. QED
    BY <1>6, <2>1, Frames DEF TInv, RenewFails
<1>14. CASE RenewTimesOut
  <2>1. SessionsTyped'
    BY <1>14 DEF TInv, RenewTimesOut, saveVars, SessionsTyped
  <2>2. ManagerInv'
    BY <1>14 DEF TInv, RenewTimesOut, NoRotation, ManagerInv, ManagerTyped,
       Asking
  <2>3. QED
    BY <1>14, <2>1, <2>2, Frames DEF TInv, RenewTimesOut
<1>7. CASE ManagerSaved
  <2>1. ManagerInv'
    BY <1>7 DEF TInv, ManagerSaved, NoRotation, ManagerInv, ManagerTyped,
       Asking, Sessions
  <2>2. QED
    BY <1>7, <2>1, Frames DEF TInv, ManagerSaved
<1>8. CASE Ask
  <2>1. ManagerInv'
    BY <1>8 DEF TInv, Ask, Mint, User, ManagerInv, ManagerTyped, Asking,
       Sessions, ServersTyped, Pushed, Mints, Logins
  <2>2. ServersTyped'
    <3>1. User(snap) \in 0 .. MaxLogins /\ Mint(User(snap))
      BY <1>8, UserTyped DEF TInv, Ask, ManagerInv
    <3>2. UNCHANGED <<linked, push, usable, revoking, expired>>
      BY <1>8 DEF Ask
    <3>3. QED
      BY <3>1, <3>2, MintTyped DEF TInv, ServersTyped
  <2>3. QED
    BY <1>8, <2>1, <2>2, Frames DEF TInv, Ask
<1>9. CASE GatewayMoves
  <2>1. SessionsTyped'
    <3>1. auth' \in Sessions
      BY <1>9 DEF TInv, GatewayMoves, ForSameUser, LoggedIn, SessionsTyped,
         Sessions, ManagerInv, Asking
    <3>2. Save("gateway", auth') /\ UNCHANGED disk
      BY <1>9 DEF GatewayMoves
    <3>3. QED
      BY <3>1, <3>2, SaveTyped DEF TInv, SessionsTyped, Savers
  <2>2. ManagerInv'
    BY <1>9 DEF TInv, GatewayMoves, ForSameUser, LoggedIn, ManagerInv,
       ManagerTyped, Asking, Sessions, SessionsTyped
  <2>3. ServersTyped'
    BY <1>9 DEF TInv, GatewayMoves, ServersTyped
  <2>4. QED
    BY <1>9, <2>1, <2>2, <2>3, Frames DEF TInv, GatewayMoves
<1>10. CASE GatewayKeeps
  <2>1. SessionsTyped'
    BY <1>10, SaveTyped DEF TInv, GatewayKeeps, ForSameUser, LoggedIn,
       SessionsTyped, Savers
  <2>2. ManagerInv'
    BY <1>10 DEF TInv, GatewayKeeps, ForSameUser, LoggedIn, ManagerInv,
       ManagerTyped, Asking, SessionsTyped
  <2>3. QED
    BY <1>10, <2>1, <2>2, Frames DEF TInv, GatewayKeeps
<1>11. CASE GatewayRemints
  <2> DEFINE s == [auth EXCEPT !.sid = asked]
  <2>6. s \in Sessions /\ auth' = s /\ snap' = s
    BY <1>11 DEF TInv, GatewayRemints, ForSameUser, LoggedIn, SessionsTyped,
       Sessions, ManagerInv, Asking
  <2>1. SessionsTyped'
    <3>1. /\ Queue([by : {"gateway", "manager"}, session : {s}])
          /\ UNCHANGED disk
      BY <1>11 DEF GatewayRemints
    <3>2. [by : {"gateway", "manager"}, session : {s}] \subseteq Jobs
      BY <2>6 DEF Jobs, Savers
    <3>3. QED
      BY <2>6, <3>1, <3>2, QueueTyped DEF TInv, SessionsTyped
  <2>2. TokensInv'
    <3>1. fallback' = Arm(s) /\ UNCHANGED <<published, unseen, watcher>>
      BY <1>11 DEF GatewayRemints
    <3>2. QED
      BY <2>6, <3>1 DEF TInv, Arm, TokensInv, TokensTyped, Pairs, Sessions
  <2>3. ManagerInv'
    <3>1. mgr' = "saving" /\ asked' = 0
          /\ rotation' = [NoRotation EXCEPT !.next = "ladder"]
      BY <1>11 DEF GatewayRemints
    <3>2. QED
      BY <2>6, <3>1 DEF TInv, NoRotation, ManagerInv, ManagerTyped, Asking
  <2>4. ServersTyped'
    BY <1>11 DEF TInv, GatewayRemints, ServersTyped
  <2>5. QED
    BY <1>11, <2>1, <2>2, <2>3, <2>4, Frames DEF TInv, GatewayRemints
<1>12. CASE AskFails
  <2>1. ManagerInv'
    BY <1>12 DEF TInv, AskFails, ManagerInv, ManagerTyped, Asking, Sessions
  <2>2. QED
    BY <1>12, <2>1, Frames DEF TInv, AskFails
<1>13. QED
  BY <1>1, <1>2, <1>3, <1>4, <1>5, <1>6, <1>7, <1>8, <1>9, <1>10, <1>11, <1>12,
     <1>14 DEF ManagerStep

\* So do the servers, the user, the pool and the clock.
LEMMA WorldTyped ==
  ASSUME TInv,
         \/ ServerPush \/ PushLost \/ PushArrives \/ Login \/ Logout \/ Expire \/ Quit
         \/ \E j \in jobs : RunJob(j)
         \/ \E l \in Logins : Revoke(l)
  PROVE  TInv'
<1> USE TokensAssumption, NoSessionAssumption
<1>1. CASE ServerPush
  <2>1. ServersTyped'
    <3>1. linked \in 0 .. MaxLogins /\ Mint(linked)
      BY <1>1 DEF TInv, ServerPush, ServersTyped
    <3>2. minted + 1 \in Mints
      BY <3>1, MintTyped DEF TInv
    <3>3. push' \in Pushed
      BY <1>1, <3>2 DEF ServerPush, Pushed, Mints
    <3>4. usable' \in [Logins -> 0 .. MaxMints]
      <4>1. minted + 1 \in 0 .. MaxMints
        BY <3>2 DEF Mints
      <4>2. usable \in [Logins -> 0 .. MaxMints]
        BY DEF TInv, ServersTyped
      <4>3. \/ usable' = [usable EXCEPT ![linked] = minted + 1]
           \/ usable' = usable
        BY <1>1 DEF ServerPush
      <4>4. QED
        BY <4>1, <4>2, <4>3
    <3>5. UNCHANGED <<linked, revoking, expired>>
      BY <1>1 DEF ServerPush
    <3>6. QED
      BY <3>1, <3>3, <3>4, <3>5, MintTyped DEF TInv, ServersTyped
  <2>2. QED
    BY <1>1, <2>1, Frames DEF TInv, ServerPush
<1>2. CASE PushArrives
  <2>1. SessionsTyped'
    <3> DEFINE s == [jwt |-> push.jwt, sid |-> push.sid,
                     refresh |-> IF push.refresh = 0 THEN auth.refresh
                                                     ELSE push.refresh]
    <3>1. CASE LoggedIn
      <4>1. push \in Pushed /\ auth \in Sessions
        BY <1>2, <3>1 DEF TInv, PushArrives, LoggedIn, ServersTyped,
           SessionsTyped
      <4>2. push.refresh = 0 \/ push.refresh \in Mints
        BY <4>1 DEF Pushed, Mints
      <4>3. s \in Sessions
        BY <4>1, <4>2 DEF Pushed, Sessions
      <4>4. auth' = s /\ Save("push", s) /\ UNCHANGED disk
        BY <1>2, <3>1 DEF PushArrives
      <4>5. QED
        BY <4>3, <4>4, SaveTyped DEF TInv, SessionsTyped, Savers
    <3>2. CASE ~LoggedIn
      BY <1>2, <3>2 DEF TInv, PushArrives, saveVars, SessionsTyped
    <3>3. QED
      BY <3>1, <3>2
  <2>2. ServersTyped'
    BY <1>2 DEF TInv, PushArrives, ServersTyped
  <2>3. HistoryTyped'
    <3>1. CASE LoggedIn
      <4>1. push \in Pushed /\ auth \in Sessions
        BY <1>2, <3>1 DEF TInv, PushArrives, LoggedIn, ServersTyped,
           SessionsTyped
      <4>2. Meets(User(push), auth) \subseteq 0 .. MaxLogins
        BY <4>1, MeetsTyped DEF TInv
      <4>3. auth.refresh \in Mints
        BY <4>1 DEF Sessions
      <4>4. QED
        BY <1>2, <3>1, <4>2, <4>3 DEF TInv, PushArrives, HistoryTyped
    <3>2. CASE ~LoggedIn
      BY <1>2, <3>2 DEF TInv, PushArrives, HistoryTyped
    <3>3. QED
      BY <3>1, <3>2
  <2>4. QED
    BY <1>2, <2>1, <2>2, <2>3, Frames DEF TInv, PushArrives
<1>10. CASE PushLost
  <2>1. ServersTyped'
    BY <1>10 DEF TInv, PushLost, ServersTyped
  <2>2. QED
    BY <1>10, <2>1, Frames DEF TInv, PushLost
<1>3. CASE Login
  <2>1. SessionsTyped'
    <3> DEFINE s == [jwt |-> minted + 1, refresh |-> minted + 1,
                     sid |-> minted + 1]
    <3>1. minted + 1 \in Mints
      BY <1>3 DEF TInv, Login, Mint, ServersTyped, Mints
    <3>2. s \in Sessions
      BY <3>1 DEF Sessions
    <3>3. auth' = s /\ Save("login", s) /\ UNCHANGED disk
      BY <1>3 DEF Login
    <3>4. QED
      BY <3>2, <3>3, SaveTyped DEF TInv, SessionsTyped, Savers
  <2>2. ServersTyped'
    <3>1. PICK l \in Logins : Mint(l) /\ usable' = [usable EXCEPT ![l] = minted + 1]
      BY <1>3 DEF Login
    <3>2. l \in 0 .. MaxLogins /\ minted + 1 \in 0 .. MaxMints
      BY <3>1, MintTyped DEF TInv, Logins, Mint, ServersTyped, Mints
    <3>3. UNCHANGED <<linked, push, revoking, expired>>
      BY <1>3 DEF Login
    <3>4. QED
      BY <3>1, <3>2, <3>3, MintTyped DEF TInv, ServersTyped
  <2>3. QED
    BY <1>3, <2>1, <2>2, Frames DEF TInv, Login
<1>4. CASE Logout
  <2>1. SessionsTyped'
    BY <1>4, SaveTyped DEF TInv, Logout, LoggedIn, SessionsTyped
  <2>2. QED
    BY <1>4, <2>1, Frames DEF TInv, Logout
<1>5. ASSUME NEW j \in jobs, RunJob(j) PROVE TInv'
  <2>1. j.session \in Sessions
    BY DEF TInv, SessionsTyped, Jobs
  <2>2. User(j.session) \in 0 .. MaxLogins
    BY <2>1, UserTyped DEF TInv
  <2>3. SessionsTyped'
    BY <1>5, <2>1 DEF TInv, RunJob, Effect, SessionsTyped
  <2>4. ServersTyped'
    BY <1>5, <2>2 DEF TInv, RunJob, ServersTyped
  <2>5. QED
    BY <1>5, <2>3, <2>4, Frames DEF TInv, RunJob
<1>6. ASSUME NEW l \in Logins, Revoke(l) PROVE TInv'
  <2>1. ServersTyped'
    BY <1>6 DEF TInv, Revoke, ServersTyped, Pushed, Sessions, Mints, Logins,
       Minters
  <2>2. QED
    BY <1>6, <2>1, Frames DEF TInv, Revoke
<1>7. CASE Expire
  <2>1. ServersTyped'
    BY <1>7 DEF TInv, Expire, ServersTyped, Pushed, Sessions, Mints, Logins,
       Minters
  <2>2. QED
    BY <1>7, <2>1, Frames DEF TInv, Expire
<1>8. CASE Quit
  <2>1. SessionsTyped'
    BY <1>8 DEF TInv, Quit, SessionsTyped, Jobs, Savers, Sessions
  <2>2. TokensInv'
    BY <1>8 DEF TInv, Quit, TokensInv, TokensTyped, Pairs, Sessions
  <2>3. MintsInv'
    BY <1>8 DEF TInv, Quit, MintsInv, MintsTyped, Pairs, Minters, Mints
  <2>4. ManagerInv'
    BY <1>8 DEF TInv, Quit, ManagerInv, ManagerTyped, NoRotation, Asking
  <2>5. ServersTyped'
    BY <1>8 DEF TInv, Quit, ServersTyped, Pushed, Sessions, Mints, Logins,
       Minters
  <2>6. HistoryTyped'
    BY <1>8 DEF TInv, Quit, HistoryTyped, Mints, Minters
  <2>7. QED
    BY <1>8, <2>1, <2>2, <2>3, <2>4, <2>5, <2>6, Frames DEF TInv, Quit
<1>9. QED
  BY <1>1, <1>2, <1>3, <1>4, <1>5, <1>6, <1>7, <1>8, <1>10 DEF TInv

\* Whatever happens next, everything stays well typed.
LEMMA StepTyped == TInv /\ [Next]_vars => TInv'
<1> SUFFICES ASSUME TInv, [Next]_vars PROVE TInv'
  OBVIOUS
<1>1. CASE Next
  BY <1>1, MinterTyped, WatchTyped, ManagerTypes, WorldTyped DEF Next
<1>2. CASE UNCHANGED vars
  BY <1>2, Frames DEF TInv, vars
<1>3. QED
  BY <1>1, <1>2

\* The named parts of TInv that the specification calls its types.
LEMMA TInvTypeOK == TInv => TypeOK
BY DEF TInv, TypeOK, TokensInv, MintsInv, ManagerInv

\* Every variable keeps its type: sessions and pairs are complete wherever
\* they are held, and every state machine is in one of its states.
THEOREM TypeCorrect == Spec => []TypeOK
<1>1. Spec => []TInv
  BY InitTyped, StepTyped, PTL DEF Spec
<1>2. QED
  BY <1>1, TInvTypeOK, PTL

------------------------------------------------------------------------------
(* Whose credentials a session holds.                                       *)

\* A pair, and a whole session, of one login by the books o of who owns which
\* credential, n credentials having been minted, unless its login is in x.
OnePair(s, o, n, x) ==
    s # NoSession =>
        /\ s.jwt \in 1 .. n /\ s.refresh \in 1 .. n
        /\ o[s.jwt] \in x \/ o[s.refresh] = o[s.jwt]

OneSession(s, o, n, x) ==
    s # NoSession =>
        /\ s.jwt \in 1 .. n /\ s.refresh \in 1 .. n /\ s.sid \in 1 .. n
        /\ \/ o[s.jwt] \in x
           \/ o[s.refresh] = o[s.jwt] /\ o[s.sid] = o[s.jwt]

PairOk(s)    == OnePair(s, owner, minted, crossed)
SessionOk(s) == OneSession(s, owner, minted, crossed)

SessionsOk ==
    /\ SessionOk(auth) /\ SessionOk(disk)
    /\ \A j \in jobs : SessionOk(j.session)

TokensOk == PairOk(fallback) /\ PairOk(published)

MintsOk == \A m \in Minters : PairOk(stale[m]) /\ answer[m] \in 0 .. minted

\* What the gateway is asked for is for the login of the local copy.
ManagerOk ==
    /\ PairOk(snap) /\ PairOk(rotation.before)
    /\ mgr \in Asking => asked \in 1 .. minted /\ owner[asked] = User(snap)

\* A push is of one login, whoever is logged in by now.
PushOk ==
    push # NoSession =>
        /\ push.jwt \in 1 .. minted /\ push.sid \in 1 .. minted
        /\ owner[push.sid] = User(push)
        /\ push.refresh # 0 => /\ push.refresh \in 1 .. minted
                               /\ owner[push.refresh] = User(push)

UInv == SessionsOk /\ TokensOk /\ MintsOk /\ ManagerOk /\ PushOk

\* Nobody holds anything at the start.
LEMMA InitUser == Init => UInv
<1> SUFFICES ASSUME Init PROVE UInv
  OBVIOUS
<1>1. SessionsOk
  BY DEF Init, SessionsOk, SessionOk, OneSession
<1>2. TokensOk /\ MintsOk
  BY DEF Init, TokensOk, MintsOk, PairOk, OnePair
<1>3. ManagerOk /\ PushOk
  BY DEF Init, ManagerOk, PushOk, PairOk, OnePair, NoRotation, Asking
<1>4. QED
  BY <1>1, <1>2, <1>3 DEF UInv

\* The books only grow: a credential keeps its owner.
Grown(o, n, x, p, k, y) ==
    /\ n \in Nat /\ k \in Nat /\ n <= k
    /\ \A c \in 1 .. n : p[c] = o[c]
    /\ x \subseteq y

LEMMA OneGrows ==
  ASSUME NEW o, NEW n, NEW x, NEW p, NEW k, NEW y, Grown(o, n, x, p, k, y)
  PROVE  /\ \A s : OnePair(s, o, n, x) => OnePair(s, p, k, y)
         /\ \A s : OneSession(s, o, n, x) => OneSession(s, p, k, y)
BY DEF Grown, OnePair, OneSession

\* A session is made of a pair, and a pair by itself is of one login.
LEMMA OneOfOne ==
  ASSUME NEW o, NEW n, NEW x
  PROVE  /\ \A s : OneSession(s, o, n, x) => OnePair(s, o, n, x)
         /\ \A c \in 1 .. n : OnePair([jwt |-> c, refresh |-> c], o, n, x)
         /\ \A s : s # NoSession /\ OnePair(s, o, n, x) =>
                OnePair([jwt |-> s.jwt, refresh |-> s.refresh], o, n, x)
BY DEF OnePair, OneSession

Books == Grown(owner, minted, crossed, owner', minted', crossed')

\* Minting appends to the books.
LEMMA MintBooks ==
  ASSUME TInv, NEW l \in 0 .. MaxLogins, Mint(l), UNCHANGED crossed
  PROVE  Books
BY TokensAssumption DEF TInv, ServersTyped, Mint, Mints, Books, Grown

LEMMA SameBooks ==
  ASSUME TInv, UNCHANGED <<owner, minted>>, crossed \subseteq crossed'
  PROVE  Books
BY DEF TInv, ServersTyped, Books, Grown

\* A group of variables that a step leaves alone stays of one login.
LEMMA UserFrames ==
  ASSUME TInv, UInv, Books
  PROVE  /\ UNCHANGED sessionVars => SessionsOk'
         /\ UNCHANGED tokenVars => TokensOk'
         /\ UNCHANGED <<fallback, published>> => TokensOk'
         /\ UNCHANGED mintVars => MintsOk'
         /\ UNCHANGED <<stale, answer>> => MintsOk'
         /\ UNCHANGED mgrVars => ManagerOk'
         /\ UNCHANGED push => PushOk'
<1>0. /\ \A s : OnePair(s, owner, minted, crossed)
                  => OnePair(s, owner', minted', crossed')
      /\ \A s : OneSession(s, owner, minted, crossed)
                  => OneSession(s, owner', minted', crossed')
  BY OneGrows DEF Books
<1>b. /\ minted \in Nat /\ minted' \in Nat /\ minted <= minted'
      /\ \A c \in 1 .. minted : owner'[c] = owner[c]
  BY DEF Books, Grown
<1>1. ASSUME UNCHANGED sessionVars PROVE SessionsOk'
  BY <1>0, <1>1 DEF UInv, SessionsOk, SessionOk, sessionVars, saveVars
<1>2. ASSUME UNCHANGED <<fallback, published>> PROVE TokensOk'
  BY <1>0, <1>2 DEF UInv, TokensOk, PairOk
<1>3. ASSUME UNCHANGED <<stale, answer>> PROVE MintsOk'
  BY <1>0, <1>b, <1>3 DEF UInv, MintsOk, PairOk
<1>4. ASSUME UNCHANGED mgrVars PROVE ManagerOk'
  <2>1. PairOk(snap)' /\ PairOk(rotation.before)'
    BY <1>0, <1>4 DEF UInv, ManagerOk, PairOk, mgrVars
  <2>2. ASSUME mgr' \in Asking
        PROVE  asked' \in 1 .. minted' /\ owner'[asked'] = owner'[snap'.jwt]
    <3>1. snap # NoSession /\ mgr \in Asking
      BY <1>4, <2>2, NoSessionAssumption DEF TInv, ManagerInv, Asking, mgrVars
    <3>2. /\ snap.jwt \in 1 .. minted /\ asked \in 1 .. minted
          /\ owner[asked] = owner[snap.jwt]
      BY <3>1 DEF UInv, ManagerOk, PairOk, OnePair, User
    <3>3. QED
      BY <1>b, <1>4, <3>2 DEF mgrVars
  <2>3. QED
    BY <2>1, <2>2 DEF ManagerOk, User, Asking
<1>5. ASSUME UNCHANGED push PROVE PushOk'
  BY <1>b, <1>5 DEF UInv, PushOk, User
<1>6. QED
  BY <1>1, <1>2, <1>3, <1>4, <1>5 DEF tokenVars, mintVars

\* A session that is assigned and saved.
LEMMA SavedOk ==
  ASSUME TInv, UInv, Books, SessionOk(auth)', UNCHANGED disk,
         \A j \in jobs' : j \in jobs \/ j.session = auth'
  PROVE  SessionsOk'
<1>1. \A s : OneSession(s, owner, minted, crossed)
               => OneSession(s, owner', minted', crossed')
  BY OneGrows DEF Books
<1>2. QED
  BY <1>1 DEF UInv, SessionsOk, SessionOk

\* A minting call moves a pair from one place to another.
LEMMA MinterUser ==
  ASSUME TInv, UInv, NEW m \in Minters, MinterStep(m)
  PROVE  UInv'
<1>f. /\ DOMAIN stale = Minters /\ DOMAIN answer = Minters
      /\ minted \in Nat
  BY DEF TInv, MintsInv, MintsTyped, ServersTyped
<1>1. CASE MintBegin(m) \/ MintReuse(m)
  <2>1. Books
    BY <1>1, SameBooks DEF MintBegin, MintReuse, serverVars, historyVars
  <2>2. MintsOk'
    <3>1. /\ stale' = stale \/ stale' = [stale EXCEPT ![m] = fallback]
          /\ UNCHANGED <<answer, owner, minted, crossed>>
      BY <1>1 DEF MintBegin, MintReuse, serverVars, historyVars
    <3>2. \A n \in Minters : stale'[n] = stale[n] \/ stale'[n] = fallback
      BY <3>1, <1>f
    <3>3. QED
      BY <3>1, <3>2 DEF UInv, MintsOk, TokensOk, PairOk
  <2>3. QED
    BY <1>1, <2>1, <2>2, UserFrames DEF UInv, MintBegin, MintReuse, serverVars
<1>2. CASE MintPost(m) \/ MintFails(m)
  <2>1. Books
    BY <1>2, SameBooks DEF MintPost, MintFails, serverVars, historyVars
  <2>2. QED
    BY <1>2, <2>1, UserFrames DEF UInv, MintPost, MintFails, serverVars
<1>3. CASE ServerMints(m)
  <2>1. /\ owner[stale[m].refresh] \in 0 .. MaxLogins
        /\ Mint(owner[stale[m].refresh])
    BY <1>3 DEF TInv, ServerMints, MintsInv, ServersTyped, Pairs
  <2>2. Books
    BY <1>3, <2>1, MintBooks DEF ServerMints, historyVars
  <2>3. MintsOk'
    <3>1. /\ answer' = [answer EXCEPT ![m] = minted + 1]
          /\ minted' = minted + 1 /\ UNCHANGED stale
      BY <1>3, <2>1 DEF ServerMints, Mint
    <3>2. \A n \in Minters : answer'[n] = answer[n] \/ answer'[n] = minted + 1
      BY <3>1, <1>f
    <3>3. \A s : OnePair(s, owner, minted, crossed)
                   => OnePair(s, owner', minted', crossed')
      BY <2>2, OneGrows DEF Books
    <3>4. \A n \in Minters : answer[n] \in 0 .. minted /\ PairOk(stale[n])
      BY DEF UInv, MintsOk
    <3>5. \A n \in Minters : answer'[n] \in 0 .. minted'
      BY <3>1, <3>2, <3>4, <1>f
    <3>6. QED
      BY <3>1, <3>3, <3>4, <3>5 DEF MintsOk, PairOk
  <2>4. QED
    BY <1>3, <2>2, <2>3, UserFrames DEF UInv, ServerMints
<1>4. CASE MintDone(m)
  <2>1. Books
    BY <1>4, SameBooks DEF MintDone, serverVars
  <2> DEFINE pair == [jwt |-> answer[m], refresh |-> answer[m]]
  <2>2. answer[m] \in 1 .. minted
    BY <1>4, <1>f DEF MintDone, UInv, MintsOk
  <2>3. PairOk(pair)
    BY <2>2, OneOfOne DEF PairOk
  <2>4. /\ fallback' = pair /\ published' = pair
        /\ stale' = [stale EXCEPT ![m] = pair]
        /\ UNCHANGED <<answer, owner, minted, crossed>>
    BY <1>4 DEF MintDone, serverVars
  <2>5. TokensOk'
    BY <2>3, <2>4 DEF TokensOk, PairOk
  <2>6. MintsOk'
    <3>1. \A n \in Minters : stale'[n] = stale[n] \/ stale'[n] = pair
      BY <2>4, <1>f
    <3>2. QED
      BY <2>3, <2>4, <3>1 DEF UInv, MintsOk, PairOk
  <2>7. QED
    BY <1>4, <2>1, <2>5, <2>6, UserFrames DEF UInv, MintDone, serverVars
<1>5. QED
  BY <1>1, <1>2, <1>3, <1>4 DEF MinterStep

\* A pair of one login goes into a session of one login: what results is of one
\* login, unless the two were not the same.
LEMMA AppliedOk ==
  ASSUME TInv, UInv, NEW pair \in Pairs, PairOk(pair), LoggedIn,
         UNCHANGED <<owner, minted>>, crossed \subseteq crossed',
         User(pair) = User(auth) \/ User(pair) \in crossed',
         auth' = Apply(auth, pair)
  PROVE  SessionOk(auth)'
<1>1. auth \in Sessions /\ pair # NoSession /\ auth # NoSession
  BY NoSessionAssumption DEF TInv, SessionsTyped, LoggedIn
<1>2. /\ auth'.jwt = pair.jwt /\ auth'.refresh = pair.refresh
      /\ auth'.sid = auth.sid
  BY <1>1 DEF Apply, Sessions
<1>3. /\ pair.jwt \in 1 .. minted /\ pair.refresh \in 1 .. minted
      /\ owner[pair.jwt] \in crossed \/ owner[pair.refresh] = owner[pair.jwt]
  BY <1>1 DEF PairOk, OnePair
<1>4. /\ auth.sid \in 1 .. minted
      /\ owner[auth.jwt] \in crossed \/ owner[auth.sid] = owner[auth.jwt]
  BY <1>1 DEF UInv, SessionsOk, SessionOk, OneSession
<1>5. QED
  BY <1>2, <1>3, <1>4 DEF SessionOk, OneSession, User

\* The token watch.
LEMMA WatchUser ==
  ASSUME TInv, UInv, WatchAdopt \/ WatchSaved
  PROVE  UInv'
<1>1. CASE WatchSaved
  <2>1. Books
    BY <1>1, SameBooks DEF WatchSaved, serverVars, historyVars
  <2>2. QED
    BY <1>1, <2>1, UserFrames DEF UInv, WatchSaved, serverVars
<1>2. CASE WatchAdopt
  <2>1. Books
    BY <1>2, SameBooks DEF WatchAdopt, serverVars
  <2>2. SessionsOk'
    <3>1. CASE LoggedIn /\ auth.jwt # published.jwt
      <4>1. /\ auth' = Apply(auth, published) /\ Save("watch", auth')
            /\ crossed' = crossed \cup Meets(User(published), auth)
            /\ UNCHANGED <<disk, owner, minted>>
        BY <1>2, <3>1 DEF WatchAdopt, serverVars
      <4>2. published \in Pairs /\ PairOk(published)
        BY <1>2 DEF WatchAdopt, TInv, TokensInv, UInv, TokensOk
      <4>3. User(published) = User(auth) \/ User(published) \in crossed'
        BY <4>1 DEF Meets
      <4>4. SessionOk(auth)'
        BY <3>1, <4>1, <4>2, <4>3, AppliedOk
      <4>5. QED
        BY <2>1, <4>1, <4>4, SavedOk, SaveJobs
    <3>2. CASE ~(LoggedIn /\ auth.jwt # published.jwt)
      BY <1>2, <2>1, <3>2, UserFrames DEF WatchAdopt, sessionVars
    <3>3. QED
      BY <3>1, <3>2
  <2>3. QED
    BY <1>2, <2>1, <2>2, UserFrames DEF UInv, WatchAdopt, serverVars
<1>3. QED
  BY <1>1, <1>2

\* What the fallback is armed with is a pair of one login.
LEMMA ArmedOk ==
  ASSUME NEW s, s # NoSession, PairOk(s), TokensOk
  PROVE  PairOk(Arm(s))
BY OneOfOne DEF Arm, PairOk, TokensOk

\* A session_id asked for the user who is still logged in.
LEMMA MovedOk ==
  ASSUME TInv, UInv, ForSameUser, mgr \in Asking,
         UNCHANGED <<owner, minted, crossed>>,
         auth' = [auth EXCEPT !.sid = asked]
  PROVE  SessionOk(auth)' /\ auth' # NoSession
<1>1. auth \in Sessions /\ auth # NoSession
  BY DEF TInv, SessionsTyped, ForSameUser, LoggedIn
<1>2. /\ auth'.jwt = auth.jwt /\ auth'.refresh = auth.refresh
      /\ auth'.sid = asked
  BY <1>1 DEF Sessions
<1>3. asked \in 1 .. minted /\ owner[asked] = owner[auth.jwt]
  BY DEF UInv, ManagerOk, ForSameUser, User
<1>4. SessionOk(auth)'
  BY <1>1, <1>2, <1>3 DEF UInv, SessionsOk, SessionOk, OneSession
<1>5. auth' \in Sessions
  BY <1>1 DEF TInv, ManagerInv, Sessions
<1>6. QED
  BY <1>4, <1>5, NoSessionAssumption

\* The manager.
LEMMA ManagerUser ==
  ASSUME TInv, UInv, ManagerStep
  PROVE  UInv'
<1>n. NoRotation.before = NoSession /\ \A o, n, x : OnePair(NoSession, o, n, x)
  BY DEF NoRotation, OnePair
<1>s. mgr # "top" => snap # NoSession
  BY NoSessionAssumption DEF TInv, ManagerInv
<1>p. PairOk(auth)
  BY OneOfOne DEF UInv, SessionsOk, SessionOk, PairOk
<1>1. CASE Top
  <2>1. Books
    BY <1>1, SameBooks DEF Top, historyVars
  <2>2. TokensOk'
    BY <1>1, <1>n DEF Top, UInv, TokensOk, PairOk, historyVars
  <2>3. ManagerOk'
    BY <1>1, <1>p DEF Top, UInv, ManagerOk, PairOk, Asking, historyVars
  <2>4. QED
    BY <1>1, <2>1, <2>2, <2>3, UserFrames DEF UInv, Top
<1>2. CASE ArmFromSnapshot
  <2>1. Books
    BY <1>2, SameBooks DEF ArmFromSnapshot, serverVars, historyVars
  <2>2. PairOk(Arm(snap))
    BY <1>2, <1>s, ArmedOk DEF ArmFromSnapshot, UInv, ManagerOk
  <2>3. TokensOk'
    BY <1>2, <2>2 DEF ArmFromSnapshot, UInv, TokensOk, PairOk, serverVars,
       historyVars
  <2>4. ManagerOk'
    BY <1>2 DEF ArmFromSnapshot, UInv, ManagerOk, PairOk, Asking, serverVars,
       historyVars
  <2>5. QED
    BY <1>2, <2>1, <2>3, <2>4, UserFrames DEF UInv, ArmFromSnapshot, serverVars
<1>3. CASE Ladder
  <2>1. Books
    BY <1>3, SameBooks DEF Ladder, historyVars
  <2>2. ManagerOk'
    BY <1>3 DEF Ladder, UInv, ManagerOk, PairOk, Asking, historyVars
  <2>3. QED
    BY <1>3, <2>1, <2>2, UserFrames DEF UInv, Ladder
<1>4. CASE Rotate
  <2>1. Books
    BY <1>4, SameBooks DEF Rotate, serverVars, historyVars
  <2>2. ManagerOk'
    <3>1. PICK m \in Rotations :
            rotation' = [call |-> m, next |-> mgr, before |-> snap]
      BY <1>4 DEF Rotate
    <3>2. rotation'.before = snap
      BY <3>1
    <3>3. QED
      BY <1>4, <3>2 DEF Rotate, UInv, ManagerOk, PairOk, Asking, serverVars,
         historyVars
  <2>3. QED
    BY <1>4, <2>1, <2>2, UserFrames DEF UInv, Rotate, serverVars
<1>5. CASE RenewApply
  <2> DEFINE pair == stale[rotation.call]
  <2>1. Books
    BY <1>5, SameBooks DEF RenewApply, serverVars, historyVars
  <2>2. pair \in Pairs /\ PairOk(pair) /\ snap \in Sessions
    BY <1>5 DEF RenewApply, TInv, MintsInv, ManagerInv, UInv, MintsOk, Minters
  <2>3. UNCHANGED <<disk, owner, minted, crossed>>
    BY <1>5 DEF RenewApply, serverVars, historyVars
  <2>4. /\ Apply(snap, pair).jwt = pair.jwt
        /\ Apply(snap, pair).refresh = pair.refresh
        /\ pair # NoSession
    BY <2>2, NoSessionAssumption DEF Apply, Sessions
  <2>5. PairOk(Apply(snap, pair))
    BY <2>2, <2>4 DEF PairOk, OnePair
  <2>6. SessionsOk' /\ ManagerOk'
    <3>1. CASE LoggedIn /\ User(auth) = User(pair)
      <4>1. /\ auth' = Apply(auth, pair) /\ snap' = auth'
            /\ Save("manager", auth') /\ mgr' = "saving" /\ UNCHANGED rotation
        BY <1>5, <3>1 DEF RenewApply
      <4>2. SessionOk(auth)'
        BY <2>2, <2>3, <3>1, <4>1, AppliedOk
      <4>3. SessionsOk'
        BY <2>1, <2>3, <4>1, <4>2, SavedOk, SaveJobs
      <4>4. PairOk(snap)'
        BY <4>1, <4>2, OneOfOne DEF SessionOk, PairOk
      <4>5. QED
        BY <2>3, <4>1, <4>3, <4>4 DEF UInv, ManagerOk, PairOk, Asking
    <3>2. CASE ~(LoggedIn /\ User(auth) = User(pair))
      <4>1. /\ snap' = Apply(snap, pair) /\ mgr' = rotation.next
            /\ rotation' = NoRotation /\ UNCHANGED <<auth, saveVars>>
        BY <1>5, <3>2 DEF RenewApply
      <4>2. mgr' \notin Asking
        BY <4>1 DEF TInv, ManagerInv, ManagerTyped, Asking
      <4>3. ManagerOk'
        BY <1>n, <2>3, <2>5, <4>1, <4>2 DEF ManagerOk, PairOk
      <4>4. QED
        BY <2>1, <2>3, <4>1, <4>3, UserFrames DEF sessionVars
    <3>3. QED
      BY <3>1, <3>2
  <2>7. QED
    BY <1>5, <2>1, <2>6, UserFrames DEF UInv, RenewApply, serverVars
<1>6. CASE RenewFails \/ ManagerSaved
  <2>1. Books
    BY <1>6, SameBooks DEF RenewFails, ManagerSaved, serverVars, historyVars
  <2>2. ManagerOk'
    <3>1. mgr' \notin Asking
      BY <1>6 DEF RenewFails, ManagerSaved, TInv, ManagerInv, ManagerTyped,
         Asking
    <3>2. QED
      BY <1>6, <1>n, <3>1 DEF RenewFails, ManagerSaved, UInv, ManagerOk,
         PairOk, serverVars, historyVars
  <2>3. QED
    BY <1>6, <2>1, <2>2, UserFrames DEF UInv, RenewFails, ManagerSaved,
       serverVars
<1>7. CASE RenewTimesOut
  <2>1. Books
    BY <1>7, SameBooks DEF RenewTimesOut, serverVars, historyVars
  <2>2. ManagerOk'
    BY <1>7, <1>n DEF RenewTimesOut, UInv, ManagerOk, PairOk, Asking,
       serverVars, historyVars
  <2>3. SessionsOk'
    BY <1>7 DEF RenewTimesOut, UInv, SessionsOk, SessionOk, saveVars,
       serverVars, historyVars
  <2>4. QED
    BY <1>7, <2>1, <2>2, <2>3, UserFrames DEF UInv, RenewTimesOut, serverVars
<1>8. CASE Ask
  <2>1. User(snap) \in 0 .. MaxLogins /\ Mint(User(snap)) /\ snap # NoSession
    BY <1>8, <1>s, UserTyped DEF Ask, TInv, ManagerInv
  <2>2. Books
    BY <1>8, <2>1, MintBooks DEF Ask, historyVars
  <2>3. ManagerOk'
    <3>1. /\ UNCHANGED <<snap, rotation, crossed>> /\ asked' = minted + 1
          /\ minted' = minted + 1
          /\ owner' = [owner EXCEPT ![minted + 1] = owner[snap.jwt]]
      BY <1>8, <2>1 DEF Ask, Mint, User, historyVars
    <3>2. minted \in Nat /\ minted + 1 \in Mints /\ DOMAIN owner = Mints
      BY <2>1, MintTyped DEF TInv, ServersTyped
    <3>3. snap.jwt \in 1 .. minted
      BY <2>1 DEF UInv, ManagerOk, PairOk, OnePair
    <3>4. owner'[asked'] = owner'[snap'.jwt] /\ asked' \in 1 .. minted'
      BY <3>1, <3>2, <3>3
    <3>5. PairOk(snap)' /\ PairOk(rotation.before)'
      BY <2>2, <3>1, OneGrows DEF Books, UInv, ManagerOk, PairOk
    <3>6. QED
      BY <3>4, <3>5 DEF ManagerOk, User
  <2>4. QED
    BY <1>8, <2>2, <2>3, UserFrames DEF UInv, Ask
<1>9. CASE GatewayMoves
  <2>1. Books
    BY <1>9, SameBooks DEF GatewayMoves, historyVars
  <2>2. /\ SessionOk(auth)' /\ snap' = auth' /\ Save("gateway", auth')
        /\ UNCHANGED <<disk, rotation, owner, minted, crossed>>
        /\ mgr' = "report"
    BY <1>9, MovedOk DEF GatewayMoves, Asking, historyVars
  <2>3. SessionsOk'
    BY <2>1, <2>2, SavedOk, SaveJobs
  <2>4. PairOk(snap)'
    BY <2>2, OneOfOne DEF SessionOk, PairOk
  <2>5. ManagerOk'
    BY <2>2, <2>4 DEF UInv, ManagerOk, PairOk, Asking
  <2>6. QED
    BY <1>9, <2>1, <2>3, <2>5, UserFrames DEF UInv, GatewayMoves
<1>10. CASE GatewayKeeps
  <2>1. Books
    BY <1>10, SameBooks DEF GatewayKeeps, serverVars, historyVars
  <2>2. /\ snap' = auth /\ auth' = auth /\ Save("gateway", auth)
        /\ UNCHANGED <<disk, rotation, owner, minted, crossed>>
        /\ mgr' = "top"
    BY <1>10 DEF GatewayKeeps, serverVars, historyVars
  <2>3. SessionOk(auth)'
    BY <2>2 DEF UInv, SessionsOk, SessionOk
  <2>4. SessionsOk'
    BY <2>1, <2>2, <2>3, SavedOk, SaveJobs
  <2>5. ManagerOk'
    BY <2>2, <1>p DEF UInv, ManagerOk, PairOk, Asking
  <2>6. QED
    BY <1>10, <2>1, <2>4, <2>5, UserFrames DEF UInv, GatewayKeeps, serverVars
<1>11. CASE GatewayRemints
  <2>1. Books
    BY <1>11, SameBooks DEF GatewayRemints, historyVars
  <2>2. /\ SessionOk(auth)' /\ auth' # NoSession /\ snap' = auth'
        /\ Queue([by : {"gateway", "manager"}, session : {auth'}])
        /\ fallback' = Arm(auth')
        /\ UNCHANGED <<disk, published, owner, minted, crossed>>
        /\ mgr' = "saving" /\ rotation'.before = NoSession
    BY <1>11, MovedOk DEF GatewayRemints, NoRotation, Asking, historyVars
  <2>3. SessionsOk'
    <3>1. \A j \in jobs' : j \in jobs \/ j.session = auth'
      BY <2>2 DEF Queue
    <3>2. QED
      BY <2>1, <2>2, <3>1, SavedOk
  <2>4. OnePair(auth', owner, minted, crossed)
    BY <2>2, OneOfOne DEF SessionOk
  <2>5. ManagerOk'
    BY <1>n, <2>2, <2>4 DEF ManagerOk, PairOk, Asking
  <2>6. OnePair(Arm(auth'), owner, minted, crossed)
    BY <2>2, <2>4, ArmedOk DEF UInv, PairOk
  <2>7. TokensOk'
    BY <2>2, <2>6 DEF UInv, TokensOk, PairOk
  <2>8. QED
    BY <1>11, <2>1, <2>3, <2>5, <2>7, UserFrames DEF UInv, GatewayRemints
<1>12. CASE AskFails
  <2>1. Books
    BY <1>12, SameBooks DEF AskFails, serverVars, historyVars
  <2>2. ManagerOk'
    BY <1>12 DEF AskFails, UInv, ManagerOk, PairOk, Asking, serverVars,
       historyVars
  <2>3. QED
    BY <1>12, <2>1, <2>2, UserFrames DEF UInv, AskFails, serverVars
<1>13. QED
  BY <1>1, <1>2, <1>3, <1>4, <1>5, <1>6, <1>7, <1>8, <1>9, <1>10, <1>11, <1>12
     DEF ManagerStep

\* The servers, the user, the pool and the clock.
LEMMA WorldUser ==
  ASSUME TInv, UInv,
         \/ ServerPush \/ PushLost \/ PushArrives \/ Login \/ Logout \/ Expire \/ Quit
         \/ \E j \in jobs : RunJob(j)
         \/ \E l \in Logins : Revoke(l)
  PROVE  UInv'
<1>t. /\ minted \in Nat /\ DOMAIN owner = Mints
  BY DEF TInv, ServersTyped
<1>n. /\ NoRotation.before = NoSession
      /\ \A o, n, x : OnePair(NoSession, o, n, x) /\ OneSession(NoSession, o, n, x)
  BY DEF NoRotation, OnePair, OneSession
<1>1. CASE ServerPush
  <2>1. linked \in 0 .. MaxLogins /\ Mint(linked)
    BY <1>1 DEF ServerPush, TInv, ServersTyped
  <2>2. Books
    BY <1>1, <2>1, MintBooks DEF ServerPush, historyVars
  <2>3. PushOk'
    <3>1. /\ minted' = minted + 1 /\ push'.jwt = minted + 1
          /\ push'.sid = minted + 1 /\ push'.refresh \in {0, minted + 1}
      BY <1>1, <2>1 DEF ServerPush, Mint
    <3>2. QED
      BY <1>t, <3>1 DEF PushOk, User
  <2>4. QED
    BY <1>1, <2>2, <2>3, UserFrames DEF UInv, ServerPush
<1>2. CASE PushLost
  <2>1. Books
    BY <1>2, SameBooks DEF PushLost, historyVars
  <2>2. PushOk'
    BY <1>2 DEF PushLost, PushOk
  <2>3. QED
    BY <1>2, <2>1, <2>2, UserFrames DEF UInv, PushLost
<1>3. CASE PushArrives
  <2>1. UNCHANGED <<owner, minted>> /\ crossed \subseteq crossed'
    BY <1>3 DEF PushArrives
  <2>2. Books
    BY <2>1, SameBooks
  <2>3. PushOk'
    BY <1>3 DEF PushArrives, PushOk
  <2>4. SessionsOk'
    <3> DEFINE s == [jwt |-> push.jwt, sid |-> push.sid,
                     refresh |-> IF push.refresh = 0 THEN auth.refresh
                                                     ELSE push.refresh]
    <3>1. CASE LoggedIn
      <4>1. /\ auth' = s /\ Save("push", auth') /\ UNCHANGED disk
            /\ crossed' = crossed \cup Meets(User(push), auth)
        BY <1>3, <3>1 DEF PushArrives
      <4>2. User(push) = User(auth) \/ User(push) \in crossed'
        BY <4>1 DEF Meets
      <4>3. /\ auth'.jwt = push.jwt /\ auth'.sid = push.sid
            /\ auth'.refresh = IF push.refresh = 0 THEN auth.refresh
                                                   ELSE push.refresh
        BY <4>1
      <4>4. /\ push.jwt \in 1 .. minted /\ push.sid \in 1 .. minted
            /\ owner[push.sid] = owner[push.jwt]
            /\ push.refresh # 0 => /\ push.refresh \in 1 .. minted
                                   /\ owner[push.refresh] = owner[push.jwt]
        BY <1>3 DEF PushArrives, UInv, PushOk, User
      <4>5. /\ auth.refresh \in 1 .. minted
            /\ \/ owner[auth.jwt] \in crossed
               \/ owner[auth.refresh] = owner[auth.jwt]
        BY <3>1 DEF LoggedIn, UInv, SessionsOk, SessionOk, OneSession
      <4>6. SessionOk(auth)'
        BY <2>1, <4>2, <4>3, <4>4, <4>5 DEF SessionOk, OneSession, User
      <4>7. QED
        BY <2>2, <4>1, <4>6, SavedOk, SaveJobs
    <3>2. CASE ~LoggedIn
      BY <1>3, <2>2, <3>2, UserFrames DEF PushArrives, sessionVars
    <3>3. QED
      BY <3>1, <3>2
  <2>5. QED
    BY <1>3, <2>2, <2>3, <2>4, UserFrames DEF UInv, PushArrives
<1>4. CASE Login
  <2>1. PICK l \in Logins : Mint(l)
    BY <1>4 DEF Login
  <2>2. Books
    BY <1>4, <2>1, MintBooks DEF Login, Logins, historyVars
  <2>3. /\ auth' = [jwt |-> minted + 1, refresh |-> minted + 1,
                    sid |-> minted + 1]
        /\ Save("login", auth') /\ UNCHANGED disk /\ minted' = minted + 1
    BY <1>4, <2>1 DEF Login, Mint
  <2>4. SessionOk(auth)'
    BY <1>t, <2>3 DEF SessionOk, OneSession
  <2>5. SessionsOk'
    BY <2>2, <2>3, <2>4, SavedOk, SaveJobs
  <2>6. QED
    BY <1>4, <2>2, <2>5, UserFrames DEF UInv, Login
<1>5. CASE Logout
  <2>1. Books
    BY <1>5, SameBooks DEF Logout, serverVars, historyVars
  <2>2. SessionsOk'
    <3>1. /\ \A j \in jobs' : j \in jobs \/ j.session = auth
          /\ auth' = NoSession /\ UNCHANGED <<disk, owner, minted, crossed>>
      BY <1>5, SaveJobs DEF Logout, serverVars, historyVars
    <3>2. QED
      BY <1>n, <3>1 DEF UInv, SessionsOk, SessionOk
  <2>3. QED
    BY <1>5, <2>1, <2>2, UserFrames DEF UInv, Logout, serverVars
<1>6. ASSUME NEW j \in jobs, RunJob(j) PROVE UInv'
  <2>1. Books
    BY <1>6, SameBooks DEF RunJob, historyVars
  <2>2. SessionsOk'
    <3>1. /\ disk' \in {NoSession, j.session} /\ jobs' \subseteq jobs
          /\ UNCHANGED <<auth, owner, minted, crossed>>
      BY <1>6 DEF RunJob, Effect, historyVars
    <3>2. QED
      BY <1>n, <3>1 DEF UInv, SessionsOk, SessionOk
  <2>3. QED
    BY <1>6, <2>1, <2>2, UserFrames DEF UInv, RunJob
<1>7. CASE Expire \/ \E l \in Logins : Revoke(l)
  <2>1. Books
    BY <1>7, SameBooks DEF Expire, Revoke, historyVars
  <2>2. QED
    BY <1>7, <2>1, UserFrames DEF UInv, Expire, Revoke
<1>8. CASE Quit
  <2>1. UNCHANGED <<owner, minted, crossed>>
    BY <1>8 DEF Quit
  <2>2. SessionsOk'
    BY <1>8, <2>1 DEF Quit, UInv, SessionsOk, SessionOk
  <2>3. TokensOk' /\ PushOk'
    BY <1>8, <1>n DEF Quit, TokensOk, PushOk, PairOk
  <2>4. MintsOk'
    <3>1. \A m \in Minters : stale'[m] = NoSession /\ answer'[m] = 0
      BY <1>8 DEF Quit
    <3>2. QED
      BY <1>t, <1>n, <2>1, <3>1 DEF MintsOk, PairOk
  <2>5. ManagerOk'
    BY <1>8, <1>n DEF Quit, ManagerOk, PairOk, Asking
  <2>6. QED
    BY <2>2, <2>3, <2>4, <2>5 DEF UInv
<1>9. QED
  BY <1>1, <1>2, <1>3, <1>4, <1>5, <1>6, <1>7, <1>8

\* It holds after every step.
LEMMA StepUser == TInv /\ UInv /\ [Next]_vars => UInv'
<1> SUFFICES ASSUME TInv, UInv, [Next]_vars PROVE UInv'
  OBVIOUS
<1>1. CASE Next
  BY <1>1, MinterUser, WatchUser, ManagerUser, WorldUser DEF Next
<1>2. CASE UNCHANGED vars
  <2>1. Books
    BY <1>2, SameBooks DEF vars, serverVars, historyVars
  <2>2. QED
    BY <1>2, <2>1, UserFrames DEF UInv, vars, serverVars
<1>3. QED
  BY <1>1, <1>2

\* Whatever is logged out, logged in and quit in the middle of a mint, a
\* renewal, a report or a push, the session in use and the one on disk are of
\* one login, unless the code put a push or an adopted pair of another login
\* into it: those two are not checked against the user, all others are.
THEOREM OneLoginOnly == Spec => []OneLogin
<1>1. Init => TInv /\ UInv
  BY InitTyped, InitUser
<1>2. TInv /\ UInv /\ [Next]_vars => (TInv /\ UInv)'
  BY StepTyped, StepUser
<1>3. UInv => OneLogin
  BY DEF UInv, SessionsOk, SessionOk, OneSession, OneLogin, OfOneLogin, User
<1>4. QED
  BY <1>1, <1>2, <1>3, PTL DEF Spec

\* Whoever still has an answer, a minted pair or a push for the session that
\* was logged out finds that nobody is logged in, and leaves it so.
THEOREM LogoutIsFinal == Spec => StaysLoggedOut
<1>1. [Next]_vars =>
        [auth = NoSession => auth' = NoSession \/ Login \/ Quit]_vars
  <2> SUFFICES ASSUME Next, auth = NoSession PROVE auth' = NoSession \/ Login \/ Quit
    BY DEF vars, sessionVars, saveVars
  <2>1. ASSUME NEW m \in Minters, MinterStep(m) PROVE auth' = NoSession
    BY <2>1 DEF MinterStep, MintBegin, MintReuse, MintPost, ServerMints,
       MintFails,
       MintDone, sessionVars, saveVars
  <2>2. CASE WatchAdopt \/ WatchSaved
    BY <2>2 DEF WatchAdopt, WatchSaved, LoggedIn, sessionVars, saveVars
  <2>3. CASE ManagerStep
    BY <2>3 DEF ManagerStep, Top, ArmFromSnapshot, Ladder, Rotate, RenewApply,
       RenewFails, RenewTimesOut, ManagerSaved, Ask, GatewayMoves,
       GatewayKeeps, GatewayRemints, AskFails, ForSameUser, LoggedIn,
       sessionVars, saveVars
  <2>4. CASE ServerPush \/ PushLost \/ PushArrives \/ Logout \/ Expire
               \/ (\E j \in jobs : RunJob(j)) \/ (\E l \in Logins : Revoke(l))
    BY <2>4 DEF ServerPush, PushLost, PushArrives, Logout, Expire, RunJob,
       Revoke, LoggedIn,
       sessionVars, saveVars
  <2>5. QED
    BY <2>1, <2>2, <2>3, <2>4 DEF Next
<1>2. QED
  BY <1>1, PTL DEF Spec, StaysLoggedOut

------------------------------------------------------------------------------
(* Minting is single-flight.                                                *)

\* What the theorem asks of the environment: nobody logs out, the server
\* pushes no tokens, the machine does not sleep through an await.
Alone == ~Logouts /\ ~Suspends /\ Pushes = {}

\* A pair is minted as a pair, with the servers' latest number at most.
Known(s) == s # NoSession => s.jwt = s.refresh /\ s.jwt <= minted

AllKnown ==
    /\ Known(auth) /\ Known(snap) /\ Known(rotation.before) /\ Known(disk)
    /\ Known(fallback) /\ Known(published)
    /\ \A m \in Minters : Known(stale[m])
    /\ \A j \in jobs : Known(j.session)
    /\ expired <= minted

Quiet ==
    /\ push = NoSession
    /\ \A j \in jobs : j.by # "logout"
    /\ mgr # "top" => LoggedIn

NotAnswered ==
    \A m \in Minters : minter[m] \in {"idle", "begin", "lock"} => answer[m] = 0

\* Nobody holds a pair newer than the fallback's, and the fallback's own
\* refresh token is not among those replaced.
Held(s) == s # NoSession => s.jwt <= fallback.jwt

Newest ==
    fallback # NoSession =>
        /\ LoggedIn
        /\ Held(auth) /\ Held(snap) /\ Held(rotation.before)
        /\ Held(published)
        /\ \A m \in Minters : Held(stale[m])
        /\ \A v \in superseded : v < fallback.jwt

\* Who waits for the lock either started from the pair the fallback still
\* has or will find a live one there; who posts has the lock and the pair.
Flight ==
    \A m \in Minters :
        /\ minter[m] = "lock" => stale[m].refresh = fallback.refresh \/ Live
        /\ minter[m] = "post" => lock = m /\ stale[m].refresh = fallback.refresh
        /\ minter[m] = "post" /\ answer[m] # 0 =>
             /\ fallback.jwt < answer[m]
             /\ answer[m] <= minted
             /\ expired < answer[m]

\* Before the fallback is armed nobody mints, and the manager's copy is of
\* the session that auth_state holds.
Unarmed ==
    fallback = NoSession =>
        /\ superseded = {} /\ lock = "free" /\ published = NoSession /\ ~unseen
        /\ \A m \in Minters :
             minter[m] \in {"idle", "begin", "failed"} /\ stale[m] = NoSession
        /\ mgr # "top" => LoggedIn /\ snap.jwt = auth.jwt
        /\ rotation.before # NoSession =>
             LoggedIn /\ rotation.before.jwt = auth.jwt

Num(s) == s # NoSession => s.jwt \in Nat /\ s.refresh \in Nat

Numbers ==
    /\ Num(auth) /\ Num(snap) /\ Num(rotation.before) /\ Num(disk) /\ Num(fallback) /\ Num(published)
    /\ \A m \in Minters : Num(stale[m]) /\ answer[m] \in Nat
    /\ \A j \in jobs : Num(j.session)
    /\ minted \in Nat /\ expired \in Nat /\ superseded \subseteq Nat

SInv == AllKnown /\ Quiet /\ NotAnswered /\ Newest /\ Flight /\ Unarmed

\* What the types say of the numbers.
LEMMA TypedNumbers == TInv => Numbers
<1> SUFFICES ASSUME TInv PROVE Numbers
  OBVIOUS
<1> USE TokensAssumption
<1>0. \A s \in Sessions \cup Pairs \cup {NoSession} : Num(s)
  BY DEF Num, Sessions, Pairs, Mints
<1>1. Num(auth) /\ Num(disk) /\ \A j \in jobs : Num(j.session)
  BY <1>0 DEF TInv, SessionsTyped, Jobs
<1>2. Num(fallback) /\ Num(published)
  BY <1>0 DEF TInv, TokensInv, TokensTyped
<1>3. \A m \in Minters : Num(stale[m]) /\ answer[m] \in Nat
  BY <1>0 DEF TInv, MintsInv, MintsTyped
<1>4. Num(snap) /\ Num(rotation.before)
  BY <1>0 DEF TInv, ManagerInv, ManagerTyped
<1>5. minted \in Nat /\ expired \in Nat /\ superseded \subseteq Nat
  BY DEF TInv, ServersTyped, HistoryTyped, Mints
<1>6. QED
  BY <1>1, <1>2, <1>3, <1>4, <1>5 DEF Numbers

\* Each part stays true when its variables do not change.
LEMMA Kept ==
  /\ AllKnown /\ UNCHANGED <<auth, snap, rotation, published, fallback, disk, stale,
                             jobs, minted, expired>> => AllKnown'
  /\ Quiet /\ UNCHANGED <<push, jobs, mgr, auth>> => Quiet'
  /\ NotAnswered /\ UNCHANGED <<minter, answer>> => NotAnswered'
  /\ Newest /\ UNCHANGED <<fallback, auth, snap, rotation, published, stale, superseded>>
     => Newest'
  /\ Flight /\ UNCHANGED <<fallback, minter, stale, lock, answer, minted,
                           expired>> => Flight'
  /\ Unarmed /\ UNCHANGED <<fallback, superseded, lock, published, unseen,
                            minter, stale, mgr, auth, snap, rotation>> => Unarmed'
<1>1. AllKnown /\ UNCHANGED <<auth, snap, rotation, published, fallback, disk, stale,
                              jobs, minted, expired>> => AllKnown'
  BY DEF AllKnown, Known
<1>2. Quiet /\ UNCHANGED <<push, jobs, mgr, auth>> => Quiet'
  BY DEF Quiet, LoggedIn
<1>3. NotAnswered /\ UNCHANGED <<minter, answer>> => NotAnswered'
  BY DEF NotAnswered
<1>4. Newest /\ UNCHANGED <<fallback, auth, snap, rotation, published, stale, superseded>>
      => Newest'
  BY DEF Newest, Held, LoggedIn
<1>5. Flight /\ UNCHANGED <<fallback, minter, stale, lock, answer, minted,
                            expired>> => Flight'
  BY DEF Flight, Live, Expired
<1>6. Unarmed /\ UNCHANGED <<fallback, superseded, lock, published, unseen,
                             minter, stale, mgr, auth, snap, rotation>> => Unarmed'
  BY DEF Unarmed, LoggedIn
<1>7. QED
  BY <1>1, <1>2, <1>3, <1>4, <1>5, <1>6

\* What a pair does to a session.
Replaced(s, pair) ==
    /\ Apply(s, pair) \in Sessions /\ Apply(s, pair) # NoSession
    /\ Apply(s, pair).jwt = pair.jwt /\ Apply(s, pair).refresh = pair.refresh

LEMMA Applied ==
  ASSUME NEW s \in Sessions, NEW pair \in Pairs
  PROVE  Replaced(s, pair)
BY NoSessionAssumption DEF Replaced, Apply, Sessions, Pairs

\* What a session_id does to a session.
Moved(s, sid) ==
    LET t == [s EXCEPT !.sid = sid] IN
    t \in Sessions /\ t # NoSession /\ t.jwt = s.jwt /\ t.refresh = s.refresh

LEMMA SidChanged ==
  ASSUME NEW s \in Sessions, NEW sid \in Mints
  PROVE  Moved(s, sid)
BY NoSessionAssumption DEF Moved, Sessions

\* Arming the fallback from a session that is no newer than what it has
\* leaves it the numbers it has.
Rearmed(s) ==
    /\ Arm(s) # NoSession
    /\ Arm(s).jwt = Arm(s).refresh
    /\ Arm(s).jwt = IF fallback # NoSession THEN fallback.jwt ELSE s.jwt

LEMMA Armed ==
  ASSUME TInv, SInv, NEW s \in Sessions, Known(s),
         fallback # NoSession => Held(s)
  PROVE  Rearmed(s)
<1>1. [jwt |-> s.jwt, refresh |-> s.refresh] \in Pairs /\ s # NoSession
  BY NoSessionAssumption DEF Sessions, Pairs
<1>2. s.jwt \in Nat /\ s.jwt = s.refresh
  BY <1>1 DEF Sessions, Mints, Known
<1>3. fallback # NoSession =>
        fallback.jwt \in Nat /\ fallback.jwt = fallback.refresh
  BY TypedNumbers DEF Numbers, Num, SInv, AllKnown, Known
<1>4. fallback # NoSession => s.jwt <= fallback.jwt
  BY <1>1 DEF Held
<1>5. QED
  BY <1>1, <1>2, <1>3, <1>4, NoSessionAssumption DEF Rearmed, Arm


\* An armed fallback is the newest pair again.
LEMMA NewestRearmed ==
  ASSUME SInv, fallback' # NoSession,
         fallback # NoSession => fallback'.jwt = fallback.jwt,
         auth' # NoSession, Held(auth)', Held(snap)',
         Held(rotation.before)',
         UNCHANGED <<published, stale, superseded>>
  PROVE  Newest'
<1>1. CASE fallback = NoSession
  BY <1>1 DEF SInv, Unarmed, Newest, Held, LoggedIn
<1>2. CASE fallback # NoSession
  BY <1>2 DEF SInv, Newest, Held, LoggedIn
<1>3. QED
  BY <1>1, <1>2

\* Arming the fallback disturbs nobody who waits or posts.
LEMMA FlightRearmed ==
  ASSUME SInv, fallback' # NoSession, fallback'.jwt = fallback'.refresh,
         fallback # NoSession => fallback'.jwt = fallback.jwt,
         UNCHANGED <<minter, stale, lock, answer, minted, expired>>
  PROVE  Flight'
<1>1. CASE fallback = NoSession
  BY <1>1 DEF SInv, Unarmed, Flight
<1>2. CASE fallback # NoSession
  <2>1. fallback'.refresh = fallback.refresh
    BY <1>2 DEF SInv, AllKnown, Known
  <2>2. QED
    BY <1>2, <2>1 DEF SInv, Flight, Live, Expired
<1>3. QED
  BY <1>1, <1>2

\* A step of a minting call.
LEMMA MinterFlight ==
  ASSUME Alone, TInv, SInv, NEW m \in Minters, MinterStep(m)
  PROVE  SInv'
<1>num. Numbers
  BY TypedNumbers
<1>fun. /\ DOMAIN stale = Minters /\ DOMAIN minter = Minters
        /\ DOMAIN answer = Minters
        /\ stale = [n \in Minters |-> stale[n]]
        /\ minter = [n \in Minters |-> minter[n]]
        /\ answer = [n \in Minters |-> answer[n]]
  BY DEF TInv, MintsInv, MintsTyped
<1>1. CASE MintBegin(m)
  <2>1. AllKnown'
    BY <1>1, <1>num, <1>fun DEF SInv, AllKnown, Known, Numbers, Num, Alone,
       MintBegin, Expired, sessionVars, saveVars, tokenVars, mgrVars,
       serverVars
  <2>2. NotAnswered'
    BY <1>1, <1>num, <1>fun DEF SInv, NotAnswered, Numbers, Num, MintBegin
  <2>3. Newest'
    BY <1>1, <1>num, <1>fun DEF SInv, Newest, Held, LoggedIn, Numbers, Num,
       Alone, MintBegin, Expired, sessionVars, saveVars, tokenVars, mgrVars,
       historyVars
  <2>4. Flight'
    BY <1>1, <1>num, <1>fun DEF SInv, Flight, Live, Expired, Numbers, Num,
       Alone, MintBegin, tokenVars, serverVars
  <2>5. Unarmed'
    BY <1>1, <1>num, <1>fun DEF SInv, Unarmed, LoggedIn, Numbers, Num, Alone,
       MintBegin, Expired, sessionVars, saveVars, tokenVars, mgrVars,
       historyVars
  <2>6. QED
    BY <1>1, <2>1, <2>2, <2>3, <2>4, <2>5, Kept DEF SInv, MintBegin,
       sessionVars, saveVars, mgrVars, serverVars
<1>2. CASE MintReuse(m)
  <2>1. AllKnown'
    BY <1>2, <1>num, <1>fun DEF SInv, AllKnown, Known, Numbers, Num, Alone,
       MintReuse, Live, Expired, sessionVars, saveVars, tokenVars, mgrVars,
       serverVars
  <2>2. NotAnswered'
    BY <1>2, <1>num, <1>fun DEF SInv, NotAnswered, Numbers, Num, Alone,
       MintReuse
  <2>3. Newest'
    BY <1>2, <1>num, <1>fun DEF SInv, Newest, Held, LoggedIn, Numbers, Num,
       Alone, MintReuse, Live, Expired, sessionVars, saveVars, tokenVars,
       mgrVars,
       historyVars
  <2>4. Flight'
    BY <1>2, <1>num, <1>fun DEF SInv, Flight, Live, Expired, Numbers, Num,
       Alone, MintReuse, tokenVars, serverVars
  <2>5. Unarmed'
    BY <1>2, <1>num, <1>fun DEF SInv, Unarmed, LoggedIn, Numbers, Num, Alone,
       MintReuse, Live, Expired, sessionVars, saveVars, tokenVars
  <2>6. QED
    BY <1>2, <2>1, <2>2, <2>3, <2>4, <2>5, Kept DEF SInv, MintReuse,
       sessionVars, saveVars, mgrVars, serverVars
<1>3. CASE MintPost(m)
  <2>a. m # "free" /\ lock = "free" /\ fallback # NoSession
    BY <1>3, TokensAssumption DEF MintPost, SInv, Unarmed, Minters
  <2>1. NotAnswered'
    BY <1>3, <1>num, <1>fun, <2>a DEF SInv, NotAnswered, Numbers, Num, Alone,
       MintPost
  <2>2. Flight'
    <3>1. \A n \in Minters : minter[n] # "post"
      BY <2>a, TokensAssumption DEF SInv, Flight, Minters
    <3>2. stale[m].refresh = fallback.refresh /\ answer[m] = 0
      BY <1>3 DEF MintPost, SInv, Flight, NotAnswered
    <3>3. /\ minter' = [minter EXCEPT ![m] = "post"] /\ lock' = m
          /\ UNCHANGED <<fallback, stale, answer, minted, expired>>
      BY <1>3 DEF MintPost, tokenVars, serverVars
    <3>4. ASSUME NEW n \in Minters, n # m
          PROVE  /\ minter[n]' = "lock" =>
                      stale[n]'.refresh = fallback'.refresh \/ Live'
                 /\ minter[n]' # "post"
      <4>1. minter[n]' = minter[n] /\ stale[n]' = stale[n] /\ Live' = Live
        BY <3>3, <3>4 DEF Live, Expired
      <4>2. QED
        BY <3>1, <3>3, <4>1 DEF SInv, Flight
    <3>5. minter[m]' = "post"
      BY <3>3, <1>fun
    <3>6. QED
      BY <3>2, <3>3, <3>4 DEF Flight
  <2>3. Unarmed'
    BY <1>3, <1>num, <1>fun, <2>a DEF SInv, Unarmed, LoggedIn, Numbers, Num,
       Alone, MintPost, Live, Expired, sessionVars, saveVars, tokenVars
  <2>4. QED
    BY <1>3, <2>1, <2>2, <2>3, Kept DEF SInv, MintPost, sessionVars, saveVars,
       tokenVars, mgrVars, serverVars, historyVars
<1>4. CASE ServerMints(m)
  <2>1. AllKnown'
    BY <1>4, <1>num, <1>fun DEF SInv, AllKnown, Known, Numbers, Num, Alone,
       ServerMints, Mint, sessionVars, saveVars, tokenVars, mgrVars
  <2>2. NotAnswered'
    BY <1>4, <1>num, <1>fun DEF SInv, NotAnswered, Numbers, Num, ServerMints
  <2>3. Flight'
    <3>1. fallback # NoSession /\ \A n \in Minters : minter[n] = "post" => n = m
      BY <1>4, TokensAssumption DEF ServerMints, SInv, Unarmed, Flight
    <3>2. fallback.jwt <= minted /\ expired <= minted
      BY <3>1 DEF SInv, AllKnown, Known
    <3>3. /\ answer' = [answer EXCEPT ![m] = minted + 1] /\ minted' = minted + 1
          /\ UNCHANGED <<fallback, minter, stale, lock, expired>>
      BY <1>4 DEF ServerMints, Mint, tokenVars
    <3>4. answer[m]' = minted'
      BY <3>3, <1>fun
    <3>5. Num(fallback)
      BY <1>num DEF Numbers
    <3>6. /\ fallback'.jwt < minted' /\ expired' < minted'
      BY <3>1, <3>2, <3>3, <1>num DEF Numbers, Num
    <3>7. QED
      BY <3>1, <3>3, <3>4, <3>6, <1>num DEF SInv, Flight, Live, Expired,
         Numbers
  <2>4. QED
    BY <1>4, <2>1, <2>2, <2>3, Kept DEF SInv, ServerMints, sessionVars,
       saveVars,
       tokenVars, mgrVars, historyVars
<1>5. CASE MintFails(m)
  <2>1. NotAnswered'
    BY <1>5, <1>num, <1>fun DEF SInv, NotAnswered, Numbers, MintFails
  <2>2. Flight'
    BY <1>5, <1>num, <1>fun DEF SInv, Flight, Live, Expired, Numbers, Num,
       Alone, MintFails, tokenVars, serverVars
  <2>3. Unarmed'
    BY <1>5, <1>num, <1>fun DEF SInv, Unarmed, LoggedIn, Numbers, Num, Alone,
       MintFails, sessionVars, saveVars, tokenVars
  <2>4. QED
    BY <1>5, <2>1, <2>2, <2>3, Kept DEF SInv, MintFails, sessionVars, saveVars,
       tokenVars, mgrVars, serverVars, historyVars
<1>6. CASE MintDone(m)
  <2>a. fallback # NoSession /\ lock = m
    BY <1>6, TokensAssumption DEF MintDone, SInv, Unarmed, Flight
  <2>b. /\ stale[m].refresh = fallback.refresh /\ fallback.jwt < answer[m]
        /\ answer[m] <= minted /\ expired < answer[m]
    BY <1>6 DEF MintDone, SInv, Flight
  <2>c. \A n \in Minters : minter[n] = "post" => n = m
    BY <2>a DEF SInv, Flight
  <2>d. [jwt |-> answer[m], refresh |-> answer[m]] # NoSession
    BY <1>6, NoSessionAssumption DEF MintDone, TInv, MintsInv, MintsTyped,
       Pairs, Mints
  <2>1. AllKnown'
    BY <1>6, <1>num, <1>fun, <2>a, <2>b, <2>c, <2>d DEF SInv, AllKnown, Known,
       Numbers, Num, Alone, MintDone, Expired, Live, sessionVars, saveVars,
       mgrVars,
       serverVars
  <2>2. NotAnswered'
    BY <1>6, <1>num, <1>fun, <2>a, <2>b, <2>c, <2>d DEF SInv, NotAnswered,
       Numbers, Num, Alone, MintDone
  <2>3. Newest'
    <3>1. /\ fallback'.jwt = answer[m] /\ fallback' = published'
          /\ fallback' = stale[m]' /\ answer[m] \in Nat
      BY <1>6, <1>fun, <1>num DEF MintDone, Numbers
    <3>2. LoggedIn' /\ UNCHANGED <<auth, snap, rotation>>
      BY <1>6, <2>a DEF MintDone, sessionVars, saveVars, mgrVars, SInv,
         Newest, LoggedIn
    <3>3. Num(fallback) /\ Num(auth) /\ Num(snap) /\ Num(rotation.before)
      BY <1>num DEF Numbers
    <3>4. /\ Held(auth)' /\ Held(snap)' /\ Held(rotation.before)'
          /\ Held(published)'
      BY <2>a, <2>b, <3>1, <3>2, <3>3 DEF SInv, Newest, Held, Num
    <3>5. ASSUME NEW n \in Minters PROVE Held(stale[n])'
      <4>1. CASE n = m
        BY <4>1, <3>1 DEF Held
      <4>2. CASE n # m
        <5>1. stale[n]' = stale[n] /\ Num(stale[n])
          BY <4>2, <1>6, <1>num DEF MintDone, Numbers
        <5>2. QED
          BY <5>1, <2>a, <2>b, <3>1, <3>3 DEF SInv, Newest, Held, Num
      <4>3. QED
        BY <4>1, <4>2
    <3>6. \A v \in superseded' : v < fallback'.jwt
      <4>1. superseded' = superseded \cup {fallback.jwt}
        BY <1>6, <2>a, <2>b DEF MintDone, SInv, AllKnown, Known
      <4>2. QED
        BY <4>1, <2>a, <2>b, <3>1, <3>3, <1>num DEF SInv, Newest, Numbers, Num
    <3>7. QED
      BY <3>2, <3>4, <3>5, <3>6 DEF Newest
  <2>4. Flight'
    <3>1. /\ minter' = [minter EXCEPT ![m] = "done"]
          /\ \A n \in Minters : n # m => stale[n]' = stale[n]
          /\ UNCHANGED <<answer, minted, expired>>
          /\ fallback' = [jwt |-> answer[m], refresh |-> answer[m]]
      BY <1>6 DEF MintDone, serverVars
    <3>2. Live'
      BY <2>b, <2>d, <3>1, <1>num DEF Live, Expired, Numbers
    <3>3. QED
      BY <2>c, <3>1, <3>2, <1>fun DEF Flight
  <2>5. Unarmed'
    BY <1>6, <1>num, <1>fun, <2>a, <2>b, <2>c, <2>d DEF SInv, Unarmed,
       LoggedIn, Numbers, Num, Alone, MintDone, Expired, Live, sessionVars,
       saveVars
  <2>6. QED
    BY <1>6, <2>1, <2>2, <2>3, <2>4, <2>5, Kept DEF SInv, MintDone,
       sessionVars, saveVars, mgrVars, serverVars
<1>7. QED
  BY <1>1, <1>2, <1>3, <1>4, <1>5, <1>6 DEF MinterStep

\* A step of the token watch.
LEMMA WatchFlight ==
  ASSUME Alone, TInv, SInv, WatchAdopt \/ WatchSaved
  PROVE  SInv'
<1>num. Numbers
  BY TypedNumbers
<1>1. CASE WatchAdopt
  <2>a. fallback # NoSession /\ LoggedIn /\ auth \in Sessions
    BY <1>1 DEF WatchAdopt, SInv, Unarmed, Newest, TInv, SessionsTyped,
       LoggedIn
  <2>b. published \in Pairs /\ published # NoSession
    BY <1>1, NoSessionAssumption DEF WatchAdopt, TInv, TokensInv
  <2>c. Replaced(auth, published)
    BY <2>a, <2>b, Applied
  <2>1. AllKnown'
    <3>1. /\ UNCHANGED <<snap, rotation, disk, fallback, published, stale,
                         minted, expired>>
          /\ auth' \in {auth, Apply(auth, published)}
          /\ \A j \in jobs' : j \in jobs \/ j.session = Apply(auth, published)
      BY <1>1, SaveJobs DEF WatchAdopt, saveVars, mgrVars, mintVars, serverVars
    <3>2. Known(Apply(auth, published))
      BY <2>b, <2>c DEF SInv, AllKnown, Known, Replaced
    <3>3. QED
      BY <3>1, <3>2 DEF SInv, AllKnown, Known
  <2>2. Quiet'
    <3>1. /\ UNCHANGED <<push, mgr>>
          /\ auth' \in {auth, Apply(auth, published)}
          /\ \A j \in jobs' : j \in jobs \/ j.by = "watch"
      BY <1>1, SaveJobs DEF WatchAdopt, saveVars, mgrVars, serverVars
    <3>2. QED
      BY <2>a, <2>c, <3>1 DEF SInv, Quiet, LoggedIn, Replaced
  <2>3. Newest'
    BY <1>1, <1>num, <2>a, <2>b, <2>c DEF SInv, Newest, Held, LoggedIn,
       Numbers, Num, Alone, WatchAdopt, Apply, Save, Queue, Replaced,
       sessionVars, saveVars,
       mintVars, mgrVars, historyVars
  <2>4. Unarmed'
    BY <1>1, <1>num, <2>a, <2>b, <2>c DEF SInv, Unarmed, LoggedIn, Numbers,
       Num, Alone, WatchAdopt, Apply, Save, Queue, Replaced, sessionVars,
       saveVars
  <2>5. QED
    BY <1>1, <2>1, <2>2, <2>3, <2>4, Kept DEF SInv, WatchAdopt, mintVars,
       serverVars
<1>2. CASE WatchSaved
  <2>1. QED
    BY <1>2, Kept DEF SInv, WatchSaved, sessionVars, saveVars, tokenVars,
       mintVars,
       mgrVars, serverVars, historyVars
<1>3. QED
  BY <1>1, <1>2

\* A step of the manager.
LEMMA ManagerFlight ==
  ASSUME Alone, TInv, SInv, ManagerStep
  PROVE  SInv'
<1>num. Numbers
  BY TypedNumbers
<1>1. CASE Top
  <2>a. UNCHANGED <<fallback, minter, stale, lock, answer, minted, expired>>
    BY <1>1 DEF Top, SInv, Newest, mintVars, serverVars
  <2>1. AllKnown'
    BY <1>1, <1>num, <2>a DEF SInv, AllKnown, Known, Numbers, Num, Alone, Top,
       LoggedIn, sessionVars, saveVars
  <2>2. Quiet'
    BY <1>1, <1>num, <2>a DEF SInv, Quiet, LoggedIn, Numbers, Num, Alone, Top,
       sessionVars, saveVars, serverVars
  <2>3. Newest'
    BY <1>1, <1>num, <2>a DEF SInv, Newest, Held, LoggedIn, Numbers, Num,
       Alone, Top, sessionVars, saveVars, historyVars
  <2>4. Flight'
    BY <2>a, Kept DEF SInv
  <2>5. Unarmed'
    BY <1>1, <2>a DEF Top, tokenVars, sessionVars, saveVars, historyVars,
       SInv, Unarmed,
       LoggedIn
  <2>6. QED
    BY <1>1, <2>1, <2>2, <2>3, <2>4, <2>5, Kept DEF SInv, Top, mintVars
<1>2. CASE ArmFromSnapshot
  <2>a. snap \in Sessions /\ LoggedIn
    BY <1>2 DEF ArmFromSnapshot, TInv, ManagerInv, SInv, Quiet
  <2>b. Known(snap) /\ (fallback # NoSession => Held(snap))
    BY DEF SInv, AllKnown, Newest
  <2>c. Rearmed(snap)
    BY <2>a, <2>b, Armed
  <2>1. AllKnown'
    <3>1. /\ UNCHANGED <<auth, jobs, disk, published, stale, snap, rotation,
                         minted, expired>>
          /\ fallback' = Arm(snap)
      BY <1>2 DEF ArmFromSnapshot, sessionVars, saveVars, mintVars, serverVars
    <3>2. Known(fallback)'
      BY <3>1, <2>a, <2>b, <2>c, NoSessionAssumption DEF Rearmed, Known, SInv,
         AllKnown
    <3>3. QED
      BY <3>1, <3>2 DEF SInv, AllKnown, Known
  <2>2. Quiet'
    BY <1>2, <1>num, <2>a, <2>b, <2>c DEF SInv, Quiet, LoggedIn, Numbers, Num,
       Alone, ArmFromSnapshot, sessionVars, saveVars, serverVars
  <2>3. Newest'
    <3>1. UNCHANGED <<auth, snap, published, stale, superseded, mgr>>
          \/ mgr # "top"
      BY <1>2 DEF ArmFromSnapshot
    <3>2. /\ UNCHANGED <<auth, snap, rotation, published, stale, superseded>>
          /\ fallback' = Arm(snap) /\ mgr # "top"
      BY <1>2 DEF ArmFromSnapshot, sessionVars, saveVars, mintVars, historyVars
    <3>3. fallback = NoSession =>
            /\ Num(auth) /\ snap.jwt = auth.jwt
            /\ rotation.before # NoSession => rotation.before.jwt = auth.jwt
      BY <3>2, <1>num DEF SInv, Unarmed, Numbers
    <3>4. Held(auth)' /\ Held(snap)' /\ Held(rotation.before)'
      <4>1. CASE fallback # NoSession
        BY <4>1, <3>2, <2>c DEF Rearmed, SInv, Newest, Held
      <4>2. CASE fallback = NoSession
        BY <4>2, <3>2, <3>3, <2>a, <2>c, NoSessionAssumption DEF Rearmed,
           Held, Num, LoggedIn
      <4>3. QED
        BY <4>1, <4>2
    <3>5. QED
      BY <3>2, <3>4, <2>a, <2>c, NewestRearmed DEF Rearmed, LoggedIn
  <2>4. Flight'
    BY <1>2, <2>c, FlightRearmed DEF ArmFromSnapshot, Rearmed, mintVars,
       serverVars
  <2>5. Unarmed'
    BY <1>2, <1>num, <2>a, <2>b, <2>c DEF SInv, Unarmed, LoggedIn, Numbers,
       Num, Alone, ArmFromSnapshot, Rearmed, sessionVars, saveVars
  <2>6. QED
    BY <1>2, <2>1, <2>2, <2>3, <2>4, <2>5, Kept DEF SInv, ArmFromSnapshot,
       mintVars
<1>3. CASE Ladder
  <2>1. Quiet'
    BY <1>3, <1>num DEF SInv, Quiet, LoggedIn, Numbers, Num, Alone, Ladder,
       sessionVars, saveVars, serverVars
  <2>2. Unarmed'
    BY <1>3, <1>num DEF SInv, Unarmed, LoggedIn, Numbers, Num, Alone, Ladder,
       sessionVars, saveVars, tokenVars, mintVars, historyVars
  <2>3. QED
    BY <1>3, <2>1, <2>2, Kept DEF SInv, Ladder, sessionVars, saveVars,
       tokenVars,
       mintVars, serverVars, historyVars
<1>4. CASE Rotate
  <2>1. Quiet'
    BY <1>4, <1>num DEF SInv, Quiet, LoggedIn, Numbers, Num, Alone, Rotate,
       sessionVars, saveVars, serverVars
  <2>2. NotAnswered'
    BY <1>4, <1>num DEF SInv, NotAnswered, Numbers, Rotate
  <2>3. Flight'
    BY <1>4, <1>num DEF SInv, Flight, Live, Expired, Numbers, Num, Alone,
       Rotate, tokenVars, serverVars
  <2>4. Unarmed'
    BY <1>4, <1>num DEF SInv, Unarmed, LoggedIn, Numbers, Num, Alone, Rotate,
       sessionVars, saveVars, tokenVars, historyVars
  <2>5. AllKnown' /\ Newest'
    <3>1. PICK m \in Rotations :
            rotation' = [call |-> m, next |-> mgr, before |-> snap]
      BY <1>4 DEF Rotate
    <3>2. rotation'.before = snap
      BY <3>1
    <3>3. QED
      BY <1>4, <3>2 DEF SInv, AllKnown, Known, Newest, Held, LoggedIn, Rotate,
         sessionVars, saveVars, tokenVars, serverVars, historyVars
  <2>6. QED
    BY <1>4, <2>1, <2>2, <2>3, <2>4, <2>5, Kept DEF SInv, Rotate, sessionVars,
       saveVars, tokenVars, serverVars, historyVars
<1>5. CASE RenewApply
  <2>a. /\ auth \in Sessions /\ snap \in Sessions /\ LoggedIn
        /\ auth # NoSession /\ snap # NoSession
    BY <1>5, NoSessionAssumption DEF RenewApply, TInv, ManagerInv, SInv,
       Quiet, LoggedIn, SessionsTyped
  <2>b. /\ rotation.call \in Minters
        /\ stale[rotation.call] \in Pairs /\ stale[rotation.call] # NoSession
    BY <1>5, NoSessionAssumption DEF RenewApply, TInv, ManagerInv, MintsInv,
       Minters
  <2>c. Replaced(auth, stale[rotation.call])
      /\ Replaced(snap, stale[rotation.call])
    BY <2>a, <2>b, Applied
  <2>d. fallback # NoSession
    BY <2>b DEF SInv, Unarmed
  <2>r. /\ rotation' \in {rotation, NoRotation}
        /\ NoRotation.before = NoSession /\ NoRotation.next = "top"
    BY <1>5 DEF RenewApply, NoRotation
  <2>j. /\ auth' \in {auth, Apply(auth, stale[rotation.call])}
        /\ \A j \in jobs' :
             \/ j \in jobs
             \/ j.by = "manager" /\ j.session = Apply(auth, stale[rotation.call])
    BY <1>5, SaveJobs DEF RenewApply, saveVars
  <2>1. AllKnown'
    <3>1. /\ UNCHANGED <<disk, fallback, published, stale, minted, expired>>
          /\ snap' \in {Apply(auth, stale[rotation.call]),
                        Apply(snap, stale[rotation.call])}
      BY <1>5 DEF RenewApply, tokenVars, mintVars, serverVars
    <3>2. Known(stale[rotation.call])
      BY <2>b DEF SInv, AllKnown
    <3>3. /\ Known(Apply(auth, stale[rotation.call]))
          /\ Known(Apply(snap, stale[rotation.call]))
      BY <3>2, <2>b, <2>c DEF Known, Replaced
    <3>4. Known(rotation.before)'
      BY <2>r, <3>1 DEF SInv, AllKnown, Known
    <3>5. QED
      BY <2>j, <3>1, <3>3, <3>4 DEF SInv, AllKnown, Known
  <2>2. Quiet'
    <3>1. UNCHANGED push
      BY <1>5 DEF RenewApply, serverVars
    <3>2. QED
      BY <2>a, <2>c, <2>j, <3>1 DEF SInv, Quiet, LoggedIn, Replaced
  <2>3. Newest'
    BY <1>5, <1>num, <2>a, <2>b, <2>c, <2>d, <2>r DEF SInv, Newest, Held,
       LoggedIn, Numbers, Num, RenewApply, Replaced, tokenVars, mintVars,
       historyVars
  <2>4. Unarmed'
    BY <1>5, <2>d DEF RenewApply, Unarmed, tokenVars
  <2>5. QED
    BY <1>5, <2>1, <2>2, <2>3, <2>4, Kept DEF SInv, RenewApply, tokenVars,
       mintVars, serverVars
<1>6. CASE RenewFails
  <2>r. rotation' = NoRotation /\ NoRotation.before = NoSession
        /\ NoRotation.next = "top"
    BY <1>6 DEF RenewFails, NoRotation
  <2>1. Quiet'
    BY <1>6, <1>num DEF SInv, Quiet, LoggedIn, Numbers, Num, Alone,
       RenewFails, sessionVars, saveVars, serverVars
  <2>2. Unarmed'
    BY <1>6, <2>r, <1>num DEF SInv, Unarmed, LoggedIn, Numbers, Num, Alone,
       RenewFails, sessionVars, saveVars, tokenVars, mintVars, historyVars
  <2>3. AllKnown' /\ Newest'
    BY <1>6, <2>r DEF SInv, AllKnown, Known, Newest, Held, LoggedIn,
       RenewFails, sessionVars, saveVars, tokenVars, mintVars, serverVars,
       historyVars
  <2>4. QED
    BY <1>6, <2>1, <2>2, <2>3, Kept DEF SInv, RenewFails, tokenVars, mintVars,
       serverVars
<1>14. CASE RenewTimesOut
  <2>r. /\ rotation' = NoRotation /\ NoRotation.before = NoSession
        /\ NoRotation.next = "top"
        /\ snap' = rotation.before /\ rotation.next = "report"
    BY <1>14 DEF RenewTimesOut, NoRotation
  <2>1. Quiet'
    BY <1>14, <1>num DEF SInv, Quiet, LoggedIn, Numbers, Num, Alone,
       RenewTimesOut, saveVars, serverVars
  <2>2. Unarmed'
    <3>1. rotation.before # NoSession
      BY <1>14, NoSessionAssumption DEF RenewTimesOut, TInv, ManagerInv
    <3>2. QED
      BY <1>14, <2>r, <3>1 DEF SInv, Unarmed, LoggedIn, RenewTimesOut,
         tokenVars, mintVars, historyVars
  <2>3. AllKnown'
    <3>1. /\ jobs' \subseteq jobs
          /\ UNCHANGED <<auth, disk, fallback, published, stale, minted,
                         expired>>
      BY <1>14 DEF RenewTimesOut, saveVars, tokenVars, mintVars, serverVars
    <3>2. QED
      BY <2>r, <3>1 DEF SInv, AllKnown, Known
  <2>4. Newest'
    BY <1>14, <2>r DEF SInv, Newest, Held, LoggedIn, RenewTimesOut, tokenVars,
       mintVars, historyVars
  <2>5. QED
    BY <1>14, <2>1, <2>2, <2>3, <2>4, Kept DEF SInv, RenewTimesOut, tokenVars,
       mintVars, serverVars
<1>7. CASE ManagerSaved
  <2>r. rotation' = NoRotation /\ NoRotation.before = NoSession
        /\ NoRotation.next = "top"
    BY <1>7 DEF ManagerSaved, NoRotation
  <2>1. Quiet'
    BY <1>7, <1>num DEF SInv, Quiet, LoggedIn, Numbers, Num, Alone,
       ManagerSaved, sessionVars, saveVars, serverVars
  <2>2. Unarmed'
    BY <1>7, <2>r DEF SInv, Unarmed, LoggedIn, ManagerSaved, sessionVars,
       tokenVars, mintVars, historyVars
  <2>3. AllKnown' /\ Newest'
    BY <1>7, <2>r DEF SInv, AllKnown, Known, Newest, Held, LoggedIn,
       ManagerSaved, sessionVars, saveVars, tokenVars, mintVars, serverVars,
       historyVars
  <2>4. QED
    BY <1>7, <2>1, <2>2, <2>3, Kept DEF SInv, ManagerSaved, tokenVars,
       mintVars,
       serverVars
<1>8. CASE Ask
  <2>a. mgr # "top"
    BY <1>8 DEF Ask
  <2>1. AllKnown'
    BY <1>8, <1>num, <2>a DEF SInv, AllKnown, Known, Numbers, Num, Alone, Ask,
       Mint, sessionVars, saveVars, tokenVars, mintVars
  <2>2. Quiet'
    BY <1>8, <1>num, <2>a DEF SInv, Quiet, LoggedIn, Numbers, Num, Alone, Ask,
       sessionVars, saveVars
  <2>3. Flight'
    BY <1>8, <1>num, <2>a DEF SInv, Flight, Live, Expired, Numbers, Num,
       Alone, Ask, Mint, tokenVars, mintVars
  <2>4. Unarmed'
    BY <1>8, <1>num, <2>a DEF SInv, Unarmed, LoggedIn, Numbers, Num, Alone,
       Ask, Mint, sessionVars, saveVars, tokenVars, mintVars, historyVars
  <2>5. QED
    BY <1>8, <2>1, <2>2, <2>3, <2>4, Kept DEF SInv, Ask, sessionVars, saveVars,
       tokenVars, mintVars, historyVars
<1>9. CASE GatewayMoves
  <2>a. auth \in Sessions /\ auth # NoSession /\ asked \in Mints
    BY <1>9, NoSessionAssumption DEF GatewayMoves, ForSameUser, LoggedIn,
       TInv, ManagerInv, SessionsTyped, Asking
  <2>b. Moved(auth, asked)
    BY <2>a, SidChanged
  <2>1. AllKnown'
    <3>1. /\ UNCHANGED <<rotation, disk, fallback, published, stale, minted,
                         expired>>
          /\ auth' = [auth EXCEPT !.sid = asked] /\ snap' = auth'
          /\ \A j \in jobs' : j \in jobs \/ j.session = auth'
      BY <1>9, SaveJobs DEF GatewayMoves, tokenVars, mintVars
    <3>2. Known([auth EXCEPT !.sid = asked])
      BY <2>a, <2>b DEF SInv, AllKnown, Known
    <3>3. QED
      BY <3>1, <3>2 DEF SInv, AllKnown, Known
  <2>2. Quiet'
    BY <1>9, <1>num, <2>a, <2>b DEF SInv, Quiet, LoggedIn, Numbers, Num,
       Alone, GatewayMoves, ForSameUser, Save, Queue, Moved, serverVars
  <2>3. Newest'
    BY <1>9, <1>num, <2>a, <2>b DEF SInv, Newest, Held, LoggedIn, Numbers,
       Num, Alone, GatewayMoves, ForSameUser, Save, Queue, Moved, sessionVars,
       saveVars,
       tokenVars, mintVars, historyVars
  <2>4. Unarmed'
    BY <1>9, <1>num, <2>a, <2>b DEF SInv, Unarmed, LoggedIn, Numbers, Num,
       Alone, GatewayMoves, ForSameUser, Save, Queue, Moved, sessionVars,
       saveVars, tokenVars,
       mintVars, historyVars
  <2>5. QED
    BY <1>9, <2>1, <2>2, <2>3, <2>4, Kept DEF SInv, GatewayMoves, tokenVars,
       mintVars, serverVars
<1>10. CASE GatewayKeeps
  <2>1. AllKnown'
    BY <1>10, <1>num DEF SInv, AllKnown, Known, Numbers, Num, Alone,
       GatewayKeeps, ForSameUser, LoggedIn, Save, Queue, sessionVars,
       saveVars, tokenVars,
       mintVars, serverVars
  <2>2. Quiet'
    BY <1>10, <1>num DEF SInv, Quiet, LoggedIn, Numbers, Num, Alone,
       GatewayKeeps, ForSameUser, Save, Queue, serverVars
  <2>3. Newest'
    BY <1>10, <1>num DEF SInv, Newest, Held, LoggedIn, Numbers, Num, Alone,
       GatewayKeeps, ForSameUser, Save, Queue, sessionVars, saveVars,
       tokenVars, mintVars,
       historyVars
  <2>4. Unarmed'
    BY <1>10, <1>num DEF SInv, Unarmed, LoggedIn, Numbers, Num, Alone,
       GatewayKeeps, ForSameUser, Save, Queue, sessionVars, saveVars,
       tokenVars, mintVars,
       historyVars
  <2>5. QED
    BY <1>10, <2>1, <2>2, <2>3, <2>4, Kept DEF SInv, GatewayKeeps, tokenVars,
       mintVars, serverVars
<1>11. CASE GatewayRemints
  <2>a. auth \in Sessions /\ auth # NoSession /\ asked \in Mints
    BY <1>11, NoSessionAssumption DEF GatewayRemints, ForSameUser, LoggedIn,
       TInv, ManagerInv, SessionsTyped, Asking
  <2>b. Moved(auth, asked)
    BY <2>a, SidChanged
  <2>c. Known(auth) /\ (fallback # NoSession => Held(auth))
    BY DEF SInv, AllKnown, Newest
  <2>d. Rearmed([auth EXCEPT !.sid = asked])
    BY <2>a, <2>b, <2>c, Armed DEF Known, Held, Moved
  <2>r. rotation'.before = NoSession /\ rotation'.next = "ladder"
    BY <1>11 DEF GatewayRemints, NoRotation
  <2>j. \A j \in jobs' :
          j \in jobs \/ (j.by \in {"gateway", "manager"} /\ j.session = auth')
    BY <1>11 DEF GatewayRemints, Queue
  <2>1. AllKnown'
    <3>1. /\ UNCHANGED <<disk, published, stale, minted, expired>>
          /\ auth' = [auth EXCEPT !.sid = asked] /\ snap' = auth'
          /\ fallback' = Arm([auth EXCEPT !.sid = asked])
      BY <1>11 DEF GatewayRemints, mintVars
    <3>2. Known(auth)'
      BY <2>a, <2>b, <2>c, <3>1 DEF Known, Moved
    <3>3. Known(fallback)'
      BY <2>a, <2>b, <2>c, <2>d, <3>1 DEF SInv, AllKnown, Known, Moved, Rearmed
    <3>4. QED
      BY <2>r, <2>j, <3>1, <3>2, <3>3 DEF SInv, AllKnown, Known
  <2>2. Quiet'
    <3>1. UNCHANGED push /\ auth' # NoSession
      BY <1>11, <2>b DEF GatewayRemints, Moved
    <3>2. QED
      BY <2>j, <3>1 DEF SInv, Quiet, LoggedIn
  <2>3. Newest'
    <3>1. /\ UNCHANGED <<published, stale, superseded>>
          /\ auth' = [auth EXCEPT !.sid = asked] /\ snap' = auth'
          /\ fallback' = Arm([auth EXCEPT !.sid = asked])
      BY <1>11 DEF GatewayRemints, mintVars, historyVars
    <3>2. auth'.jwt = auth.jwt /\ auth' # NoSession /\ Num(auth)
      BY <3>1, <2>b, <1>num DEF Moved, Numbers
    <3>3. Held(auth)' /\ Held(snap)' /\ Held(rotation.before)'
      BY <3>1, <3>2, <2>a, <2>b, <2>c, <2>d, <2>r DEF Rearmed, Held, Num
    <3>4. QED
      BY <3>1, <3>2, <3>3, <2>d, NewestRearmed DEF Rearmed
  <2>4. Flight'
    BY <1>11, <2>b, <2>d, FlightRearmed DEF GatewayRemints, Rearmed, mintVars,
       serverVars
  <2>5. Unarmed'
    BY <1>11, <1>num, <2>a, <2>b, <2>c, <2>d, <2>r DEF SInv, Unarmed, LoggedIn,
       Numbers, Num, Alone, GatewayRemints, ForSameUser, Moved, Rearmed,
       sessionVars, saveVars
  <2>6. QED
    BY <1>11, <2>1, <2>2, <2>3, <2>4, <2>5, Kept DEF SInv, GatewayRemints,
       mintVars
<1>12. CASE AskFails
  <2>a. mgr # "top"
    BY <1>12 DEF AskFails, Asking
  <2>1. Quiet'
    BY <1>12, <1>num, <2>a DEF SInv, Quiet, LoggedIn, Numbers, Num, Alone,
       AskFails, sessionVars, saveVars, serverVars
  <2>2. Unarmed'
    BY <1>12, <1>num, <2>a DEF SInv, Unarmed, LoggedIn, Numbers, Num, Alone,
       AskFails, Asking, sessionVars, saveVars, tokenVars, mintVars,
       historyVars
  <2>3. QED
    BY <1>12, <2>1, <2>2, Kept DEF SInv, AskFails, sessionVars, saveVars,
       tokenVars,
       mintVars, serverVars, historyVars
<1>13. QED
  BY <1>1, <1>2, <1>3, <1>4, <1>5, <1>6, <1>7, <1>8, <1>9, <1>10, <1>11, <1>12,
     <1>14 DEF ManagerStep

\* A step of the servers, the user, the pool or the clock.
LEMMA WorldFlight ==
  ASSUME Alone, TInv, SInv,
         \/ ServerPush \/ PushLost \/ PushArrives \/ Login \/ Logout \/ Expire \/ Quit
         \/ \E j \in jobs : RunJob(j)
         \/ \E l \in Logins : Revoke(l)
  PROVE  SInv'
<1>num. Numbers
  BY TypedNumbers
<1>1. CASE ServerPush
  BY <1>1 DEF ServerPush, Alone
<1>2. CASE PushLost \/ PushArrives
  <2>a. FALSE
    BY <1>2 DEF PushLost, PushArrives, SInv, Quiet
  <2>1. QED
    BY <2>a
<1>3. CASE Login
  <2>1. AllKnown'
    BY <1>3, <1>num DEF SInv, AllKnown, Known, Numbers, Num, Alone, Login,
       Save, Queue, LoggedIn, Mint, sessionVars, saveVars, tokenVars,
       mintVars, mgrVars
  <2>2. Quiet'
    BY <1>3, <1>num DEF SInv, Quiet, LoggedIn, Numbers, Num, Alone, Login,
       Save, Queue, mgrVars
  <2>3. Newest'
    BY <1>3, <1>num DEF SInv, Newest, Held, LoggedIn, Numbers, Num, Alone,
       Login, Save, Queue, Mint, sessionVars, saveVars, tokenVars
  <2>4. Flight'
    BY <1>3, <1>num DEF SInv, Flight, Live, Expired, Numbers, Num, Alone,
       Login, Save, Queue, LoggedIn, Mint, tokenVars, mintVars
  <2>5. Unarmed'
    BY <1>3, <1>num DEF SInv, Unarmed, LoggedIn, Numbers, Num, Alone, Login,
       Save, Queue, Mint, sessionVars, saveVars, tokenVars, mintVars, mgrVars,
       historyVars
  <2>6. QED
    BY <1>3, <2>1, <2>2, <2>3, <2>4, <2>5, Kept DEF SInv, Login, mintVars
<1>4. CASE Logout
  <2>a. FALSE
    BY <1>4 DEF Logout, Alone
  <2>1. QED
    BY <2>a
<1>5. ASSUME NEW j \in jobs, RunJob(j) PROVE SInv'
  <2>1. AllKnown'
    <3>1. disk' \in {NoSession, j.session} /\ jobs' \subseteq jobs
      BY <1>5 DEF RunJob, Effect
    <3>2. QED
      BY <1>5, <3>1 DEF SInv, AllKnown, Known, RunJob, tokenVars, mintVars,
         mgrVars
  <2>2. Quiet'
    BY <1>5, <1>num DEF SInv, Quiet, LoggedIn, Numbers, Num, Alone, RunJob,
       mgrVars
  <2>3. QED
    BY <1>5, <2>1, <2>2, Kept DEF SInv, RunJob, sessionVars, saveVars,
       tokenVars,
       mintVars, mgrVars, historyVars
<1>6. ASSUME NEW l \in Logins, Revoke(l) PROVE SInv'
  <2>1. QED
    BY <1>6, Kept DEF SInv, Revoke, sessionVars, saveVars, tokenVars,
       mintVars, mgrVars,
       historyVars
<1>7. CASE Expire
  <2>a. \A n \in Minters : minter[n] # "lock" /\ minter[n] # "post"
    BY <1>7, TokensAssumption DEF Expire, Settled, Alone, SInv, Flight,
       Minters
  <2>1. AllKnown'
    BY <1>7, <1>num, <2>a DEF SInv, AllKnown, Known, Numbers, Num, Alone,
       Expire, Settled, Expired, Live, sessionVars, saveVars, tokenVars,
       mintVars,
       mgrVars
  <2>2. Flight'
    BY <1>7, <1>num, <2>a DEF SInv, Flight, Live, Expired, Numbers, Num,
       Alone, Expire, mintVars
  <2>3. QED
    BY <1>7, <2>1, <2>2, Kept DEF SInv, Expire, sessionVars, saveVars,
       tokenVars,
       mintVars, mgrVars, historyVars
<1>8. CASE Quit
  <2>1. AllKnown'
    BY <1>8, <1>num DEF SInv, AllKnown, Known, Numbers, Num, Alone, Quit,
       NoRotation, sessionVars, saveVars
  <2>2. Quiet'
    BY <1>8, <1>num DEF SInv, Quiet, LoggedIn, Numbers, Num, Alone, Quit
  <2>3. NotAnswered'
    BY <1>8, <1>num DEF SInv, NotAnswered, Numbers, Quit
  <2>4. Newest'
    BY <1>8, <1>num DEF SInv, Newest, Held, LoggedIn, Numbers, Num, Alone,
       Quit, sessionVars, saveVars
  <2>5. Flight'
    BY <1>8, <1>num DEF SInv, Flight, Live, Expired, Numbers, Num, Alone, Quit
  <2>6. Unarmed'
    BY <1>8, <1>num DEF SInv, Unarmed, LoggedIn, Numbers, Num, Alone, Quit,
       NoRotation, sessionVars, saveVars
  <2>7. QED
    BY <1>8, <2>1, <2>2, <2>3, <2>4, <2>5, <2>6 DEF SInv
<1>9. QED
  BY <1>1, <1>2, <1>3, <1>4, <1>5, <1>6, <1>7, <1>8

\* It holds at the start.
LEMMA InitFlight == Init => SInv
<1> SUFFICES ASSUME Init PROVE SInv
  OBVIOUS
<1>1. AllKnown
  BY DEF Init, AllKnown, Known, NoRotation
<1>2. Quiet /\ NotAnswered
  BY DEF Init, Quiet, NotAnswered
<1>3. Newest /\ Flight
  BY DEF Init, Newest, Flight
<1>4. Unarmed
  BY DEF Init, Unarmed, NoRotation
<1>5. QED
  BY <1>1, <1>2, <1>3, <1>4 DEF SInv

\* It holds after every step.
LEMMA StepFlight == Alone /\ TInv /\ SInv /\ [Next]_vars => SInv'
<1> SUFFICES ASSUME Alone, TInv, SInv, [Next]_vars PROVE SInv'
  OBVIOUS
<1>1. CASE Next
  BY <1>1, MinterFlight, WatchFlight, ManagerFlight, WorldFlight DEF Next
<1>2. CASE UNCHANGED vars
  BY <1>2, Kept DEF SInv, vars, sessionVars, saveVars, tokenVars, mintVars,
     mgrVars,
     serverVars, historyVars
<1>3. QED
  BY <1>1, <1>2

\* Who posts carries the refresh token the fallback still has, and that one
\* has not been replaced.
LEMMA FlightSingle == TInv /\ SInv => NeverSpentTwice
<1> SUFFICES ASSUME TInv, SInv, NEW m \in Minters, minter[m] = "post"
             PROVE  stale[m].refresh \notin superseded
  BY DEF NeverSpentTwice
<1>1. stale[m].refresh = fallback.refresh /\ fallback # NoSession
  BY DEF SInv, Flight, Unarmed
<1>2. fallback.jwt = fallback.refresh /\ fallback.jwt \in Nat
  BY <1>1, TypedNumbers DEF SInv, AllKnown, Known, Numbers, Num
<1>3. \A v \in superseded : v < fallback.jwt
  BY <1>1 DEF SInv, Newest
<1>4. QED
  BY <1>1, <1>2, <1>3

\* However many sends and renewals want a new pair at once, whatever the
\* gateway answers and however often the app is quit, no refresh token is
\* sent again once this run has its replacement: refresh_fallback_token is
\* single-flight, as long as nobody logs out, the server pushes no tokens and
\* no JWT expires in the middle of an await.
THEOREM SpentOnce == Alone /\ Spec => []NeverSpentTwice
<1> SUFFICES ASSUME Alone PROVE Spec => []NeverSpentTwice
  OBVIOUS
<1>1. Init => TInv /\ SInv
  BY InitTyped, InitFlight
<1>2. TInv /\ SInv /\ [Next]_vars => (TInv /\ SInv)'
  BY StepTyped, StepFlight
<1>3. TInv /\ SInv => NeverSpentTwice
  BY FlightSingle
<1>4. QED
  BY <1>1, <1>2, <1>3, PTL DEF Spec

------------------------------------------------------------------------------
(* The disk follows the session.                                            *)

\* Unless jobs raced or one was cut, what is queued leaves on disk what
\* auth_state holds, and with nothing queued it is there.
FInv ==
    ~raced /\ ~cut =>
        /\ \A j \in jobs : Effect(j) = auth
        /\ jobs = {} => disk = auth

\* What a job saves is what it leaves on disk.
LEMMA SaveEffect ==
  ASSUME NEW by \in Savers, NEW s
  PROVE  Effect([by |-> by, session |-> s]) = s
BY DEF Effect, Savers

\* A session that is queued as it is assigned follows.
LEMMA QueueFollows ==
  ASSUME FInv, NEW new, new # {}, \A k \in new : Effect(k) = auth', Queue(new)
  PROVE  FInv'
<1> SUFFICES ASSUME ~raced' PROVE jobs' # {} /\ \A j \in jobs' : Effect(j) = auth'
  BY DEF FInv, Effect
<1>1. jobs' = jobs \cup new
  BY DEF Queue
<1>2. jobs = {} \/ \A j \in jobs, k \in new : Effect(j) = Effect(k)
  BY Zenon DEF Queue
<1>3. QED
  BY <1>1, <1>2

LEMMA SaveFollows ==
  ASSUME FInv, NEW by \in Savers, Save(by, auth')
  PROVE  FInv'
<1>1. \A k \in {[by |-> by, session |-> auth']} : Effect(k) = auth'
  BY SaveEffect
<1>2. QED
  BY <1>1, QueueFollows DEF Save

\* A step that leaves all four alone leaves that so.
LEMMA StillFollows == FInv /\ UNCHANGED sessionVars => FInv'
BY DEF FInv, Effect, sessionVars, saveVars

\* Every step that replaces auth queues what it put there.
LEMMA StepFollows == FInv /\ [Next]_vars => FInv'
<1> SUFFICES ASSUME FInv, [Next]_vars PROVE FInv'
  OBVIOUS
<1>1. ASSUME NEW m \in Minters, MinterStep(m) PROVE FInv'
  BY <1>1, StillFollows DEF MinterStep, MintBegin, MintReuse, MintPost,
     ServerMints, MintFails, MintDone
<1>2. CASE WatchAdopt
  <2>1. CASE LoggedIn /\ auth.jwt # published.jwt
    BY <1>2, <2>1, SaveFollows DEF WatchAdopt, Savers
  <2>2. CASE ~(LoggedIn /\ auth.jwt # published.jwt)
    BY <1>2, <2>2, StillFollows DEF WatchAdopt, sessionVars
  <2>3. QED
    BY <2>1, <2>2
<1>3. CASE WatchSaved
  BY <1>3, StillFollows DEF WatchSaved
<1>4. CASE RenewApply
  <2> DEFINE pair == stale[rotation.call]
  <2>1. CASE LoggedIn /\ User(auth) = User(pair)
    BY <1>4, <2>1, SaveFollows DEF RenewApply, Savers
  <2>2. CASE ~(LoggedIn /\ User(auth) = User(pair))
    BY <1>4, <2>2, StillFollows DEF RenewApply, sessionVars
  <2>3. QED
    BY <2>1, <2>2
<1>5. CASE RenewTimesOut
  <2>1. CASE cut'
    BY <2>1 DEF FInv
  <2>2. CASE UNCHANGED saveVars
    BY <1>5, <2>2, StillFollows DEF RenewTimesOut, sessionVars
  <2>3. QED
    BY <1>5, <2>1, <2>2 DEF RenewTimesOut
<1>6. CASE GatewayMoves \/ GatewayKeeps
  BY <1>6, SaveFollows DEF GatewayMoves, GatewayKeeps, Savers
<1>7. CASE GatewayRemints
  <2> DEFINE new == [by : {"gateway", "manager"}, session : {auth'}]
  <2>1. Queue(new)
    BY <1>7 DEF GatewayRemints
  <2>2. [by |-> "manager", session |-> auth'] \in new
    OBVIOUS
  <2>3. \A k \in new : Effect(k) = auth'
    BY DEF Effect
  <2>4. QED
    BY <2>1, <2>2, <2>3, QueueFollows
<1>8. CASE \/ Top \/ ArmFromSnapshot \/ Ladder \/ Rotate \/ RenewFails
           \/ ManagerSaved \/ Ask \/ AskFails
  BY <1>8, StillFollows DEF Top, ArmFromSnapshot, Ladder, Rotate, RenewFails,
     ManagerSaved, Ask, AskFails
<1>9. CASE PushArrives
  <2>1. CASE LoggedIn
    BY <1>9, <2>1, SaveFollows DEF PushArrives, Savers
  <2>2. CASE ~LoggedIn
    BY <1>9, <2>2, StillFollows DEF PushArrives, sessionVars
  <2>3. QED
    BY <2>1, <2>2
<1>10. CASE Login
  BY <1>10, SaveFollows DEF Login, Savers
<1>11. CASE Logout
  <2>1. /\ Queue({[by |-> "logout", session |-> auth]}) /\ auth' = NoSession
    BY <1>11 DEF Logout, Save
  <2>2. \A k \in {[by |-> "logout", session |-> auth]} : Effect(k) = auth'
    BY <2>1 DEF Effect
  <2>3. QED
    BY <2>1, <2>2, QueueFollows
<1>12. ASSUME NEW j \in jobs, RunJob(j) PROVE FInv'
  BY <1>12 DEF RunJob, FInv, Effect
<1>13. CASE Quit
  BY <1>13 DEF Quit, FInv
<1>14. CASE ServerPush \/ PushLost \/ Expire \/ \E l \in Logins : Revoke(l)
  BY <1>14, StillFollows DEF ServerPush, PushLost, Expire, Revoke
<1>15. CASE UNCHANGED vars
  BY <1>15, StillFollows DEF vars
<1>16. QED
  BY <1>1, <1>2, <1>3, <1>4, <1>5, <1>6, <1>7, <1>8, <1>9, <1>10, <1>11,
     <1>12, <1>13, <1>14, <1>15 DEF Next, ManagerStep

\* Whoever replaces a part of the session - a login, a push, the watch, the
\* manager, the gateway's answer - saves what auth_state then holds: with all
\* jobs done the disk has it, for any callers and across quits, unless jobs
\* raced or the manager's timeout cut a save off.
THEOREM DiskAlwaysFollows == Spec => []DiskFollows
<1>1. Init => FInv
  BY DEF Init, FInv
<1>2. FInv /\ [Next]_vars => FInv'
  BY StepFollows
<1>3. FInv => DiskFollows
  BY DEF FInv, DiskFollows
<1>4. QED
  BY <1>1, <1>2, <1>3, PTL DEF Spec

==============================================================================

--------------------------- MODULE ConnectionProofs ---------------------------
(***************************************************************************)
(* Machine-checked theorems about Connection, for any bounds on faults,     *)
(* changes of server, moves and logins: the types with their generations,   *)
(* that only the gateway's acceptance confirms an attempt, and that a       *)
(* manager at rest has what it should have and shows it.                    *)
(***************************************************************************)
EXTENDS Connection, TLAPS

\* The heartbeat reports under the generation it has just begun.
NotAhead == hb = "report" => seen < gen

\* Types alone are not inductive: BeatReports names a generation it computes.
TInv == TypeOK /\ NotAhead

\* Generations only grow, one at a time.
Later == gen \in Nat /\ gen' \in Nat /\ gen <= gen'

------------------------------------------------------------------------------
(* Type correctness.                                                        *)

\* The bound on the connections is a number.
LEMMA MaxConnsTyped == MaxConns \in Nat
BY ConnectionAssumption DEF MaxConns

\* The program starts well typed.
LEMMA InitTyped == Init => TInv
<1> SUFFICES ASSUME Init PROVE TInv
  OBVIOUS
<1> USE ConnectionAssumption DEF Init
<1>1. ManagerTyped
  BY DEF ManagerTyped
<1>2. SharedTyped
  BY DEF SharedTyped
<1>3. AdapterTyped
  <2>1. 0 \in 0 .. MaxConns
    BY MaxConnsTyped
  <2>2. open \in BOOLEAN /\ confirmed \in [Conns -> BOOLEAN]
    BY Zenon
  <2>3. joining \in [Closers -> 0 .. conns] /\ of \in [Conns -> 0 .. gen]
    OBVIOUS
  <2>4. QED
    BY <2>1, <2>2, <2>3 DEF AdapterTyped
<1>4. HelpersTyped
  BY DEF HelpersTyped
<1>5. QED
  BY <1>1, <1>2, <1>3, <1>4 DEF TInv, TypeOK, NotAhead

\* Variables that a step leaves alone stay well typed, however far the
\* generation moves on.
LEMMA Frames ==
  /\ ManagerTyped /\ Later /\ UNCHANGED <<auth, mgrVars>> => ManagerTyped'
  /\ SharedTyped /\ UNCHANGED <<sharedVars, ackVars>> => SharedTyped'
  /\ AdapterTyped /\ Later /\ UNCHANGED netVars => AdapterTyped'
  /\ HelpersTyped /\ Later /\ UNCHANGED <<hbVars, rc, budgets>>
     => HelpersTyped'
  /\ HelpersTyped /\ NotAhead /\ Later /\ UNCHANGED hbVars => NotAhead'
<1>1. ManagerTyped /\ Later /\ UNCHANGED <<auth, mgrVars>> => ManagerTyped'
  BY DEF ManagerTyped, mgrVars, localVars, Later
<1>2. SharedTyped /\ UNCHANGED <<sharedVars, ackVars>> => SharedTyped'
  BY DEF SharedTyped, sharedVars, ackVars
<1>3. AdapterTyped /\ Later /\ UNCHANGED netVars => AdapterTyped'
  BY DEF AdapterTyped, netVars, socketVars, loopVars, Later
<1>4. HelpersTyped /\ Later /\ UNCHANGED <<hbVars, rc, budgets>>
      => HelpersTyped'
  BY DEF HelpersTyped, hbVars, budgets, Later
<1>5. HelpersTyped /\ NotAhead /\ Later /\ UNCHANGED hbVars => NotAhead'
  BY DEF HelpersTyped, NotAhead, Later, hbVars
<1>6. QED
  BY <1>1, <1>2, <1>3, <1>4, <1>5

\* Closing the transport leaves the adapter well typed ...
LEMMA CloseTyped ==
  ASSUME AdapterTyped, Later, NEW c \in Closers, Close(c)
  PROVE  AdapterTyped'
<1>1. /\ open' = FALSE /\ task' = 0 /\ loop' = Abort(task)
      /\ joining' = [joining EXCEPT ![c] = task]
      /\ UNCHANGED <<conns, of, confirmed, peer>>
  BY DEF Close, TakeTask
<1>2. loop' \in [Conns -> {"none", "running", "dead", "health", "status",
                           "wake", "gone"}]
  BY <1>1 DEF AdapterTyped, Abort
<1>3. joining' \in [Closers -> 0 .. conns]
  BY <1>1 DEF AdapterTyped
<1>4. task' \in 0 .. conns
  BY <1>1 DEF AdapterTyped
<1>5. of' \in [Conns -> 0 .. gen']
  BY <1>1 DEF AdapterTyped, Later
<1>6. QED
  BY <1>1, <1>2, <1>3, <1>4, <1>5 DEF AdapterTyped

\* ... and so does the join of the I/O loop it stopped.
LEMMA ReleasedTyped ==
  ASSUME AdapterTyped, Later, NEW c \in Closers, Released(c),
         UNCHANGED <<open, conns, task, loopVars>>
  PROVE  AdapterTyped'
<1>1. joining' \in [Closers -> 0 .. conns]
  BY DEF AdapterTyped, Released
<1>2. of' \in [Conns -> 0 .. gen']
  BY DEF AdapterTyped, Later, loopVars
<1>3. QED
  BY <1>1, <1>2 DEF AdapterTyped, loopVars

\* A step of the manager leaves everything well typed.
LEMMA ManagerTypes ==
  ASSUME TInv, ManagerStep
  PROVE  TInv'
<1> USE ConnectionAssumption
<1>1. CASE ManagerJoins
  <2>1. Later
    BY <1>1 DEF TInv, TypeOK, SharedTyped, Later, ManagerJoins, sharedVars
  <2>2. AdapterTyped'
    BY <1>1, <2>1, ReleasedTyped DEF TInv, TypeOK, ManagerJoins, Closers
  <2>3. QED
    BY <1>1, <2>1, <2>2, Frames DEF TInv, TypeOK, ManagerJoins, mgrVars,
       localVars, sharedVars, ackVars, hbVars, budgets
<1>2. CASE Top
  <2>1. Later
    BY <1>2 DEF TInv, TypeOK, SharedTyped, Later, Top, Bump
  <2>2. ManagerTyped'
    BY <1>2, <2>1 DEF TInv, TypeOK, ManagerTyped, Later, Top, Bump,
       SharedTyped, Closes
  <2>3. SharedTyped'
    <3>1. reports' \subseteq 0 .. gen'
      BY <1>2, <2>1 DEF TInv, TypeOK, SharedTyped, Later, Top, Bump
    <3>2. QED
      BY <1>2, <2>1, <3>1 DEF TInv, TypeOK, SharedTyped, Later, Top, Bump,
         ackVars
  <2>4. QED
    BY <1>2, <2>1, <2>2, <2>3, Frames DEF TInv, TypeOK, Top, netVars,
       socketVars, loopVars, hbVars, budgets
<1>3. CASE LoggedOut
  <2>1. Later
    BY <1>3 DEF TInv, TypeOK, SharedTyped, Later, LoggedOut
  <2>2. ManagerTyped'
    BY <1>3, <2>1 DEF TInv, TypeOK, ManagerTyped, Later, LoggedOut, localVars,
       SharedTyped
  <2>3. SharedTyped'
    BY <1>3 DEF TInv, TypeOK, SharedTyped, LoggedOut, ackVars
  <2>4. QED
    BY <1>3, <2>1, <2>2, <2>3, Frames DEF TInv, TypeOK, LoggedOut, netVars,
       socketVars, loopVars, hbVars, budgets
<1>4. CASE TakeReports
  <2>1. Later
    BY <1>4 DEF TInv, TypeOK, SharedTyped, Later, TakeReports
  <2>2. ManagerTyped'
    BY <1>4, <2>1 DEF TInv, TypeOK, ManagerTyped, Later, TakeReports,
       SharedTyped
  <2>3. SharedTyped'
    BY <1>4 DEF TInv, TypeOK, SharedTyped, TakeReports, ackVars
  <2>4. QED
    BY <1>4, <2>1, <2>2, <2>3, Frames DEF TInv, TypeOK, TakeReports, netVars,
       socketVars, loopVars, hbVars, budgets
<1>5. CASE Ask
  <2>1. Later
    BY <1>5 DEF TInv, TypeOK, SharedTyped, Later, Ask, sharedVars
  <2>2. ManagerTyped'
    BY <1>5, <2>1 DEF TInv, TypeOK, ManagerTyped, Later, Ask, sharedVars,
       SharedTyped
  <2>3. QED
    BY <1>5, <2>1, <2>2, Frames DEF TInv, TypeOK, Ask, sharedVars, ackVars,
       netVars, socketVars, loopVars, hbVars, budgets
<1>6. CASE AskEnds
  <2>1. Later
    BY <1>6 DEF TInv, TypeOK, SharedTyped, Later, AskEnds, sharedVars
  <2>2. ManagerTyped'
    BY <1>6, <2>1 DEF TInv, TypeOK, ManagerTyped, Later, AskEnds, sharedVars,
       SharedTyped
  <2>3. QED
    BY <1>6, <2>1, <2>2, Frames DEF TInv, TypeOK, AskEnds, sharedVars,
       ackVars, netVars, socketVars, loopVars, hbVars, budgets
<1>7. CASE AskMoves
  <2>1. Later
    BY <1>7 DEF TInv, TypeOK, SharedTyped, Later, AskMoves, Leave, Bump
  <2>2. ManagerTyped'
    BY <1>7, <2>1 DEF TInv, TypeOK, ManagerTyped, Later, AskMoves, Leave,
       Bump, SharedTyped, Closes
  <2>3. SharedTyped'
    <3>1. reports' \subseteq 0 .. gen'
      BY <1>7, <2>1 DEF TInv, TypeOK, SharedTyped, Later, AskMoves, Leave, Bump
    <3>2. QED
      BY <1>7, <2>1, <3>1 DEF TInv, TypeOK, SharedTyped, Later, AskMoves,
         Leave, Bump, ackVars
  <2>4. HelpersTyped'
    BY <1>7, <2>1 DEF TInv, TypeOK, HelpersTyped, Later, AskMoves, Leave,
       Bump, hbVars
  <2>5. QED
    BY <1>7, <2>1, <2>2, <2>3, <2>4, Frames DEF TInv, TypeOK, AskMoves,
       netVars, socketVars, loopVars, hbVars
<1>8. CASE Decide
  <2>1. Later
    BY <1>8 DEF TInv, TypeOK, SharedTyped, Later, Decide
  <2>2. ManagerTyped'
    BY <1>8, <2>1 DEF TInv, TypeOK, ManagerTyped, Later, Decide, SharedTyped,
       Closes
  <2>3. SharedTyped'
    BY <1>8 DEF TInv, TypeOK, SharedTyped, Decide, ackVars
  <2>4. QED
    BY <1>8, <2>1, <2>2, <2>3, Frames DEF TInv, TypeOK, Decide, netVars,
       socketVars, loopVars, hbVars, budgets
<1>9. CASE Remint
  <2>1. Later
    BY <1>9 DEF TInv, TypeOK, SharedTyped, Later, Remint, Leave, Bump
  <2>2. ManagerTyped'
    BY <1>9, <2>1 DEF TInv, TypeOK, ManagerTyped, Later, Remint, Leave, Bump,
       SharedTyped, Closes
  <2>3. SharedTyped'
    BY <1>9 DEF TInv, TypeOK, SharedTyped, Remint, Leave, Bump, ackVars
  <2>4. HelpersTyped'
    BY <1>9, <2>1 DEF TInv, TypeOK, HelpersTyped, Later, Remint, Leave, Bump,
       hbVars
  <2>5. QED
    BY <1>9, <2>1, <2>2, <2>3, <2>4, Frames DEF TInv, TypeOK, Remint, netVars,
       socketVars, loopVars, hbVars
<1>10. CASE ManagerCloses
  <2>1. Later
    BY <1>10 DEF TInv, TypeOK, SharedTyped, Later, ManagerCloses, sharedVars
  <2>2. ManagerTyped'
    BY <1>10, <2>1 DEF TInv, TypeOK, ManagerTyped, Later, ManagerCloses,
       Closes, AfterClose, localVars, sharedVars, SharedTyped
  <2>3. AdapterTyped'
    BY <1>10, <2>1, CloseTyped DEF TInv, TypeOK, ManagerCloses, Closers
  <2>4. QED
    BY <1>10, <2>1, <2>2, <2>3, Frames DEF TInv, TypeOK, ManagerCloses,
       sharedVars, ackVars, hbVars, budgets
<1>11. CASE Begin
  <2>1. Later
    BY <1>11 DEF TInv, TypeOK, SharedTyped, Later, Begin, Bump
  <2>2. ManagerTyped'
    BY <1>11, <2>1 DEF TInv, TypeOK, ManagerTyped, Later, Begin, Bump,
       SharedTyped, Attempting
  <2>3. SharedTyped'
    <3>1. reports' \subseteq 0 .. gen'
      BY <1>11, <2>1 DEF TInv, TypeOK, SharedTyped, Later, Begin, Bump
    <3>2. QED
      BY <1>11, <2>1, <3>1 DEF TInv, TypeOK, SharedTyped, Later, Begin, Bump,
         ackVars
  <2>4. QED
    BY <1>11, <2>1, <2>2, <2>3, Frames DEF TInv, TypeOK, Begin, netVars,
       socketVars, loopVars, hbVars, budgets
<1>12. CASE Dial
  <2>1. Later
    BY <1>12 DEF TInv, TypeOK, SharedTyped, Later, Dial, sharedVars
  <2>2. ManagerTyped'
    BY <1>12, <2>1 DEF TInv, TypeOK, ManagerTyped, Later, Dial, localVars,
       sharedVars, SharedTyped, Attempting
  <2>3. AdapterTyped'
    BY <1>12, <2>1 DEF TInv, TypeOK, AdapterTyped, Later, Dial, TakeTask,
       Abort, sharedVars, SharedTyped
  <2>4. HelpersTyped'
    BY <1>12, <2>1 DEF TInv, TypeOK, HelpersTyped, Later, Dial, Fault, Sound,
       sharedVars, hbVars
  <2>5. QED
    BY <1>12, <2>1, <2>2, <2>3, <2>4, Frames DEF TInv, TypeOK, Dial,
       sharedVars, ackVars, hbVars
<1>13. CASE Spawn
  <2>1. Later
    BY <1>13 DEF TInv, TypeOK, SharedTyped, Later, Spawn, sharedVars
  <2>2. ManagerTyped'
    BY <1>13, <2>1 DEF TInv, TypeOK, ManagerTyped, Later, Spawn, localVars,
       sharedVars, SharedTyped, Attempting
  <2>3. AdapterTyped'
    <3>1. conns + 1 \in Conns /\ conns + 1 \in 0 .. MaxConns
      BY <1>13, MaxConnsTyped DEF TInv, TypeOK, AdapterTyped, Spawn, Conns
    <3>2. conns' = conns + 1 /\ task' = conns + 1
      BY <1>13 DEF Spawn
    <3>3. joining' \in [Closers -> 0 .. conns']
      <4>1. joining' = joining /\ conns \in Nat /\ conns' = conns + 1
        BY <1>13 DEF TInv, TypeOK, AdapterTyped, Spawn
      <4>2. joining \in [Closers -> 0 .. conns]
        BY DEF TInv, TypeOK, AdapterTyped
      <4>3. QED
        BY <4>1, <4>2
    <3>4. loop' \in [Conns -> {"none", "running", "dead", "health", "status",
                               "wake", "gone"}]
      BY <1>13, <3>1 DEF TInv, TypeOK, AdapterTyped, Spawn
    <3>5. of' \in [Conns -> 0 .. gen']
      <4>1. attempt \in 0 .. gen /\ of \in [Conns -> 0 .. gen]
        BY DEF TInv, TypeOK, AdapterTyped, ManagerTyped
      <4>2. of' = [of EXCEPT ![conns + 1] = attempt] /\ gen' = gen
        BY <1>13 DEF Spawn, sharedVars
      <4>3. QED
        BY <4>1, <4>2
    <3>6. open' \in BOOLEAN
      BY <1>13 DEF TInv, TypeOK, AdapterTyped, Spawn
    <3>7. UNCHANGED <<confirmed, peer>>
      BY <1>13 DEF Spawn
    <3>8. task' \in 0 .. conns'
      BY <3>1, <3>2
    <3>9. QED
      BY <3>1, <3>2, <3>3, <3>4, <3>5, <3>6, <3>7, <3>8
         DEF TInv, TypeOK, AdapterTyped
  <2>4. QED
    BY <1>13, <2>1, <2>2, <2>3, Frames DEF TInv, TypeOK, Spawn, sharedVars,
       ackVars, hbVars, budgets
<1>14. CASE Publish
  <2>1. Later
    BY <1>14 DEF TInv, TypeOK, SharedTyped, Later, Publish, sharedVars
  <2>2. ManagerTyped'
    BY <1>14, <2>1 DEF TInv, TypeOK, ManagerTyped, Later, Publish, localVars,
       sharedVars, SharedTyped, Attempting
  <2>3. AdapterTyped'
    BY <1>14, <2>1 DEF TInv, TypeOK, AdapterTyped, Later, Publish, sharedVars,
       loopVars, SharedTyped
  <2>4. QED
    BY <1>14, <2>1, <2>2, <2>3, Frames DEF TInv, TypeOK, Publish, sharedVars,
       ackVars, hbVars, budgets
<1>15. CASE Grace
  <2>1. Later
    BY <1>15 DEF TInv, TypeOK, SharedTyped, Later, Grace, sharedVars
  <2>2. ManagerTyped'
    BY <1>15, <2>1 DEF TInv, TypeOK, ManagerTyped, Later, Grace, localVars,
       sharedVars, SharedTyped, Attempting, Closes
  <2>3. QED
    BY <1>15, <2>1, <2>2, Frames DEF TInv, TypeOK, Grace, sharedVars, ackVars,
       netVars, socketVars, loopVars, hbVars, budgets
<1>16. CASE Ping
  <2>1. Later
    BY <1>16 DEF TInv, TypeOK, SharedTyped, Later, Ping, sharedVars
  <2>2. ManagerTyped'
    BY <1>16, <2>1 DEF TInv, TypeOK, ManagerTyped, Later, Ping, localVars,
       sharedVars, SharedTyped, Attempting, Closes
  <2>3. HelpersTyped'
    BY <1>16, <2>1 DEF TInv, TypeOK, HelpersTyped, Later, Ping, Fault, Sound,
       sharedVars, hbVars
  <2>4. QED
    BY <1>16, <2>1, <2>2, <2>3, Frames DEF TInv, TypeOK, Ping, sharedVars,
       ackVars, netVars, socketVars, loopVars, hbVars
<1>17. CASE Mark
  <2>1. Later
    BY <1>17 DEF TInv, TypeOK, SharedTyped, Later, Mark, sharedVars
  <2>2. ManagerTyped'
    BY <1>17, <2>1 DEF TInv, TypeOK, ManagerTyped, Later, Mark, localVars,
       sharedVars, SharedTyped, Attempting
  <2>3. AdapterTyped'
    BY <1>17, <2>1 DEF TInv, TypeOK, AdapterTyped, Later, Mark, sharedVars,
       socketVars, SharedTyped
  <2>4. QED
    BY <1>17, <2>1, <2>2, <2>3, Frames DEF TInv, TypeOK, Mark, sharedVars,
       ackVars, hbVars, budgets
<1>18. CASE Record
  <2>1. Later
    BY <1>18 DEF TInv, TypeOK, SharedTyped, Later, Record
  <2>2. ManagerTyped'
    BY <1>18, <2>1 DEF TInv, TypeOK, ManagerTyped, Later, Record, SharedTyped,
       Attempting
  <2>3. SharedTyped'
    BY <1>18 DEF TInv, TypeOK, SharedTyped, Record, ackVars
  <2>4. QED
    BY <1>18, <2>1, <2>2, <2>3, Frames DEF TInv, TypeOK, Record, netVars,
       socketVars, loopVars, hbVars, budgets
<1>19. CASE Announce
  <2>1. Later
    BY <1>19 DEF TInv, TypeOK, SharedTyped, Later, Announce
  <2>2. ManagerTyped'
    BY <1>19, <2>1 DEF TInv, TypeOK, ManagerTyped, Later, Announce, localVars,
       SharedTyped
  <2>3. SharedTyped'
    BY <1>19 DEF TInv, TypeOK, SharedTyped, Announce, ackVars
  <2>4. QED
    BY <1>19, <2>1, <2>2, <2>3, Frames DEF TInv, TypeOK, Announce, netVars,
       socketVars, loopVars, hbVars, budgets
<1>20. CASE Failed
  <2>1. Later
    BY <1>20 DEF TInv, TypeOK, SharedTyped, Later, Failed
  <2>2. ManagerTyped'
    BY <1>20, <2>1 DEF TInv, TypeOK, ManagerTyped, Later, Failed, SharedTyped
  <2>3. SharedTyped'
    BY <1>20 DEF TInv, TypeOK, SharedTyped, Failed, ackVars
  <2>4. QED
    BY <1>20, <2>1, <2>2, <2>3, Frames DEF TInv, TypeOK, Failed, netVars,
       socketVars, loopVars, hbVars, budgets
<1>21. CASE BackoffBegins
  <2>1. Later
    BY <1>21 DEF TInv, TypeOK, SharedTyped, Later, BackoffBegins
  <2>2. ManagerTyped'
    BY <1>21, <2>1 DEF TInv, TypeOK, ManagerTyped, Later, BackoffBegins,
       localVars, SharedTyped
  <2>3. SharedTyped'
    BY <1>21 DEF TInv, TypeOK, SharedTyped, BackoffBegins, ackVars
  <2>4. QED
    BY <1>21, <2>1, <2>2, <2>3, Frames DEF TInv, TypeOK, BackoffBegins,
       netVars, socketVars, loopVars, hbVars, budgets
<1>22. CASE BackoffEnds
  <2>1. Later
    BY <1>22 DEF TInv, TypeOK, SharedTyped, Later, BackoffEnds
  <2>2. ManagerTyped'
    BY <1>22, <2>1 DEF TInv, TypeOK, ManagerTyped, Later, BackoffEnds,
       localVars, SharedTyped
  <2>3. SharedTyped'
    BY <1>22 DEF TInv, TypeOK, SharedTyped, BackoffEnds, ackVars
  <2>4. QED
    BY <1>22, <2>1, <2>2, <2>3, Frames DEF TInv, TypeOK, BackoffEnds, netVars,
       socketVars, loopVars, hbVars, budgets
<1>23. CASE Wake
  <2>1. Later
    BY <1>23 DEF TInv, TypeOK, SharedTyped, Later, Wake
  <2>2. ManagerTyped'
    BY <1>23, <2>1 DEF TInv, TypeOK, ManagerTyped, Later, Wake, localVars,
       SharedTyped
  <2>3. SharedTyped'
    BY <1>23 DEF TInv, TypeOK, SharedTyped, Wake, ackVars
  <2>4. QED
    BY <1>23, <2>1, <2>2, <2>3, Frames DEF TInv, TypeOK, Wake, netVars,
       socketVars, loopVars, hbVars, budgets
<1>24. QED
  BY <1>1, <1>2, <1>3, <1>4, <1>5, <1>6, <1>7, <1>8, <1>9, <1>10, <1>11,
     <1>12, <1>13, <1>14, <1>15, <1>16, <1>17, <1>18, <1>19, <1>20, <1>21,
     <1>22, <1>23 DEF ManagerStep

\* So does what happens to a connection.
LEMMA LoopTypes ==
  ASSUME TInv, NEW n \in Conns,
         CallbackStep(n) \/ Accept(n) \/ Dispatch(n) \/ Die(n) \/ FallSilent(n)
  PROVE  TInv'
<1> USE ConnectionAssumption
<1>1. CASE CallbackLooks(n)
  <2>1. Later
    BY <1>1 DEF TInv, TypeOK, SharedTyped, Later, CallbackLooks, sharedVars
  <2>2. AdapterTyped'
    BY <1>1, <2>1 DEF TInv, TypeOK, AdapterTyped, Later, CallbackLooks,
       sharedVars, socketVars, SharedTyped
  <2>3. QED
    BY <1>1, <2>1, <2>2, Frames DEF TInv, TypeOK, CallbackLooks, mgrVars,
       localVars, sharedVars, ackVars, hbVars, budgets
<1>2. CASE CallbackReports(n)
  <2>1. Later
    BY <1>2 DEF TInv, TypeOK, SharedTyped, Later, CallbackReports
  <2>2. SharedTyped'
    <3>1. of[n] \in 0 .. gen
      BY DEF TInv, TypeOK, AdapterTyped
    <3>2. QED
      BY <1>2, <3>1 DEF TInv, TypeOK, SharedTyped, CallbackReports, ackVars
  <2>3. AdapterTyped'
    BY <1>2, <2>1 DEF TInv, TypeOK, AdapterTyped, Later, CallbackReports,
       socketVars, SharedTyped
  <2>4. QED
    BY <1>2, <2>1, <2>2, <2>3, Frames DEF TInv, TypeOK, CallbackReports,
       mgrVars, localVars, hbVars, budgets
<1>3. CASE CallbackTells(n)
  <2>1. Later
    BY <1>3 DEF TInv, TypeOK, SharedTyped, Later, CallbackTells
  <2>2. SharedTyped'
    BY <1>3 DEF TInv, TypeOK, SharedTyped, CallbackTells, ackVars
  <2>3. AdapterTyped'
    BY <1>3, <2>1 DEF TInv, TypeOK, AdapterTyped, Later, CallbackTells,
       socketVars, SharedTyped
  <2>4. QED
    BY <1>3, <2>1, <2>2, <2>3, Frames DEF TInv, TypeOK, CallbackTells,
       mgrVars, localVars, hbVars, budgets
<1>4. CASE CallbackWakes(n)
  <2>1. Later
    BY <1>4 DEF TInv, TypeOK, SharedTyped, Later, CallbackWakes
  <2>2. SharedTyped'
    BY <1>4 DEF TInv, TypeOK, SharedTyped, CallbackWakes, ackVars
  <2>3. AdapterTyped'
    BY <1>4, <2>1 DEF TInv, TypeOK, AdapterTyped, Later, CallbackWakes,
       socketVars, SharedTyped
  <2>4. QED
    BY <1>4, <2>1, <2>2, <2>3, Frames DEF TInv, TypeOK, CallbackWakes,
       mgrVars, localVars, hbVars, budgets
<1>5. CASE Accept(n)
  <2>1. Later
    BY <1>5 DEF TInv, TypeOK, SharedTyped, Later, Accept, sharedVars
  <2>2. SharedTyped'
    BY <1>5 DEF TInv, TypeOK, SharedTyped, Accept, sharedVars
  <2>3. AdapterTyped'
    BY <1>5, <2>1 DEF TInv, TypeOK, AdapterTyped, Later, Accept, sharedVars,
       socketVars, SharedTyped
  <2>4. QED
    BY <1>5, <2>1, <2>2, <2>3, Frames DEF TInv, TypeOK, Accept, mgrVars,
       localVars, hbVars, budgets
<1>6. CASE Dispatch(n)
  <2>1. Later
    BY <1>6 DEF TInv, TypeOK, SharedTyped, Later, Dispatch
  <2>2. SharedTyped'
    BY <1>6 DEF TInv, TypeOK, SharedTyped, Dispatch
  <2>3. QED
    BY <1>6, <2>1, <2>2, Frames DEF TInv, TypeOK, Dispatch, mgrVars,
       localVars, netVars, socketVars, loopVars, hbVars, budgets
<1>7. CASE Die(n)
  <2>1. Later
    BY <1>7 DEF TInv, TypeOK, SharedTyped, Later, Die, sharedVars
  <2>2. AdapterTyped'
    BY <1>7, <2>1 DEF TInv, TypeOK, AdapterTyped, Later, Die, sharedVars,
       SharedTyped
  <2>3. HelpersTyped'
    BY <1>7, <2>1 DEF TInv, TypeOK, HelpersTyped, Later, Die, Fault,
       sharedVars, hbVars
  <2>4. QED
    BY <1>7, <2>1, <2>2, <2>3, Frames DEF TInv, TypeOK, Die, mgrVars,
       localVars, sharedVars, ackVars, hbVars
<1>8. CASE FallSilent(n)
  <2>1. Later
    BY <1>8 DEF TInv, TypeOK, SharedTyped, Later, FallSilent, sharedVars
  <2>2. AdapterTyped'
    BY <1>8, <2>1 DEF TInv, TypeOK, AdapterTyped, Later, FallSilent,
       sharedVars, socketVars, SharedTyped
  <2>3. HelpersTyped'
    BY <1>8, <2>1 DEF TInv, TypeOK, HelpersTyped, Later, FallSilent, Fault,
       sharedVars, hbVars
  <2>4. QED
    BY <1>8, <2>1, <2>2, <2>3, Frames DEF TInv, TypeOK, FallSilent, mgrVars,
       localVars, sharedVars, ackVars, hbVars
<1>9. QED
  BY <1>1, <1>2, <1>3, <1>4, <1>5, <1>6, <1>7, <1>8 DEF CallbackStep

\* So do the heartbeat and the change of server.
LEMMA HelperTypes ==
  ASSUME TInv, HeartbeatStep \/ Reconnect \/ ReconnectStep
  PROVE  TInv'
<1> USE ConnectionAssumption
<1>1. CASE Beat
  <2>1. Later
    BY <1>1 DEF TInv, TypeOK, SharedTyped, Later, Beat, sharedVars
  <2>2. HelpersTyped'
    BY <1>1, <2>1 DEF TInv, TypeOK, HelpersTyped, Later, Beat, sharedVars,
       budgets
  <2>3. NotAhead'
    BY <1>1, <2>1 DEF TInv, TypeOK, HelpersTyped, SharedTyped, NotAhead,
       Later, Beat, sharedVars
  <2>4. QED
    BY <1>1, <2>1, <2>2, <2>3, Frames DEF TInv, TypeOK, Beat, mgrVars,
       localVars, sharedVars, ackVars, netVars, socketVars, loopVars
<1>2. CASE BeatPings
  <2>1. Later
    BY <1>2 DEF TInv, TypeOK, SharedTyped, Later, BeatPings, sharedVars
  <2>2. HelpersTyped'
    BY <1>2, <2>1 DEF TInv, TypeOK, HelpersTyped, Later, BeatPings,
       sharedVars, budgets, SharedTyped
  <2>3. NotAhead'
    BY <1>2, <2>1 DEF TInv, TypeOK, HelpersTyped, SharedTyped, NotAhead,
       Later, BeatPings, sharedVars
  <2>4. QED
    BY <1>2, <2>1, <2>2, <2>3, Frames DEF TInv, TypeOK, BeatPings, mgrVars,
       localVars, sharedVars, ackVars, netVars, socketVars, loopVars
<1>3. CASE BeatEnds
  <2>1. Later
    BY <1>3 DEF TInv, TypeOK, SharedTyped, Later, BeatEnds, sharedVars
  <2>2. HelpersTyped'
    BY <1>3, <2>1 DEF TInv, TypeOK, HelpersTyped, Later, BeatEnds, sharedVars,
       budgets
  <2>3. NotAhead'
    BY <1>3, <2>1 DEF TInv, TypeOK, HelpersTyped, SharedTyped, NotAhead,
       Later, BeatEnds, sharedVars
  <2>4. QED
    BY <1>3, <2>1, <2>2, <2>3, Frames DEF TInv, TypeOK, BeatEnds, mgrVars,
       localVars, sharedVars, ackVars, netVars, socketVars, loopVars
<1>4. CASE BeatIsSlow
  <2>1. Later
    BY <1>4 DEF TInv, TypeOK, SharedTyped, Later, BeatIsSlow
  <2>2. SharedTyped'
    BY <1>4 DEF TInv, TypeOK, SharedTyped, BeatIsSlow, ackVars, HelpersTyped
  <2>3. HelpersTyped'
    BY <1>4, <2>1 DEF TInv, TypeOK, HelpersTyped, Later, BeatIsSlow, budgets
  <2>4. NotAhead'
    BY <1>4, <2>1 DEF TInv, TypeOK, HelpersTyped, SharedTyped, NotAhead,
       Later, BeatIsSlow
  <2>5. QED
    BY <1>4, <2>1, <2>2, <2>3, <2>4, Frames DEF TInv, TypeOK, BeatIsSlow,
       mgrVars, localVars, netVars, socketVars, loopVars
<1>5. CASE BeatRetires
  <2>1. Later
    BY <1>5 DEF TInv, TypeOK, SharedTyped, Later, BeatRetires, Bump
  <2>2. SharedTyped'
    BY <1>5 DEF TInv, TypeOK, SharedTyped, BeatRetires, Bump, ackVars
  <2>3. HelpersTyped'
    BY <1>5, <2>1 DEF TInv, TypeOK, HelpersTyped, Later, BeatRetires, Bump,
       budgets
  <2>4. NotAhead'
    BY <1>5, <2>1 DEF TInv, TypeOK, HelpersTyped, SharedTyped, NotAhead,
       Later, BeatRetires, Bump
  <2>5. QED
    BY <1>5, <2>1, <2>2, <2>3, <2>4, Frames DEF TInv, TypeOK, BeatRetires,
       mgrVars, localVars, netVars, socketVars, loopVars
<1>6. CASE BeatReports
  <2>1. Later
    BY <1>6 DEF TInv, TypeOK, SharedTyped, Later, BeatReports
  <2>2. SharedTyped'
    <3>1. seen + 1 \in 0 .. gen
      BY <1>6 DEF TInv, TypeOK, SharedTyped, HelpersTyped, NotAhead, BeatReports
    <3>2. QED
      BY <1>6, <3>1 DEF TInv, TypeOK, SharedTyped, BeatReports, ackVars
  <2>3. HelpersTyped'
    BY <1>6, <2>1 DEF TInv, TypeOK, HelpersTyped, Later, BeatReports, budgets
  <2>4. NotAhead'
    BY <1>6, <2>1 DEF TInv, TypeOK, HelpersTyped, SharedTyped, NotAhead,
       Later, BeatReports
  <2>5. QED
    BY <1>6, <2>1, <2>2, <2>3, <2>4, Frames DEF TInv, TypeOK, BeatReports,
       mgrVars, localVars, netVars, socketVars, loopVars
<1>7. CASE BeatCloses
  <2>1. Later
    BY <1>7 DEF TInv, TypeOK, SharedTyped, Later, BeatCloses, sharedVars
  <2>2. AdapterTyped'
    BY <1>7, <2>1, CloseTyped DEF TInv, TypeOK, BeatCloses, Closers
  <2>3. HelpersTyped'
    BY <1>7, <2>1 DEF TInv, TypeOK, HelpersTyped, Later, BeatCloses,
       sharedVars, budgets
  <2>4. NotAhead'
    BY <1>7, <2>1 DEF TInv, TypeOK, HelpersTyped, SharedTyped, NotAhead,
       Later, BeatCloses, sharedVars
  <2>5. QED
    BY <1>7, <2>1, <2>2, <2>3, <2>4, Frames DEF TInv, TypeOK, BeatCloses,
       mgrVars, localVars, sharedVars, ackVars
<1>8. CASE BeatTells
  <2>1. Later
    BY <1>8 DEF TInv, TypeOK, SharedTyped, Later, BeatTells
  <2>2. SharedTyped'
    BY <1>8 DEF TInv, TypeOK, SharedTyped, BeatTells, ackVars
  <2>3. AdapterTyped'
    BY <1>8, <2>1, ReleasedTyped DEF TInv, TypeOK, BeatTells, Closers
  <2>4. HelpersTyped'
    BY <1>8, <2>1 DEF TInv, TypeOK, HelpersTyped, Later, BeatTells, budgets
  <2>5. NotAhead'
    BY <1>8, <2>1 DEF TInv, TypeOK, HelpersTyped, SharedTyped, NotAhead,
       Later, BeatTells
  <2>6. QED
    BY <1>8, <2>1, <2>2, <2>3, <2>4, <2>5, Frames DEF TInv, TypeOK, BeatTells,
       mgrVars, localVars
<1>9. CASE BeatWakes
  <2>1. Later
    BY <1>9 DEF TInv, TypeOK, SharedTyped, Later, BeatWakes
  <2>2. SharedTyped'
    BY <1>9 DEF TInv, TypeOK, SharedTyped, BeatWakes, ackVars
  <2>3. HelpersTyped'
    BY <1>9, <2>1 DEF TInv, TypeOK, HelpersTyped, Later, BeatWakes, budgets
  <2>4. NotAhead'
    BY <1>9, <2>1 DEF TInv, TypeOK, HelpersTyped, SharedTyped, NotAhead,
       Later, BeatWakes
  <2>5. QED
    BY <1>9, <2>1, <2>2, <2>3, <2>4, Frames DEF TInv, TypeOK, BeatWakes,
       mgrVars, localVars, netVars, socketVars, loopVars
<1>10. CASE Reconnect
  <2>1. Later
    BY <1>10 DEF TInv, TypeOK, SharedTyped, Later, Reconnect, sharedVars
  <2>2. HelpersTyped'
    BY <1>10, <2>1 DEF TInv, TypeOK, HelpersTyped, Later, Reconnect,
       sharedVars, hbVars
  <2>3. QED
    BY <1>10, <2>1, <2>2, Frames DEF TInv, TypeOK, Reconnect, mgrVars,
       localVars, sharedVars, ackVars, netVars, socketVars, loopVars, hbVars
<1>11. CASE ReconnectRetires
  <2>1. Later
    BY <1>11 DEF TInv, TypeOK, SharedTyped, Later, ReconnectRetires, Bump
  <2>2. SharedTyped'
    BY <1>11 DEF TInv, TypeOK, SharedTyped, ReconnectRetires, Bump, ackVars
  <2>3. HelpersTyped'
    BY <1>11, <2>1 DEF TInv, TypeOK, HelpersTyped, Later, ReconnectRetires,
       Bump, hbVars, budgets
  <2>4. QED
    BY <1>11, <2>1, <2>2, <2>3, Frames DEF TInv, TypeOK, ReconnectRetires,
       mgrVars, localVars, netVars, socketVars, loopVars, hbVars
<1>12. CASE ReconnectCloses
  <2>1. Later
    BY <1>12 DEF TInv, TypeOK, SharedTyped, Later, ReconnectCloses, sharedVars
  <2>2. AdapterTyped'
    BY <1>12, <2>1, CloseTyped DEF TInv, TypeOK, ReconnectCloses, Closers
  <2>3. HelpersTyped'
    BY <1>12, <2>1 DEF TInv, TypeOK, HelpersTyped, Later, ReconnectCloses,
       sharedVars, hbVars, budgets
  <2>4. QED
    BY <1>12, <2>1, <2>2, <2>3, Frames DEF TInv, TypeOK, ReconnectCloses,
       mgrVars, localVars, sharedVars, ackVars, hbVars
<1>13. CASE ReconnectWakes
  <2>1. Later
    BY <1>13 DEF TInv, TypeOK, SharedTyped, Later, ReconnectWakes
  <2>2. SharedTyped'
    BY <1>13 DEF TInv, TypeOK, SharedTyped, ReconnectWakes, ackVars
  <2>3. AdapterTyped'
    BY <1>13, <2>1, ReleasedTyped DEF TInv, TypeOK, ReconnectWakes, Closers
  <2>4. HelpersTyped'
    BY <1>13, <2>1 DEF TInv, TypeOK, HelpersTyped, Later, ReconnectWakes,
       hbVars, budgets
  <2>5. QED
    BY <1>13, <2>1, <2>2, <2>3, <2>4, Frames DEF TInv, TypeOK, ReconnectWakes,
       mgrVars, localVars, hbVars
<1>14. QED
  BY <1>1, <1>2, <1>3, <1>4, <1>5, <1>6, <1>7, <1>8, <1>9, <1>10, <1>11,
     <1>12, <1>13 DEF HeartbeatStep, ReconnectStep

\* So does the user.
LEMMA UserTypes ==
  ASSUME TInv, Login \/ Logout \/ Nudge
  PROVE  TInv'
<1> USE ConnectionAssumption
<1>1. CASE Login
  <2>1. Later
    BY <1>1 DEF TInv, TypeOK, SharedTyped, Later, Login
  <2>2. ManagerTyped'
    <3>1. auth' \in 0 .. MaxLogins
      BY <1>1 DEF TInv, TypeOK, HelpersTyped, Login
    <3>2. QED
      BY <1>1, <2>1, <3>1 DEF TInv, TypeOK, ManagerTyped, Later, Login,
         mgrVars, localVars
  <2>3. SharedTyped'
    BY <1>1 DEF TInv, TypeOK, SharedTyped, Login, ackVars
  <2>4. HelpersTyped'
    BY <1>1, <2>1 DEF TInv, TypeOK, HelpersTyped, Later, Login, hbVars
  <2>5. QED
    BY <1>1, <2>1, <2>2, <2>3, <2>4, Frames DEF TInv, TypeOK, Login, netVars,
       socketVars, loopVars, hbVars
<1>2. CASE Logout
  <2>1. Later
    BY <1>2 DEF TInv, TypeOK, SharedTyped, Later, Logout
  <2>2. ManagerTyped'
    BY <1>2, <2>1 DEF TInv, TypeOK, ManagerTyped, Later, Logout, mgrVars,
       localVars, SharedTyped
  <2>3. SharedTyped'
    BY <1>2 DEF TInv, TypeOK, SharedTyped, Logout, ackVars
  <2>4. QED
    BY <1>2, <2>1, <2>2, <2>3, Frames DEF TInv, TypeOK, Logout, netVars,
       socketVars, loopVars, hbVars, budgets
<1>3. CASE Nudge
  <2>1. Later
    BY <1>3 DEF TInv, TypeOK, SharedTyped, Later, Nudge
  <2>2. SharedTyped'
    BY <1>3 DEF TInv, TypeOK, SharedTyped, Nudge, ackVars
  <2>3. QED
    BY <1>3, <2>1, <2>2, Frames DEF TInv, TypeOK, Nudge, mgrVars, localVars,
       netVars, socketVars, loopVars, hbVars, budgets
<1>4. QED
  BY <1>1, <1>2, <1>3

\* Whatever happens next, everything stays well typed.
LEMMA StepTyped == TInv /\ [Next]_vars => TInv'
<1> SUFFICES ASSUME TInv, [Next]_vars PROVE TInv'
  OBVIOUS
<1>1. CASE Next
  BY <1>1, ManagerTypes, LoopTypes, HelperTypes, UserTypes DEF Next
<1>2. CASE UNCHANGED vars
  <2>1. Later
    BY <1>2 DEF TInv, TypeOK, SharedTyped, Later, vars, sharedVars
  <2>2. QED
    BY <1>2, <2>1, Frames DEF TInv, TypeOK, NotAhead, vars, sharedVars, hbVars
<1>3. QED
  BY <1>1, <1>2

\* Every variable keeps its type, and no generation that anybody captured,
\* queued or reported is ever ahead of connection_generation.
THEOREM TypeCorrect == Spec => []TypeOK
<1>1. Spec => []TInv
  BY InitTyped, StepTyped, PTL DEF Spec
<1>2. TInv => TypeOK
  BY DEF TInv
<1>3. QED
  BY <1>1, <1>2, PTL

------------------------------------------------------------------------------
(* Only the gateway's acceptance confirms an attempt.  The inductive        *)
(* invariant follows an attempt from its new generation to its confirmation: *)
(* nothing it hears on the way can come from another connection.             *)

\* A connection that was never opened has no I/O loop.
Unused == \A n \in Conns : n > conns => loop[n] = "none"

\* Only the connection opened last can be of the latest generation.
Latest == \A n \in 1 .. conns : of[n] = gen => n = conns

\* Until its connection is open an attempt has heard nothing, and every
\* connection there is belongs to an older one.
Fresh ==
    mgr \in {"dial", "spawn"} =>
        /\ ~acked /\ events = {}
        /\ \A n \in 1 .. conns : of[n] < attempt

\* From then on, whatever it hears comes from its own connection.
Heard ==
    mgr \in {"publish", "grace", "ping", "mark"} =>
        /\ conns > 0
        /\ \A n \in events : n = conns /\ peer[n] # "new"
        /\ acked \/ mgr = "mark" => peer[conns] # "new"

CInv == Unused /\ Latest /\ Fresh /\ Heard

\* It holds at the start.
LEMMA InitConfirm == Init => CInv
BY DEF Init, CInv, Unused, Latest, Fresh, Heard

\* Each part stays true when its variables do not change.
LEMMA Kept ==
  /\ Unused /\ UNCHANGED <<conns, loop>> => Unused'
  /\ Latest /\ UNCHANGED <<conns, of, gen>> => Latest'
  /\ Fresh /\ UNCHANGED <<mgr, acked, events, conns, of, attempt>> => Fresh'
  /\ Heard /\ UNCHANGED <<mgr, acked, events, conns, peer>> => Heard'
<1>1. Unused /\ UNCHANGED <<conns, loop>> => Unused'
  BY DEF Unused
<1>2. Latest /\ UNCHANGED <<conns, of, gen>> => Latest'
  BY DEF Latest
<1>3. Fresh /\ UNCHANGED <<mgr, acked, events, conns, of, attempt>> => Fresh'
  BY DEF Fresh
<1>4. Heard /\ UNCHANGED <<mgr, acked, events, conns, peer>> => Heard'
  BY DEF Heard
<1>5. QED
  BY <1>1, <1>2, <1>3, <1>4

\* What the types say of the connections opened so far.
LEMMA Opened ==
  ASSUME TInv
  PROVE  /\ conns \in Nat /\ gen \in Nat /\ 1 .. conns \subseteq Conns
         /\ (conns > 0 => conns \in 1 .. conns)
         /\ \A n \in 1 .. conns : of[n] \in 0 .. gen
<1>1. conns \in 0 .. MaxConns /\ of \in [Conns -> 0 .. gen] /\ gen \in Nat
  BY DEF TInv, TypeOK, AdapterTyped, SharedTyped
<1>2. 1 .. conns \subseteq Conns
  BY <1>1, MaxConnsTyped DEF Conns
<1>3. QED
  BY <1>1, <1>2

\* A new generation is nobody's yet.
LEMMA Outdated ==
  ASSUME TInv, Latest, Bump \/ UNCHANGED gen, UNCHANGED <<conns, of>>
  PROVE  Latest'
<1>1. CASE Bump
  BY <1>1, Opened DEF Bump, Latest
<1>2. CASE UNCHANGED gen
  BY <1>2 DEF Latest
<1>3. QED
  BY <1>1, <1>2

\* Outside an attempt the manager disturbs nothing.
LEMMA Elsewhere ==
  ASSUME TInv, CInv, Bump \/ UNCHANGED gen,
         UNCHANGED <<acked, events, conns, loop, of, peer>>,
         mgr' \notin {"dial", "spawn", "publish", "grace", "ping", "mark"}
  PROVE  CInv'
<1>1. Latest'
  BY Outdated DEF CInv
<1>2. QED
  BY <1>1 DEF CInv, Unused, Fresh, Heard

\* A step of the manager keeps it.
LEMMA ManagerConfirms ==
  ASSUME ~Stalls, TInv, CInv, ManagerStep
  PROVE  CInv'
<1> USE ConnectionAssumption
<1>1. CASE ManagerJoins
  BY <1>1, Kept DEF CInv, ManagerJoins, mgrVars, localVars, sharedVars,
     ackVars, loopVars, hbVars
<1>2. CASE Top
  BY <1>2, Elsewhere DEF Top, ackVars, netVars, socketVars, loopVars
<1>3. CASE LoggedOut
  BY <1>3, Elsewhere DEF LoggedOut, ackVars, netVars, socketVars, loopVars
<1>4. CASE TakeReports
  BY <1>4, Elsewhere DEF TakeReports, ackVars, netVars, socketVars, loopVars
<1>5. CASE Ask
  BY <1>5, Elsewhere DEF Ask, sharedVars, ackVars, netVars, socketVars,
     loopVars
<1>6. CASE AskEnds
  BY <1>6, Elsewhere DEF AskEnds, sharedVars, ackVars, netVars, socketVars,
     loopVars
<1>7. CASE AskMoves
  BY <1>7, Elsewhere DEF AskMoves, Leave, ackVars, netVars, socketVars,
     loopVars
<1>8. CASE Decide
  BY <1>8, Elsewhere DEF Decide, ackVars, netVars, socketVars, loopVars
<1>9. CASE Remint
  BY <1>9, Elsewhere DEF Remint, Leave, ackVars, netVars, socketVars, loopVars
<1>10. CASE ManagerCloses
  <2>1. Unused'
    BY <1>10 DEF CInv, Unused, TInv, TypeOK, AdapterTyped, ManagerCloses,
       Close, TakeTask, Abort
  <2>2. Latest'
    BY <1>10 DEF CInv, Latest, ManagerCloses, Close, sharedVars
  <2>3. Fresh'
    BY <1>10 DEF CInv, Fresh, ManagerCloses, Close, Closes, AfterClose,
       localVars
  <2>4. Heard'
    BY <1>10 DEF CInv, Heard, ManagerCloses, Close, Closes, AfterClose
  <2>5. QED
    BY <2>1, <2>2, <2>3, <2>4 DEF CInv
<1>11. CASE Begin
  <2>1. Latest'
    BY <1>11, Outdated DEF CInv, Begin, netVars, socketVars, loopVars
  <2>2. Fresh'
    <3>1. ~acked' /\ events' = {} /\ attempt' = gen + 1
      BY <1>11 DEF Begin
    <3>2. UNCHANGED <<conns, of>>
      BY <1>11 DEF Begin, netVars, socketVars, loopVars
    <3>3. QED
      BY <3>1, <3>2, Opened DEF Fresh
  <2>3. Heard'
    BY <1>11 DEF CInv, Heard, Begin, netVars, socketVars
  <2>4. QED
    BY <1>11, <2>1, <2>2, <2>3, Kept DEF CInv, Begin, netVars, socketVars,
       loopVars, hbVars
<1>12. CASE Dial
  <2>1. Unused'
    BY <1>12 DEF CInv, Unused, TInv, TypeOK, AdapterTyped, Dial, TakeTask,
       Abort
  <2>2. Fresh'
    BY <1>12 DEF CInv, Fresh, Dial, localVars, ackVars
  <2>3. Heard'
    BY <1>12 DEF CInv, Heard, Dial
  <2>4. QED
    BY <1>12, <2>1, <2>2, <2>3, Kept DEF CInv, Dial, localVars, sharedVars,
       ackVars
<1>13. CASE Spawn
  <2>1. Unused'
    <3>1. conns' = conns + 1 /\ loop' = [loop EXCEPT ![conns + 1] = "running"]
      BY <1>13 DEF Spawn
    <3>2. loop \in [Conns -> {"none", "running", "dead", "health", "status",
                              "wake", "gone"}]
      BY DEF TInv, TypeOK, AdapterTyped
    <3>3. QED
      BY <3>1, <3>2, Opened DEF CInv, Unused, Conns
  <2>2. Latest'
    <3>1. conns' = conns + 1 /\ gen' = gen
      BY <1>13 DEF Spawn, sharedVars
    <3>2. of' = [of EXCEPT ![conns + 1] = attempt] /\ of \in [Conns -> 0 .. gen]
      BY <1>13 DEF Spawn, TInv, TypeOK, AdapterTyped
    <3>3. \A n \in 1 .. conns : of[n] < attempt
      BY <1>13 DEF Spawn, CInv, Fresh
    <3>4. attempt \in 0 .. gen
      BY DEF TInv, TypeOK, ManagerTyped
    <3>5. \A n \in 1 .. conns : of'[n] = of[n] /\ of[n] < gen
      BY <3>2, <3>3, <3>4, Opened
    <3>6. QED
      BY <3>1, <3>5, Opened DEF Latest
  <2>3. Fresh'
    BY <1>13 DEF CInv, Fresh, Spawn, localVars
  <2>4. Heard'
    <3>1. conns' > 0 /\ mgr' = "publish"
      BY <1>13, Opened DEF Spawn
    <3>2. ~acked' /\ events' = {}
      BY <1>13 DEF Spawn, CInv, Fresh, ackVars
    <3>3. QED
      BY <3>1, <3>2 DEF Heard
  <2>5. QED
    BY <2>1, <2>2, <2>3, <2>4 DEF CInv
<1>14. CASE Publish
  <2>1. Fresh'
    BY <1>14 DEF CInv, Fresh, Publish, localVars, ackVars
  <2>2. Heard'
    BY <1>14 DEF CInv, Heard, Publish, ackVars, loopVars
  <2>3. QED
    BY <1>14, <2>1, <2>2, Kept DEF CInv, Publish, localVars, sharedVars,
       ackVars, loopVars, hbVars
<1>15. CASE Grace
  <2>1. Fresh'
    BY <1>15 DEF CInv, Fresh, Grace, localVars, ackVars, netVars, socketVars
  <2>2. Heard'
    BY <1>15 DEF CInv, Heard, Grace, ackVars, netVars, socketVars, loopVars
  <2>3. QED
    BY <1>15, <2>1, <2>2, Kept DEF CInv, Grace, localVars, sharedVars,
       ackVars, netVars, socketVars, loopVars, hbVars
<1>16. CASE Ping
  <2>1. Fresh'
    BY <1>16 DEF CInv, Fresh, Ping, localVars, ackVars, netVars, socketVars
  <2>2. Heard'
    BY <1>16 DEF CInv, Heard, Ping, Answered, ackVars, netVars, socketVars,
       loopVars
  <2>3. QED
    BY <1>16, <2>1, <2>2, Kept DEF CInv, Ping, localVars, sharedVars, ackVars,
       netVars, socketVars, loopVars
<1>17. CASE Mark
  <2>1. Fresh'
    BY <1>17 DEF CInv, Fresh, Mark, localVars, ackVars
  <2>2. Heard'
    BY <1>17 DEF CInv, Heard, Mark, ackVars
  <2>3. QED
    BY <1>17, <2>1, <2>2, Kept DEF CInv, Mark, localVars, sharedVars, ackVars,
       socketVars, hbVars
<1>18. CASE Record
  BY <1>18, Elsewhere DEF Record, ackVars, netVars, socketVars, loopVars
<1>19. CASE Announce
  BY <1>19, Elsewhere DEF Announce, ackVars, netVars, socketVars, loopVars
<1>20. CASE Failed
  BY <1>20, Elsewhere DEF Failed, ackVars, netVars, socketVars, loopVars
<1>21. CASE BackoffBegins
  BY <1>21, Elsewhere DEF BackoffBegins, ackVars, netVars, socketVars,
     loopVars
<1>22. CASE BackoffEnds
  BY <1>22, Elsewhere DEF BackoffEnds, ackVars, netVars, socketVars, loopVars
<1>23. CASE Wake
  BY <1>23, Elsewhere DEF Wake, ackVars, netVars, socketVars, loopVars
<1>24. QED
  BY <1>1, <1>2, <1>3, <1>4, <1>5, <1>6, <1>7, <1>8, <1>9, <1>10, <1>11,
     <1>12, <1>13, <1>14, <1>15, <1>16, <1>17, <1>18, <1>19, <1>20, <1>21,
     <1>22, <1>23 DEF ManagerStep

\* So does what happens to a connection.
LEMMA LoopConfirms ==
  ASSUME ~Stalls, TInv, CInv, NEW n \in Conns,
         CallbackStep(n) \/ Accept(n) \/ Dispatch(n) \/ Die(n) \/ FallSilent(n)
  PROVE  CInv'
<1> USE ConnectionAssumption
<1>1. CASE CallbackLooks(n)
  <2>1. Unused'
    BY <1>1 DEF CInv, Unused, TInv, TypeOK, AdapterTyped, CallbackLooks,
       socketVars
  <2>2. QED
    BY <1>1, <2>1, Kept DEF CInv, CallbackLooks, mgrVars, localVars,
       sharedVars, ackVars, socketVars, hbVars
<1>2. CASE CallbackReports(n)
  <2>1. Unused'
    BY <1>2 DEF CInv, Unused, TInv, TypeOK, AdapterTyped, CallbackReports,
       socketVars
  <2>2. QED
    BY <1>2, <2>1, Kept DEF CInv, CallbackReports, mgrVars, localVars,
       ackVars, socketVars, hbVars
<1>3. CASE CallbackTells(n)
  <2>1. Unused'
    BY <1>3 DEF CInv, Unused, TInv, TypeOK, AdapterTyped, CallbackTells,
       socketVars
  <2>2. QED
    BY <1>3, <2>1, Kept DEF CInv, CallbackTells, mgrVars, localVars, ackVars,
       socketVars, hbVars
<1>4. CASE CallbackWakes(n)
  <2>1. Unused'
    BY <1>4 DEF CInv, Unused, TInv, TypeOK, AdapterTyped, CallbackWakes,
       socketVars
  <2>2. QED
    BY <1>4, <2>1, Kept DEF CInv, CallbackWakes, mgrVars, localVars, ackVars,
       socketVars, hbVars
<1>5. CASE Accept(n)
  <2>1. Fresh'
    <3>1. n \in 1 .. conns
      BY <1>5, Opened DEF Accept, CInv, Unused, Conns
    <3>2. ASSUME mgr \in {"dial", "spawn"} PROVE of[n] # gen
      BY <3>1, <3>2, Opened DEF CInv, Fresh, TInv, TypeOK, ManagerTyped
    <3>3. UNCHANGED <<mgr, acked, conns, of, attempt>>
      BY <1>5 DEF Accept, mgrVars, localVars, socketVars
    <3>4. mgr \in {"dial", "spawn"} => events' = events
      BY <1>5, <3>2 DEF Accept
    <3>5. QED
      BY <3>3, <3>4 DEF CInv, Fresh
  <2>2. Heard'
    <3>1. n \in 1 .. conns
      BY <1>5, Opened DEF Accept, CInv, Unused, Conns
    <3>2. of[n] = gen => n = conns
      BY <3>1 DEF CInv, Latest
    <3>3. UNCHANGED <<mgr, acked, conns>>
      BY <1>5 DEF Accept, mgrVars, socketVars
    <3>4. /\ peer'[n] = "up" /\ \A k \in Conns \ {n} : peer'[k] = peer[k]
          /\ events' \subseteq events \cup {n}
          /\ n \in events' => n \in events \/ n = conns
      BY <1>5, <3>2 DEF Accept, TInv, TypeOK, AdapterTyped
    <3>5. events \subseteq Conns /\ (conns > 0 => conns \in Conns)
      BY Opened DEF TInv, TypeOK, SharedTyped
    <3>6. QED
      BY <3>3, <3>4, <3>5 DEF CInv, Heard
  <2>3. QED
    BY <1>5, <2>1, <2>2, Kept DEF CInv, Accept, mgrVars, localVars,
       sharedVars, socketVars, hbVars
<1>6. CASE Dispatch(n)
  <2>1. Fresh'
    BY <1>6 DEF CInv, Fresh, Dispatch, mgrVars, localVars, netVars, socketVars
  <2>2. Heard'
    BY <1>6 DEF CInv, Heard, Dispatch, mgrVars, netVars, socketVars, loopVars
  <2>3. QED
    BY <1>6, <2>1, <2>2, Kept DEF CInv, Dispatch, mgrVars, localVars, netVars,
       socketVars, loopVars, hbVars
<1>7. CASE Die(n)
  <2>1. Unused'
    BY <1>7 DEF CInv, Unused, TInv, TypeOK, AdapterTyped, Die
  <2>2. QED
    BY <1>7, <2>1, Kept DEF CInv, Die, mgrVars, localVars, sharedVars, ackVars
<1>8. CASE FallSilent(n)
  <2>1. Heard'
    BY <1>8 DEF CInv, Heard, TInv, TypeOK, AdapterTyped, FallSilent, mgrVars,
       ackVars, socketVars
  <2>2. QED
    BY <1>8, <2>1, Kept DEF CInv, FallSilent, mgrVars, localVars, sharedVars,
       ackVars, socketVars
<1>9. QED
  BY <1>1, <1>2, <1>3, <1>4, <1>5, <1>6, <1>7, <1>8 DEF CallbackStep

\* So do the heartbeat and the change of server.
LEMMA HelperConfirms ==
  ASSUME ~Stalls, TInv, CInv, HeartbeatStep \/ Reconnect \/ ReconnectStep
  PROVE  CInv'
<1> USE ConnectionAssumption
<1>1. CASE Beat
  BY <1>1, Kept DEF CInv, Beat, mgrVars, localVars, sharedVars, ackVars,
     netVars, socketVars, loopVars
<1>2. CASE BeatPings
  BY <1>2, Kept DEF CInv, BeatPings, mgrVars, localVars, sharedVars, ackVars,
     netVars, socketVars, loopVars
<1>3. CASE BeatEnds
  BY <1>3, Kept DEF CInv, BeatEnds, mgrVars, localVars, sharedVars, ackVars,
     netVars, socketVars, loopVars
<1>4. CASE BeatIsSlow
  BY <1>4, Kept DEF CInv, BeatIsSlow, mgrVars, localVars, ackVars, netVars,
     socketVars, loopVars
<1>5. CASE BeatRetires
  <2>1. Latest'
    BY <1>5, Outdated DEF CInv, BeatRetires, netVars, socketVars, loopVars
  <2>2. QED
    BY <1>5, <2>1, Kept DEF CInv, BeatRetires, mgrVars, localVars, ackVars,
       netVars, socketVars, loopVars
<1>6. CASE BeatReports
  BY <1>6, Kept DEF CInv, BeatReports, mgrVars, localVars, ackVars, netVars,
     socketVars, loopVars
<1>7. CASE BeatCloses
  <2>1. Unused'
    BY <1>7 DEF CInv, Unused, TInv, TypeOK, AdapterTyped, BeatCloses, Close,
       TakeTask, Abort
  <2>2. Latest'
    BY <1>7 DEF CInv, Latest, BeatCloses, Close, sharedVars
  <2>3. Fresh'
    BY <1>7 DEF CInv, Fresh, BeatCloses, Close, mgrVars, localVars, ackVars
  <2>4. Heard'
    BY <1>7 DEF CInv, Heard, BeatCloses, Close, mgrVars, ackVars
  <2>5. QED
    BY <2>1, <2>2, <2>3, <2>4 DEF CInv
<1>8. CASE BeatTells
  BY <1>8, Kept DEF CInv, BeatTells, mgrVars, localVars, ackVars, loopVars
<1>9. CASE BeatWakes
  BY <1>9, Kept DEF CInv, BeatWakes, mgrVars, localVars, ackVars, netVars,
     socketVars, loopVars
<1>10. CASE Reconnect
  BY <1>10, Kept DEF CInv, Reconnect, mgrVars, localVars, sharedVars, ackVars,
     netVars, socketVars, loopVars
<1>11. CASE ReconnectRetires
  <2>1. Latest'
    BY <1>11, Outdated DEF CInv, ReconnectRetires, netVars, socketVars,
       loopVars
  <2>2. QED
    BY <1>11, <2>1, Kept DEF CInv, ReconnectRetires, mgrVars, localVars,
       ackVars, netVars, socketVars, loopVars, hbVars
<1>12. CASE ReconnectCloses
  <2>1. Unused'
    BY <1>12 DEF CInv, Unused, TInv, TypeOK, AdapterTyped, ReconnectCloses,
       Close, TakeTask, Abort
  <2>2. Latest'
    BY <1>12 DEF CInv, Latest, ReconnectCloses, Close, sharedVars
  <2>3. Fresh'
    BY <1>12 DEF CInv, Fresh, ReconnectCloses, Close, mgrVars, localVars,
       ackVars
  <2>4. Heard'
    BY <1>12 DEF CInv, Heard, ReconnectCloses, Close, mgrVars, ackVars
  <2>5. QED
    BY <2>1, <2>2, <2>3, <2>4 DEF CInv
<1>13. CASE ReconnectWakes
  BY <1>13, Kept DEF CInv, ReconnectWakes, mgrVars, localVars, ackVars,
     loopVars, hbVars
<1>14. QED
  BY <1>1, <1>2, <1>3, <1>4, <1>5, <1>6, <1>7, <1>8, <1>9, <1>10, <1>11,
     <1>12, <1>13 DEF HeartbeatStep, ReconnectStep

\* So does the user.
LEMMA UserConfirms ==
  ASSUME ~Stalls, TInv, CInv, Login \/ Logout \/ Nudge
  PROVE  CInv'
<1> USE ConnectionAssumption
<1>1. CASE Login
  BY <1>1, Kept DEF CInv, Login, mgrVars, localVars, ackVars, netVars,
     socketVars, loopVars
<1>2. CASE Logout
  BY <1>2, Kept DEF CInv, Logout, mgrVars, localVars, ackVars, netVars,
     socketVars, loopVars, hbVars
<1>3. CASE Nudge
  BY <1>3, Kept DEF CInv, Nudge, mgrVars, localVars, ackVars, netVars,
     socketVars, loopVars, hbVars
<1>4. QED
  BY <1>1, <1>2, <1>3

\* It holds after every step.
LEMMA StepConfirm == ~Stalls /\ TInv /\ CInv /\ [Next]_vars => CInv'
<1> SUFFICES ASSUME ~Stalls, TInv, CInv, [Next]_vars PROVE CInv'
  OBVIOUS
<1>1. CASE Next
  BY <1>1, ManagerConfirms, LoopConfirms, HelperConfirms, UserConfirms DEF
     Next
<1>2. CASE UNCHANGED vars
  BY <1>2, Kept DEF CInv, vars, mgrVars, localVars, sharedVars, ackVars,
     netVars, socketVars, loopVars
<1>3. QED
  BY <1>1, <1>2

\* However often sockets fail, users change and servers are switched, even in
\* the middle of an attempt: an attempt is confirmed only after the gateway has
\* accepted its own connection, never on the word of another one's event nor
\* because the grace period ran out.  It takes that an event of the connection
\* before is dispatched before the next attempt starts listening.
THEOREM OnlyGatewayConfirms == ~Stalls /\ Spec => []ConfirmedByGateway
<1> SUFFICES ASSUME ~Stalls PROVE Spec => []ConfirmedByGateway
  OBVIOUS
<1>1. Init => TInv /\ CInv
  BY InitTyped, InitConfirm
<1>2. TInv /\ CInv /\ [Next]_vars => (TInv /\ CInv)'
  BY StepTyped, StepConfirm
<1>3. CInv => ConfirmedByGateway
  BY DEF CInv, Heard, ConfirmedByGateway
<1>4. QED
  BY <1>1, <1>2, <1>3, PTL DEF Spec

------------------------------------------------------------------------------
(* A wake-up is never lost, the manager rests with a connection that is     *)
(* heard, and the status it shows is that connection's.  The inductive      *)
(* invariant says who is still going to wake the manager whenever what it   *)
(* went to sleep with is no longer so.                                      *)

\* An attempt between the end of the I/O loop before it and its confirmation.
Opening == {"spawn", "publish", "grace", "ping", "mark", "record"}

\* The heartbeat has taken no step against the connection.
Calm == {"timer", "look", "ping"}

\* Between two attempts.
Between == {"top", "reports", "paced", "asking", "decide", "askFailed",
            "backoff", "waiting", "askWaiting", "sleep"}

\* The I/O loop ended and its close callback has not.
Callback(n) == loop[n] \in {"dead", "health", "status", "wake"}

\* Until its handshake is recorded, nobody takes an attempt's generation away.
Undivided ==
    /\ mgr \in Attempting => rc = "idle"
    /\ mgr \in {"staleClose", "begin", "dial"} \cup Opening => ~healthy
    /\ mgr = "dial" => attempt = gen /\ (hb = "failed" => seen < gen)
    /\ mgr \in Opening => attempt = gen /\ hb \in Calm

\* One I/O loop runs, the adapter's; while an attempt is opened it is its own.
OneLoop ==
    /\ \A n \in Conns : loop[n] = "running" => n = task
    /\ mgr = "spawn" => task = 0
    /\ mgr \in Opening \ {"spawn"} =>
           conns > 0 /\ task = conns /\ of[conns] = gen

\* Whoever retires the generation of an open connection is about to close it.
Tended ==
    open => /\ task # 0
            /\ \/ of[task] = gen
               \/ hb \in {"report", "close"} \/ rc = "close"
               \/ mgr \in {"logoutClose", "leaveClose"}

\* Where the manager is tells whether there can be an open connection.
Shut ==
    /\ open => mgr \notin {"begin", "dial", "spawn", "publish", "failed",
                           "unreachable", "loggedOut"}
    /\ open /\ user = 0 => mgr \in {"grace", "ping", "mark", "record",
                                    "refusedClose", "leaveClose",
                                    "logoutClose"}
    /\ open => hb # "join"

\* A connection that died unnoticed is open only until the attempt sees it.
Unmasked ==
    /\ \A n \in Conns : n > conns => peer[n] = "new"
    /\ mgr = "spawn" => \A n \in Conns : ~Callback(n)
    /\ mgr = "publish" => /\ peer[conns] = "new"
                          /\ \A n \in Conns : Callback(n) => n = conns
    /\ open => \A n \in Conns : Callback(n) =>
           /\ n = conns /\ peer[n] = "new"
           /\ mgr \in {"grace", "ping", "refusedClose"}

\* The session the manager goes by is the one there is, or it looks again.
Current ==
    /\ mgr \in {"logoutClose", "loggedOut"} => session = 0 /\ user = 0
    /\ mgr \in {"announce", "sleep"} => user = session
    /\ session = 0 => mgr \in {"top", "logoutClose", "loggedOut", "sleep"}
    /\ mgr = "asking" => request # 0
    /\ mgr \in {"askFailed", "askWaiting"} => pending # 0
    /\ mgr \in {"logoutClose", "loggedOut", "reports", "paced", "asking",
                "askFailed"} => session = auth \/ permit
    /\ mgr \in {"askWaiting", "leaveClose", "decide", "sleep"} =>
           session = auth \/ permit \/ pending # 0

\* A wake-up is parked or on its way.
Kick ==
    \/ permit \/ pending # 0
    \/ hb \in {"report", "close", "join", "wake"}
    \/ rc \in {"close", "join"}
    \/ \E n \in Conns : Callback(n) /\ (loop[n] = "dead" => of[n] = gen)

\* If the connection is lost in its sleep, somebody wakes the manager.
Roused == mgr = "sleep" /\ session # 0 => open \/ Kick

\* What the app shows.
Shown ==
    /\ user = 0 /\ mgr \in Between \cup {"leaveClose", "staleClose", "begin"}
           => status = "disconnected"
    /\ mgr \in {"logoutClose", "loggedOut"} => ~healthy
    /\ mgr = "sleep" /\ session = 0 => ~healthy
    /\ open /\ mgr \in Between \cup {"announce"} => healthy \/ hb = "close"
    /\ open /\ mgr \in Between => status = "connected"

WInv == Undivided /\ OneLoop /\ Tended /\ Shut /\ Unmasked /\ Current /\ Roused
        /\ Shown

\* It holds at the start.
LEMMA InitWake == Init => WInv
BY DEF Init, WInv, Undivided, OneLoop, Tended, Shut, Unmasked, Current,
   Roused, Shown, Attempting, Opening, Between, Callback

\* Each part stays true when its variables do not change.
LEMMA Untouched ==
  /\ Undivided /\ UNCHANGED <<mgr, rc, healthy, attempt, gen, hb, seen>>
     => Undivided'
  /\ OneLoop /\ UNCHANGED <<loop, task, mgr, conns, of, gen>> => OneLoop'
  /\ Tended /\ UNCHANGED <<open, task, of, gen, hb, rc, mgr>> => Tended'
  /\ Shut /\ UNCHANGED <<open, mgr, user, hb>> => Shut'
  /\ Unmasked /\ UNCHANGED <<mgr, loop, peer, conns, open>> => Unmasked'
  /\ Current /\ UNCHANGED <<mgr, session, user, request, pending, auth, permit>>
     => Current'
  /\ Roused /\ UNCHANGED <<mgr, session, open, permit, pending, hb, rc, loop,
                           of, gen>> => Roused'
  /\ Shown /\ UNCHANGED <<user, mgr, status, healthy, session, open, hb>>
     => Shown'
BY DEF Undivided, OneLoop, Tended, Shut, Unmasked, Current, Roused, Kick,
   Callback, Shown

\* A step of the manager keeps the invariant.
LEMMA ManagerWakes ==
  ASSUME ~Stalls, ~Overlaps, TInv, CInv, WInv, ManagerStep
  PROVE  WInv'
<1> USE ConnectionAssumption
<1>1. CASE ManagerJoins
  BY <1>1, Untouched DEF WInv, ManagerJoins, localVars, mgrVars, sharedVars,
     loopVars, hbVars
<1>2. CASE Top
  BY <1>2 DEF WInv, Undivided, OneLoop, Tended, Shut, Unmasked, Current,
     Roused, Shown, Top, Attempting, Between, Callback, Opening, socketVars,
     loopVars, netVars, hbVars
<1>3. CASE LoggedOut
  <2>1. Undivided' /\ OneLoop' /\ Tended' /\ Shut' /\ Unmasked' /\ Current'
    BY <1>3 DEF WInv, Undivided, OneLoop, Tended, Shut, Unmasked, Current,
       LoggedOut, Attempting, Opening, localVars, socketVars, loopVars,
       netVars, hbVars
  <2>2. Roused'
    BY <1>3 DEF WInv, Current, Roused, LoggedOut, localVars
  <2>3. Shown'
    BY <1>3 DEF WInv, Shut, Shown, LoggedOut, socketVars, netVars
  <2>4. QED
    BY <2>1, <2>2, <2>3 DEF WInv
<1>4. CASE TakeReports
  BY <1>4 DEF WInv, Undivided, OneLoop, Tended, Shut, Unmasked, Current,
     Roused, Shown, TakeReports, Attempting, Between, Callback, Opening,
     socketVars, loopVars, netVars, hbVars
<1>5. CASE Ask
  BY <1>5 DEF WInv, Undivided, OneLoop, Tended, Shut, Unmasked, Current,
     Roused, Shown, Ask, Attempting, Between, Callback, Opening, sharedVars,
     socketVars, loopVars, netVars, hbVars
<1>6. CASE AskEnds
  BY <1>6 DEF WInv, Undivided, OneLoop, Tended, Shut, Unmasked, Current,
     Roused, Shown, AskEnds, Attempting, Between, Callback, Opening,
     sharedVars, socketVars, loopVars, netVars, hbVars
<1>7. CASE AskMoves
  BY <1>7 DEF WInv, Undivided, OneLoop, Tended, Shut, Unmasked, Current,
     Roused, Shown, AskMoves, Leave, Attempting, Between, Callback, Opening,
     socketVars, loopVars, netVars, hbVars
<1>8. CASE Decide
  BY <1>8 DEF WInv, Undivided, OneLoop, Tended, Shut, Unmasked, Current,
     Roused, Shown, Decide, Connected, Attempting, Between, Callback, Opening,
     socketVars, loopVars, netVars, hbVars
<1>9. CASE Remint
  BY <1>9 DEF WInv, Undivided, OneLoop, Tended, Shut, Unmasked, Current,
     Roused, Shown, Remint, Leave, Attempting, Between, Callback, Opening,
     socketVars, loopVars, netVars, hbVars
<1>10. CASE ManagerCloses
  <2>1. Undivided' /\ Tended' /\ Shut' /\ Unmasked' /\ Current' /\ Roused'
    BY <1>10 DEF WInv, Undivided, Tended, Shut, Unmasked, Current, Roused,
       ManagerCloses, Close, AfterClose, Closes, Attempting, Opening,
       localVars, sharedVars, hbVars
  <2>2. OneLoop'
    BY <1>10 DEF TInv, WInv, TypeOK, AdapterTyped, OneLoop, ManagerCloses,
       Close, TakeTask, Abort, AfterClose, Closes, Opening
  <2>3. Shown'
    BY <1>10 DEF WInv, Shown, ManagerCloses, Close, AfterClose, Closes,
       Between, localVars, sharedVars
  <2>4. QED
    BY <2>1, <2>2, <2>3 DEF WInv
<1>11. CASE Begin
  <2>1. Undivided'
    BY <1>11 DEF TInv, WInv, TypeOK, SharedTyped, HelpersTyped, Undivided,
       Begin, Bump, Opening, hbVars
  <2>2. OneLoop' /\ Shut' /\ Unmasked' /\ Current' /\ Roused' /\ Shown'
    BY <1>11 DEF WInv, OneLoop, Shut, Unmasked, Current, Roused, Shown, Begin,
       Between, Opening, socketVars, loopVars, netVars, hbVars
  <2>3. Tended'
    BY <1>11 DEF WInv, Tended, Shut, Begin, socketVars, netVars
  <2>4. QED
    BY <2>1, <2>2, <2>3 DEF WInv
<1>12. CASE Dial
  <2>1. Undivided' /\ Shut' /\ Current' /\ Roused' /\ Shown'
    BY <1>12 DEF WInv, Undivided, Shut, Current, Roused, Shown, Dial,
       RoundTrip, Undisturbed, Attempting, Between, Calm, Opening, localVars,
       sharedVars, hbVars
  <2>2. OneLoop'
    BY <1>12 DEF TInv, WInv, TypeOK, AdapterTyped, OneLoop, Dial, TakeTask,
       Abort, Opening
  <2>3. Tended'
    BY <1>12 DEF WInv, Tended, Shut, Dial
  <2>4. Unmasked'
    BY <1>12 DEF TInv, WInv, TypeOK, AdapterTyped, Unmasked, Dial, TakeTask,
       Abort, RoundTrip, Undisturbed, Callback
  <2>5. QED
    BY <2>1, <2>2, <2>3, <2>4 DEF WInv
<1>13. CASE Spawn
  <2>1. Undivided' /\ Shut' /\ Current' /\ Roused' /\ Shown'
    BY <1>13 DEF WInv, Undivided, Shut, Current, Roused, Shown, Spawn,
       Attempting, Between, Opening, localVars, sharedVars, hbVars
  <2>2. OneLoop'
    <3>1. /\ conns' = conns + 1 /\ task' = conns + 1 /\ mgr' = "publish"
          /\ loop' = [loop EXCEPT ![conns + 1] = "running"]
          /\ of' = [of EXCEPT ![conns + 1] = attempt]
          /\ gen' = gen
      BY <1>13 DEF Spawn, sharedVars
    <3>2. /\ conns \in Nat /\ conns + 1 \in Conns
          /\ loop \in [Conns -> {"none", "running", "dead", "health",
                                 "status", "wake", "gone"}]
          /\ of \in [Conns -> 0 .. gen]
      BY <1>13, Opened, MaxConnsTyped
         DEF Spawn, TInv, TypeOK, AdapterTyped, Conns
    <3>3. \A n \in Conns : loop[n] # "running"
      BY <1>13, <3>2 DEF Spawn, WInv, OneLoop, Conns
    <3>4. \A n \in Conns : loop'[n] = "running" => n = task'
      BY <3>1, <3>2, <3>3
    <3>5. attempt = gen
      BY <1>13 DEF Spawn, WInv, Undivided, Opening
    <3>6. conns' > 0 /\ task' = conns' /\ of'[conns'] = gen'
      BY <3>1, <3>2, <3>5
    <3>7. QED
      BY <3>1, <3>4, <3>6 DEF OneLoop
  <2>3. Tended'
    BY <1>13 DEF WInv, Tended, Shut, Spawn
  <2>4. Unmasked'
    <3>1. /\ conns' = conns + 1 /\ mgr' = "publish" /\ ~open'
          /\ loop' = [loop EXCEPT ![conns + 1] = "running"]
          /\ peer' = peer
      BY <1>13 DEF Spawn, WInv, Shut
    <3>2. /\ conns \in Nat /\ conns + 1 \in Conns
          /\ loop \in [Conns -> {"none", "running", "dead", "health",
                                 "status", "wake", "gone"}]
      BY <1>13, Opened, MaxConnsTyped
         DEF Spawn, TInv, TypeOK, AdapterTyped, Conns
    <3>3. \A n \in Conns : ~Callback(n)'
      BY <1>13, <3>1, <3>2 DEF Spawn, WInv, Unmasked, Callback
    <3>4. peer[conns + 1] = "new"
      BY <1>13, <3>2 DEF Spawn, WInv, Unmasked
    <3>5. \A n \in Conns : n > conns' => peer'[n] = "new"
      BY <3>1, <3>2 DEF WInv, Unmasked, Conns
    <3>6. QED
      BY <3>1, <3>3, <3>4, <3>5 DEF Unmasked
  <2>5. QED
    BY <2>1, <2>2, <2>3, <2>4 DEF WInv
<1>14. CASE Publish
  <2>1. Undivided' /\ OneLoop' /\ Unmasked' /\ Current' /\ Roused' /\ Shown'
    BY <1>14 DEF WInv, Undivided, OneLoop, Unmasked, Current, Roused, Shown,
       Publish, Attempting, Between, Callback, Opening, localVars, sharedVars,
       loopVars, hbVars
  <2>2. Tended'
    BY <1>14 DEF WInv, OneLoop, Tended, Publish, Opening, sharedVars, loopVars
  <2>3. Shut'
    BY <1>14 DEF WInv, Undivided, Shut, Publish, Calm, Opening, hbVars
  <2>4. QED
    BY <2>1, <2>2, <2>3 DEF WInv
<1>15. CASE Grace
  <2>1. Undivided' /\ OneLoop' /\ Tended' /\ Shut' /\ Current' /\ Roused' /\
       Shown'
    BY <1>15 DEF WInv, Undivided, OneLoop, Tended, Shut, Current, Roused,
       Shown, Grace, Attempting, Between, Opening, localVars, sharedVars,
       socketVars, loopVars, netVars, hbVars
  <2>2. Unmasked'
    BY <1>15 DEF CInv, WInv, Heard, Unmasked, Grace, Callback, socketVars,
       loopVars, netVars
  <2>3. QED
    BY <2>1, <2>2 DEF WInv
<1>16. CASE Ping
  BY <1>16 DEF WInv, Undivided, OneLoop, Tended, Shut, Unmasked, Current,
     Roused, Shown, Ping, Answered, Attempting, Between, Callback, Opening,
     localVars, sharedVars, socketVars, loopVars, netVars, hbVars
<1>17. CASE Mark
  BY <1>17 DEF WInv, Undivided, OneLoop, Tended, Shut, Unmasked, Current,
     Roused, Shown, Mark, Attempting, Between, Callback, Opening, localVars,
     sharedVars, socketVars, hbVars
<1>18. CASE Record
  <2>1. Undivided' /\ OneLoop' /\ Tended' /\ Unmasked' /\ Current' /\ Roused'
       /\ Shown'
    BY <1>18 DEF WInv, Undivided, OneLoop, Tended, Unmasked, Current, Roused,
       Shown, Record, Attempting, Between, Callback, Opening, socketVars,
       loopVars, netVars
  <2>2. Shut'
    BY <1>18 DEF WInv, Undivided, Shut, Current, Record, Calm, Opening, hbVars
  <2>3. QED
    BY <2>1, <2>2 DEF WInv
<1>19. CASE Announce
  <2>1. Undivided' /\ OneLoop' /\ Tended' /\ Shut' /\ Unmasked' /\ Current' /\
       Roused'
    BY <1>19 DEF WInv, Undivided, OneLoop, Tended, Shut, Unmasked, Current,
       Roused, Announce, Attempting, Callback, Opening, localVars, socketVars,
       loopVars, netVars, hbVars
  <2>2. Shown'
    BY <1>19 DEF WInv, Current, Shown, Announce, localVars, socketVars,
       netVars, hbVars
  <2>3. QED
    BY <2>1, <2>2 DEF WInv
<1>20. CASE Failed
  <2>1. Undivided' /\ OneLoop' /\ Tended' /\ Shut' /\ Unmasked' /\ Current' /\
       Roused'
    BY <1>20 DEF WInv, Undivided, OneLoop, Tended, Shut, Unmasked, Current,
       Roused, Failed, Attempting, Opening, socketVars, loopVars, netVars
  <2>2. Shown'
    BY <1>20 DEF WInv, Shut, Shown, Failed, socketVars, netVars
  <2>3. QED
    BY <2>1, <2>2 DEF WInv
<1>21. CASE BackoffBegins
  BY <1>21 DEF WInv, Undivided, OneLoop, Tended, Shut, Unmasked, Current,
     Roused, Shown, BackoffBegins, Attempting, Between, Callback, Opening,
     localVars, socketVars, loopVars, netVars, hbVars
<1>22. CASE BackoffEnds
  BY <1>22 DEF WInv, Undivided, OneLoop, Tended, Shut, Unmasked, Current,
     Roused, Shown, BackoffEnds, Attempting, Between, Callback, Opening,
     localVars, socketVars, loopVars, netVars, hbVars
<1>23. CASE Wake
  BY <1>23 DEF WInv, Undivided, OneLoop, Tended, Shut, Unmasked, Current,
     Roused, Shown, Wake, Attempting, Between, Callback, Opening, localVars,
     socketVars, loopVars, netVars, hbVars
<1>24. QED
  BY <1>1, <1>2, <1>3, <1>4, <1>5, <1>6, <1>7, <1>8, <1>9, <1>10, <1>11,
     <1>12, <1>13, <1>14, <1>15, <1>16, <1>17, <1>18, <1>19, <1>20, <1>21,
     <1>22, <1>23 DEF ManagerStep

\* So does what happens to a connection.
LEMMA LoopWakes ==
  ASSUME ~Stalls, ~Overlaps, TInv, CInv, WInv,
         NEW n \in Conns,
         CallbackStep(n) \/ Accept(n) \/ Dispatch(n) \/ Die(n) \/ FallSilent(n)
  PROVE  WInv'
<1> USE ConnectionAssumption
<1>1. CASE CallbackLooks(n)
  BY <1>1, Untouched DEF WInv, OneLoop, Unmasked, Roused, CallbackLooks,
     Callback, Kick, localVars, mgrVars, sharedVars, socketVars, hbVars
<1>2. CASE CallbackReports(n)
  <2>1. Undivided' /\ OneLoop' /\ Unmasked' /\ Roused'
    BY <1>2 DEF WInv, Undivided, OneLoop, Unmasked, Roused, CallbackReports,
       Callback, Kick, localVars, mgrVars, socketVars, hbVars
  <2>2. Shown'
    BY <1>2 DEF WInv, Unmasked, Shown, CallbackReports, Between, Callback,
       localVars, mgrVars, socketVars
  <2>3. QED
    BY <1>2, <2>1, <2>2, Untouched DEF WInv, CallbackReports, localVars,
       mgrVars, socketVars, hbVars
<1>3. CASE CallbackTells(n)
  <2>1. OneLoop' /\ Unmasked' /\ Roused'
    BY <1>3 DEF WInv, OneLoop, Unmasked, Roused, CallbackTells, Callback,
       Kick, mgrVars, socketVars
  <2>2. Shown'
    BY <1>3 DEF WInv, Unmasked, Shown, CallbackTells, Between, Callback,
       localVars, mgrVars, socketVars
  <2>3. QED
    BY <1>3, <2>1, <2>2, Untouched DEF WInv, CallbackTells, localVars,
       mgrVars, socketVars, hbVars
<1>4. CASE CallbackWakes(n)
  BY <1>4, Untouched DEF WInv, OneLoop, Unmasked, Current, Roused,
     CallbackWakes, Callback, Kick, localVars, mgrVars, socketVars, hbVars
<1>5. CASE Accept(n)
  <2>1. n <= conns /\ mgr # "publish" /\ ~Callback(n)
    BY <1>5, Opened DEF Accept, RoundTrip, Undisturbed, CInv, Unused,
       Callback, Conns
  <2>2. /\ \A k \in Conns \ {n} : peer'[k] = peer[k]
        /\ UNCHANGED <<mgr, loop, conns, open>>
    BY <1>5 DEF Accept, TInv, TypeOK, AdapterTyped, mgrVars, socketVars
  <2>3. Unmasked'
    BY <2>1, <2>2, Opened DEF WInv, Unmasked, Callback, Conns
  <2>4. QED
    BY <1>5, <2>3, Untouched DEF WInv, Accept, localVars, mgrVars, sharedVars,
       socketVars, hbVars
<1>6. CASE Dispatch(n)
  BY <1>6, Untouched DEF WInv, Current, Roused, Dispatch, Kick, localVars,
     mgrVars, socketVars, loopVars, netVars, hbVars
<1>7. CASE Die(n)
  <2>1. OneLoop' /\ Tended' /\ Shut' /\ Shown'
    BY <1>7 DEF WInv, OneLoop, Tended, Shut, Shown, Die, localVars, mgrVars,
       sharedVars, hbVars
  <2>2. Unmasked'
    BY <1>7 DEF WInv, OneLoop, Unmasked, Die, Callback, Conns, Opening,
       mgrVars
  <2>3. Roused'
    BY <1>7 DEF TInv, WInv, TypeOK, AdapterTyped, OneLoop, Tended, Roused,
       Die, Callback, Kick, localVars, mgrVars, sharedVars, hbVars
  <2>4. QED
    BY <1>7, <2>1, <2>2, <2>3, Untouched DEF WInv, Die, localVars, mgrVars,
       sharedVars, hbVars
<1>8. CASE FallSilent(n)
  BY <1>8, Untouched DEF WInv, Unmasked, FallSilent, Callback, localVars,
     mgrVars, sharedVars, socketVars, hbVars
<1>9. QED
  BY <1>1, <1>2, <1>3, <1>4, <1>5, <1>6, <1>7, <1>8 DEF CallbackStep

\* So do the heartbeat and the change of server.
LEMMA HelperWakes ==
  ASSUME ~Stalls, ~Overlaps, TInv, CInv, WInv,
         HeartbeatStep \/ Reconnect \/ ReconnectStep
  PROVE  WInv'
<1> USE ConnectionAssumption
<1>1. CASE Beat
  BY <1>1, Untouched DEF WInv, Undivided, Tended, Shut, Roused, Shown, Beat,
     localVars, mgrVars, sharedVars, socketVars, loopVars, netVars
<1>2. CASE BeatPings
  BY <1>2, Untouched DEF WInv, Undivided, Tended, Shut, Roused, Shown,
     BeatPings, Callback, Calm, Kick, localVars, mgrVars, sharedVars,
     socketVars, loopVars, netVars
<1>3. CASE BeatEnds
  BY <1>3, Untouched DEF WInv, Undivided, Tended, Shut, Roused, Shown,
     BeatEnds, Callback, Calm, Kick, localVars, mgrVars, sharedVars,
     socketVars, loopVars, netVars
<1>4. CASE BeatIsSlow
  BY <1>4, Untouched DEF WInv, Undivided, Tended, Shut, Roused, Shown,
     BeatIsSlow, Kick, localVars, mgrVars, socketVars, loopVars, netVars
<1>5. CASE BeatRetires
  <2>1. Undivided'
    BY <1>5 DEF TInv, WInv, TypeOK, HelpersTyped, Undivided, BeatRetires,
       Calm, localVars, mgrVars
  <2>2. OneLoop'
    BY <1>5 DEF WInv, Undivided, OneLoop, BeatRetires, Calm, mgrVars,
       socketVars, loopVars, netVars
  <2>3. Tended' /\ Shut' /\ Roused' /\ Shown'
    BY <1>5 DEF WInv, Tended, Shut, Roused, Shown, BeatRetires, Callback,
       Kick, localVars, mgrVars, socketVars, loopVars, netVars
  <2>4. QED
    BY <1>5, <2>1, <2>2, <2>3, Untouched DEF WInv, BeatRetires, localVars,
       mgrVars, socketVars, loopVars, netVars
<1>6. CASE BeatReports
  BY <1>6, Untouched DEF WInv, Undivided, Tended, Shut, Roused, Shown,
     BeatReports, Calm, Kick, localVars, mgrVars, socketVars, loopVars,
     netVars
<1>7. CASE BeatCloses
  <2>1. Undivided' /\ Tended' /\ Shut' /\ Unmasked' /\ Roused' /\ Shown'
    BY <1>7 DEF WInv, Undivided, Tended, Shut, Unmasked, Roused, Shown,
       BeatCloses, Close, Calm, Kick, Opening, localVars, mgrVars, sharedVars
  <2>2. OneLoop'
    BY <1>7 DEF TInv, WInv, TypeOK, AdapterTyped, Undivided, OneLoop,
       BeatCloses, Close, TakeTask, Abort, Calm, mgrVars
  <2>3. QED
    BY <1>7, <2>1, <2>2, Untouched DEF WInv, BeatCloses, Close, localVars,
       mgrVars, sharedVars
<1>8. CASE BeatTells
  <2>1. Undivided' /\ Tended' /\ Shut' /\ Roused'
    BY <1>8 DEF WInv, Undivided, Tended, Shut, Roused, BeatTells, Calm, Kick,
       localVars, mgrVars
  <2>2. Shown'
    BY <1>8 DEF WInv, Shut, Shown, BeatTells, localVars, mgrVars
  <2>3. QED
    BY <1>8, <2>1, <2>2, Untouched DEF WInv, BeatTells, localVars, mgrVars,
       loopVars
<1>9. CASE BeatWakes
  BY <1>9, Untouched DEF WInv, Undivided, Tended, Shut, Current, Roused,
     Shown, BeatWakes, Calm, Kick, localVars, mgrVars, socketVars, loopVars,
     netVars
<1>10. CASE Reconnect
  BY <1>10, Untouched DEF WInv, Undivided, Tended, Roused, Reconnect,
     Callback, Kick, localVars, mgrVars, sharedVars, socketVars, loopVars,
     netVars, hbVars
<1>11. CASE ReconnectRetires
  <2>1. Undivided' /\ Tended' /\ Roused'
    BY <1>11 DEF WInv, Undivided, Tended, Roused, ReconnectRetires,
       Attempting, Kick, Opening, mgrVars, socketVars, loopVars, netVars,
       hbVars
  <2>2. OneLoop'
    BY <1>11 DEF WInv, Undivided, OneLoop, ReconnectRetires, Attempting,
       Opening, mgrVars, socketVars, loopVars, netVars
  <2>3. QED
    BY <1>11, <2>1, <2>2, Untouched DEF WInv, ReconnectRetires, localVars,
       mgrVars, socketVars, loopVars, netVars, hbVars
<1>12. CASE ReconnectCloses
  <2>1. Undivided' /\ Tended' /\ Shut' /\ Unmasked' /\ Roused' /\ Shown'
    BY <1>12 DEF WInv, Undivided, Tended, Shut, Unmasked, Roused, Shown,
       ReconnectCloses, Close, Attempting, Kick, localVars, mgrVars,
       sharedVars, hbVars
  <2>2. OneLoop'
    BY <1>12 DEF TInv, WInv, TypeOK, AdapterTyped, Undivided, OneLoop,
       ReconnectCloses, Close, TakeTask, Abort, Attempting, Opening, mgrVars
  <2>3. QED
    BY <1>12, <2>1, <2>2, Untouched DEF WInv, ReconnectCloses, Close,
       localVars, mgrVars, sharedVars
<1>13. CASE ReconnectWakes
  BY <1>13, Untouched DEF WInv, Undivided, Tended, Current, Roused,
     ReconnectWakes, Kick, localVars, mgrVars, loopVars, hbVars
<1>14. QED
  BY <1>1, <1>2, <1>3, <1>4, <1>5, <1>6, <1>7, <1>8, <1>9, <1>10, <1>11,
     <1>12, <1>13 DEF HeartbeatStep, ReconnectStep

\* So does the user.
LEMMA UserWakes ==
  ASSUME ~Stalls, ~Overlaps, TInv, CInv, WInv,
         Login \/ Logout \/ Nudge
  PROVE  WInv'
<1> USE ConnectionAssumption
<1>1. CASE Login
  BY <1>1, Untouched DEF WInv, Current, Roused, Login, Kick, localVars,
     mgrVars, socketVars, loopVars, netVars, hbVars
<1>2. CASE Logout
  BY <1>2, Untouched DEF WInv, Current, Roused, Logout, Kick, localVars,
     mgrVars, socketVars, loopVars, netVars, hbVars
<1>3. CASE Nudge
  BY <1>3, Untouched DEF WInv, Current, Roused, Nudge, Kick, localVars,
     mgrVars, socketVars, loopVars, netVars, hbVars
<1>4. QED
  BY <1>1, <1>2, <1>3

\* It holds after every step.
LEMMA StepWake ==
  ~Stalls /\ ~Overlaps /\ TInv /\ CInv /\ WInv /\ [Next]_vars => WInv'
<1> SUFFICES ASSUME ~Stalls, ~Overlaps, TInv, CInv, WInv, [Next]_vars
             PROVE  WInv'
  OBVIOUS
<1>1. CASE Next
  BY <1>1, ManagerWakes, LoopWakes, HelperWakes, UserWakes DEF Next
<1>2. CASE UNCHANGED vars
  BY <1>2, Untouched DEF WInv, vars, mgrVars, localVars, sharedVars, netVars,
     socketVars, loopVars, hbVars
<1>3. QED
  BY <1>1, <1>2

\* All three invariants together.
LEMMA Awake == ~Stalls /\ ~Overlaps /\ Spec => [](TInv /\ WInv)
<1> SUFFICES ASSUME ~Stalls, ~Overlaps PROVE Spec => [](TInv /\ WInv)
  OBVIOUS
<1>1. Init => TInv /\ CInv /\ WInv
  BY InitTyped, InitConfirm, InitWake
<1>2. TInv /\ CInv /\ WInv /\ [Next]_vars => (TInv /\ CInv /\ WInv)'
  BY StepTyped, StepConfirm, StepWake
<1>3. QED
  BY <1>1, <1>2, PTL DEF Spec

\* Nobody is on the way to wake a manager at rest, and so it is where it
\* should be.
LEMMA Rested ==
  ASSUME TInv, WInv, AtRest
  PROVE  /\ session = auth /\ user = session
         /\ session # 0 => open
         /\ session = 0 => ~open
         /\ open => task # 0 /\ of[task] = gen
<1>1. session = auth /\ user = session
  BY DEF AtRest, WInv, Current
<1>2. session # 0 => open
  BY DEF AtRest, WInv, Roused, Kick, Callback
<1>3. session = 0 => ~open
  BY <1>1 DEF AtRest, WInv, Shut
<1>4. open => task # 0 /\ of[task] = gen
  BY DEF AtRest, WInv, Tended
<1>5. QED
  BY <1>1, <1>2, <1>3, <1>4

\* However often sockets fail, users change, nodes move and servers are
\* switched between attempts, no wake-up is lost: the manager never sleeps on
\* without a connection of the user who is logged in, nor with anybody's once
\* nobody is.
THEOREM NoWakeIsLost == ~Stalls /\ ~Overlaps /\ Spec => []NoLostWake
<1>1. TInv /\ WInv => NoLostWake
  BY Rested DEF NoLostWake
<1>2. QED
  BY <1>1, Awake, PTL

\* Nor does it rest with a connection whose generation somebody has retired,
\* the close of which nobody would hear.
THEOREM AlwaysListens == ~Stalls /\ ~Overlaps /\ Spec => []Listens
<1>1. TInv /\ WInv => Listens
  BY Rested DEF Listens
<1>2. QED
  BY <1>1, Awake, PTL

\* And what it shows then is what it has: the disconnect of a connection that
\* was replaced leaves neither the status nor the health behind.
THEOREM StatusAlwaysSettles ==
  ~Stalls /\ ~Overlaps /\ Spec => []StatusSettles
<1>1. TInv /\ WInv => StatusSettles
  BY Rested DEF StatusSettles, AtRest, WInv, Shown, Between
<1>2. QED
  BY <1>1, Awake, PTL

==============================================================================

------------------------------ MODULE Timeline ------------------------------
(***************************************************************************)
(* The message window of one channel (mezon-store/src/messages.rs,         *)
(* MessagesStore): the rows the store keeps of a conversation, the pages   *)
(* it fetches above, below and around them, the rows of messages still     *)
(* being sent, and the realtime events that extend the window, against a   *)
(* server that keeps the channel's log.                                    *)
(*                                                                         *)
(* Messages are their positions in the server's log.  The rows are a set:  *)
(* the store sorts them by sort_id after every change, and sort_id is the  *)
(* message's id or, in a row still being sent, a time later than all the   *)
(* user has seen (optimistic_sort_id).  The other channels are one place,  *)
(* "elsewhere", whose own fetches are left out.                            *)
(***************************************************************************)
EXTENDS Integers, FiniteSets, SequencesExt, FiniteSetsExt

CONSTANTS
    MaxSends,   \* messages the user sends
    Text,       \* what each of them says
    History,    \* messages in the channel when the program starts
    MaxLog,     \* a bound on the messages of the channel
    Page,       \* MESSAGE_PAGE_LIMIT, 50 in the code
    Cap,        \* MAX_MESSAGES_PER_CHANNEL, 200 in the code
    MaxMoves,   \* a bound on what the user does besides sending
    MaxFaults,  \* a bound on lost connections, lags and failed requests
    Clan,       \* the channel is one of the open clan, else a direct message
    InOrder     \* the server serves and answers in the order it is asked

Sends == 1 .. MaxSends
Messages == 1 .. MaxLog

ASSUME TimelineAssumption ==
    /\ MaxSends \in Nat /\ MaxLog \in Nat /\ History \in 1 .. MaxLog
    /\ DOMAIN Text = Sends
    /\ Page \in Nat \ {0} /\ Cap \in Nat /\ Page <= Cap
    /\ MaxMoves \in Nat /\ MaxFaults \in Nat
    /\ {Clan, InOrder} \subseteq BOOLEAN

VARIABLES
    log,         \* the server's messages: by whom, 0 for everybody else, else
                 \* the number of the user's send
    store,       \* MessagesStore, as far as this channel is concerned
                 \* and the requests it has made that are not served yet
    answers,     \* answers and events on their way to the store
    connected,   \* the store's last news of the connection
    subscribed,  \* the server sends this client the channel's events
    doubt,       \* the store may be wrong about the channel's tail
    sends, moves, faults   \* what was used up of the bounds

vars == <<log, store, answers, connected, subscribed, doubt, sends, moves,
          faults>>

None == 0

-----------------------------------------------------------------------------
(* Rows.  A row still being sent has no id; a row that was one keeps the   *)
(* send as its anchor (row_anchor_id).                                     *)

Row(i) == [id |-> i, at |-> i, anchor |-> None, failed |-> FALSE]
TempRow(n) == [id |-> None, at |-> Len(log), anchor |-> n, failed |-> FALSE]
Rows == [id : Messages \cup {None}, at : Messages, anchor : Sends \cup {None},
         failed : BOOLEAN]

Ids(rows) == {r.id : r \in rows} \ {None}
NewestId(rows) == Max(Ids(rows) \cup {None})
Temps(rows) == {r \in rows : r.id = None}

\* message_sort_key: a row being sent comes after the messages it was sent
\* after, in the order of the sends.
SortKey(r) == r.at * (MaxSends + 1) + IF r.id = None THEN r.anchor ELSE 0

\* trim_messages drops the oldest rows beyond the cap, trim_messages_back the
\* newest.
KeepNewestAndOne(rows) ==   \* (mutant) One row too many stays.
    {r \in rows : Cardinality({q \in rows : SortKey(q) > SortKey(r)}) <= Cap}
KeepNewest(rows) ==
    {r \in rows : Cardinality({q \in rows : SortKey(q) > SortKey(r)}) < Cap}
KeepOldest(rows) ==
    {r \in rows : Cardinality({q \in rows : SortKey(q) < SortKey(r)}) < Cap}

FirstRow(rows) == CHOOSE r \in rows : \A q \in rows : SortKey(r) <= SortKey(q)
LastRow(rows) == CHOOSE r \in rows : \A q \in rows : SortKey(r) >= SortKey(q)

\* has_more_from_oldest: the first message of a channel says that it is.
MoreAbove(rows) == rows # {} /\ FirstRow(rows).id # 1

-----------------------------------------------------------------------------
(* The store.  A handler maps the store to what it leaves behind, the      *)
(* requests it makes included.                                             *)

Fetches == {"older", "newer", "around"}
Joins == {"join", "clan"}
Kinds == Fetches \cup Joins \cup {"page", "send", "seed"}

\* at: the anchor of a fetch, or the send; gen: fetch_generation; tail: the
\* tail the store believed in.
Asks == [kind : Kinds, at : Nat, gen : Nat, tail : Messages \cup {None}]

Stores == [active : BOOLEAN, cached : BOOLEAN, rows : SUBSET Rows,
           hasMore : BOOLEAN, fresh : BOOLEAN, last : Messages \cup {None},
           older : BOOLEAN, loading : BOOLEAN, loadingMore : BOOLEAN,
           gen : Nat, latest : Nat, jump : Messages \cup {None},
           joined : BOOLEAN, asks : Seq(Asks)]

Ask(s, kind, at) ==
    [s EXCEPT !.asks = Append(@, [kind |-> kind, at |-> at, gen |-> s.gen,
                                  tail |-> s.last])]

\* (mutant) The tail is looked for only while the user reads older messages.
DetachedAbove(s) ==
    /\ s.older /\ s.cached /\ s.rows # {}
    /\ s.last # None /\ s.last \notin Ids(s.rows)

\* tail_detached: the newest message the store knows of is not in the window.
Detached(s) ==
    s.cached /\ s.last # None /\ s.rows # {} /\ s.last \notin Ids(s.rows)

\* refetch_current_messages
Refetch(s) ==
    IF ~s.active THEN s
    ELSE Ask([s EXCEPT !.loading = TRUE, !.loadingMore = FALSE,
                       !.gen = @ + 1, !.latest = s.gen + 1],
             "page", None)

\* jump_to_present
ToPresent(s) == IF s.active THEN Refetch([s EXCEPT !.older = FALSE]) ELSE s

\* try_consume_pending_jump, and the jump_to_message it ends in: a message in
\* the window is shown, another one is fetched with its neighbours.
TryJump(s) ==
    IF s.jump = None \/ ~s.active \/ s.loading \/ s.loadingMore THEN s
    ELSE IF s.cached /\ s.jump \in Ids(s.rows) THEN [s EXCEPT !.jump = None]
    ELSE Ask([s EXCEPT !.jump = None, !.loadingMore = TRUE], "around", s.jump)

\* (mutant) The waiting jump is looked at before the fetch counts as done.
JumpThenFinish(s) == [TryJump(s) EXCEPT !.loadingMore = FALSE]

\* finish_loading_more
FinishMore(s) == TryJump([s EXCEPT !.loadingMore = FALSE])

CanLoad(s) ==
    s.active /\ s.cached /\ s.rows # {} /\ ~s.loading /\ ~s.loadingMore

\* load_more
LoadMore(s) ==
    IF CanLoad(s) /\ s.hasMore /\ FirstRow(s.rows).id # None
    THEN Ask([s EXCEPT !.loadingMore = TRUE], "older", FirstRow(s.rows).id)
    ELSE s

\* load_more_bottom
LoadMoreBottom(s) ==
    IF CanLoad(s) /\ Detached(s) /\ LastRow(s.rows).id \notin {None, s.last}
    THEN Ask([s EXCEPT !.loadingMore = TRUE], "newer", LastRow(s.rows).id)
    ELSE s

\* spawn_join, if the channel was not joined yet
Join(s) == IF s.joined THEN s ELSE Ask([s EXCEPT !.joined = TRUE], "join", None)

\* activate, for this channel
Activate(s) ==
    LET opened == Join([s EXCEPT !.active = TRUE, !.older = FALSE,
                                 !.loadingMore = FALSE, !.gen = @ + 1])
    IN  IF s.cached /\ s.fresh THEN TryJump([opened EXCEPT !.loading = FALSE])
        ELSE Ask([opened EXCEPT !.loading = TRUE, !.latest = opened.gen],
                 "page", None)

\* open_channel_in_clan and open_direct, when the channel is open already
Reopen(s) ==
    IF s.loading THEN s
    ELSE IF s.cached /\ (s.rows # {} \/ s.fresh) THEN TryJump(s)
    ELSE Refetch(s)

\* activate, for another channel: what it does to this one
Deactivate(s) ==
    [s EXCEPT !.active = FALSE, !.jump = None, !.gen = @ + 1,
              !.loading = FALSE, !.loadingMore = FALSE,
              !.older = @ /\ Detached(s)]

\* (mutant) Nobody asks for the tails again.
ResyncUnseeded(s) ==
    LET stale == [s EXCEPT !.fresh = FALSE, !.joined = FALSE]
        clan  == IF Clan THEN Ask(stale, "clan", None) ELSE stale
    IN  IF s.active THEN Refetch(Join(clan)) ELSE clan

\* resync, after a reconnect and when the dispatcher has lost events.
\* ChannelList does the same for the open clan: it joins it, which subscribes
\* its channels, and asks for its badges, which name the channels' tails.
Resync(s) ==
    LET stale == [s EXCEPT !.fresh = FALSE, !.joined = FALSE]
        clan  == IF Clan THEN Ask(stale, "clan", None) ELSE stale
        own   == IF s.active THEN Refetch(Join(clan)) ELSE clan
    IN  IF Clan THEN Ask(own, "seed", None) ELSE own

\* append_optimistic and the request of send_message_with_payload
Send(s, n) ==
    Ask(IF s.cached /\ ~Detached(s)
        THEN [s EXCEPT !.rows = KeepNewest(@ \cup {TempRow(n)})] ELSE s,
        "send", n)

-----------------------------------------------------------------------------
(* Answers.                                                                *)

\* set_channel: the page becomes the window; the tail is not touched if one
\* is known.
SetChannel(s, page) ==
    LET rows == KeepNewest({Row(i) : i \in page}) IN
    [s EXCEPT !.cached = TRUE, !.fresh = TRUE, !.rows = rows,
              !.hasMore = MoreAbove(rows),
              !.last = IF @ = None /\ page # {} THEN Max(page) ELSE @]

\* apply_initial_fetch_result
Superseded(s, a) == s.latest \notin {None, a.gen}
Ignored(s, a) == Superseded(s, a) /\ s.cached /\ s.rows # {}
PageArrives(s, a) ==
    LET settled == IF Superseded(s, a) THEN s
                   ELSE [s EXCEPT !.latest = None, !.loading = @ /\ ~s.active]
        shown   == IF a.ok THEN SetChannel(settled, a.page) ELSE settled
        current == ~Superseded(s, a) /\ s.active /\ s.gen = a.gen
    IN  IF Ignored(s, a) THEN s ELSE IF current THEN TryJump(shown) ELSE shown

\* The answer of load_more: rows in front, the newest rows give way.
OlderArrives(s, a) ==
    LET fresh == a.page \ Ids(s.rows)
        rows  == KeepOldest(s.rows \cup {Row(i) : i \in fresh})
    IN  FinishMore(IF ~a.ok \/ ~s.cached THEN s
                   ELSE IF fresh = {} THEN [s EXCEPT !.hasMore = FALSE]
                   ELSE [s EXCEPT !.rows = rows, !.hasMore = MoreAbove(rows)])

\* The answer of load_more_bottom: rows at the end, the oldest give way; or
\* nothing newer, and the end of the window is the tail, unless the tail has
\* moved in the meantime and is gone after.
NewerArrives(s, a) ==
    LET fresh  == a.page \ Ids(s.rows)
        all    == s.rows \cup {Row(i) : i \in fresh}
        moved  == s.last # a.tail
        ended  == FinishMore(IF moved THEN s ELSE [s EXCEPT !.last = a.at])
    IN  IF ~a.ok \/ ~s.cached THEN FinishMore(s)
        ELSE IF fresh # {}
        THEN FinishMore([s EXCEPT !.rows = KeepNewest(all),
                                  !.hasMore = @ \/ Cardinality(all) > Cap])
        ELSE IF moved /\ ended.jump = None THEN LoadMoreBottom(ended)
        ELSE ended

\* The answer of jump_to_message: a window of its own around the target.
AroundArrives(s, a) ==
    LET rows == {Row(i) : i \in a.page} IN
    FinishMore(IF a.ok /\ s.cached /\ a.at \in a.page
               THEN [s EXCEPT !.rows = rows, !.hasMore = MoreAbove(rows)]
               ELSE s)

\* handle_event for a new message: beyond a window that is not at the tail it
\* only moves the tail.  apply_incoming_message: the user's own takes the
\* place of the first row being sent with its text.
SameTextAsFailed(s, i) ==   \* (mutant) It is the failed rows that are replaced.
    {r \in Temps(s.rows) :
        r.failed /\ log[i] # 0 /\ Text[r.anchor] = Text[log[i]]}
SameText(s, i) ==
    {r \in Temps(s.rows) :
        ~r.failed /\ log[i] # 0 /\ Text[r.anchor] = Text[log[i]]}

EventArrives(s, a) ==
    LET i     == a.at
        echo  == SameText(s, i)
        rows  == KeepNewest(
                   IF echo = {} THEN s.rows \cup {Row(i)}
                   ELSE LET t == FirstRow(echo)
                        IN  (s.rows \ {t})
                              \cup {[Row(i) EXCEPT !.anchor = t.anchor]})
        tail  == LastRow(rows).id
    IN  IF ~s.cached \/ s.older \/ Detached(s) THEN [s EXCEPT !.last = i]
        ELSE IF i \in Ids(s.rows) THEN s
        ELSE [s EXCEPT !.rows = rows, !.last = IF tail = None THEN @ ELSE tail]

Sending(s, a) == {r \in Temps(s.rows) : r.anchor = a.at}

\* reconcile_temp, and follow_send_to_present when the window had no place for
\* the message.
Reconcile(s, a) ==
    LET id   == Max(a.page)
        rest == s.rows \ Sending(s, a)
        rows == IF rest # s.rows
                THEN rest \cup {[Row(id) EXCEPT !.anchor = a.at]}
                ELSE IF Detached(s) \/ id \in Ids(rest) THEN rest
                ELSE KeepNewest(rest \cup {Row(id)})
        told == [s EXCEPT !.rows = IF s.cached THEN rows ELSE @, !.last = id]
    IN  IF s.active /\ rest = s.rows /\ Detached(s) /\ Detached(told)
        THEN ToPresent(told) ELSE told

\* (mutant) Only a denial is told to the row.
RejectDenied(s, a) ==
    IF a.denied THEN [s EXCEPT !.rows = @ \ Sending(s, a)] ELSE s

\* reject_send and mark_temp_failed
Reject(s, a) ==
    LET rest == s.rows \ Sending(s, a)
    IN  IF a.denied THEN [s EXCEPT !.rows = rest]
        ELSE [s EXCEPT !.rows =
                rest \cup {[r EXCEPT !.failed = TRUE] : r \in Sending(s, a)}]

Handled(s, a) ==
    CASE a.kind = "page"   -> PageArrives(s, a)
      [] a.kind = "older"  -> OlderArrives(s, a)
      [] a.kind = "newer"  -> NewerArrives(s, a)
      [] a.kind = "around" -> AroundArrives(s, a)
      [] a.kind = "send"   -> IF a.ok THEN Reconcile(s, a) ELSE Reject(s, a)
      [] a.kind = "event"  -> IF a.ok THEN EventArrives(s, a) ELSE s
      [] a.kind = "seed"   -> IF a.ok THEN [s EXCEPT !.last = Max(a.page)]
                              ELSE s
      [] a.kind = "join"   -> IF a.ok THEN s ELSE [s EXCEPT !.joined = FALSE]
      [] a.kind = "clan"   -> s

-----------------------------------------------------------------------------
(* The server and the connection.                                          *)

Answers == [kind : Kinds \cup {"event"}, at : Nat, gen : Nat,
            tail : Messages \cup {None}, ok : BOOLEAN, denied : BOOLEAN,
            page : SUBSET Messages]

Reply(a, ok, denied, page) ==
    [kind |-> a.kind, at |-> a.at, gen |-> a.gen, tail |-> a.tail,
     ok |-> ok, denied |-> denied, page |-> page]
Answer(a, page) == Reply(a, TRUE, FALSE, page)
Refusal(a, denied) == Reply(a, FALSE, denied, {})
Event(i) == [kind |-> "event", at |-> i, gen |-> 0, tail |-> None,
             ok |-> TRUE, denied |-> FALSE, page |-> {}]

\* listChannelMessages: the newest page, one next to the anchor, one around it.
PageFor(a) ==
    {i \in 1 .. Len(log) :
        CASE a.kind = "page"   -> i > Len(log) - Page
          [] a.kind = "seed"   -> i = Len(log)
          [] a.kind = "older"  -> i < a.at /\ i >= a.at - Page
          [] a.kind = "newer"  -> i > a.at /\ i <= a.at + Page
          [] a.kind = "around" -> i >= a.at - Page \div 2
                                  /\ i <= a.at + (Page - 1) \div 2}

Turn(queue) == IF InOrder THEN {1} \cap DOMAIN queue ELSE DOMAIN queue
UnderWay(kinds) ==
    {a \in Range(store.asks) \cup Range(answers) : a.kind \in kinds}

Init ==
    /\ log = [i \in 1 .. History |-> 0]
    /\ store = [active |-> FALSE, cached |-> FALSE, rows |-> {},
                hasMore |-> FALSE, fresh |-> FALSE,
                last |-> IF Clan THEN History ELSE None,
                older |-> FALSE, loading |-> FALSE, loadingMore |-> FALSE,
                gen |-> 0, latest |-> None, jump |-> None, joined |-> FALSE,
                asks |-> <<>>]
    /\ answers = <<>>
    /\ connected = TRUE /\ subscribed = Clan /\ doubt = FALSE
    /\ sends = 0 /\ moves = 0 /\ faults = 0

\* Somebody else writes.
Post ==
    /\ Len(log) < MaxLog
    /\ log' = Append(log, 0)
    /\ answers' = IF subscribed THEN Append(answers, Event(Len(log) + 1))
                  ELSE answers
    /\ UNCHANGED <<store, connected, subscribed, doubt, sends, moves, faults>>

ServeFetch(k) ==
    LET a == store.asks[k] IN
    /\ a.kind \in Fetches \cup {"page", "seed"}
    /\ answers' = Append(answers, Answer(a, PageFor(a)))
    /\ UNCHANGED <<log, subscribed>>

\* The author's own event goes to the client before or after the answer.
ServeSend(k) ==
    LET a == store.asks[k]
        i == Len(log) + 1
        ack == Answer(a, {i})
    IN  /\ a.kind = "send" /\ i \in Messages
        /\ log' = Append(log, a.at)
        /\ answers' \in IF subscribed
                        THEN {answers \o <<Event(i), ack>>,
                              answers \o <<ack, Event(i)>>}
                        ELSE {Append(answers, ack)}
        /\ UNCHANGED subscribed

ServeJoin(k) ==
    /\ store.asks[k].kind \in Joins
    /\ subscribed' = TRUE
    /\ UNCHANGED <<log, answers>>

\* A request fails; so does every one that is made without a connection.
Refuse(k) ==
    /\ connected => faults < MaxFaults
    /\ \E denied \in BOOLEAN :
          answers' = Append(answers, Refusal(store.asks[k], denied))
    /\ faults' = IF connected THEN faults + 1 ELSE faults
    /\ doubt' = \/ doubt
                \/ connected /\ store.asks[k].kind \in Joins \cup {"seed"}
    /\ UNCHANGED <<log, subscribed>>

Serve ==
    \E k \in Turn(store.asks) :
        /\ \/ /\ connected \/ store.asks[k].kind \notin Joins
              /\ ServeFetch(k) \/ ServeSend(k) \/ ServeJoin(k)
              /\ UNCHANGED <<faults, doubt>>
           \/ Refuse(k)
        /\ store' = [store EXCEPT !.asks = RemoveAt(@, k)]
        /\ UNCHANGED <<connected, sends, moves>>

\* An answer that fails, or an event that never reaches the store.
Lose(a) == Reply(a, FALSE, a.denied, {})

\* The connection is lost, with what was on its way; a fetch goes on over HTTP
\* or fails.
Disconnect ==
    /\ connected /\ faults < MaxFaults
    /\ connected' = FALSE /\ subscribed' = FALSE /\ faults' = faults + 1
    /\ answers' = [k \in DOMAIN answers |-> Lose(answers[k])]
    /\ UNCHANGED <<log, store, doubt, sends, moves>>

\* spawn_connection_watch, when the connection is back; the dispatcher's
\* on_lagged, when the store was too slow for its events.
Reconnect ==
    /\ ~connected /\ connected' = TRUE /\ doubt' = FALSE
    /\ store' = Resync(store)
    /\ UNCHANGED <<log, answers, subscribed, sends, moves, faults>>

Lag ==
    /\ connected /\ faults < MaxFaults /\ faults' = faults + 1
    /\ doubt' = FALSE
    /\ \E a \in UnderWay({"event"}) : a.ok
    /\ answers' = [k \in DOMAIN answers |->
                     IF answers[k].kind = "event" THEN Lose(answers[k])
                     ELSE answers[k]]
    /\ store' = Resync(store)
    /\ UNCHANGED <<log, connected, subscribed, sends, moves>>

\* What leaves the store wrong about the tail: an empty page that sets it back
\* (the second of two newer pages, or one whose window was replaced meanwhile),
\* or a live message that is taken in under a row being sent.
Confuses(a) ==
    \/ a.kind = "newer" /\ Handled(store, a).last < store.last
    \/ /\ a.kind = "event" /\ store.cached /\ store.rows # {}
       /\ LastRow(store.rows).id = None

Deliver(k) ==
    LET a == answers[k] IN
    /\ store' = Handled(store, a)
    /\ answers' = RemoveAt(answers, k)
    /\ doubt' = (doubt \/ Confuses(a))
    /\ UNCHANGED <<log, connected, subscribed, sends, moves, faults>>

-----------------------------------------------------------------------------
(* The user.                                                               *)

Move(after) ==
    /\ moves < MaxMoves /\ moves' = moves + 1
    /\ after # store /\ store' = after
    /\ UNCHANGED <<log, answers, connected, subscribed, doubt, sends, faults>>

Open == Move(IF store.active THEN Reopen(store) ELSE Activate(store))
Leave ==
    store.active /\ Move(Deactivate(store))

\* on_active_channel_changed(None): no channel is open.
Shut(s) == [s EXCEPT !.active = FALSE, !.loading = FALSE, !.loadingMore = FALSE]
Unfocus == store.active /\ Move(Shut(store))

\* close, which gives up the waiting jump as well.
Close == Move(IF store.active THEN [Shut(store) EXCEPT !.jump = None]
              ELSE [store EXCEPT !.jump = None])

\* set_viewing_older, as the view reports where its bottom is.
ScrollUp == store.active /\ Move([store EXCEPT !.older = TRUE])
ScrollDown == store.active /\ Move([store EXCEPT !.older = FALSE])

\* scroll_reached_top and scroll_reached_bottom.
ReachTop == store.older /\ Move(LoadMore(store))
ReachBottom == Move(LoadMoreBottom(store))
Present == Move(ToPresent(store))
Jump ==
    \E i \in 1 .. Len(log) : Move(TryJump([store EXCEPT !.jump = i]))

\* The cache: CACHE_TTL runs out; MAX_CACHED_CHANNELS others were opened since.
Expire == Move([store EXCEPT !.fresh = FALSE])
Evict ==
    /\ ~store.active
    /\ Move([store EXCEPT !.cached = FALSE, !.fresh = FALSE,
                         !.rows = {}, !.hasMore = FALSE])

Write ==
    /\ sends < MaxSends /\ store.active
    /\ sends' = sends + 1
    /\ store' = Send(store, sends + 1)
    /\ UNCHANGED <<log, answers, connected, subscribed, doubt, moves, faults>>

Next ==
    \/ Post \/ Serve \/ Disconnect \/ Reconnect \/ Lag
    \/ \E k \in Turn(answers) : Deliver(k)
    \/ Open \/ Leave \/ Unfocus \/ Close \/ ScrollUp \/ ScrollDown
    \/ ReachTop \/ ReachBottom \/ Present \/ Jump \/ Expire \/ Evict
    \/ Write

Spec == Init /\ [][Next]_vars

-----------------------------------------------------------------------------
(* Properties.                                                             *)

\* Rows, requests and answers are what they should be.
Typed ==
    /\ log \in Seq(Sends \cup {0}) /\ Len(log) \in Messages
    /\ store \in Stores
    /\ answers \in Seq(Answers)
    /\ {connected, subscribed, doubt} \subseteq BOOLEAN
    /\ sends \in 0 .. MaxSends
    /\ moves \in 0 .. MaxMoves /\ faults \in 0 .. MaxFaults

\* And no insertion leaves more than MAX_MESSAGES_PER_CHANNEL rows.
TypeOK ==
    /\ Typed
    /\ store.latest <= store.gen
    /\ Cardinality(store.rows) <= Cap

\* No message is in the window twice, be it that the answer, the echo and a page
\* all bring it, or that it is there and still being sent (reconcile_temp,
\* apply_incoming_message).
NoTwins ==
    \A r, q \in store.rows :
        /\ r.id = q.id /\ r.id # None => r = q
        /\ r.id = None /\ ~r.failed /\ q.id # None => log[q.id] # r.anchor

\* When nothing is asked and nothing on its way, a window that counts as the
\* newest of the channel ends with the newest message: what was said while the
\* connection was down, events were lost, another channel was open or the user
\* read older messages has been fetched, or the window knows that it is not at
\* the tail (resync, activate, tail_detached, apply_initial_fetch_result).
RestsCurrent ==
    /\ store.asks = <<>> /\ answers = <<>> /\ connected /\ ~doubt
    /\ store.cached /\ store.fresh /\ ~store.older /\ ~Detached(store)
    /\ Ids(store.rows) # {}
    => NewestId(store.rows) = Len(log)

\* A live message is taken in only next to the message before it: "a live
\* message must not be sewn onto a window detached from the tail", whatever
\* pages, jumps, trims and resyncs made of the window and the recorded tail
\* since (handle_event, has_more_bottom_for).
LiveMessageJoins ==
    \A k \in DOMAIN answers :
        LET i == answers[k].at IN
        /\ answers[k] = Event(i) /\ answers' = RemoveAt(answers, k)
        /\ i \in Ids(store'.rows) \ Ids(store.rows)
        /\ store.fresh /\ store.latest = None /\ Ids(store.rows) # {}
        /\ ~doubt /\ UnderWay({"seed"}) = {}
        => i - 1 \in Ids(store.rows)
LiveJoins == [][LiveMessageJoins]_vars

\* The same, of the channel the user looks at.
LiveJoinsShown == [][store.active => LiveMessageJoins]_vars

\* A row that says it is being sent belongs to a request under way: answer,
\* refusal, lost connection and echo all find their row (reconcile_temp,
\* reject_send, temp_match_position).
NoGhosts ==
    \A r \in Temps(store.rows) :
        r.failed \/ \E a \in UnderWay({"send"}) : a.at = r.anchor

\* Whoever waits for a fetch has one under way: the spinner of a channel that
\* loads, the guard against a second page, the message to jump to
\* (apply_initial_fetch_result, finish_loading_more, try_consume_pending_jump).
NothingHangs ==
    store.active =>
      /\ store.loading =>
           \E a \in UnderWay({"page"}) : a.gen = store.latest
      /\ store.loadingMore => UnderWay(Fetches) # {}
      /\ store.jump # None => store.loading \/ store.loadingMore
=============================================================================

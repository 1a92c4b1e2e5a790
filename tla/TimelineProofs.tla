--------------------------- MODULE TimelineProofs ---------------------------
(***************************************************************************)
(* Machine-checked theorems about Timeline, for any log, page size and     *)
(* cap.  Without any of its assumptions about the world, nobody waits for  *)
(* a fetch that is not under way, and no row says that it is being sent    *)
(* when nothing is (IInv).  When the server serves and answers in the      *)
(* order it is asked, no message is shown twice and the window stays       *)
(* within its cap (OInv).                                                  *)
(***************************************************************************)
EXTENDS Timeline, SequenceTheorems, WellFoundedInduction,
        FiniteSetTheorems, TLAPS

\* What a request or an answer names: fetches and events name a message, a
\* send its number.
Named(a) ==
    /\ a.kind \in Fetches \cup {"event"} => a.at \in Messages
    /\ a.kind = "send" => a.at \in Sends

\* The answer to a send, and the tail the badges name, are one message.
Single(a) ==
    a.ok /\ a.kind \in {"send", "seed"} => \E i \in Messages : a.page = {i}

\* A store with the requests it makes.
Sound(s) ==
    /\ s \in Stores
    /\ \A a \in Range(s.asks) : Named(a)
    /\ ~s.cached => s.rows = {}

\* What the store s may wait for when the answers in U are on their way.
Due(s, U) == Range(s.asks) \cup U

LoadDue(s, U) ==
    s.active /\ s.loading =>
        /\ s.latest = s.gen /\ s.gen # 0
        /\ \E a \in Due(s, U) : a.kind = "page" /\ a.gen = s.latest
MoreDue(s, U) ==
    s.active /\ s.loadingMore => \E a \in Due(s, U) : a.kind \in Fetches
JumpDue(s) ==
    s.active /\ s.jump # None => s.loading \/ s.loadingMore
SendsDue(s, U) ==
    \A r \in Temps(s.rows) :
        r.failed \/ \E a \in Due(s, U) : a.kind = "send" /\ a.at = r.anchor

\* The inductive invariant, of a store and the answers it may expect.
Steady(s, U) ==
    /\ Sound(s)
    /\ LoadDue(s, U) /\ MoreDue(s, U) /\ JumpDue(s)
    /\ SendsDue(s, U)

AnswersTold == \A a \in Range(answers) : Named(a) /\ Single(a)

IInv == Typed /\ AnswersTold /\ Steady(store, Range(answers))

-----------------------------------------------------------------------------
(* Sequences, and the ends of a window.                                    *)

LEMMA SetOfSeq ==
  ASSUME NEW S, NEW q \in Seq(S)
  PROVE  /\ Range(q) = {q[k] : k \in 1 .. Len(q)}
         /\ Range(q) \subseteq S
BY LenProperties, ElementOfSeq DEF Range

LEMMA SetOfAppend ==
  ASSUME NEW S, NEW q \in Seq(S), NEW e \in S
  PROVE  /\ Append(q, e) \in Seq(S)
         /\ Range(Append(q, e)) = Range(q) \cup {e}
<1>1. PICK n \in Nat : n = Len(q)
  BY LenProperties
<1>2. /\ Append(q, e) \in Seq(S)
      /\ Len(Append(q, e)) = n + 1
      /\ \A i \in 1 .. n : Append(q, e)[i] = q[i]
      /\ Append(q, e)[n + 1] = e
  BY <1>1, AppendProperties
<1>3. \A i \in 1 .. n + 1 : i \in 1 .. n \/ i = n + 1
  BY <1>1
<1>4. 1 .. n \subseteq 1 .. n + 1 /\ n + 1 \in 1 .. n + 1
  BY <1>1
<1>5. Range(Append(q, e)) = {Append(q, e)[k] : k \in 1 .. n + 1}
  BY <1>2, SetOfSeq
<1>6. Range(q) = {q[k] : k \in 1 .. n}
  BY <1>1, SetOfSeq
<1> QED
  BY <1>2, <1>3, <1>4, <1>5, <1>6

LEMMA SetOfConcat ==
  ASSUME NEW S, NEW q \in Seq(S), NEW p \in Seq(S)
  PROVE  /\ q \o p \in Seq(S)
         /\ Range(q \o p) = Range(q) \cup Range(p)
<1>1. PICK n \in Nat, m \in Nat : n = Len(q) /\ m = Len(p)
  BY LenProperties
<1>2. /\ q \o p \in Seq(S)
      /\ Len(q \o p) = n + m
      /\ \A i \in 1 .. n + m :
            (q \o p)[i] = IF i <= n THEN q[i] ELSE p[i - n]
  BY <1>1, ConcatProperties
<1>3. /\ Range(q \o p) = {(q \o p)[k] : k \in 1 .. n + m}
      /\ Range(q) = {q[k] : k \in 1 .. n}
      /\ Range(p) = {p[k] : k \in 1 .. m}
  BY <1>1, <1>2, SetOfSeq
<1>4. \A k \in 1 .. n : k \in 1 .. n + m /\ (q \o p)[k] = q[k]
  BY <1>2
<1>5. \A k \in 1 .. m : n + k \in 1 .. n + m /\ (q \o p)[n + k] = p[k]
  <2> SUFFICES ASSUME NEW k \in 1 .. m
               PROVE  n + k \in 1 .. n + m /\ (q \o p)[n + k] = p[k]
    OBVIOUS
  <2>1. n + k \in 1 .. n + m /\ ~(n + k <= n) /\ (n + k) - n = k
    OBVIOUS
  <2> QED
    BY <2>1, <1>2
<1>6. \A i \in 1 .. n + m : i \in 1 .. n \/ \E k \in 1 .. m : i = n + k
  <2> SUFFICES ASSUME NEW i \in 1 .. n + m, i \notin 1 .. n
               PROVE  \E k \in 1 .. m : i = n + k
    OBVIOUS
  <2>1. i - n \in 1 .. m /\ i = n + (i - n)
    OBVIOUS
  <2> QED
    BY <2>1
<1>7. Range(q) \subseteq Range(q \o p)
  BY <1>3, <1>4
<1>8. Range(p) \subseteq Range(q \o p)
  BY <1>3, <1>5
<1>9. Range(q \o p) \subseteq Range(q) \cup Range(p)
  <2> SUFFICES ASSUME NEW i \in 1 .. n + m
               PROVE  (q \o p)[i] \in Range(q) \cup Range(p)
    BY <1>3
  <2>1. CASE i \in 1 .. n
    BY <2>1, <1>3, <1>4
  <2>2. CASE \E k \in 1 .. m : i = n + k
    BY <2>2, <1>3, <1>5
  <2> QED
    BY <2>1, <2>2, <1>6
<1> QED
  BY <1>2, <1>7, <1>8, <1>9

LEMMA SetOfRemoveAt ==
  ASSUME NEW S, NEW q \in Seq(S), NEW k \in DOMAIN q
  PROVE  /\ q[k] \in Range(q) /\ q[k] \in S
         /\ RemoveAt(q, k) \in Seq(S)
         /\ Range(RemoveAt(q, k)) \subseteq Range(q)
         /\ Range(q) \subseteq Range(RemoveAt(q, k)) \cup {q[k]}
<1>1. PICK n \in Nat : n = Len(q) /\ DOMAIN q = 1 .. n
  BY LenProperties
<1>2. k \in 1 .. n /\ k \in Int /\ \A i \in 1 .. n : q[i] \in S
  BY <1>1, ElementOfSeq
<1> DEFINE F == SubSeq(q, 1, k - 1)
           B == SubSeq(q, k + 1, n)
<1>3. /\ F \in Seq(S)
      /\ Len(F) = k - 1
      /\ \A i \in 1 .. k - 1 : F[i] = q[i]
  <2>1. \A i \in 1 .. (k - 1) : q[i] \in S
    BY <1>2
  <2>2. /\ F \in Seq(S)
        /\ Len(F) = IF 1 <= k - 1 THEN (k - 1) - 1 + 1 ELSE 0
        /\ \A i \in 1 .. (k - 1) - 1 + 1 : F[i] = q[1 + i - 1]
    BY <2>1, <1>2, SubSeqProperties
  <2>3. \A i \in 1 .. k - 1 : i \in 1 .. (k - 1) - 1 + 1 /\ 1 + i - 1 = i
    BY <1>2
  <2>4. Len(F) = k - 1
    BY <2>2, <1>2
  <2> QED
    BY <2>2, <2>3, <2>4
<1>4. /\ B \in Seq(S)
      /\ Len(B) = n - k
      /\ \A i \in 1 .. n - k : B[i] = q[k + i]
  <2>1. \A i \in (k + 1) .. n : q[i] \in S
    BY <1>2
  <2>2. /\ B \in Seq(S)
        /\ Len(B) = IF k + 1 <= n THEN n - (k + 1) + 1 ELSE 0
        /\ \A i \in 1 .. n - (k + 1) + 1 : B[i] = q[(k + 1) + i - 1]
    BY <2>1, <1>1, <1>2, SubSeqProperties
  <2>3. \A i \in 1 .. n - k :
          i \in 1 .. n - (k + 1) + 1 /\ (k + 1) + i - 1 = k + i
    BY <1>2
  <2>4. Len(B) = n - k
    BY <2>2, <1>2
  <2> QED
    BY <2>2, <2>3, <2>4
<1>5. RemoveAt(q, k) = F \o B
  BY <1>1 DEF RemoveAt
<1> HIDE DEF F, B
<1>6. /\ Range(RemoveAt(q, k)) = Range(F) \cup Range(B)
      /\ RemoveAt(q, k) \in Seq(S)
  BY <1>3, <1>4, <1>5, SetOfConcat
<1>7. /\ Range(F) = {F[i] : i \in 1 .. k - 1}
      /\ Range(B) = {B[i] : i \in 1 .. n - k}
      /\ Range(q) = {q[i] : i \in 1 .. n}
  BY <1>1, <1>3, <1>4, SetOfSeq
<1>8. \A i \in 1 .. n :
        i \in 1 .. k - 1 \/ i = k \/ \E j \in 1 .. n - k : i = k + j
  <2> SUFFICES ASSUME NEW i \in 1 .. n, i \notin 1 .. k - 1, i # k
               PROVE  \E j \in 1 .. n - k : i = k + j
    OBVIOUS
  <2>1. i - k \in 1 .. n - k /\ i = k + (i - k)
    BY <1>2
  <2> QED
    BY <2>1
<1>9. /\ \A i \in 1 .. k - 1 : i \in 1 .. n
      /\ \A j \in 1 .. n - k : k + j \in 1 .. n
  BY <1>2
<1>10. Range(F) \subseteq Range(q) /\ Range(B) \subseteq Range(q)
  BY <1>3, <1>4, <1>7, <1>9
<1>11. Range(q) \subseteq Range(F) \cup Range(B) \cup {q[k]}
  <2> SUFFICES ASSUME NEW i \in 1 .. n
               PROVE  q[i] \in Range(F) \cup Range(B) \cup {q[k]}
    BY <1>7
  <2>1. CASE i \in 1 .. k - 1
    BY <2>1, <1>3, <1>7
  <2>2. CASE \E j \in 1 .. n - k : i = k + j
    BY <2>2, <1>4, <1>7
  <2> QED
    BY <2>1, <2>2, <1>8
<1> QED
  BY <1>2, <1>6, <1>7, <1>10, <1>11

LEMMA LeastOf ==
  ASSUME NEW T \in SUBSET Nat, T # {}
  PROVE  \E x \in T : \A y \in T : x <= y
<1>1. PICK x \in T : \A y \in T : ~ (<<y, x>> \in OpToRel(<, Nat))
  BY WFMin, NatLessThanWellFounded
<1>2. \A y \in T : ~ (y < x)
  BY <1>1 DEF OpToRel
<1> QED
  BY <1>2

LEMMA GreatestOf ==
  ASSUME NEW b \in Nat, NEW T \in SUBSET (0 .. b), T # {}
  PROVE  \E x \in T : \A y \in T : x >= y
<1> DEFINE D == {b - y : y \in T}
<1>1. D \in SUBSET Nat /\ D # {}
  <2>1. \A y \in T : y \in 0 .. b
    OBVIOUS
  <2>2. \A y \in T : b - y \in Nat
    BY <2>1
  <2> QED
    BY <2>2
<1>2. PICK z \in D : \A y \in D : z <= y
  BY <1>1, LeastOf
<1>3. PICK x \in T : z = b - x
  OBVIOUS
<1>4. \A y \in T : b - x <= b - y
  BY <1>2, <1>3
<1>5. \A y \in T : x >= y
  BY <1>4
<1> QED
  BY <1>5

LEMMA MaxOf ==
  ASSUME NEW T \in SUBSET Messages, T # {}
  PROVE  Max(T) \in T
<1>1. MaxLog \in Nat /\ T \in SUBSET (0 .. MaxLog)
  BY TimelineAssumption DEF Messages
<1>2. \E x \in T : \A y \in T : x >= y
  BY <1>1, GreatestOf
<1> QED
  BY <1>2 DEF Max

LEMMA MaxOfOne ==
  ASSUME NEW i \in Messages
  PROVE  Max({i}) = i
BY MaxOf

LEMMA Product ==
  ASSUME NEW a \in Nat, NEW b \in Nat, NEW c \in Nat, a <= b
  PROVE  a * c \in Nat /\ a * c <= b * c
OBVIOUS

LEMMA KeyBounded ==
  \E b \in Nat : \A r \in Rows : SortKey(r) \in 0 .. b
<1> DEFINE c == MaxSends + 1
           b == MaxLog * c + MaxSends
<1>1. MaxLog \in Nat /\ MaxSends \in Nat /\ c \in Nat
  BY TimelineAssumption
<1>2. MaxLog * c \in Nat
  BY <1>1, Product
<1>3. b \in Nat
  BY <1>1, <1>2
<1>4. ASSUME NEW r \in Rows PROVE SortKey(r) \in 0 .. b
  <2>1. r.at \in Nat /\ r.at <= MaxLog /\ r.anchor \in 0 .. MaxSends
    BY <1>1 DEF Rows, Messages, Sends, None
  <2>2. r.at * c \in Nat /\ r.at * c <= MaxLog * c
    BY <2>1, <1>1, Product
  <2>3. SortKey(r) = r.at * c + IF r.id = None THEN r.anchor ELSE 0
    BY DEF SortKey
  <2> HIDE DEF c
  <2>4. CASE r.id = None
    BY <2>1, <2>2, <2>3, <2>4, <1>1, <1>2
  <2>5. CASE r.id # None
    BY <2>1, <2>2, <2>3, <2>5, <1>1, <1>2
  <2> QED
    BY <2>4, <2>5
<1> QED
  BY <1>3, <1>4

\* A window that is not empty has a first and a last row.
LEMMA Ends ==
  ASSUME NEW rows \in SUBSET Rows, rows # {}
  PROVE  /\ FirstRow(rows) \in rows
         /\ LastRow(rows) \in rows
         /\ \A q \in rows : SortKey(LastRow(rows)) >= SortKey(q)
<1>1. PICK b \in Nat : \A r \in Rows : SortKey(r) \in 0 .. b
  BY KeyBounded
<1> DEFINE K == {SortKey(r) : r \in rows}
<1>2. K \in SUBSET (0 .. b) /\ K \in SUBSET Nat /\ K # {}
  BY <1>1
<1>3. /\ \E x \in K : \A y \in K : x <= y
      /\ \E x \in K : \A y \in K : x >= y
  BY <1>2, LeastOf, GreatestOf
<1>4. /\ \E r \in rows : \A q \in rows : SortKey(r) <= SortKey(q)
      /\ \E r \in rows : \A q \in rows : SortKey(r) >= SortKey(q)
  BY <1>3
<1> QED
  BY <1>4 DEF FirstRow, LastRow

LEMMA Kept ==
  ASSUME NEW rows \in SUBSET Rows
  PROVE  /\ KeepNewest(rows) \subseteq rows
         /\ KeepOldest(rows) \subseteq rows
         /\ rows # {} => KeepNewest(rows) # {}
<1>1. ASSUME rows # {} PROVE KeepNewest(rows) # {}
  <2> DEFINE r == LastRow(rows)
             T == {q \in rows : SortKey(q) > SortKey(r)}
  <2>1. r \in rows /\ \A q \in rows : SortKey(r) >= SortKey(q)
    BY <1>1, Ends
  <2>2. \A q \in rows : SortKey(q) \in Nat
    BY KeyBounded
  <2>3. T = {}
    BY <2>1, <2>2
  <2>4. Cardinality(T) = 0
    BY <2>3, FS_EmptySet
  <2>5. 0 < Cap
    BY TimelineAssumption
  <2>6. r \in KeepNewest(rows)
    BY <2>1, <2>4, <2>5 DEF KeepNewest
  <2> QED
    BY <2>6
<1> QED
  BY <1>1 DEF KeepNewest, KeepOldest

-----------------------------------------------------------------------------
(* What the store does by itself.                                          *)

\* Stores that show and await the same.
Alike(s, t) ==
    /\ t.active = s.active /\ t.rows = s.rows /\ t.jump = s.jump
    /\ t.loading = s.loading /\ t.loadingMore = s.loadingMore
    /\ t.gen = s.gen /\ t.latest = s.latest

LEMMA AlikeDue ==
  ASSUME NEW s, NEW t, NEW U, NEW V, Alike(s, t), Due(s, U) \subseteq Due(t, V)
  PROVE  /\ LoadDue(s, U) => LoadDue(t, V)
         /\ MoreDue(s, U) => MoreDue(t, V)
         /\ JumpDue(s) => JumpDue(t)
         /\ SendsDue(s, U) => SendsDue(t, V)
<1>1. LoadDue(s, U) => LoadDue(t, V)
  BY DEF Alike, LoadDue
<1>2. MoreDue(s, U) => MoreDue(t, V)
  BY DEF Alike, MoreDue
<1>3. JumpDue(s) => JumpDue(t)
  BY DEF Alike, JumpDue
<1>4. SendsDue(s, U) => SendsDue(t, V)
  BY DEF Alike, SendsDue
<1> QED
  BY <1>1, <1>2, <1>3, <1>4

\* A request joins those the store waits for.
LEMMA Asked ==
  ASSUME NEW s, Sound(s), NEW kind \in Kinds, NEW at \in Nat, NEW U,
         kind \in Fetches => at \in Messages, kind = "send" => at \in Sends
  PROVE  /\ Sound(Ask(s, kind, at))
         /\ Alike(s, Ask(s, kind, at))
         /\ Ask(s, kind, at).cached = s.cached
         /\ Ask(s, kind, at).fresh = s.fresh
         /\ Due(s, U) \subseteq Due(Ask(s, kind, at), U)
         /\ \E a \in Due(Ask(s, kind, at), U) :
               a.kind = kind /\ a.at = at /\ a.gen = s.gen
<1> DEFINE a == [kind |-> kind, at |-> at, gen |-> s.gen, tail |-> s.last]
           t == Ask(s, kind, at)
<1>1. a \in Asks /\ s.asks \in Seq(Asks)
  BY DEF Asks, Sound, Stores
<1>2. Append(s.asks, a) \in Seq(Asks)
      /\ Range(Append(s.asks, a)) = Range(s.asks) \cup {a}
  BY <1>1, SetOfAppend
<1>3. t = [s EXCEPT !.asks = Append(s.asks, a)]
  BY DEF Ask
<1>4. Named(a)
  BY DEF Named, Kinds, Fetches, Joins
<1> HIDE DEF a
<1>5. t.asks = Append(s.asks, a)
  BY <1>3 DEF Sound, Stores
<1>6. t \in Stores
  BY <1>2, <1>3 DEF Sound, Stores
<1>7. /\ Alike(s, t)
      /\ t.cached = s.cached /\ t.fresh = s.fresh
  BY <1>3 DEF Sound, Stores, Alike
<1>8. Sound(t)
  BY <1>2, <1>4, <1>5, <1>6, <1>7 DEF Sound, Alike
<1>9. Due(t, U) = Due(s, U) \cup {a}
  BY <1>2, <1>5 DEF Due
<1>10. a.kind = kind /\ a.at = at /\ a.gen = s.gen
  BY DEF a
<1> QED
  BY <1>7, <1>8, <1>9, <1>10

LEMMA AskedFetch ==
  ASSUME NEW s, Sound(s), NEW kind \in Fetches, NEW at \in Messages, NEW U
  PROVE  /\ Sound(Ask(s, kind, at))
         /\ Alike(s, Ask(s, kind, at))
         /\ Due(s, U) \subseteq Due(Ask(s, kind, at), U)
         /\ \E a \in Due(Ask(s, kind, at), U) : a.kind = kind
<1>1. kind \in Kinds /\ kind # "send" /\ at \in Nat
  BY DEF Kinds, Fetches, Messages
<1> QED
  BY <1>1, Asked

LEMMA AskedPlain ==
  ASSUME NEW s, Sound(s), NEW kind \in {"page", "seed", "join", "clan"}, NEW U
  PROVE  /\ Sound(Ask(s, kind, None))
         /\ Alike(s, Ask(s, kind, None))
         /\ Due(s, U) \subseteq Due(Ask(s, kind, None), U)
         /\ \E a \in Due(Ask(s, kind, None), U) : a.kind = kind /\ a.gen = s.gen
<1>1. kind \in Kinds /\ kind # "send" /\ kind \notin Fetches /\ None \in Nat
  BY DEF Kinds, Fetches, Joins, None
<1> QED
  BY <1>1, Asked

LEMMA RefetchSteady ==
  ASSUME NEW s, NEW U, Sound(s), SendsDue(s, U)
  PROVE  Steady(Refetch(s), U)
<1>1. CASE ~s.active
  <2>1. Refetch(s) = s
    BY <1>1 DEF Refetch
  <2> QED
    BY <1>1, <2>1 DEF Steady, LoadDue, MoreDue, JumpDue
<1>2. CASE s.active
  <2> DEFINE w == [s EXCEPT !.loading = TRUE, !.loadingMore = FALSE,
                            !.gen = @ + 1, !.latest = s.gen + 1]
             t == Ask(w, "page", None)
  <2>1. t = Refetch(s)
    BY <1>2 DEF Refetch
  <2>2. /\ w \in Stores /\ w.asks = s.asks
        /\ w.rows = s.rows /\ w.cached = s.cached
        /\ w.loading = TRUE /\ w.loadingMore = FALSE
        /\ w.gen = s.gen + 1 /\ w.latest = s.gen + 1
        /\ w.gen # 0
    <3>1. s \in Stores /\ s.gen + 1 \in Nat /\ s.gen + 1 # 0
      BY DEF Sound, Stores
    <3> QED
      BY <3>1 DEF Stores
  <2>3. Sound(w)
    BY <2>2 DEF Sound
  <2>4. SendsDue(w, U)
    BY <2>2 DEF SendsDue, Due
  <2> HIDE DEF w
  <2>5. /\ Sound(t) /\ Alike(w, t) /\ Due(w, U) \subseteq Due(t, U)
        /\ \E a \in Due(t, U) : a.kind = "page" /\ a.gen = w.gen
    BY <2>3, AskedPlain
  <2>6. SendsDue(t, U)
    BY <2>4, <2>5, AlikeDue
  <2>7. /\ t.loading = TRUE /\ t.loadingMore = FALSE
        /\ t.gen = w.gen /\ t.latest = w.gen /\ w.gen # 0
    BY <2>2, <2>5 DEF Alike
  <2>8. LoadDue(t, U) /\ MoreDue(t, U) /\ JumpDue(t)
    BY <2>5, <2>7 DEF LoadDue, MoreDue, JumpDue
  <2> QED
    BY <2>1, <2>5, <2>6, <2>8 DEF Steady
<1> QED
  BY <1>1, <1>2

LEMMA TryJumpSteady ==
  ASSUME NEW s, NEW U, Sound(s), LoadDue(s, U), MoreDue(s, U), SendsDue(s, U)
  PROVE  Steady(TryJump(s), U)
<1>1. CASE s.jump = None \/ ~s.active \/ s.loading \/ s.loadingMore
  <2>1. TryJump(s) = s
    BY <1>1 DEF TryJump
  <2> QED
    BY <1>1, <2>1 DEF Steady, JumpDue
<1>2. CASE ~(s.jump = None \/ ~s.active \/ s.loading \/ s.loadingMore)
  <2>1. CASE s.cached /\ s.jump \in Ids(s.rows)
    <3> DEFINE t == [s EXCEPT !.jump = None]
    <3>1. TryJump(s) = t
      BY <1>2, <2>1 DEF TryJump
    <3>2. /\ t \in Stores /\ t.asks = s.asks /\ t.jump = None
          /\ t.rows = s.rows /\ t.cached = s.cached /\ t.active = s.active
          /\ t.loading = s.loading /\ t.loadingMore = s.loadingMore
          /\ t.gen = s.gen /\ t.latest = s.latest
      BY DEF Sound, Stores
    <3> HIDE DEF t
    <3> QED
      BY <3>1, <3>2
      DEF Steady, Sound, LoadDue, MoreDue, JumpDue, SendsDue, Due
  <2>2. CASE ~(s.cached /\ s.jump \in Ids(s.rows))
    <3> DEFINE w == [s EXCEPT !.jump = None, !.loadingMore = TRUE]
               t == Ask(w, "around", s.jump)
    <3>1. TryJump(s) = t
      BY <1>2, <2>2 DEF TryJump
    <3>2. /\ w \in Stores /\ w.asks = s.asks /\ w.jump = None
          /\ w.rows = s.rows /\ w.cached = s.cached /\ w.active = s.active
          /\ w.loading = s.loading /\ w.gen = s.gen /\ w.latest = s.latest
      BY DEF Sound, Stores
    <3>3. s.jump \in Messages /\ s.jump \in Nat
      BY <1>2 DEF Sound, Stores, Messages
    <3> HIDE DEF w
    <3>4. Sound(w) /\ SendsDue(w, U) /\ LoadDue(w, U) /\ JumpDue(w)
      BY <3>2 DEF Sound, SendsDue, LoadDue, JumpDue, Due
    <3>5. /\ Sound(t) /\ Alike(w, t) /\ Due(w, U) \subseteq Due(t, U)
          /\ \E a \in Due(t, U) : a.kind = "around"
      BY <3>3, <3>4, AskedFetch DEF Fetches
    <3>6. MoreDue(t, U)
      BY <3>5 DEF MoreDue, Fetches
    <3> QED
      BY <3>1, <3>4, <3>5, <3>6, AlikeDue DEF Steady
  <2> QED
    BY <2>1, <2>2
<1> QED
  BY <1>1, <1>2

LEMMA FinishSteady ==
  ASSUME NEW s, NEW U, Sound(s), LoadDue(s, U), SendsDue(s, U)
  PROVE  Steady(FinishMore(s), U)
<1> DEFINE w == [s EXCEPT !.loadingMore = FALSE]
<1>1. /\ w \in Stores /\ w.asks = s.asks /\ ~w.loadingMore
      /\ w.rows = s.rows /\ w.cached = s.cached /\ w.active = s.active
      /\ w.loading = s.loading /\ w.gen = s.gen /\ w.latest = s.latest
  BY DEF Sound, Stores
<1>2. FinishMore(s) = TryJump(w)
  BY DEF FinishMore
<1> HIDE DEF w
<1>3. Sound(w) /\ SendsDue(w, U) /\ LoadDue(w, U) /\ MoreDue(w, U)
  BY <1>1 DEF Sound, SendsDue, LoadDue, MoreDue, Due
<1> QED
  BY <1>2, <1>3, TryJumpSteady

LEMMA LoadMoreSteady ==
  ASSUME NEW s, NEW U, Steady(s, U)
  PROVE  Steady(LoadMore(s), U)
<1>1. CASE CanLoad(s) /\ s.hasMore /\ FirstRow(s.rows).id # None
  <2> DEFINE w == [s EXCEPT !.loadingMore = TRUE]
             at == FirstRow(s.rows).id
             t == Ask(w, "older", at)
  <2>1. LoadMore(s) = t
    BY <1>1 DEF LoadMore
  <2>2. s.rows \in SUBSET Rows /\ s.rows # {}
    BY <1>1 DEF CanLoad, Steady, Sound, Stores
  <2>3. FirstRow(s.rows) \in Rows
    BY <2>2, Ends
  <2>4. at \in Messages /\ at \in Nat
    BY <1>1, <2>3 DEF Rows, Messages
  <2>5. /\ w \in Stores /\ w.asks = s.asks /\ w.loadingMore = TRUE
        /\ w.rows = s.rows /\ w.cached = s.cached /\ w.active = s.active
        /\ w.loading = s.loading /\ w.jump = s.jump
        /\ w.gen = s.gen /\ w.latest = s.latest
    BY DEF Steady, Sound, Stores
  <2> HIDE DEF w, at
  <2>6. Sound(w) /\ SendsDue(w, U) /\ LoadDue(w, U) /\ JumpDue(w)
    BY <2>5 DEF Steady, Sound, SendsDue, LoadDue, JumpDue, Due
  <2>7. /\ Sound(t) /\ Alike(w, t) /\ Due(w, U) \subseteq Due(t, U)
        /\ \E a \in Due(t, U) : a.kind = "older"
    BY <2>4, <2>6, AskedFetch DEF Fetches
  <2>8. MoreDue(t, U)
    BY <2>7 DEF MoreDue, Fetches
  <2> QED
    BY <2>1, <2>6, <2>7, <2>8, AlikeDue DEF Steady
<1>2. CASE ~(CanLoad(s) /\ s.hasMore /\ FirstRow(s.rows).id # None)
  BY <1>2 DEF LoadMore
<1> QED
  BY <1>1, <1>2

LEMMA LoadMoreBottomSteady ==
  ASSUME NEW s, NEW U, Steady(s, U)
  PROVE  Steady(LoadMoreBottom(s), U)
<1> DEFINE at == LastRow(s.rows).id
<1>1. CASE CanLoad(s) /\ Detached(s) /\ at \notin {None, s.last}
  <2> DEFINE w == [s EXCEPT !.loadingMore = TRUE]
             t == Ask(w, "newer", at)
  <2>1. LoadMoreBottom(s) = t
    BY <1>1 DEF LoadMoreBottom
  <2>2. s.rows \in SUBSET Rows /\ s.rows # {}
    BY <1>1 DEF CanLoad, Steady, Sound, Stores
  <2>3. LastRow(s.rows) \in Rows
    BY <2>2, Ends
  <2>4. at \in Messages /\ at \in Nat
    BY <1>1, <2>3 DEF Rows, Messages
  <2>5. /\ w \in Stores /\ w.asks = s.asks /\ w.loadingMore = TRUE
        /\ w.rows = s.rows /\ w.cached = s.cached /\ w.active = s.active
        /\ w.loading = s.loading /\ w.jump = s.jump
        /\ w.gen = s.gen /\ w.latest = s.latest
    BY DEF Steady, Sound, Stores
  <2> HIDE DEF w, at
  <2>6. Sound(w) /\ SendsDue(w, U) /\ LoadDue(w, U) /\ JumpDue(w)
    BY <2>5 DEF Steady, Sound, SendsDue, LoadDue, JumpDue, Due
  <2>7. /\ Sound(t) /\ Alike(w, t) /\ Due(w, U) \subseteq Due(t, U)
        /\ \E a \in Due(t, U) : a.kind = "newer"
    BY <2>4, <2>6, AskedFetch DEF Fetches
  <2>8. MoreDue(t, U)
    BY <2>7 DEF MoreDue, Fetches
  <2> QED
    BY <2>1, <2>6, <2>7, <2>8, AlikeDue DEF Steady
<1>2. CASE ~(CanLoad(s) /\ Detached(s) /\ at \notin {None, s.last})
  BY <1>2 DEF LoadMoreBottom
<1> QED
  BY <1>1, <1>2

LEMMA ToPresentSteady ==
  ASSUME NEW s, NEW U, Steady(s, U)
  PROVE  Steady(ToPresent(s), U)
<1>1. CASE ~s.active
  BY <1>1 DEF ToPresent
<1>2. CASE s.active
  <2> DEFINE w == [s EXCEPT !.older = FALSE]
  <2>1. /\ w \in Stores /\ w.asks = s.asks
        /\ w.rows = s.rows /\ w.cached = s.cached
    BY DEF Steady, Sound, Stores
  <2>2. ToPresent(s) = Refetch(w)
    BY <1>2 DEF ToPresent
  <2> HIDE DEF w
  <2>3. Sound(w) /\ SendsDue(w, U)
    BY <2>1 DEF Steady, Sound, SendsDue, Due
  <2> QED
    BY <2>2, <2>3, RefetchSteady
<1> QED
  BY <1>1, <1>2

\* Joining a channel is waited for by nobody.
LEMMA Joined ==
  ASSUME NEW s, NEW U, Sound(s)
  PROVE  /\ Sound(Join(s)) /\ Alike(s, Join(s))
         /\ Due(s, U) \subseteq Due(Join(s), U)
<1>1. CASE s.joined
  BY <1>1 DEF Join, Alike
<1>2. CASE ~s.joined
  <2> DEFINE w == [s EXCEPT !.joined = TRUE]
  <2>1. w \in Stores /\ w.asks = s.asks /\ w.cached = s.cached /\ Alike(s, w)
    BY DEF Sound, Stores, Alike
  <2>2. Join(s) = Ask(w, "join", None)
    BY <1>2 DEF Join
  <2> HIDE DEF w
  <2>3. Sound(w) /\ Due(s, U) = Due(w, U)
    BY <2>1 DEF Sound, Alike, Due
  <2>4. /\ Sound(Ask(w, "join", None)) /\ Alike(w, Ask(w, "join", None))
        /\ Due(w, U) \subseteq Due(Ask(w, "join", None), U)
    BY <2>3, AskedPlain
  <2> QED
    BY <2>1, <2>2, <2>3, <2>4 DEF Alike
<1> QED
  BY <1>1, <1>2

LEMMA ActivateSteady ==
  ASSUME NEW s, NEW U, Steady(s, U)
  PROVE  Steady(Activate(s), U)
<1> DEFINE o == [s EXCEPT !.active = TRUE, !.older = FALSE,
                          !.loadingMore = FALSE, !.gen = @ + 1]
           j == Join(o)
           f == [j EXCEPT !.loading = FALSE]
           l == [j EXCEPT !.loading = TRUE, !.latest = j.gen]
<1>1. /\ o \in Stores /\ o.asks = s.asks /\ o.loadingMore = FALSE
      /\ o.rows = s.rows /\ o.cached = s.cached /\ o.gen # 0
  <2>1. s \in Stores /\ s.gen + 1 \in Nat /\ s.gen + 1 # 0
    BY DEF Steady, Sound, Stores
  <2> QED
    BY <2>1 DEF Stores
<1>2. Activate(s) = IF s.cached /\ s.fresh THEN TryJump(f)
                    ELSE Ask(l, "page", None)
  BY DEF Activate
<1> HIDE DEF o
<1>3. Sound(o) /\ SendsDue(o, U)
  BY <1>1 DEF Steady, Sound, SendsDue, Due
<1>4. /\ Sound(j) /\ Alike(o, j) /\ Due(o, U) \subseteq Due(j, U)
  BY <1>3, Joined
<1>5. SendsDue(j, U) /\ j.loadingMore = FALSE /\ j.gen # 0
  BY <1>1, <1>3, <1>4, AlikeDue DEF Alike
<1> HIDE DEF j
<1>6. /\ f \in Stores /\ f.asks = j.asks /\ f.loadingMore = FALSE
      /\ f.rows = j.rows /\ f.cached = j.cached /\ f.loading = FALSE
  BY <1>4, <1>5 DEF Sound, Stores
<1>7. /\ l \in Stores /\ l.asks = j.asks /\ l.loadingMore = FALSE
      /\ l.rows = j.rows /\ l.cached = j.cached /\ l.loading = TRUE
      /\ l.latest = l.gen /\ l.gen # 0
  BY <1>4, <1>5 DEF Sound, Stores
<1> HIDE DEF f, l
<1>8. Sound(f) /\ LoadDue(f, U) /\ MoreDue(f, U) /\ SendsDue(f, U)
  BY <1>4, <1>5, <1>6 DEF Sound, LoadDue, MoreDue, SendsDue, Due
<1>9. Sound(l) /\ SendsDue(l, U)
  BY <1>4, <1>5, <1>7 DEF Sound, SendsDue, Due
<1> DEFINE t == Ask(l, "page", None)
<1>10. /\ Sound(t) /\ Alike(l, t) /\ Due(l, U) \subseteq Due(t, U)
       /\ \E a \in Due(t, U) : a.kind = "page" /\ a.gen = l.gen
  BY <1>9, AskedPlain
<1>11. /\ t.loading = TRUE /\ t.loadingMore = FALSE
       /\ t.gen = l.gen /\ t.latest = l.gen /\ l.gen # 0
  BY <1>7, <1>10 DEF Alike
<1>12. SendsDue(t, U)
  BY <1>9, <1>10, AlikeDue
<1>13. Steady(t, U)
  BY <1>10, <1>11, <1>12 DEF Steady, LoadDue, MoreDue, JumpDue
<1> QED
  BY <1>2, <1>8, <1>13, TryJumpSteady

LEMMA ReopenSteady ==
  ASSUME NEW s, NEW U, Steady(s, U)
  PROVE  Steady(Reopen(s), U)
BY TryJumpSteady, RefetchSteady DEF Reopen, Steady

\* A channel that is not open waits for nothing.
LEMMA ShutSteady ==
  ASSUME NEW s, NEW t, NEW U, Steady(s, U),
         t \in Stores, t.asks = s.asks, t.rows = s.rows, t.cached = s.cached,
         t.active = FALSE
  PROVE  Steady(t, U)
BY DEF Steady, Sound, LoadDue, MoreDue, JumpDue, SendsDue, Due

LEMMA DeactivateSteady ==
  ASSUME NEW s, NEW U, Steady(s, U)
  PROVE  Steady(Deactivate(s), U)
<1> DEFINE t == Deactivate(s)
<1>1. s \in Stores /\ s.gen + 1 \in Nat /\ Detached(s) \in BOOLEAN
  BY DEF Steady, Sound, Stores, Detached
<1>2. /\ t \in Stores /\ t.asks = s.asks /\ t.rows = s.rows
      /\ t.cached = s.cached /\ t.active = FALSE
  BY <1>1 DEF Deactivate, Stores, None
<1> QED
  BY <1>2, ShutSteady

LEMMA ResyncSteady ==
  ASSUME NEW s, NEW U, Steady(s, U)
  PROVE  Steady(Resync(s), U)
<1> DEFINE w == [s EXCEPT !.fresh = FALSE, !.joined = FALSE]
           c == IF Clan THEN Ask(w, "clan", None) ELSE w
           o == IF s.active THEN Refetch(Join(c)) ELSE c
<1>1. /\ w \in Stores /\ w.asks = s.asks /\ w.cached = s.cached
      /\ Alike(s, w)
  BY DEF Steady, Sound, Stores, Alike
<1>2. Resync(s) = IF Clan THEN Ask(o, "seed", None) ELSE o
  BY DEF Resync
<1> HIDE DEF w
<1>3. Sound(w) /\ Due(s, U) = Due(w, U)
  BY <1>1 DEF Steady, Sound, Alike, Due
<1>4. Steady(w, U)
  BY <1>1, <1>3, AlikeDue DEF Steady
<1>5. /\ Sound(Ask(w, "clan", None)) /\ Alike(w, Ask(w, "clan", None))
      /\ Due(w, U) \subseteq Due(Ask(w, "clan", None), U)
  BY <1>3, AskedPlain
<1>6. Steady(c, U)
  BY <1>4, <1>5, AlikeDue DEF Steady
<1> HIDE DEF c
<1>7. Sound(Join(c)) /\ SendsDue(Join(c), U)
  BY <1>6, Joined, AlikeDue DEF Steady
<1>8. Steady(o, U)
  BY <1>6, <1>7, RefetchSteady
<1> HIDE DEF o
<1>9. /\ Sound(Ask(o, "seed", None)) /\ Alike(o, Ask(o, "seed", None))
      /\ Due(o, U) \subseteq Due(Ask(o, "seed", None), U)
  BY <1>8, AskedPlain DEF Steady
<1>10. Steady(Ask(o, "seed", None), U)
  BY <1>8, <1>9, AlikeDue DEF Steady
<1> QED
  BY <1>2, <1>8, <1>10

\* A message that is sent has a request, whether or not it gets a row.
LEMMA SendSteady ==
  ASSUME NEW s, NEW U, NEW n \in Sends, Steady(s, U), Len(log) \in Messages
  PROVE  Steady(Send(s, n), U)
<1> DEFINE w == IF s.cached /\ ~Detached(s)
                THEN [s EXCEPT !.rows = KeepNewest(@ \cup {TempRow(n)})] ELSE s
           t == Ask(w, "send", n)
<1>1. TempRow(n) \in Rows /\ TempRow(n).anchor = n
  BY DEF TempRow, Rows, None
<1>2. s.rows \in SUBSET Rows
  BY DEF Steady, Sound, Stores
<1>3. KeepNewest(s.rows \cup {TempRow(n)}) \subseteq s.rows \cup {TempRow(n)}
  BY <1>1, <1>2, Kept
<1>4. /\ w \in Stores /\ w.asks = s.asks /\ w.cached = s.cached
      /\ w.active = s.active /\ w.jump = s.jump /\ w.gen = s.gen
      /\ w.loading = s.loading /\ w.loadingMore = s.loadingMore
      /\ w.latest = s.latest
      /\ w.rows \subseteq s.rows \cup {TempRow(n)}
      /\ ~w.cached => w.rows = {}
  BY <1>1, <1>2, <1>3 DEF Steady, Sound, Stores
<1>5. Send(s, n) = t
  BY DEF Send
<1> HIDE DEF w
<1>6. Sound(w) /\ LoadDue(w, U) /\ MoreDue(w, U) /\ JumpDue(w)
  BY <1>4 DEF Steady, Sound, LoadDue, MoreDue, JumpDue, Due
<1>7. n \in Nat /\ "send" \in Kinds /\ "send" \notin Fetches
  BY DEF Sends, Kinds, Fetches
<1>8. /\ Sound(t) /\ Alike(w, t) /\ Due(w, U) \subseteq Due(t, U)
      /\ \E a \in Due(t, U) : a.kind = "send" /\ a.at = n
  BY <1>6, <1>7, Asked
<1>9. LoadDue(t, U) /\ MoreDue(t, U) /\ JumpDue(t)
  BY <1>6, <1>8, AlikeDue
<1>10. Due(s, U) \subseteq Due(t, U) /\ t.rows \subseteq s.rows \cup {TempRow(n)}
  BY <1>4, <1>8 DEF Alike, Due
<1>11. SendsDue(t, U)
  BY <1>1, <1>8, <1>10 DEF Steady, SendsDue, Temps
<1> QED
  BY <1>5, <1>8, <1>9, <1>11 DEF Steady

-----------------------------------------------------------------------------
(* What answers and events do to the store.                                *)

\* What still stands when the answer a is no longer expected.
LEMMA Without ==
  ASSUME NEW s, NEW V, NEW a, Steady(s, V \cup {a})
  PROVE  /\ a.kind # "page" \/ a.gen # s.latest => LoadDue(s, V)
         /\ a.kind \notin Fetches => MoreDue(s, V)
         /\ a.kind # "send" => SendsDue(s, V)
<1>1. a.kind # "page" \/ a.gen # s.latest => LoadDue(s, V)
  BY DEF Steady, LoadDue, Due
<1>2. a.kind \notin Fetches => MoreDue(s, V)
  BY DEF Steady, MoreDue, Due
<1>3. a.kind # "send" => SendsDue(s, V)
  BY DEF Steady, SendsDue, Due
<1> QED
  BY <1>1, <1>2, <1>3

\* The store t awaits what s does and has no new row that is being sent.
Rewindowed(s, t) ==
    /\ t \in Stores /\ t.asks = s.asks
    /\ t.active = s.active /\ t.jump = s.jump
    /\ t.loading = s.loading /\ t.loadingMore = s.loadingMore
    /\ t.gen = s.gen /\ t.latest = s.latest
    /\ ~t.cached => t.rows = {}
    /\ \A r \in t.rows : r \in s.rows \/ r.id # None \/ r.failed

LEMMA RewindowedDue ==
  ASSUME NEW s, NEW t, NEW U, Rewindowed(s, t), Sound(s)
  PROVE  /\ Sound(t)
         /\ LoadDue(s, U) => LoadDue(t, U)
         /\ MoreDue(s, U) => MoreDue(t, U)
         /\ JumpDue(s) => JumpDue(t)
         /\ SendsDue(s, U) => SendsDue(t, U)
<1>1. Sound(t)
  BY DEF Rewindowed, Sound
<1>2. LoadDue(s, U) => LoadDue(t, U)
  BY DEF Rewindowed, LoadDue, Due
<1>3. MoreDue(s, U) => MoreDue(t, U)
  BY DEF Rewindowed, MoreDue, Due
<1>4. JumpDue(s) => JumpDue(t)
  BY DEF Rewindowed, JumpDue
<1>5. SendsDue(s, U) => SendsDue(t, U)
  BY DEF Rewindowed, SendsDue, Due, Temps
<1> QED
  BY <1>1, <1>2, <1>3, <1>4, <1>5

LEMMA NewRows ==
  ASSUME NEW page \in SUBSET Messages
  PROVE  \A r \in {Row(i) : i \in page} : r \in Rows /\ r.id # None
<1> SUFFICES ASSUME NEW i \in Messages
             PROVE  Row(i) \in Rows /\ Row(i).id # None
  OBVIOUS
<1>1. i # None /\ None \in Sends \cup {None}
  BY DEF Messages, None
<1> QED
  BY <1>1 DEF Row, Rows

LEMMA SetChannelRows ==
  ASSUME NEW s, Sound(s), NEW page \in SUBSET Messages
  PROVE  Rewindowed(s, SetChannel(s, page))
<1> DEFINE new == {Row(i) : i \in page}
           rows == KeepNewest(new)
           t == SetChannel(s, page)
<1>1. new \in SUBSET Rows /\ \A r \in new : r.id # None
  BY NewRows
<1>2. rows \subseteq new
  BY <1>1, Kept
<1>3. page # {} => Max(page) \in Messages
  BY MaxOf
<1>4. MoreAbove(rows) \in BOOLEAN
  BY DEF MoreAbove
<1>5. t = [s EXCEPT !.cached = TRUE, !.fresh = TRUE, !.rows = rows,
                    !.hasMore = MoreAbove(rows),
                    !.last = IF @ = None /\ page # {} THEN Max(page) ELSE @]
  BY DEF SetChannel
<1> HIDE DEF rows, new
<1>6. rows \in SUBSET Rows
  BY <1>1, <1>2
<1>7. /\ t \in Stores /\ t.rows = rows /\ t.cached = TRUE
      /\ t.asks = s.asks /\ t.active = s.active /\ t.jump = s.jump
      /\ t.loading = s.loading /\ t.loadingMore = s.loadingMore
      /\ t.gen = s.gen /\ t.latest = s.latest
  BY <1>3, <1>4, <1>5, <1>6 DEF Sound, Stores
<1> QED
  BY <1>1, <1>2, <1>7 DEF Rewindowed

LEMMA PageSteady ==
  ASSUME NEW s, NEW V, NEW a \in Answers, a.kind = "page",
         Steady(s, V \cup {a})
  PROVE  Steady(PageArrives(s, a), V)
<1> DEFINE settled == IF Superseded(s, a) THEN s
                      ELSE [s EXCEPT !.latest = None, !.loading = @ /\ ~s.active]
           shown == IF a.ok THEN SetChannel(settled, a.page) ELSE settled
           current == ~Superseded(s, a) /\ s.active /\ s.gen = a.gen
<1>1. PageArrives(s, a) = IF Ignored(s, a) THEN s
                          ELSE IF current THEN TryJump(shown) ELSE shown
  BY DEF PageArrives
<1>2. a.page \in SUBSET Messages /\ a.ok \in BOOLEAN
  BY DEF Answers
<1>3. MoreDue(s, V) /\ SendsDue(s, V)
  BY Without DEF Fetches
<1>4. CASE Superseded(s, a)
  <2>1. LoadDue(s, V)
    BY <1>4, Without DEF Superseded
  <2>2. Steady(s, V)
    BY <1>3, <2>1 DEF Steady
  <2>3. a.ok => Steady(SetChannel(s, a.page), V)
    BY <1>2, <2>2, SetChannelRows, RewindowedDue DEF Steady
  <2> QED
    BY <1>1, <1>2, <1>4, <2>2, <2>3
<1>5. CASE ~Superseded(s, a)
  <2> DEFINE w == [s EXCEPT !.latest = None, !.loading = @ /\ ~s.active]
  <2>1. /\ w \in Stores /\ w.asks = s.asks /\ w.rows = s.rows
        /\ w.cached = s.cached /\ w.active = s.active /\ w.jump = s.jump
        /\ w.loadingMore = s.loadingMore /\ w.gen = s.gen
        /\ w.loading = (s.loading /\ ~s.active)
    BY DEF Steady, Sound, Stores, None
  <2>2. settled = w
    BY <1>5
  <2> HIDE DEF w
  <2>3. Sound(w) /\ MoreDue(w, V) /\ SendsDue(w, V)
    BY <1>3, <2>1 DEF Steady, Sound, MoreDue, SendsDue, Due
  <2>4. LoadDue(w, V)
    BY <2>1 DEF LoadDue
  <2>5. s.active /\ ~current => JumpDue(w)
    <3> SUFFICES ASSUME s.active, s.gen # a.gen PROVE JumpDue(w)
      BY <1>5
    <3>1. ~s.loading
      BY <1>5 DEF Steady, LoadDue, Superseded, None
    <3> QED
      BY <2>1, <3>1 DEF Steady, JumpDue
  <2>6. ~s.active => JumpDue(w)
    BY <2>1 DEF JumpDue
  <2>7. a.ok => Rewindowed(w, SetChannel(w, a.page))
    BY <1>2, <2>3, SetChannelRows
  <2>8. /\ Sound(shown) /\ MoreDue(shown, V) /\ SendsDue(shown, V)
        /\ LoadDue(shown, V) /\ (JumpDue(w) => JumpDue(shown))
    <3>1. CASE a.ok
      BY <2>2, <2>3, <2>4, <2>7, <3>1, RewindowedDue
    <3>2. CASE ~a.ok
      BY <2>2, <2>3, <2>4, <3>2
    <3> QED
      BY <3>1, <3>2
  <2>9. ~Ignored(s, a)
    BY <1>5 DEF Ignored
  <2> HIDE DEF shown
  <2>10. CASE current
    BY <1>1, <2>8, <2>9, <2>10, TryJumpSteady
  <2>11. CASE ~current
    <3>1. JumpDue(shown)
      BY <2>5, <2>6, <2>8, <2>11
    <3> QED
      BY <1>1, <2>8, <2>9, <2>11, <3>1 DEF Steady
  <2> QED
    BY <2>10, <2>11
<1> QED
  BY <1>4, <1>5

LEMMA OlderSteady ==
  ASSUME NEW s, NEW V, NEW a \in Answers, a.kind = "older",
         Steady(s, V \cup {a})
  PROVE  Steady(OlderArrives(s, a), V)
<1> DEFINE fresh == a.page \ Ids(s.rows)
           new == {Row(i) : i \in fresh}
           rows == KeepOldest(s.rows \cup new)
           t == IF ~a.ok \/ ~s.cached THEN s
                ELSE IF fresh = {} THEN [s EXCEPT !.hasMore = FALSE]
                ELSE [s EXCEPT !.rows = rows, !.hasMore = MoreAbove(rows)]
<1>1. OlderArrives(s, a) = FinishMore(t)
  BY DEF OlderArrives
<1>2. fresh \in SUBSET Messages /\ s.rows \in SUBSET Rows
  BY DEF Answers, Steady, Sound, Stores
<1>3. new \in SUBSET Rows /\ \A r \in new : r.id # None
  BY <1>2, NewRows
<1>4. rows \subseteq s.rows \cup new
  BY <1>2, <1>3, Kept
<1>5. MoreAbove(rows) \in BOOLEAN
  BY DEF MoreAbove
<1> HIDE DEF fresh, new, rows
<1>6. Rewindowed(s, t)
  BY <1>2, <1>3, <1>4, <1>5 DEF Rewindowed, Steady, Sound, Stores
<1> HIDE DEF t
<1>7. LoadDue(s, V) /\ SendsDue(s, V) /\ Sound(s)
  BY Without DEF Steady
<1> QED
  BY <1>1, <1>6, <1>7, RewindowedDue, FinishSteady

LEMMA NewerSteady ==
  ASSUME NEW s, NEW V, NEW a \in Answers, a.kind = "newer", Named(a),
         Steady(s, V \cup {a})
  PROVE  Steady(NewerArrives(s, a), V)
<1> DEFINE fresh == a.page \ Ids(s.rows)
           new == {Row(i) : i \in fresh}
           all == s.rows \cup new
           moved == s.last # a.tail
           end == IF moved THEN s ELSE [s EXCEPT !.last = a.at]
           ended == FinishMore(end)
           t == [s EXCEPT !.rows = KeepNewest(all),
                          !.hasMore = @ \/ Cardinality(all) > Cap]
<1>1. NewerArrives(s, a) =
        IF ~a.ok \/ ~s.cached THEN FinishMore(s)
        ELSE IF fresh # {} THEN FinishMore(t)
        ELSE IF moved /\ ended.jump = None THEN LoadMoreBottom(ended)
        ELSE ended
  BY DEF NewerArrives
<1>2. fresh \in SUBSET Messages /\ s.rows \in SUBSET Rows
  BY DEF Answers, Steady, Sound, Stores
<1>3. new \in SUBSET Rows /\ \A r \in new : r.id # None
  BY <1>2, NewRows
<1>4. KeepNewest(all) \subseteq s.rows \cup new
  BY <1>2, <1>3, Kept
<1>5. a.at \in Messages
  BY DEF Named, Fetches
<1> HIDE DEF fresh, new, all
<1>6. LoadDue(s, V) /\ SendsDue(s, V) /\ Sound(s)
  BY Without DEF Steady
<1>7. s.cached => Rewindowed(s, t)
  <2>1. (s.hasMore \/ Cardinality(all) > Cap) \in BOOLEAN
    OBVIOUS
  <2> QED
    BY <1>2, <1>3, <1>4, <2>1 DEF Rewindowed, Steady, Sound, Stores
<1>8. Rewindowed(s, end)
  BY <1>5 DEF Rewindowed, Steady, Sound, Stores
<1> HIDE DEF t, end, moved
<1>9. Steady(FinishMore(s), V)
  BY <1>6, FinishSteady
<1>10. s.cached => Steady(FinishMore(t), V)
  BY <1>6, <1>7, RewindowedDue, FinishSteady
<1>11. Steady(ended, V)
  BY <1>6, <1>8, RewindowedDue, FinishSteady
<1> HIDE DEF ended
<1>12. Steady(LoadMoreBottom(ended), V)
  BY <1>11, LoadMoreBottomSteady
<1>13. CASE ~a.ok \/ ~s.cached
  BY <1>1, <1>9, <1>13
<1>14. CASE ~(~a.ok \/ ~s.cached)
  BY <1>1, <1>10, <1>11, <1>12, <1>14
<1> QED
  BY <1>13, <1>14

LEMMA AroundSteady ==
  ASSUME NEW s, NEW V, NEW a \in Answers, a.kind = "around",
         Steady(s, V \cup {a})
  PROVE  Steady(AroundArrives(s, a), V)
<1> DEFINE rows == {Row(i) : i \in a.page}
           t == IF a.ok /\ s.cached /\ a.at \in a.page
                THEN [s EXCEPT !.rows = rows, !.hasMore = MoreAbove(rows)]
                ELSE s
<1>1. AroundArrives(s, a) = FinishMore(t)
  BY DEF AroundArrives
<1>2. a.page \in SUBSET Messages
  BY DEF Answers
<1>3. rows \in SUBSET Rows /\ \A r \in rows : r.id # None
  BY <1>2, NewRows
<1>4. MoreAbove(rows) \in BOOLEAN
  BY DEF MoreAbove
<1> HIDE DEF rows
<1>5. Rewindowed(s, t)
  BY <1>3, <1>4 DEF Rewindowed, Steady, Sound, Stores
<1> HIDE DEF t
<1>6. LoadDue(s, V) /\ SendsDue(s, V) /\ Sound(s)
  BY Without DEF Steady
<1> QED
  BY <1>1, <1>5, <1>6, RewindowedDue, FinishSteady

\* A live message with what it takes the place of, if anything.
LEMMA EventSteady ==
  ASSUME NEW s, NEW V, NEW a \in Answers, a.kind = "event", Named(a),
         Steady(s, V \cup {a})
  PROVE  Steady(EventArrives(s, a), V)
<1> DEFINE i == a.at
           echo == SameText(s, i)
           t == FirstRow(echo)
           new == IF echo = {} THEN s.rows \cup {Row(i)}
                  ELSE (s.rows \ {t}) \cup {[Row(i) EXCEPT !.anchor = t.anchor]}
           rows == KeepNewest(new)
           tail == LastRow(rows).id
           out == [s EXCEPT !.last = i]
           in == [s EXCEPT !.rows = rows,
                           !.last = IF tail = None THEN @ ELSE tail]
<1>1. EventArrives(s, a) =
        IF ~s.cached \/ s.older \/ Detached(s) THEN out
        ELSE IF i \in Ids(s.rows) THEN s ELSE in
  BY DEF EventArrives
<1>2. i \in Messages /\ i # None /\ s.rows \in SUBSET Rows
  BY DEF Named, Messages, None, Steady, Sound, Stores
<1>3. echo \subseteq s.rows
  BY DEF SameText, Temps
<1>4. Row(i) \in Rows /\ Row(i).id # None
  BY <1>2, NewRows
<1>5. echo # {} => t.anchor \in Sends \cup {None}
  <2>1. echo # {} => t \in Rows
    BY <1>2, <1>3, Ends
  <2> QED
    BY <2>1 DEF Rows
<1>6. /\ new \in SUBSET Rows /\ new # {}
      /\ \A r \in new : r \in s.rows \/ r.id # None
  <2> HIDE DEF t, echo
  <2>1. CASE echo = {}
    BY <1>2, <1>4, <2>1
  <2>2. CASE echo # {}
    <3> DEFINE e == [Row(i) EXCEPT !.anchor = t.anchor]
    <3>1. e \in Rows /\ e.id # None
      BY <1>4, <1>5, <2>2 DEF Rows
    <3>2. new = (s.rows \ {t}) \cup {e}
      BY <2>2
    <3> HIDE DEF e, new
    <3> QED
      BY <1>2, <3>1, <3>2
  <2> QED
    BY <2>1, <2>2
<1> HIDE DEF new
<1>7. rows \subseteq new /\ rows # {} /\ rows \in SUBSET Rows
  BY <1>6, Kept
<1>8. tail \in Messages \cup {None}
  <2>1. LastRow(rows) \in Rows
    BY <1>7, Ends
  <2> QED
    BY <2>1 DEF Rows
<1> HIDE DEF rows, tail
<1>9. Rewindowed(s, out)
  BY <1>2 DEF Rewindowed, Steady, Sound, Stores
<1>10. s.cached => Rewindowed(s, in)
  BY <1>6, <1>7, <1>8 DEF Rewindowed, Steady, Sound, Stores
<1> HIDE DEF i, out, in
<1>11. LoadDue(s, V) /\ SendsDue(s, V) /\ MoreDue(s, V)
  BY Without DEF Fetches
<1>12. Steady(s, V)
  BY <1>11 DEF Steady
<1>13. Steady(out, V) /\ (s.cached => Steady(in, V))
  BY <1>9, <1>10, <1>12, RewindowedDue DEF Steady
<1> QED
  BY <1>1, <1>12, <1>13

\* The rows of a send are those of no other.
LEMMA OthersDue ==
  ASSUME NEW s, NEW V, NEW a, a.kind = "send", Steady(s, V \cup {a})
  PROVE  \A r \in Temps(s.rows) \ Sending(s, a) :
           r.failed \/ \E x \in Due(s, V) : x.kind = "send" /\ x.at = r.anchor
BY DEF Steady, SendsDue, Due, Sending

LEMMA ReconcileSteady ==
  ASSUME NEW s, NEW V, NEW a \in Answers, a.kind = "send", a.ok,
         Named(a), Single(a), Steady(s, V \cup {a})
  PROVE  Steady(Reconcile(s, a), V)
<1> DEFINE rest == s.rows \ Sending(s, a)
           e == [Row(Max(a.page)) EXCEPT !.anchor = a.at]
           rows == IF rest # s.rows
                   THEN rest \cup {e}
                   ELSE IF Detached(s) \/ Max(a.page) \in Ids(rest) THEN rest
                   ELSE KeepNewest(rest \cup {Row(Max(a.page))})
           told == [s EXCEPT !.rows = IF s.cached THEN rows ELSE @,
                             !.last = Max(a.page)]
<1>1. Reconcile(s, a) =
        IF s.active /\ rest = s.rows /\ Detached(s) /\ Detached(told)
        THEN ToPresent(told) ELSE told
  BY DEF Reconcile
<1>2. PICK i \in Messages : Max(a.page) = i
  BY MaxOfOne DEF Single
<1>3. Row(i) \in Rows /\ Row(i).id # None /\ a.at \in Sends
  BY NewRows DEF Named
<1>4. e \in Rows /\ e.id # None
  BY <1>2, <1>3 DEF Rows
<1>5. rest \in SUBSET Rows /\ rest \subseteq s.rows
  BY DEF Steady, Sound, Stores
<1>6. \A r \in rest : r.id = None => r \in Temps(s.rows) \ Sending(s, a)
  BY DEF Temps
<1> HIDE DEF e, rest
<1>7. /\ rows \in SUBSET Rows
      /\ \A r \in rows : r \in rest \/ r.id # None
  <2>1. CASE rest # s.rows
    BY <2>1, <1>4, <1>5
  <2>2. CASE rest = s.rows /\ (Detached(s) \/ Max(a.page) \in Ids(rest))
    BY <2>2, <1>5
  <2>3. CASE rest = s.rows /\ ~(Detached(s) \/ Max(a.page) \in Ids(rest))
    <3>1. rest \cup {Row(i)} \in SUBSET Rows
      BY <1>3, <1>5
    <3>2. rows = KeepNewest(rest \cup {Row(i)})
      BY <2>3, <1>2
    <3> QED
      BY <3>1, <3>2, <1>3, Kept
  <2> QED
    BY <2>1, <2>2, <2>3
<1> HIDE DEF rows
<1>8. /\ told \in Stores /\ told.asks = s.asks /\ told.cached = s.cached
      /\ told.active = s.active /\ told.jump = s.jump
      /\ told.loading = s.loading /\ told.loadingMore = s.loadingMore
      /\ told.gen = s.gen /\ told.latest = s.latest
      /\ told.rows = IF s.cached THEN rows ELSE s.rows
  BY <1>2, <1>7 DEF Steady, Sound, Stores
<1> HIDE DEF told
<1>9. ~s.cached => told.rows = {}
  BY <1>8 DEF Steady, Sound
<1>10. Sound(told)
  BY <1>8, <1>9 DEF Steady, Sound
<1>11. LoadDue(s, V) /\ MoreDue(s, V) /\ JumpDue(s)
  BY Without DEF Fetches, Steady
<1>12. LoadDue(told, V) /\ MoreDue(told, V) /\ JumpDue(told)
  BY <1>8, <1>11 DEF LoadDue, MoreDue, JumpDue, Due
<1>13. \A r \in Temps(told.rows) : r \in Temps(s.rows) \ Sending(s, a)
  <2>1. \A r \in told.rows : r \in rows
    BY <1>8, <1>9
  <2> QED
    BY <2>1, <1>6, <1>7 DEF Temps
<1>14. SendsDue(told, V)
  <2>1. Due(told, V) = Due(s, V)
    BY <1>8 DEF Due
  <2>2. \A r \in Temps(s.rows) \ Sending(s, a) :
          r.failed \/ \E x \in Due(s, V) : x.kind = "send" /\ x.at = r.anchor
    BY OthersDue
  <2> QED
    BY <1>13, <2>1, <2>2 DEF SendsDue
<1>15. Steady(told, V)
  BY <1>10, <1>12, <1>14 DEF Steady
<1> QED
  BY <1>1, <1>15, ToPresentSteady

LEMMA RejectSteady ==
  ASSUME NEW s, NEW V, NEW a \in Answers, a.kind = "send",
         Steady(s, V \cup {a})
  PROVE  Steady(Reject(s, a), V)
<1> DEFINE rest == s.rows \ Sending(s, a)
           marked == {[r EXCEPT !.failed = TRUE] : r \in Sending(s, a)}
           rows == IF a.denied THEN rest ELSE rest \cup marked
           t == [s EXCEPT !.rows = rows]
<1>1. Reject(s, a) = t
  BY DEF Reject
<1>2. rest \in SUBSET Rows /\ rest \subseteq s.rows
      /\ Sending(s, a) \in SUBSET Rows /\ Sending(s, a) \subseteq s.rows
  BY DEF Steady, Sound, Stores, Sending, Temps
<1>3. \A r \in rest : r.id = None => r \in Temps(s.rows) \ Sending(s, a)
  BY DEF Temps
<1>4. marked \in SUBSET Rows /\ \A r \in marked : r.failed
  <2> SUFFICES ASSUME NEW r \in Sending(s, a)
               PROVE  /\ [r EXCEPT !.failed = TRUE] \in Rows
                      /\ [r EXCEPT !.failed = TRUE].failed
    OBVIOUS
  <2>1. r \in Rows
    BY <1>2
  <2> QED
    BY <2>1 DEF Rows
<1>5. s.rows = {} => marked = {} /\ rest = {}
  BY <1>2
<1> HIDE DEF marked, rest
<1>6. /\ rows \in SUBSET Rows
      /\ s.rows = {} => rows = {}
      /\ \A r \in rows : r \in rest \/ r.failed
  BY <1>2, <1>4, <1>5
<1> HIDE DEF rows
<1>7. /\ t \in Stores /\ t.asks = s.asks /\ t.cached = s.cached
      /\ t.active = s.active /\ t.jump = s.jump
      /\ t.loading = s.loading /\ t.loadingMore = s.loadingMore
      /\ t.gen = s.gen /\ t.latest = s.latest /\ t.rows = rows
  BY <1>6 DEF Steady, Sound, Stores
<1> HIDE DEF t
<1>8. Sound(t)
  BY <1>6, <1>7 DEF Steady, Sound
<1>9. LoadDue(s, V) /\ MoreDue(s, V) /\ JumpDue(s)
  BY Without DEF Fetches, Steady
<1>10. LoadDue(t, V) /\ MoreDue(t, V) /\ JumpDue(t)
  BY <1>7, <1>9 DEF LoadDue, MoreDue, JumpDue, Due
<1>11. \A r \in Temps(t.rows) :
         r.failed \/ r \in Temps(s.rows) \ Sending(s, a)
  BY <1>3, <1>6, <1>7 DEF Temps
<1>12. SendsDue(t, V)
  <2>1. Due(t, V) = Due(s, V)
    BY <1>7 DEF Due
  <2>2. \A r \in Temps(s.rows) \ Sending(s, a) :
          r.failed \/ \E x \in Due(s, V) : x.kind = "send" /\ x.at = r.anchor
    BY OthersDue
  <2> QED
    BY <1>11, <2>1, <2>2 DEF SendsDue
<1> QED
  BY <1>1, <1>8, <1>10, <1>12 DEF Steady

\* Whatever arrives, the store does not wait for it any more.
LEMMA HandledSteady ==
  ASSUME NEW s, NEW V, NEW a \in Answers, Named(a), Single(a),
         Steady(s, V \cup {a})
  PROVE  Steady(Handled(s, a), V)
<1>1. a.kind \in {"page", "older", "newer", "around", "send", "event", "seed",
                  "join", "clan"} /\ a.ok \in BOOLEAN
  BY DEF Answers, Kinds, Fetches, Joins
<1>2. CASE a.kind = "page"
  BY <1>2, PageSteady DEF Handled
<1>3. CASE a.kind = "older"
  BY <1>3, OlderSteady DEF Handled
<1>4. CASE a.kind = "newer"
  BY <1>4, NewerSteady DEF Handled
<1>5. CASE a.kind = "around"
  BY <1>5, AroundSteady DEF Handled
<1>6. CASE a.kind = "send"
  BY <1>1, <1>6, ReconcileSteady, RejectSteady DEF Handled
<1>7. CASE a.kind \in {"event", "seed", "join", "clan"}
  <2>1. LoadDue(s, V) /\ MoreDue(s, V) /\ SendsDue(s, V)
    BY <1>7, Without DEF Fetches
  <2>2. Steady(s, V)
    BY <2>1 DEF Steady
  <2>3. CASE a.kind = "event"
    BY <1>1, <2>2, <2>3, EventSteady DEF Handled
  <2>4. CASE a.kind = "seed"
    <3> DEFINE t == [s EXCEPT !.last = Max(a.page)]
    <3>1. Handled(s, a) = IF a.ok THEN t ELSE s
      BY <2>4 DEF Handled
    <3>2. a.ok => Max(a.page) \in Messages
      BY <2>4, MaxOfOne DEF Single
    <3>3. a.ok => Rewindowed(s, t)
      BY <3>2 DEF Rewindowed, Steady, Sound, Stores
    <3> HIDE DEF t
    <3> QED
      BY <1>1, <2>2, <3>1, <3>3, RewindowedDue DEF Steady
  <2>5. CASE a.kind = "join"
    <3> DEFINE t == [s EXCEPT !.joined = FALSE]
    <3>1. Handled(s, a) = IF a.ok THEN s ELSE t
      BY <2>5 DEF Handled
    <3>2. Rewindowed(s, t)
      BY DEF Rewindowed, Steady, Sound, Stores
    <3> HIDE DEF t
    <3> QED
      BY <1>1, <2>2, <3>1, <3>2, RewindowedDue DEF Steady
  <2>6. CASE a.kind = "clan"
    BY <2>2, <2>6 DEF Handled
  <2> QED
    BY <1>7, <2>3, <2>4, <2>5, <2>6
<1> QED
  BY <1>1, <1>2, <1>3, <1>4, <1>5, <1>6, <1>7

-----------------------------------------------------------------------------
(* The steps of the server and of the connection.                          *)

\* Whatever is waited for stays under way, as a request or as an answer.
LEMMA CoveredSteady ==
  ASSUME NEW s, NEW t, NEW U, NEW V, Steady(s, U), Sound(t), Alike(s, t),
         \A x \in Due(s, U) :
            \/ x.kind \in Joins
            \/ \E y \in Due(t, V) :
                  y.kind = x.kind /\ y.at = x.at /\ y.gen = x.gen
  PROVE  Steady(t, V)
<1>1. LoadDue(t, V)
  BY DEF Steady, LoadDue, Alike, Joins
<1>2. MoreDue(t, V)
  BY DEF Steady, MoreDue, Alike, Joins, Fetches
<1>3. JumpDue(t)
  BY DEF Steady, JumpDue, Alike
<1>4. SendsDue(t, V)
  BY DEF Steady, SendsDue, Alike, Joins
<1> QED
  BY <1>1, <1>2, <1>3, <1>4 DEF Steady

LEMMA MoreAnswers ==
  ASSUME NEW s, NEW U, NEW V, Steady(s, U), U \subseteq V
  PROVE  Steady(s, V)
<1>1. Due(s, U) \subseteq Due(s, V)
  BY DEF Due
<1>2. Alike(s, s)
  BY DEF Alike
<1> QED
  BY <1>1, <1>2, AlikeDue DEF Steady

LEMMA LogTyped ==
  ASSUME Typed, NEW e \in Sends \cup {0}, Len(log) + 1 \in Messages
  PROVE  /\ Append(log, e) \in Seq(Sends \cup {0})
         /\ Len(Append(log, e)) \in Messages
BY AppendProperties DEF Typed

LEMMA EventTold ==
  ASSUME NEW i \in Messages
  PROVE  Event(i) \in Answers /\ Named(Event(i)) /\ Single(Event(i))
<1>1. i \in Nat
  BY DEF Messages
<1>2. Event(i) \in Answers
  BY <1>1 DEF Event, Answers, None
<1> QED
  BY <1>2 DEF Event, Named, Single

LEMMA ReplyTold ==
  ASSUME NEW a \in Asks, Named(a), NEW ok \in BOOLEAN, NEW denied \in BOOLEAN,
         NEW page \in SUBSET Messages,
         ok /\ a.kind \in {"send", "seed"} => \E i \in Messages : page = {i}
  PROVE  /\ Reply(a, ok, denied, page) \in Answers
         /\ Named(Reply(a, ok, denied, page))
         /\ Single(Reply(a, ok, denied, page))
<1>1. Reply(a, ok, denied, page) \in Answers
  BY DEF Reply, Answers, Asks
<1>2. Named(Reply(a, ok, denied, page))
  BY DEF Reply, Named
<1>3. Single(Reply(a, ok, denied, page))
  BY DEF Reply, Single
<1> QED
  BY <1>1, <1>2, <1>3

LEMMA InitInv == Init => IInv
<1> SUFFICES ASSUME Init PROVE IInv
  OBVIOUS
<1> USE DEF Init
<1>1. History \in Messages /\ History \in Nat
  BY TimelineAssumption DEF Messages
<1>2. log \in Seq(Sends \cup {0}) /\ Len(log) \in Messages
  BY <1>1
<1>3. answers \in Seq(Answers) /\ Range(answers) = {}
  BY EmptySeq DEF Range
<1>4. store.asks \in Seq(Asks) /\ Range(store.asks) = {}
  BY EmptySeq DEF Range
<1>5. store \in Stores
  BY <1>1, EmptySeq DEF Stores, None
<1>6. sends \in 0 .. MaxSends /\ moves \in 0 .. MaxMoves /\ faults \in 0 .. MaxFaults
  BY TimelineAssumption
<1>7. Typed
  BY <1>2, <1>3, <1>5, <1>6, TimelineAssumption DEF Typed
<1>8. Steady(store, Range(answers))
  BY <1>3, <1>4, <1>5
  DEF Steady, Sound, LoadDue, MoreDue, JumpDue, SendsDue, Temps
<1> QED
  BY <1>3, <1>7, <1>8 DEF IInv, AnswersTold

LEMMA PostInv ==
  ASSUME IInv, Post
  PROVE  IInv'
<1>1. Len(log) + 1 \in Messages
  <2>1. Len(log) \in 1 .. MaxLog /\ Len(log) < MaxLog /\ MaxLog \in Nat
    BY TimelineAssumption DEF IInv, Typed, Post, Messages
  <2> QED
    BY <2>1 DEF Messages
<1> DEFINE e == Event(Len(log) + 1)
<1>2. e \in Answers /\ Named(e) /\ Single(e)
  BY <1>1, EventTold
<1>3. log' \in Seq(Sends \cup {0}) /\ Len(log') \in Messages
  BY <1>1, LogTyped DEF IInv, Post
<1> HIDE DEF e
<1>4. answers' = answers \/ answers' = Append(answers, e)
  BY DEF Post, e
<1>5. /\ answers' \in Seq(Answers)
      /\ Range(answers) \subseteq Range(answers')
      /\ \A a \in Range(answers') : a \in Range(answers) \/ a = e
  <2>1. answers \in Seq(Answers)
    BY DEF IInv, Typed
  <2>2. /\ Append(answers, e) \in Seq(Answers)
        /\ Range(Append(answers, e)) = Range(answers) \cup {e}
    BY <1>2, <2>1, SetOfAppend
  <2> QED
    BY <1>4, <2>1, <2>2
<1>6. Typed'
  BY <1>3, <1>5 DEF IInv, Typed, Post
<1>7. AnswersTold'
  BY <1>2, <1>5 DEF IInv, AnswersTold
<1>8. Steady(store', Range(answers'))
  BY <1>5, MoreAnswers DEF IInv, Post
<1> QED
  BY <1>6, <1>7, <1>8 DEF IInv

LEMMA LostTold ==
  ASSUME NEW a \in Answers, Named(a)
  PROVE  /\ Lose(a) \in Answers /\ Named(Lose(a)) /\ Single(Lose(a))
         /\ Lose(a).kind = a.kind /\ Lose(a).at = a.at /\ Lose(a).gen = a.gen
<1>1. Lose(a) \in Answers
  BY DEF Lose, Reply, Answers
<1> QED
  BY <1>1 DEF Lose, Reply, Named, Single

\* Answers and events that are lost are still waited for, as failures.
LEMMA LostSteady ==
  ASSUME IInv, NEW lost,
         answers' = [k \in DOMAIN answers |->
                       IF lost[k] THEN Lose(answers[k]) ELSE answers[k]]
  PROVE  /\ answers' \in Seq(Answers)
         /\ AnswersTold'
         /\ Steady(store, Range(answers'))
<1>1. PICK n \in Nat : n = Len(answers) /\ DOMAIN answers = 1 .. n
  BY LenProperties DEF IInv, Typed
<1>2. \A k \in 1 .. n : answers[k] \in Answers /\ answers[k] \in Range(answers)
  BY <1>1, ElementOfSeq DEF IInv, Typed, Range
<1>3. \A k \in 1 .. n :
        /\ answers'[k] \in Answers
        /\ Named(answers'[k]) /\ Single(answers'[k])
        /\ answers'[k].kind = answers[k].kind
        /\ answers'[k].at = answers[k].at /\ answers'[k].gen = answers[k].gen
  <2> SUFFICES ASSUME NEW k \in 1 .. n
               PROVE  /\ answers'[k] \in Answers
                      /\ Named(answers'[k]) /\ Single(answers'[k])
                      /\ answers'[k].kind = answers[k].kind
                      /\ answers'[k].at = answers[k].at
                      /\ answers'[k].gen = answers[k].gen
    OBVIOUS
  <2>1. answers'[k] = Lose(answers[k]) \/ answers'[k] = answers[k]
    BY <1>1
  <2>2. answers[k] \in Answers /\ Named(answers[k]) /\ Single(answers[k])
    BY <1>2 DEF IInv, AnswersTold
  <2> QED
    BY <2>1, <2>2, LostTold
<1>4. DOMAIN answers' = 1 .. n /\ answers' = [k \in 1 .. n |-> answers'[k]]
  BY <1>1
<1>5. answers' \in [1 .. n -> Answers]
  BY <1>3, <1>4
<1>6. answers' \in Seq(Answers)
  BY <1>5
<1>7. Range(answers') = {answers'[k] : k \in 1 .. n}
      /\ Range(answers) = {answers[k] : k \in 1 .. n}
  BY <1>1, <1>4 DEF Range
<1>8. AnswersTold'
  BY <1>3, <1>7 DEF AnswersTold
<1>9. \A x \in Range(answers) : \E y \in Range(answers') :
        y.kind = x.kind /\ y.at = x.at /\ y.gen = x.gen
  BY <1>3, <1>7
<1>10. Steady(store, Range(answers'))
  <2>1. Steady(store, Range(answers)) /\ Sound(store) /\ Alike(store, store)
    BY DEF IInv, Steady, Alike
  <2>2. \A x \in Due(store, Range(answers)) :
          \E y \in Due(store, Range(answers')) :
             y.kind = x.kind /\ y.at = x.at /\ y.gen = x.gen
    BY <1>9 DEF Due
  <2> QED
    BY <2>1, <2>2, CoveredSteady
<1> QED
  BY <1>6, <1>8, <1>10

LEMMA DisconnectInv ==
  ASSUME IInv, Disconnect
  PROVE  IInv'
<1> DEFINE lost == [k \in DOMAIN answers |-> TRUE]
<1>1. answers' = [k \in DOMAIN answers |->
                    IF lost[k] THEN Lose(answers[k]) ELSE answers[k]]
  BY DEF Disconnect
<1> HIDE DEF lost
<1>2. /\ answers' \in Seq(Answers) /\ AnswersTold'
      /\ Steady(store, Range(answers'))
  BY <1>1, LostSteady
<1>3. faults' \in 0 .. MaxFaults
  BY TimelineAssumption DEF IInv, Typed, Disconnect
<1>4. Typed'
  BY <1>2, <1>3 DEF IInv, Typed, Disconnect
<1>5. store' = store
  BY DEF Disconnect
<1> QED
  BY <1>2, <1>4, <1>5 DEF IInv

LEMMA ReconnectInv ==
  ASSUME IInv, Reconnect
  PROVE  IInv'
<1>1. answers' = answers /\ store' = Resync(store)
  BY DEF Reconnect
<1>2. Steady(store', Range(answers'))
  BY <1>1, ResyncSteady DEF IInv
<1>3. store' \in Stores
  BY <1>2 DEF Steady, Sound
<1>4. Typed'
  BY <1>1, <1>3 DEF IInv, Typed, Reconnect
<1>5. AnswersTold'
  BY <1>1 DEF IInv, AnswersTold
<1> QED
  BY <1>2, <1>4, <1>5 DEF IInv

LEMMA LagInv ==
  ASSUME IInv, Lag
  PROVE  IInv'
<1> DEFINE lost == [k \in DOMAIN answers |-> answers[k].kind = "event"]
<1>1. answers' = [k \in DOMAIN answers |->
                    IF lost[k] THEN Lose(answers[k]) ELSE answers[k]]
  BY DEF Lag
<1> HIDE DEF lost
<1>2. /\ answers' \in Seq(Answers) /\ AnswersTold'
      /\ Steady(store, Range(answers'))
  BY <1>1, LostSteady
<1>3. store' = Resync(store)
  BY DEF Lag
<1>4. Steady(store', Range(answers'))
  BY <1>2, <1>3, ResyncSteady
<1>5. store' \in Stores
  BY <1>4 DEF Steady, Sound
<1>6. faults' \in 0 .. MaxFaults
  BY TimelineAssumption DEF IInv, Typed, Lag
<1>7. Typed'
  BY <1>2, <1>5, <1>6 DEF IInv, Typed, Lag
<1> QED
  BY <1>2, <1>4, <1>7 DEF IInv

LEMMA DeliverInv ==
  ASSUME IInv, NEW k \in DOMAIN answers, Deliver(k)
  PROVE  IInv'
<1> DEFINE a == answers[k]
<1>1. answers \in Seq(Answers)
  BY DEF IInv, Typed
<1>2. /\ a \in Range(answers) /\ a \in Answers
      /\ answers' \in Seq(Answers)
      /\ Range(answers') \subseteq Range(answers)
      /\ Range(answers) \subseteq Range(answers') \cup {a}
  BY <1>1, SetOfRemoveAt DEF Deliver
<1>3. store' = Handled(store, a)
  BY DEF Deliver
<1> HIDE DEF a
<1>4. Named(a) /\ Single(a)
  BY <1>2 DEF IInv, AnswersTold
<1>5. Steady(store, Range(answers') \cup {a})
  BY <1>2, MoreAnswers DEF IInv
<1>6. Steady(store', Range(answers'))
  BY <1>2, <1>3, <1>4, <1>5, HandledSteady
<1>7. store' \in Stores
  BY <1>6 DEF Steady, Sound
<1>8. doubt' \in BOOLEAN
  BY DEF Deliver
<1>9. Typed'
  BY <1>2, <1>7, <1>8 DEF IInv, Typed, Deliver
<1>10. AnswersTold'
  BY <1>2 DEF IInv, AnswersTold
<1> QED
  BY <1>6, <1>9, <1>10 DEF IInv

\* A request leaves the store and its answer, if it has one, is on its way.
LEMMA ServedSteady ==
  ASSUME NEW s, NEW k \in DOMAIN s.asks, NEW t, NEW U, NEW V,
         Steady(s, U), t = [s EXCEPT !.asks = RemoveAt(@, k)],
         U \subseteq V,
         \/ s.asks[k].kind \in Joins
         \/ \E y \in V : /\ y.kind = s.asks[k].kind
                        /\ y.at = s.asks[k].at /\ y.gen = s.asks[k].gen
  PROVE  Steady(t, V)
<1> DEFINE a == s.asks[k]
<1>1. s.asks \in Seq(Asks)
  BY DEF Steady, Sound, Stores
<1>2. /\ RemoveAt(s.asks, k) \in Seq(Asks)
      /\ Range(RemoveAt(s.asks, k)) \subseteq Range(s.asks)
      /\ Range(s.asks) \subseteq Range(RemoveAt(s.asks, k)) \cup {a}
  BY <1>1, SetOfRemoveAt
<1>3. /\ t \in Stores /\ t.asks = RemoveAt(s.asks, k)
      /\ t.cached = s.cached /\ Alike(s, t)
  BY <1>2 DEF Steady, Sound, Stores, Alike
<1>4. Sound(t)
  BY <1>2, <1>3 DEF Steady, Sound, Alike
<1>5. \A x \in Due(s, U) : x \in Due(t, V) \/ x = a
  BY <1>2, <1>3 DEF Due
<1>6. \A y \in V : y \in Due(t, V)
  BY DEF Due
<1>7. \A x \in Due(s, U) :
        \/ x.kind \in Joins
        \/ \E y \in Due(t, V) :
              y.kind = x.kind /\ y.at = x.at /\ y.gen = x.gen
  BY <1>5, <1>6
<1> QED
  BY <1>3, <1>4, <1>7, CoveredSteady

LEMMA SeedPage ==
  ASSUME NEW a, a.kind = "seed", Len(log) \in Messages
  PROVE  PageFor(a) = {Len(log)}
BY DEF PageFor, Messages

LEMMA PageTyped ==
  ASSUME NEW a, Len(log) \in Messages
  PROVE  PageFor(a) \in SUBSET Messages
<1>1. PageFor(a) \subseteq 1 .. Len(log)
  BY Zenon DEF PageFor
<1>2. 1 .. Len(log) \subseteq Messages
  BY TimelineAssumption DEF Messages
<1> QED
  BY <1>1, <1>2

LEMMA ServeInv ==
  ASSUME IInv, Serve
  PROVE  IInv'
<1>1. PICK k \in Turn(store.asks) :
        /\ \/ /\ ServeFetch(k) \/ ServeSend(k) \/ ServeJoin(k)
              /\ UNCHANGED <<faults, doubt>>
           \/ Refuse(k)
        /\ store' = [store EXCEPT !.asks = RemoveAt(@, k)]
        /\ UNCHANGED <<connected, sends, moves>>
  BY DEF Serve
<1>2. k \in DOMAIN store.asks
  BY DEF Turn
<1> DEFINE a == store.asks[k]
<1>3. store.asks \in Seq(Asks) /\ Len(log) \in Messages /\ answers \in Seq(Answers)
  BY DEF IInv, Steady, Sound, Stores, Typed
<1>4. a \in Asks /\ a \in Range(store.asks)
  BY <1>2, <1>3, SetOfRemoveAt
<1>5. Named(a)
  BY <1>4 DEF IInv, Steady, Sound
<1> HIDE DEF a
<1>6. ASSUME NEW b \in Answers, Named(b), Single(b), answers' = Append(answers, b),
             b.kind = a.kind, b.at = a.at, b.gen = a.gen
      PROVE  /\ answers' \in Seq(Answers) /\ AnswersTold'
             /\ Steady(store', Range(answers'))
  <2>1. /\ answers' \in Seq(Answers)
        /\ Range(answers') = Range(answers) \cup {b}
    BY <1>3, <1>6, SetOfAppend
  <2>2. AnswersTold'
    BY <1>6, <2>1 DEF IInv, AnswersTold
  <2>3. Steady(store', Range(answers'))
    BY <1>1, <1>2, <1>6, <2>1, ServedSteady DEF IInv, a
  <2> QED
    BY <2>1, <2>2, <2>3
<1>7. CASE ServeFetch(k) /\ UNCHANGED <<faults, doubt>>
  <2> DEFINE b == Answer(a, PageFor(a))
  <2>1. PageFor(a) \in SUBSET Messages
    BY <1>3, PageTyped
  <2>2. a.kind \in {"send", "seed"} => PageFor(a) = {Len(log)}
    BY <1>3, <1>7, SeedPage DEF ServeFetch, Fetches, a
  <2>3. b \in Answers /\ Named(b) /\ Single(b)
    BY <1>3, <1>4, <1>5, <2>1, <2>2, ReplyTold DEF Answer
  <2>4. answers' = Append(answers, b)
    BY <1>7 DEF ServeFetch, a
  <2>5. b.kind = a.kind /\ b.at = a.at /\ b.gen = a.gen
    BY DEF Answer, Reply
  <2> HIDE DEF b
  <2>6. /\ answers' \in Seq(Answers) /\ AnswersTold'
        /\ Steady(store', Range(answers'))
    BY <1>6, <2>3, <2>4, <2>5
  <2>7. Typed'
    BY <1>1, <1>7, <2>6 DEF IInv, Typed, ServeFetch, Steady, Sound
  <2> QED
    BY <2>6, <2>7 DEF IInv
<1>8. CASE ServeSend(k) /\ UNCHANGED <<faults, doubt>>
  <2> DEFINE i == Len(log) + 1
             e == Event(i)
             b == Answer(a, {i})
  <2>1. i \in Messages /\ a.kind = "send" /\ log' = Append(log, a.at)
    BY <1>8 DEF ServeSend, a
  <2>2. e \in Answers /\ Named(e) /\ Single(e)
    BY <2>1, EventTold
  <2>3. {i} \in SUBSET Messages /\ \E j \in Messages : {i} = {j}
    BY <2>1
  <2>4. b \in Answers /\ Named(b) /\ Single(b)
    BY <1>4, <1>5, <2>3, ReplyTold DEF Answer
  <2>5. b.kind = a.kind /\ b.at = a.at /\ b.gen = a.gen
    BY DEF Answer, Reply
  <2>6. \/ answers' = answers \o <<e, b>> \/ answers' = answers \o <<b, e>>
        \/ answers' = Append(answers, b)
    BY <1>8 DEF ServeSend, a
  <2> HIDE DEF b, e
  <2>7. /\ <<e, b>> \in Seq(Answers) /\ Range(<<e, b>>) = {e, b}
        /\ <<b, e>> \in Seq(Answers) /\ Range(<<b, e>>) = {e, b}
    BY <2>2, <2>4 DEF Range
  <2>8. /\ answers' \in Seq(Answers) /\ AnswersTold'
        /\ Steady(store', Range(answers'))
    <3>1. CASE answers' = Append(answers, b)
      BY <1>6, <2>4, <2>5, <3>1
    <3>2. ASSUME NEW q \in Seq(Answers), Range(q) = {e, b}, answers' = answers \o q
          PROVE  /\ answers' \in Seq(Answers) /\ AnswersTold'
                 /\ Steady(store', Range(answers'))
      <4>1. /\ answers' \in Seq(Answers)
            /\ Range(answers') = Range(answers) \cup {e, b}
        BY <1>3, <3>2, SetOfConcat
      <4>2. AnswersTold'
        BY <2>2, <2>4, <4>1 DEF IInv, AnswersTold
      <4>3. Steady(store', Range(answers'))
        BY <1>1, <1>2, <2>5, <4>1, ServedSteady DEF IInv, a
      <4> QED
        BY <4>1, <4>2, <4>3
    <3> QED
      BY <2>6, <2>7, <3>1, <3>2
  <2>9. log' \in Seq(Sends \cup {0}) /\ Len(log') \in Messages
    BY <1>5, <2>1, LogTyped DEF IInv, Named
  <2>10. Typed'
    BY <1>1, <1>8, <2>8, <2>9 DEF IInv, Typed, ServeSend, Steady, Sound
  <2> QED
    BY <2>8, <2>10 DEF IInv
<1>9. CASE ServeJoin(k) /\ UNCHANGED <<faults, doubt>>
  <2>1. a.kind \in Joins /\ answers' = answers
    BY <1>9 DEF ServeJoin, a
  <2>2. Steady(store', Range(answers'))
    BY <1>1, <1>2, <2>1, ServedSteady DEF IInv, a
  <2>3. Typed'
    BY <1>1, <1>9, <2>1, <2>2 DEF IInv, Typed, ServeJoin, Steady, Sound
  <2>4. AnswersTold'
    BY <2>1 DEF IInv, AnswersTold
  <2> QED
    BY <2>2, <2>3, <2>4 DEF IInv
<1>10. CASE Refuse(k)
  <2>1. PICK denied \in BOOLEAN : answers' = Append(answers, Refusal(a, denied))
    BY <1>10 DEF Refuse, a
  <2> DEFINE b == Refusal(a, denied)
  <2>2. b \in Answers /\ Named(b) /\ Single(b)
    BY <1>4, <1>5, ReplyTold DEF Refusal
  <2>3. b.kind = a.kind /\ b.at = a.at /\ b.gen = a.gen
    BY DEF Refusal, Reply
  <2> HIDE DEF b
  <2>4. /\ answers' \in Seq(Answers) /\ AnswersTold'
        /\ Steady(store', Range(answers'))
    BY <1>6, <2>1, <2>2, <2>3 DEF b
  <2>5. faults' \in 0 .. MaxFaults
    BY <1>10, TimelineAssumption DEF IInv, Typed, Refuse
  <2>6. doubt' \in BOOLEAN
    BY <1>10 DEF Refuse
  <2>7. Typed'
    BY <1>1, <1>10, <2>4, <2>5, <2>6 DEF IInv, Typed, Refuse, Steady, Sound
  <2> QED
    BY <2>4, <2>7 DEF IInv
<1> QED
  BY <1>1, <1>7, <1>8, <1>9, <1>10

-----------------------------------------------------------------------------
(* The steps of the user.                                                  *)

LEMMA MoveInv ==
  ASSUME IInv, NEW after, Move(after),
         Steady(store, Range(answers)) => Steady(after, Range(answers))
  PROVE  IInv'
<1>1. /\ answers' = answers /\ store' = after
      /\ UNCHANGED <<log, connected, subscribed, doubt, sends, faults>>
      /\ moves < MaxMoves /\ moves' = moves + 1
  BY DEF Move
<1>2. Steady(store', Range(answers'))
  BY <1>1 DEF IInv
<1>3. moves' \in 0 .. MaxMoves
  BY <1>1, TimelineAssumption DEF IInv, Typed
<1>4. Typed'
  BY <1>1, <1>2, <1>3 DEF IInv, Typed, Steady, Sound
<1>5. AnswersTold'
  BY <1>1 DEF IInv, AnswersTold
<1> QED
  BY <1>2, <1>4, <1>5 DEF IInv

\* Changes that no wait depends on.
LEMMA RewindowedSteady ==
  ASSUME NEW s, NEW t, NEW U, Steady(s, U), Rewindowed(s, t)
  PROVE  Steady(t, U)
BY RewindowedDue DEF Steady

LEMMA OpenInv ==
  ASSUME IInv, Open
  PROVE  IInv'
<1>1. Move(IF store.active THEN Reopen(store) ELSE Activate(store))
  BY DEF Open
<1>2. CASE store.active
  BY <1>1, <1>2, MoveInv, ReopenSteady
<1>3. CASE ~store.active
  BY <1>1, <1>3, MoveInv, ActivateSteady
<1> QED
  BY <1>2, <1>3

LEMMA UnfocusInv ==
  ASSUME IInv, Unfocus
  PROVE  IInv'
<1> DEFINE t == Shut(store)
<1>1. Move(t)
  BY DEF Unfocus
<1>2. /\ t \in Stores /\ t.asks = store.asks /\ t.rows = store.rows
      /\ t.cached = store.cached /\ t.active = FALSE
  BY DEF IInv, Typed, Stores, Shut
<1> HIDE DEF t
<1> QED
  BY <1>1, <1>2, MoveInv, ShutSteady

LEMMA CloseInv ==
  ASSUME IInv, Close
  PROVE  IInv'
<1> DEFINE t == IF store.active THEN [Shut(store) EXCEPT !.jump = None]
                ELSE [store EXCEPT !.jump = None]
<1>1. Move(t)
  BY DEF Close
<1>2. /\ t \in Stores /\ t.asks = store.asks /\ t.rows = store.rows
      /\ t.cached = store.cached /\ t.active = FALSE
  BY DEF IInv, Typed, Stores, None, Shut
<1> HIDE DEF t
<1> QED
  BY <1>1, <1>2, MoveInv, ShutSteady

LEMMA ScrollInv ==
  ASSUME IInv, ScrollUp \/ ScrollDown
  PROVE  IInv'
<1>1. PICK b \in BOOLEAN : Move([store EXCEPT !.older = b])
  BY DEF ScrollUp, ScrollDown
<1> DEFINE t == [store EXCEPT !.older = b]
<1>2. Rewindowed(store, t)
  BY DEF IInv, Steady, Sound, Stores, Rewindowed
<1> HIDE DEF t
<1> QED
  BY <1>1, <1>2, MoveInv, RewindowedSteady DEF t

LEMMA JumpInv ==
  ASSUME IInv, Jump
  PROVE  IInv'
<1>1. PICK i \in 1 .. Len(log) : Move(TryJump([store EXCEPT !.jump = i]))
  BY DEF Jump
<1> DEFINE t == [store EXCEPT !.jump = i]
<1>2. i \in Messages
  BY TimelineAssumption DEF IInv, Typed, Messages
<1>3. /\ t \in Stores /\ t.asks = store.asks /\ t.rows = store.rows
      /\ t.cached = store.cached /\ t.active = store.active
      /\ t.loading = store.loading /\ t.loadingMore = store.loadingMore
      /\ t.gen = store.gen /\ t.latest = store.latest
  BY <1>2 DEF IInv, Typed, Stores
<1>4. Move(TryJump(t))
  BY <1>1
<1> HIDE DEF t
<1>5. /\ Sound(t) /\ LoadDue(t, Range(answers)) /\ MoreDue(t, Range(answers))
      /\ SendsDue(t, Range(answers))
  BY <1>3 DEF IInv, Steady, Sound, LoadDue, MoreDue, SendsDue, Due
<1> QED
  BY <1>4, <1>5, MoveInv, TryJumpSteady

LEMMA CacheInv ==
  ASSUME IInv, Expire \/ Evict
  PROVE  IInv'
<1> DEFINE t == [store EXCEPT !.fresh = FALSE]
           u == [store EXCEPT !.cached = FALSE, !.fresh = FALSE,
                              !.rows = {}, !.hasMore = FALSE]
<1>1. Rewindowed(store, t) /\ Rewindowed(store, u)
  BY DEF IInv, Steady, Sound, Stores, Rewindowed
<1>2. Move(t) \/ Move(u)
  BY DEF Expire, Evict
<1> HIDE DEF t, u
<1> QED
  BY <1>1, <1>2, MoveInv, RewindowedSteady

LEMMA WriteInv ==
  ASSUME IInv, Write
  PROVE  IInv'
<1>1. /\ sends < MaxSends /\ sends' = sends + 1
      /\ store' = Send(store, sends + 1)
      /\ UNCHANGED <<log, answers, connected, subscribed, doubt, moves, faults>>
  BY DEF Write
<1>2. sends + 1 \in Sends /\ sends' \in 0 .. MaxSends
  BY <1>1, TimelineAssumption DEF IInv, Typed, Sends
<1>3. Len(log) \in Messages
  BY DEF IInv, Typed
<1>4. Steady(store', Range(answers'))
  BY <1>1, <1>2, <1>3, SendSteady DEF IInv
<1>5. Typed'
  BY <1>1, <1>2, <1>4 DEF IInv, Typed, Steady, Sound
<1>6. AnswersTold'
  BY <1>1 DEF IInv, AnswersTold
<1> QED
  BY <1>4, <1>5, <1>6 DEF IInv

LEMMA StepInv == IInv /\ [Next]_vars => IInv'
<1> SUFFICES ASSUME IInv, [Next]_vars PROVE IInv'
  OBVIOUS
<1>1. CASE Post
  BY <1>1, PostInv
<1>2. CASE Serve
  BY <1>2, ServeInv
<1>3. CASE Disconnect
  BY <1>3, DisconnectInv
<1>4. CASE Reconnect
  BY <1>4, ReconnectInv
<1>5. CASE Lag
  BY <1>5, LagInv
<1>6. CASE \E k \in Turn(answers) : Deliver(k)
  <2>1. PICK k \in Turn(answers) : Deliver(k)
    BY <1>6
  <2>2. k \in DOMAIN answers
    BY DEF Turn
  <2> QED
    BY <2>1, <2>2, DeliverInv
<1>7. CASE Open
  BY <1>7, OpenInv
<1>8. CASE Leave
  BY <1>8, MoveInv, DeactivateSteady DEF Leave
<1>9. CASE Unfocus \/ Close
  BY <1>9, UnfocusInv, CloseInv
<1>10. CASE ScrollUp \/ ScrollDown
  BY <1>10, ScrollInv
<1>11. CASE ReachTop
  BY <1>11, MoveInv, LoadMoreSteady DEF ReachTop
<1>12. CASE ReachBottom
  BY <1>12, MoveInv, LoadMoreBottomSteady DEF ReachBottom
<1>13. CASE Present
  BY <1>13, MoveInv, ToPresentSteady DEF Present
<1>14. CASE Jump
  BY <1>14, JumpInv
<1>15. CASE Expire \/ Evict
  BY <1>15, CacheInv
<1>16. CASE Write
  BY <1>16, WriteInv
<1>17. CASE UNCHANGED vars
  BY <1>17 DEF vars, IInv, Typed, AnswersTold
<1> QED
  BY <1>1, <1>2, <1>3, <1>4, <1>5, <1>6, <1>7, <1>8, <1>9, <1>10, <1>11, <1>12,
     <1>13, <1>14, <1>15, <1>16, <1>17 DEF Next

LEMMA Invariant == Spec => []IInv
BY InitInv, StepInv, PTL DEF Spec
-----------------------------------------------------------------------------
(* A window shows no message twice.  That rests on what a row says of      *)
(* itself: its place, and in what order the rows still being sent come.    *)

\* The rows of a window are told apart by id or send, and ordered as they were
\* sent.
Lined(rows) ==
    /\ IsFiniteSet(rows)
    /\ \A r \in rows : r.id # None => r.at = r.id
    /\ \A r, q \in rows : r.id # None /\ r.id = q.id => r = q
    /\ \A r, q \in Temps(rows) :
          r.anchor <= q.anchor => r.at <= q.at /\ (r.anchor = q.anchor => r = q)

\* They are about what was said and sent.
Logged(rows) ==
    /\ \A r \in rows : r.at <= Len(log)
    /\ \A r \in Temps(rows) : r.anchor \in Sends

\* A row that is being sent and the message it became are not both there.
Apart(rows) ==
    \A r \in Temps(rows), q \in rows :
        ~r.failed /\ q.id # None => log[q.id] # r.anchor

Fits(rows) == IsFiniteSet(rows) /\ Cardinality(rows) <= Cap

Neat(rows) == Lined(rows) /\ Logged(rows) /\ Apart(rows)

LEMMA EarlierKey ==
  ASSUME NEW r \in Rows, NEW q \in Rows, r.at < q.at
  PROVE  SortKey(r) < SortKey(q)
<1> DEFINE c == MaxSends + 1
<1>1. /\ r.at \in Nat /\ q.at \in Nat /\ c \in Nat
      /\ r.anchor \in 0 .. MaxSends /\ q.anchor \in 0 .. MaxSends
  BY TimelineAssumption DEF Rows, Messages, Sends, None
<1>2. (r.at + 1) * c <= q.at * c
  BY <1>1, Product
<1>3. (r.at + 1) * c = r.at * c + c
  BY <1>1
<1>4. /\ SortKey(r) = r.at * c + IF r.id = None THEN r.anchor ELSE 0
      /\ SortKey(q) = q.at * c + IF q.id = None THEN q.anchor ELSE 0
  BY DEF SortKey
<1>5. r.at * c \in Nat /\ q.at * c \in Nat
  BY <1>1, Product
<1>6. PICK x \in 0 .. MaxSends, y \in 0 .. MaxSends :
        SortKey(r) = r.at * c + x /\ SortKey(q) = q.at * c + y
  <2>1. 0 \in 0 .. MaxSends
    BY TimelineAssumption
  <2> QED
    BY <1>1, <1>4, <2>1
<1>7. c = MaxSends + 1 /\ MaxSends \in Nat
  BY TimelineAssumption
<1> HIDE DEF c
<1>8. PICK a \in Nat, b \in Nat : a = r.at * c /\ b = q.at * c
  BY <1>5
<1>9. a + c <= b
  BY <1>2, <1>3, <1>8
<1> QED
  BY <1>6, <1>7, <1>8, <1>9

\* Of two rows in one place the one still being sent comes after the message.
LEMMA KeyInPlace ==
  ASSUME NEW r \in Rows, NEW q \in Rows, r.at = q.at
  PROVE  SortKey(r) <= SortKey(q) <=>
           (IF r.id = None THEN r.anchor ELSE 0)
             <= (IF q.id = None THEN q.anchor ELSE 0)
<1> DEFINE c == MaxSends + 1
<1>1. /\ r.at \in Nat /\ c \in Nat
      /\ r.anchor \in 0 .. MaxSends /\ q.anchor \in 0 .. MaxSends
  BY TimelineAssumption DEF Rows, Messages, Sends, None
<1>2. PICK a \in Nat : a = r.at * c
  BY <1>1, Product
<1>3. /\ SortKey(r) = a + IF r.id = None THEN r.anchor ELSE 0
      /\ SortKey(q) = a + IF q.id = None THEN q.anchor ELSE 0
  BY <1>2 DEF SortKey
<1> QED
  BY <1>1, <1>3

LEMMA KeysDiffer ==
  ASSUME NEW rows \in SUBSET Rows, Lined(rows), Logged(rows),
         NEW r \in rows, NEW q \in rows, SortKey(r) = SortKey(q)
  PROVE  r = q
<1>1. r \in Rows /\ q \in Rows /\ r.at \in Nat /\ q.at \in Nat
  BY DEF Rows, Messages
<1>2. SortKey(r) \in Nat /\ SortKey(q) \in Nat
  BY <1>1, KeyBounded
<1>3. r.at = q.at
  BY <1>1, <1>2, EarlierKey
<1>4. r.anchor \in Nat /\ q.anchor \in Nat
  BY <1>1 DEF Rows, Sends, None
<1>5. (IF r.id = None THEN r.anchor ELSE 0) = (IF q.id = None THEN q.anchor ELSE 0)
  <2>1. /\ (IF r.id = None THEN r.anchor ELSE 0)
             <= (IF q.id = None THEN q.anchor ELSE 0)
        /\ (IF q.id = None THEN q.anchor ELSE 0)
             <= (IF r.id = None THEN r.anchor ELSE 0)
    BY <1>1, <1>2, <1>3, KeyInPlace
  <2> QED
    BY <1>4, <2>1
<1>6. CASE r.id = None /\ q.id = None
  BY <1>4, <1>5, <1>6 DEF Lined, Temps
<1>7. CASE r.id # None /\ q.id # None
  BY <1>3, <1>7 DEF Lined
<1>8. CASE r.id = None /\ q.id # None
  BY <1>5, <1>8 DEF Logged, Temps, Sends
<1>9. CASE r.id # None /\ q.id = None
  BY <1>5, <1>9 DEF Logged, Temps, Sends
<1> QED
  BY <1>6, <1>7, <1>8, <1>9

LEMMA FirstIsLeast ==
  ASSUME NEW rows \in SUBSET Rows, rows # {}
  PROVE  \A q \in rows : SortKey(FirstRow(rows)) <= SortKey(q)
<1>1. PICK b \in Nat : \A r \in Rows : SortKey(r) \in 0 .. b
  BY KeyBounded
<1> DEFINE K == {SortKey(r) : r \in rows}
<1>2. K \in SUBSET Nat /\ K # {}
  BY <1>1
<1>3. \E x \in K : \A y \in K : x <= y
  BY <1>2, LeastOf
<1>4. \E r \in rows : \A q \in rows : SortKey(r) <= SortKey(q)
  BY <1>3
<1> QED
  BY <1>4 DEF FirstRow

LEMMA SubsetNeat ==
  ASSUME NEW rows \in SUBSET Rows, NEW part \in SUBSET rows, Neat(rows)
  PROVE  Neat(part)
<1>1. IsFiniteSet(part)
  BY FS_Subset DEF Neat, Lined
<1>2. Lined(part)
  BY <1>1 DEF Neat, Lined, Temps
<1>3. Logged(part)
  BY DEF Neat, Logged, Temps
<1>4. Apart(part)
  BY DEF Neat, Apart, Temps
<1> QED
  BY <1>2, <1>3, <1>4 DEF Neat

\* A set all of whose members but one are fewer than n has at most n.
LEMMA AllButOne ==
  ASSUME NEW S, IsFiniteSet(S), NEW x \in S, NEW n \in Nat,
         Cardinality(S \ {x}) < n
  PROVE  Cardinality(S) <= n
<1>1. Cardinality(S) \in Nat /\ Cardinality(S \ {x}) = Cardinality(S) - 1
  BY FS_RemoveElement, FS_CardinalityType
<1> QED
  BY <1>1

\* trim_messages and trim_messages_back leave no more rows than the cap, since
\* the rows have places of their own.
LEMMA TrimFits ==
  ASSUME NEW rows \in SUBSET Rows, Neat(rows)
  PROVE  /\ Fits(KeepNewest(rows)) /\ Neat(KeepNewest(rows))
         /\ Fits(KeepOldest(rows)) /\ Neat(KeepOldest(rows))
<1>1. /\ KeepNewest(rows) \in SUBSET rows
      /\ KeepOldest(rows) \in SUBSET rows
      /\ IsFiniteSet(rows) /\ Cap \in Nat
  BY Kept, TimelineAssumption DEF Neat, Lined
<1>2. \A r \in rows : SortKey(r) \in Nat
  BY KeyBounded
<1>3. ASSUME NEW K \in SUBSET rows,
             K # {} => \E m \in K, T \in SUBSET rows :
                          Cardinality(T) < Cap /\ K \ {m} \subseteq T
      PROVE  Fits(K)
  <2>1. IsFiniteSet(K) /\ Cardinality(K) \in Nat
    BY <1>1, FS_Subset, FS_CardinalityType
  <2>2. CASE K = {}
    BY <1>1, <2>1, <2>2, FS_EmptySet DEF Fits
  <2>3. CASE K # {}
    <3>1. PICK m \in K, T \in SUBSET rows :
            Cardinality(T) < Cap /\ K \ {m} \subseteq T
      BY <1>3, <2>3
    <3>2. IsFiniteSet(T) /\ IsFiniteSet(K \ {m})
      BY <1>1, <2>1, FS_Subset
    <3>3. Cardinality(T) \in Nat /\ Cardinality(K \ {m}) \in Nat
      BY <3>2, FS_CardinalityType
    <3>4. Cardinality(K \ {m}) <= Cardinality(T)
      BY <3>1, <3>2, FS_Subset
    <3>5. Cardinality(K \ {m}) < Cap
      BY <1>1, <3>1, <3>3, <3>4
    <3> QED
      BY <1>1, <2>1, <3>5, AllButOne DEF Fits
  <2> QED
    BY <2>2, <2>3
<1>4. Fits(KeepNewest(rows))
  <2> DEFINE K == KeepNewest(rows)
             m == FirstRow(K)
             T == {q \in rows : SortKey(q) > SortKey(m)}
  <2>1. SUFFICES ASSUME K # {}
                 PROVE Cardinality(T) < Cap /\ K \ {m} \subseteq T /\ m \in K
    BY <1>1, <1>3
  <2>2. m \in K /\ \A q \in K : SortKey(m) <= SortKey(q)
    BY <1>1, <2>1, Ends, FirstIsLeast
  <2>3. Cardinality(T) < Cap
    BY <2>2 DEF KeepNewest
  <2>4. \A q \in K \ {m} : SortKey(q) # SortKey(m)
    BY <1>1, <2>2, KeysDiffer DEF Neat
  <2> QED
    BY <1>1, <1>2, <2>2, <2>3, <2>4
<1>5. Fits(KeepOldest(rows))
  <2> DEFINE K == KeepOldest(rows)
             m == LastRow(K)
             T == {q \in rows : SortKey(q) < SortKey(m)}
  <2>1. SUFFICES ASSUME K # {}
                 PROVE Cardinality(T) < Cap /\ K \ {m} \subseteq T /\ m \in K
    BY <1>1, <1>3
  <2>2. m \in K /\ \A q \in K : SortKey(m) >= SortKey(q)
    BY <1>1, <2>1, Ends
  <2>3. Cardinality(T) < Cap
    BY <2>2 DEF KeepOldest
  <2>4. \A q \in K \ {m} : SortKey(q) # SortKey(m)
    BY <1>1, <2>2, KeysDiffer DEF Neat
  <2> QED
    BY <1>1, <1>2, <2>2, <2>3, <2>4
<1> QED
  BY <1>1, <1>4, <1>5, SubsetNeat

\* Rows of messages that have no row yet, nor one still being sent.
LEMMA JoinNeat ==
  ASSUME NEW rows \in SUBSET Rows, Neat(rows),
         NEW more \in SUBSET Rows, IsFiniteSet(more),
         \A e \in more : /\ e.id # None /\ e.at = e.id /\ e.id <= Len(log)
                         /\ e.id \notin Ids(rows),
         \A e, f \in more : e.id = f.id => e = f,
         \A e \in more, r \in Temps(rows) : ~r.failed => log[e.id] # r.anchor
  PROVE  Neat(rows \cup more)
<1> DEFINE all == rows \cup more
<1>1. Temps(all) = Temps(rows)
  BY DEF Temps
<1>2. IsFiniteSet(all)
  BY FS_Union DEF Neat, Lined
<1>3. \A r \in rows, e \in more : r.id # e.id
  BY DEF Ids
<1>4. Lined(all)
  <2>1. \A r \in all : r.id # None => r.at = r.id
    BY DEF Neat, Lined
  <2>2. \A r, q \in all : r.id # None /\ r.id = q.id => r = q
    BY <1>3 DEF Neat, Lined
  <2> HIDE DEF all
  <2> QED
    BY <1>1, <1>2, <2>1, <2>2 DEF Neat, Lined
<1>5. Logged(all)
  <2>1. \A r \in all : r.at <= Len(log)
    BY DEF Neat, Logged
  <2> HIDE DEF all
  <2> QED
    BY <1>1, <2>1 DEF Neat, Logged
<1>6. Apart(all)
  <2>1. \A r \in Temps(rows), q \in rows :
          ~r.failed /\ q.id # None => log[q.id] # r.anchor
    BY DEF Neat, Apart
  <2>2. \A q \in all : q \in rows \/ q \in more
    OBVIOUS
  <2> HIDE DEF all
  <2> QED
    BY <1>1, <2>1, <2>2 DEF Apart
<1> QED
  BY <1>4, <1>5, <1>6 DEF Neat

LEMMA NoRowsNeat == Neat({}) /\ Fits({})
BY FS_EmptySet, TimelineAssumption DEF Neat, Lined, Logged, Apart, Temps, Fits

LEMMA PageRows ==
  ASSUME NEW page \in SUBSET Messages
  PROVE  LET new == {Row(i) : i \in page} IN
         /\ IsFiniteSet(page)
         /\ new \in SUBSET Rows
         /\ IsFiniteSet(new) /\ Cardinality(new) <= Cardinality(page)
         /\ \A e \in new : e.id # None /\ e.at = e.id /\ e.id \in page
         /\ \A e, f \in new : e.id = f.id => e = f
<1> DEFINE new == {Row(i) : i \in page}
           shown == [i \in page |-> Row(i)]
<1>1. MaxLog \in Int /\ 1 \in Int
  BY TimelineAssumption
<1>2. IsFiniteSet(page)
  BY <1>1, FS_Interval, FS_Subset DEF Messages
<1>3. shown \in Surjection(page, new)
  BY DEF Surjection
<1>4. IsFiniteSet(new) /\ Cardinality(new) <= Cardinality(page)
  BY <1>2, <1>3, FS_Surjection
<1>5. new \in SUBSET Rows /\ \A e \in new : e.id # None
  BY NewRows
<1>6. \A e \in new : e.at = e.id /\ e.id \in page /\ e = Row(e.id)
  BY DEF Row
<1>7. \A e, f \in new : e.id = f.id => e = f
  <2> HIDE DEF new
  <2> QED
    BY <1>6
<1> QED
  BY <1>2, <1>4, <1>5, <1>6, <1>7

\* A page, with what is of it in a window already left out.
LEMMA JoinPage ==
  ASSUME NEW rows \in SUBSET Rows, Neat(rows),
         NEW page \in SUBSET Messages, page \cap Ids(rows) = {},
         \A i \in page : i <= Len(log),
         \A i \in page, r \in Temps(rows) : ~r.failed => log[i] # r.anchor
  PROVE  Neat(rows \cup {Row(i) : i \in page})
<1> DEFINE new == {Row(i) : i \in page}
<1>1. /\ new \in SUBSET Rows /\ IsFiniteSet(new)
      /\ \A e \in new : e.id # None /\ e.at = e.id /\ e.id \in page
      /\ \A e, f \in new : e.id = f.id => e = f
  BY PageRows
<1> HIDE DEF new
<1>2. \A e \in new : e.id <= Len(log) /\ e.id \notin Ids(rows)
  BY <1>1
<1>3. \A e \in new, r \in Temps(rows) : ~r.failed => log[e.id] # r.anchor
  BY <1>1
<1> QED
  BY <1>1, <1>2, <1>3, JoinNeat DEF new

\* A row in the place of others.
LEMMA SwapFits ==
  ASSUME NEW rows, Fits(rows), NEW gone, gone \cap rows # {}, NEW e
  PROVE  Fits((rows \ gone) \cup {e})
<1> DEFINE rest == rows \ gone
<1>1. PICK x \in rows : x \in gone
  OBVIOUS
<1>2. IsFiniteSet(rows) /\ Cardinality(rows) \in Nat /\ Cap \in Nat
  BY FS_CardinalityType, TimelineAssumption DEF Fits
<1>3. IsFiniteSet(rows \ {x}) /\ Cardinality(rows \ {x}) = Cardinality(rows) - 1
  BY <1>2, FS_RemoveElement
<1>4. rest \in SUBSET (rows \ {x})
  BY <1>1
<1>5. IsFiniteSet(rest) /\ Cardinality(rest) <= Cardinality(rows) - 1
  BY <1>3, <1>4, FS_Subset
<1>6. Cardinality(rest) \in Nat
  BY <1>5, FS_CardinalityType
<1>7. /\ IsFiniteSet(rest \cup {e})
      /\ Cardinality(rest \cup {e}) \in {Cardinality(rest), Cardinality(rest) + 1}
  BY <1>5, FS_AddElement
<1>8. Cardinality(rows) <= Cap
  BY DEF Fits
<1> HIDE DEF rest
<1>9. Cardinality(rest \cup {e}) <= Cap
  BY <1>2, <1>5, <1>6, <1>7, <1>8
<1> QED
  BY <1>7, <1>9 DEF Fits, rest

-----------------------------------------------------------------------------
(* The requests a handler leaves, in their order.                          *)

IsSend(a) == a.kind = "send"

\* The store t has asked for more than s, but has sent nothing, and does not
\* wait for a generation to come.
Mild(s, t) ==
    /\ t \in Stores
    /\ Len(s.asks) <= Len(t.asks)
    /\ \A k \in 1 .. Len(s.asks) : t.asks[k] = s.asks[k]
    /\ \A k \in Len(s.asks) + 1 .. Len(t.asks) : ~IsSend(t.asks[k])
    /\ s.latest <= s.gen => t.latest <= t.gen

\* And shows the same.
Calm(s, t) == Mild(s, t) /\ t.rows = s.rows

LEMMA MildTwice ==
  ASSUME NEW s \in Stores, NEW t, NEW u, Mild(s, t), Mild(t, u)
  PROVE  Mild(s, u)
<1>1. t \in Stores /\ u \in Stores
  BY DEF Mild
<1>2. PICK l \in Nat, m \in Nat, n \in Nat :
        l = Len(s.asks) /\ m = Len(t.asks) /\ n = Len(u.asks)
  BY <1>1, LenProperties DEF Stores
<1>3. l <= m /\ m <= n
  BY <1>2 DEF Mild
<1>4. \A k \in 1 .. l : k \in 1 .. m /\ t.asks[k] = s.asks[k]
  BY <1>2, <1>3 DEF Mild
<1>5. \A k \in 1 .. m : u.asks[k] = t.asks[k]
  BY <1>2 DEF Mild
<1>6. \A k \in l + 1 .. m : ~IsSend(t.asks[k])
  BY <1>2 DEF Mild
<1>7. \A k \in m + 1 .. n : ~IsSend(u.asks[k])
  BY <1>2 DEF Mild
<1>8. \A k \in l + 1 .. n : (k \in l + 1 .. m /\ k \in 1 .. m) \/ k \in m + 1 .. n
  BY <1>3
<1>9. \A k \in l + 1 .. n : ~IsSend(u.asks[k])
  BY <1>5, <1>6, <1>7, <1>8
<1>10. s.latest <= s.gen => u.latest <= u.gen
  BY DEF Mild
<1> QED
  BY <1>1, <1>2, <1>3, <1>4, <1>5, <1>9, <1>10 DEF Mild

LEMMA CalmTwice ==
  ASSUME NEW s \in Stores, NEW t, NEW u, Calm(s, t), Calm(t, u)
  PROVE  Calm(s, u)
BY MildTwice DEF Calm

\* Changes that leave the requests alone.
LEMMA MildChange ==
  ASSUME NEW s \in Stores, NEW t \in Stores, t.asks = s.asks,
         s.latest <= s.gen => t.latest <= t.gen
  PROVE  Mild(s, t)
<1>1. PICK l \in Nat : l = Len(s.asks)
  BY LenProperties DEF Stores
<1> QED
  BY <1>1 DEF Mild

LEMMA CalmAsk ==
  ASSUME NEW s \in Stores, NEW kind \in Kinds \ {"send"}, NEW at \in Nat
  PROVE  Calm(s, Ask(s, kind, at))
<1> DEFINE a == [kind |-> kind, at |-> at, gen |-> s.gen, tail |-> s.last]
           t == Ask(s, kind, at)
<1>1. a \in Asks /\ s.asks \in Seq(Asks)
  BY DEF Asks, Stores
<1>2. PICK l \in Nat : l = Len(s.asks)
  BY <1>1, LenProperties
<1>3. /\ Append(s.asks, a) \in Seq(Asks)
      /\ Len(Append(s.asks, a)) = l + 1
      /\ \A k \in 1 .. l : Append(s.asks, a)[k] = s.asks[k]
      /\ Append(s.asks, a)[l + 1] = a
  BY <1>1, <1>2, AppendProperties
<1>4. ~IsSend(a)
  BY DEF IsSend
<1>5. t = [s EXCEPT !.asks = Append(s.asks, a)]
  BY DEF Ask
<1> HIDE DEF a
<1>6. /\ t \in Stores /\ t.asks = Append(s.asks, a) /\ t.rows = s.rows
      /\ t.latest = s.latest /\ t.gen = s.gen
  BY <1>3, <1>5 DEF Stores
<1> HIDE DEF t
<1>7. \A k \in l + 1 .. l + 1 : t.asks[k] = a
  BY <1>3, <1>6
<1>8. Mild(s, t)
  BY <1>2, <1>3, <1>4, <1>6, <1>7 DEF Mild
<1> QED
  BY <1>6, <1>8 DEF Calm, t

\* A store that changes what it waits for, and then asks for it.
LEMMA ChangeAndAsk ==
  ASSUME NEW s \in Stores, NEW w \in Stores, w.asks = s.asks, w.rows = s.rows,
         s.latest <= s.gen => w.latest <= w.gen,
         NEW kind \in Kinds \ {"send"}, NEW at \in Nat
  PROVE  Calm(s, Ask(w, kind, at))
<1>1. Calm(s, w)
  BY MildChange DEF Calm
<1>2. Calm(w, Ask(w, kind, at))
  BY CalmAsk
<1> QED
  BY <1>1, <1>2, CalmTwice

LEMMA StillCalm ==
  ASSUME NEW s \in Stores
  PROVE  Calm(s, s)
BY MildChange DEF Calm

LEMMA PlainKinds ==
  /\ {"page", "seed", "join", "clan", "older", "newer", "around"}
        \subseteq Kinds \ {"send"}
  /\ None \in Nat /\ Messages \subseteq Nat
BY DEF Kinds, Fetches, Joins, None, Messages

LEMMA RefetchCalm ==
  ASSUME NEW s \in Stores
  PROVE  Calm(s, Refetch(s))
<1>1. CASE ~s.active
  BY <1>1, StillCalm DEF Refetch
<1>2. CASE s.active
  <2> DEFINE w == [s EXCEPT !.loading = TRUE, !.loadingMore = FALSE,
                            !.gen = @ + 1, !.latest = s.gen + 1]
  <2>1. Refetch(s) = Ask(w, "page", None)
    BY <1>2 DEF Refetch
  <2>2. s.gen + 1 \in Nat /\ s.gen + 1 <= s.gen + 1
    BY DEF Stores
  <2>3. /\ w \in Stores /\ w.asks = s.asks /\ w.rows = s.rows
        /\ w.latest = s.gen + 1 /\ w.gen = s.gen + 1
    BY <2>2 DEF Stores
  <2> HIDE DEF w
  <2> QED
    BY <2>1, <2>2, <2>3, ChangeAndAsk, PlainKinds
<1> QED
  BY <1>1, <1>2

LEMMA TryJumpCalm ==
  ASSUME NEW s \in Stores
  PROVE  Calm(s, TryJump(s))
<1> DEFINE t == [s EXCEPT !.jump = None]
           w == [s EXCEPT !.jump = None, !.loadingMore = TRUE]
<1>1. \/ TryJump(s) = s
      \/ TryJump(s) = t
      \/ s.jump # None /\ TryJump(s) = Ask(w, "around", s.jump)
  BY DEF TryJump
<1>2. /\ t \in Stores /\ t.asks = s.asks /\ t.rows = s.rows
      /\ t.latest = s.latest /\ t.gen = s.gen
      /\ w \in Stores /\ w.asks = s.asks /\ w.rows = s.rows
      /\ w.latest = s.latest /\ w.gen = s.gen
  BY DEF Stores, None
<1>3. s.jump # None => s.jump \in Nat
  BY PlainKinds DEF Stores
<1> HIDE DEF t, w
<1>4. Calm(s, t)
  BY <1>2, MildChange DEF Calm
<1>5. s.jump # None => Calm(s, Ask(w, "around", s.jump))
  BY <1>2, <1>3, ChangeAndAsk, PlainKinds
<1> QED
  BY <1>1, <1>4, <1>5, StillCalm

LEMMA FinishCalm ==
  ASSUME NEW s \in Stores
  PROVE  Calm(s, FinishMore(s))
<1> DEFINE w == [s EXCEPT !.loadingMore = FALSE]
<1>1. FinishMore(s) = TryJump(w)
  BY DEF FinishMore
<1>2. /\ w \in Stores /\ w.asks = s.asks /\ w.rows = s.rows
      /\ w.latest = s.latest /\ w.gen = s.gen
  BY DEF Stores
<1> HIDE DEF w
<1>3. Calm(s, w) /\ Calm(w, TryJump(w))
  BY <1>2, MildChange, TryJumpCalm DEF Calm
<1> QED
  BY <1>1, <1>3, CalmTwice

LEMMA LoadCalm ==
  ASSUME NEW s \in Stores
  PROVE  Calm(s, LoadMore(s)) /\ Calm(s, LoadMoreBottom(s))
<1> DEFINE w == [s EXCEPT !.loadingMore = TRUE]
<1>1. /\ w \in Stores /\ w.asks = s.asks /\ w.rows = s.rows
      /\ w.latest = s.latest /\ w.gen = s.gen
  BY DEF Stores
<1>2. s.rows # {} => FirstRow(s.rows).id \in Nat /\ LastRow(s.rows).id \in Nat
  <2>1. s.rows \in SUBSET Rows
    BY DEF Stores
  <2>2. s.rows # {} => FirstRow(s.rows) \in Rows /\ LastRow(s.rows) \in Rows
    BY <2>1, Ends
  <2> QED
    BY <2>2, PlainKinds DEF Rows
<1>3. \/ LoadMore(s) = s
      \/ /\ s.rows # {}
         /\ LoadMore(s) = Ask(w, "older", FirstRow(s.rows).id)
  BY DEF LoadMore, CanLoad
<1>4. \/ LoadMoreBottom(s) = s
      \/ s.rows # {} /\ LoadMoreBottom(s) = Ask(w, "newer", LastRow(s.rows).id)
  BY DEF LoadMoreBottom, CanLoad
<1> HIDE DEF w
<1>5. Calm(s, LoadMore(s))
  BY <1>1, <1>2, <1>3, ChangeAndAsk, PlainKinds, StillCalm
<1>6. Calm(s, LoadMoreBottom(s))
  BY <1>1, <1>2, <1>4, ChangeAndAsk, PlainKinds, StillCalm
<1> QED
  BY <1>5, <1>6

LEMMA ToPresentCalm ==
  ASSUME NEW s \in Stores
  PROVE  Calm(s, ToPresent(s))
<1> DEFINE w == [s EXCEPT !.older = FALSE]
<1>1. /\ w \in Stores /\ w.asks = s.asks /\ w.rows = s.rows
      /\ w.latest = s.latest /\ w.gen = s.gen
  BY DEF Stores
<1>2. ToPresent(s) = s \/ ToPresent(s) = Refetch(w)
  BY DEF ToPresent
<1> HIDE DEF w
<1>3. Calm(s, w) /\ Calm(w, Refetch(w))
  BY <1>1, MildChange, RefetchCalm DEF Calm
<1> QED
  BY <1>2, <1>3, CalmTwice, StillCalm

LEMMA JoinCalm ==
  ASSUME NEW s \in Stores
  PROVE  Calm(s, Join(s))
<1> DEFINE w == [s EXCEPT !.joined = TRUE]
<1>1. /\ w \in Stores /\ w.asks = s.asks /\ w.rows = s.rows
      /\ w.latest = s.latest /\ w.gen = s.gen
  BY DEF Stores
<1>2. Join(s) = s \/ Join(s) = Ask(w, "join", None)
  BY DEF Join
<1> HIDE DEF w
<1> QED
  BY <1>1, <1>2, ChangeAndAsk, PlainKinds, StillCalm

LEMMA ActivateCalm ==
  ASSUME NEW s \in Stores
  PROVE  Calm(s, Activate(s))
<1> DEFINE o == [s EXCEPT !.active = TRUE, !.older = FALSE,
                          !.loadingMore = FALSE, !.gen = @ + 1]
           j == Join(o)
           f == [j EXCEPT !.loading = FALSE]
           l == [j EXCEPT !.loading = TRUE, !.latest = j.gen]
<1>1. /\ o \in Stores /\ o.asks = s.asks /\ o.rows = s.rows
      /\ (s.latest <= s.gen => o.latest <= o.gen) /\ o.gen = s.gen + 1
  <2>1. s \in Stores /\ s.gen \in Nat /\ s.latest \in Nat /\ s.gen + 1 \in Nat
    BY DEF Stores
  <2>2. /\ o \in Stores /\ o.asks = s.asks /\ o.rows = s.rows
        /\ o.latest = s.latest /\ o.gen = s.gen + 1
    BY <2>1 DEF Stores
  <2> QED
    BY <2>1, <2>2
<1>2. Activate(s) = IF s.cached /\ s.fresh THEN TryJump(f)
                    ELSE Ask(l, "page", None)
  BY DEF Activate
<1> HIDE DEF o
<1>3. Calm(s, o)
  BY <1>1, MildChange DEF Calm
<1>4. Calm(o, j)
  BY <1>1, JoinCalm
<1> HIDE DEF j
<1>5. j \in Stores /\ Calm(s, j)
  BY <1>3, <1>4, CalmTwice DEF Calm, Mild
<1>6. /\ f \in Stores /\ f.asks = j.asks /\ f.rows = j.rows
      /\ f.latest = j.latest /\ f.gen = j.gen
      /\ l \in Stores /\ l.asks = j.asks /\ l.rows = j.rows
      /\ l.latest = j.gen /\ l.gen = j.gen /\ j.gen \in Nat
  BY <1>5 DEF Stores
<1>7. Activate(s) = TryJump(f) \/ Activate(s) = Ask(l, "page", None)
  BY <1>2
<1> HIDE DEF f, l
<1>8. Calm(s, f)
  BY <1>5, <1>6, MildChange, CalmTwice DEF Calm
<1>9. Calm(s, TryJump(f))
  BY <1>6, <1>8, TryJumpCalm, CalmTwice
<1>10. Calm(s, Ask(l, "page", None))
  <2>1. l.latest <= l.gen
    BY <1>6
  <2>2. Calm(j, Ask(l, "page", None))
    BY <1>5, <1>6, <2>1, ChangeAndAsk, PlainKinds
  <2> QED
    BY <1>5, <2>2, CalmTwice
<1> QED
  BY <1>7, <1>9, <1>10

LEMMA ReopenCalm ==
  ASSUME NEW s \in Stores
  PROVE  Calm(s, Reopen(s))
BY StillCalm, TryJumpCalm, RefetchCalm DEF Reopen

LEMMA DeactivateCalm ==
  ASSUME NEW s \in Stores
  PROVE  Calm(s, Deactivate(s))
<1> DEFINE t == Deactivate(s)
<1>1. s.gen \in Nat /\ s.gen + 1 \in Nat /\ s.latest \in Nat
      /\ Detached(s) \in BOOLEAN
  BY DEF Stores, Detached
<1>2. /\ t \in Stores /\ t.asks = s.asks /\ t.rows = s.rows
      /\ t.latest = s.latest /\ t.gen = s.gen + 1
  BY <1>1 DEF Deactivate, Stores, None
<1> QED
  BY <1>1, <1>2, MildChange DEF Calm

LEMMA ResyncCalm ==
  ASSUME NEW s \in Stores
  PROVE  Calm(s, Resync(s))
<1> DEFINE w == [s EXCEPT !.fresh = FALSE, !.joined = FALSE]
           c == IF Clan THEN Ask(w, "clan", None) ELSE w
           o == IF s.active THEN Refetch(Join(c)) ELSE c
<1>1. /\ w \in Stores /\ w.asks = s.asks /\ w.rows = s.rows
      /\ w.latest = s.latest /\ w.gen = s.gen
  BY DEF Stores
<1>2. Resync(s) = IF Clan THEN Ask(o, "seed", None) ELSE o
  BY DEF Resync
<1> HIDE DEF w
<1>3. Calm(s, c) /\ c \in Stores
  <2>1. Calm(s, w) /\ Calm(s, Ask(w, "clan", None))
    BY <1>1, MildChange, ChangeAndAsk, PlainKinds DEF Calm
  <2>2. Calm(s, c)
    BY <2>1
  <2> QED
    BY <2>2 DEF Calm, Mild
<1> HIDE DEF c
<1>4. Calm(c, Join(c)) /\ Join(c) \in Stores
  BY <1>3, JoinCalm DEF Calm, Mild
<1>5. Calm(s, Refetch(Join(c)))
  BY <1>3, <1>4, RefetchCalm, CalmTwice
<1>6. Calm(s, o) /\ o \in Stores
  BY <1>3, <1>5 DEF Calm, Mild
<1> HIDE DEF o
<1>7. Calm(s, Ask(o, "seed", None))
  BY <1>6, CalmAsk, PlainKinds, CalmTwice
<1> QED
  BY <1>2, <1>6, <1>7

-----------------------------------------------------------------------------
(* What answers and events do to the window.                               *)

\* The neighbourhood that jump_to_message asks for.
Near(i) == (i - Page \div 2) .. (i + (Page - 1) \div 2)

\* An answer says what the log lg says.
Truthful(lg, a) ==
    /\ a.page \subseteq 1 .. Len(lg)
    /\ a.kind = "event" => a.at \in 1 .. Len(lg)
    /\ IsSend(a) => \A i \in a.page : lg[i] = a.at
    /\ a.kind = "around" => a.page \subseteq Near(a.at)

\* It is not about a send whose row waits for a later answer, and an answer to
\* a send does not find it failed.
Timely(s, a) ==
    \A r \in Temps(s.rows) :
        /\ r.failed /\ IsSend(a) => r.anchor # a.at
        /\ ~r.failed /\ ~IsSend(a) => \A i \in a.page : log[i] < r.anchor
        /\ ~r.failed /\ a.kind = "event" => log[a.at] <= r.anchor

\* The store s in which t is what the answer a leaves.
Outcome(s, t, a) ==
    /\ Mild(s, t)
    /\ Neat(t.rows) /\ Fits(t.rows)
    /\ \A r \in Temps(t.rows) :
          r \in s.rows \/ (r.failed /\ IsSend(a) /\ r.anchor = a.at)

Expected(s, a) ==
    /\ s \in Stores /\ Neat(s.rows) /\ Fits(s.rows)
    /\ a \in Answers /\ Named(a) /\ Single(a)
    /\ log \in Seq(Sends \cup {0}) /\ Len(log) \in Messages
    /\ Truthful(log, a) /\ Timely(s, a)

LEMMA OutcomeCalm ==
  ASSUME NEW s \in Stores, NEW t, NEW u, NEW a, Outcome(s, t, a), Calm(t, u)
  PROVE  Outcome(s, u, a)
<1>1. Mild(s, u)
  BY MildTwice DEF Outcome, Calm
<1> QED
  BY <1>1 DEF Outcome, Calm

LEMMA NothingNew ==
  ASSUME NEW s, NEW t, NEW a, Expected(s, a), Calm(s, t)
  PROVE  Outcome(s, t, a)
BY DEF Expected, Outcome, Calm, Temps

\* A store whose rows, and nothing that matters here besides, are changed.
LEMMA RowsOutcome ==
  ASSUME NEW s \in Stores, NEW t \in Stores, NEW a, t.asks = s.asks,
         s.latest <= s.gen => t.latest <= t.gen,
         Neat(t.rows), Fits(t.rows),
         \A r \in Temps(t.rows) :
            r \in s.rows \/ (r.failed /\ IsSend(a) /\ r.anchor = a.at)
  PROVE  Outcome(s, t, a)
BY MildChange DEF Outcome

LEMMA LogRange ==
  ASSUME log \in Seq(Sends \cup {0})
  PROVE  \A i \in 1 .. Len(log) : log[i] \in Nat
<1>1. \A i \in 1 .. Len(log) : log[i] \in Sends \cup {0}
  BY ElementOfSeq
<1> QED
  BY <1>1 DEF Sends

LEMMA SetChannelOutcome ==
  ASSUME NEW s, NEW a, Expected(s, a)
  PROVE  /\ SetChannel(s, a.page) \in Stores
         /\ Neat(SetChannel(s, a.page).rows) /\ Fits(SetChannel(s, a.page).rows)
         /\ Temps(SetChannel(s, a.page).rows) = {}
         /\ SetChannel(s, a.page).asks = s.asks
         /\ SetChannel(s, a.page).latest = s.latest
         /\ SetChannel(s, a.page).gen = s.gen
<1> DEFINE page == a.page
           new == {Row(i) : i \in page}
           rows == KeepNewest(new)
           t == SetChannel(s, page)
<1>1. page \in SUBSET Messages /\ \A i \in page : i <= Len(log)
  BY DEF Expected, Truthful, Answers
<1>2. new \in SUBSET Rows /\ \A r \in new : r.id # None
  BY <1>1, NewRows
<1>3. Neat({} \cup new)
  BY <1>1, NoRowsNeat, JoinPage DEF Temps, Ids
<1>4. {} \cup new = new
  OBVIOUS
<1>5. Neat(rows) /\ Fits(rows) /\ rows \subseteq new
  BY <1>2, <1>3, <1>4, TrimFits, Kept
<1>6. page # {} => Max(page) \in Messages
  BY <1>1, MaxOf
<1>7. MoreAbove(rows) \in BOOLEAN
  BY DEF MoreAbove
<1>8. t = [s EXCEPT !.cached = TRUE, !.fresh = TRUE, !.rows = rows,
                    !.hasMore = MoreAbove(rows),
                    !.last = IF @ = None /\ page # {} THEN Max(page) ELSE @]
  BY DEF SetChannel
<1> HIDE DEF rows, new, page
<1>9. rows \in SUBSET Rows /\ Temps(rows) = {}
  BY <1>2, <1>5 DEF Temps
<1>10. /\ t \in Stores /\ t.rows = rows
       /\ t.asks = s.asks /\ t.gen = s.gen /\ t.latest = s.latest
  BY <1>6, <1>7, <1>8, <1>9 DEF Expected, Stores
<1> QED
  BY <1>5, <1>9, <1>10 DEF page

LEMMA PageOutcome ==
  ASSUME NEW s, NEW a, Expected(s, a), a.kind = "page"
  PROVE  Outcome(s, PageArrives(s, a), a)
<1> DEFINE w == [s EXCEPT !.latest = None, !.loading = @ /\ ~s.active]
           settled == IF Superseded(s, a) THEN s ELSE w
           shown == IF a.ok THEN SetChannel(settled, a.page) ELSE settled
<1>1. PageArrives(s, a) \in {s, shown, TryJump(shown)}
  BY DEF PageArrives
<1>2. /\ w \in Stores /\ w.asks = s.asks /\ w.rows = s.rows
      /\ w.latest = 0 /\ w.gen = s.gen /\ w.gen \in Nat /\ s \in Stores
  BY DEF Expected, Stores, None
<1> HIDE DEF w
<1>3. w.latest <= w.gen
  BY <1>2
<1>4. Calm(s, settled) /\ settled \in Stores
  BY <1>2, <1>3, StillCalm, MildChange DEF Calm
<1> HIDE DEF settled
<1>5. Expected(settled, a)
  BY <1>4 DEF Expected, Calm, Timely
<1>6. Outcome(s, shown, a)
  <2>1. CASE a.ok
    <3>1. /\ shown \in Stores /\ Neat(shown.rows) /\ Fits(shown.rows)
          /\ Temps(shown.rows) = {} /\ shown.asks = settled.asks
          /\ shown.latest = settled.latest /\ shown.gen = settled.gen
      BY <1>5, <2>1, SetChannelOutcome
    <3>2. Mild(settled, shown)
      BY <1>4, <3>1, MildChange
    <3> HIDE DEF shown
    <3> QED
      BY <1>2, <1>4, <3>1, <3>2, MildTwice DEF Outcome, Calm
  <2>2. CASE ~a.ok
    BY <1>4, <2>2, NothingNew
  <2> QED
    BY <2>1, <2>2
<1> HIDE DEF shown
<1>7. Outcome(s, TryJump(shown), a)
  BY <1>2, <1>6, TryJumpCalm, OutcomeCalm DEF Outcome, Mild
<1>8. Outcome(s, s, a)
  BY <1>2, StillCalm, NothingNew
<1> QED
  BY <1>1, <1>6, <1>7, <1>8

\* What a page brings that is not in the window yet.
LEMMA FreshNeat ==
  ASSUME NEW s, NEW a, Expected(s, a), ~IsSend(a)
  PROVE  LET fresh == a.page \ Ids(s.rows)
             all == s.rows \cup {Row(i) : i \in fresh}
         IN  /\ fresh \in SUBSET Messages
             /\ all \in SUBSET Rows /\ Neat(all)
             /\ Temps(all) = Temps(s.rows)
<1> DEFINE fresh == a.page \ Ids(s.rows)
           new == {Row(i) : i \in fresh}
           all == s.rows \cup new
<1>1. fresh \in SUBSET Messages /\ s.rows \in SUBSET Rows
  BY DEF Expected, Answers, Stores
<1>2. new \in SUBSET Rows /\ \A r \in new : r.id # None
  BY <1>1, NewRows
<1>3. \A i \in fresh : i \in 1 .. Len(log) /\ log[i] \in Nat
  BY LogRange DEF Expected, Truthful
<1>4. \A i \in fresh, r \in Temps(s.rows) : ~r.failed => log[i] # r.anchor
  <2>1. \A r \in Temps(s.rows) : r.anchor \in Nat
    BY DEF Expected, Neat, Logged, Sends
  <2>2. \A i \in fresh, r \in Temps(s.rows) : ~r.failed => log[i] < r.anchor
    BY DEF Expected, Timely
  <2> HIDE DEF fresh
  <2> QED
    BY <1>3, <2>1, <2>2
<1>5. Neat(all)
  <2>1. fresh \cap Ids(s.rows) = {}
    OBVIOUS
  <2>2. \A i \in fresh : i <= Len(log)
    BY <1>3
  <2> HIDE DEF fresh
  <2> QED
    BY <1>1, <1>4, <2>1, <2>2, JoinPage DEF Expected
<1>6. Temps(all) = Temps(s.rows)
  <2> HIDE DEF new
  <2> QED
    BY <1>2 DEF Temps
<1> QED
  BY <1>1, <1>2, <1>5, <1>6

LEMMA OlderOutcome ==
  ASSUME NEW s, NEW a, Expected(s, a), a.kind = "older"
  PROVE  Outcome(s, OlderArrives(s, a), a)
<1> DEFINE fresh == a.page \ Ids(s.rows)
           all == s.rows \cup {Row(i) : i \in fresh}
           rows == KeepOldest(all)
           u == [s EXCEPT !.hasMore = FALSE]
           t == [s EXCEPT !.rows = rows, !.hasMore = MoreAbove(rows)]
<1>1. OlderArrives(s, a) \in {FinishMore(s), FinishMore(u), FinishMore(t)}
  BY DEF OlderArrives
<1>2. /\ all \in SUBSET Rows /\ Neat(all) /\ Temps(all) = Temps(s.rows)
  BY FreshNeat DEF IsSend
<1> HIDE DEF fresh, all
<1>3. rows \in SUBSET all /\ rows \in SUBSET Rows /\ Neat(rows) /\ Fits(rows)
  BY <1>2, Kept, TrimFits
<1>4. \A r \in Temps(rows) : r \in s.rows
  BY <1>2, <1>3 DEF Temps
<1>5. MoreAbove(rows) \in BOOLEAN /\ s \in Stores
  BY DEF MoreAbove, Expected
<1> HIDE DEF rows
<1>6. /\ t \in Stores /\ t.rows = rows
      /\ t.asks = s.asks /\ t.gen = s.gen /\ t.latest = s.latest
      /\ u \in Stores /\ u.rows = s.rows
      /\ u.asks = s.asks /\ u.gen = s.gen /\ u.latest = s.latest
  BY <1>3, <1>5 DEF Stores
<1> HIDE DEF t, u
<1>7. Outcome(s, t, a)
  BY <1>3, <1>4, <1>5, <1>6, RowsOutcome
<1>8. Outcome(s, u, a) /\ Outcome(s, s, a)
  BY <1>5, <1>6, MildChange, StillCalm, NothingNew DEF Calm
<1>9. \A v \in {s, t, u} : Outcome(s, FinishMore(v), a)
  BY <1>5, <1>6, <1>7, <1>8, FinishCalm, OutcomeCalm
<1> QED
  BY <1>1, <1>9

LEMMA NewerOutcome ==
  ASSUME NEW s, NEW a, Expected(s, a), a.kind = "newer"
  PROVE  Outcome(s, NewerArrives(s, a), a)
<1> DEFINE fresh == a.page \ Ids(s.rows)
           all == s.rows \cup {Row(i) : i \in fresh}
           rows == KeepNewest(all)
           more == s.hasMore \/ Cardinality(all) > Cap
           u == [s EXCEPT !.last = a.at]
           t == [s EXCEPT !.rows = rows, !.hasMore = more]
<1>1. NewerArrives(s, a) \in
        {FinishMore(v) : v \in {s, t, u}}
          \cup {LoadMoreBottom(FinishMore(v)) : v \in {s, u}}
  BY DEF NewerArrives
<1>2. /\ all \in SUBSET Rows /\ Neat(all) /\ Temps(all) = Temps(s.rows)
  BY FreshNeat DEF IsSend
<1>3. more \in BOOLEAN
  BY DEF Expected, Stores
<1>4. a.at \in Messages /\ s \in Stores
  BY DEF Expected, Named, Fetches
<1> HIDE DEF fresh, all, more
<1>5. rows \in SUBSET all /\ rows \in SUBSET Rows /\ Neat(rows) /\ Fits(rows)
  BY <1>2, Kept, TrimFits
<1>6. \A r \in Temps(rows) : r \in s.rows
  BY <1>2, <1>5 DEF Temps
<1> HIDE DEF rows
<1>7. /\ t \in Stores /\ t.rows = rows
      /\ t.asks = s.asks /\ t.gen = s.gen /\ t.latest = s.latest
      /\ u \in Stores /\ u.rows = s.rows
      /\ u.asks = s.asks /\ u.gen = s.gen /\ u.latest = s.latest
  BY <1>3, <1>4, <1>5 DEF Stores
<1> HIDE DEF t, u
<1>8. Outcome(s, t, a)
  BY <1>4, <1>5, <1>6, <1>7, RowsOutcome
<1>9. Outcome(s, u, a) /\ Outcome(s, s, a)
  BY <1>4, <1>7, MildChange, StillCalm, NothingNew DEF Calm
<1>10. \A v \in {s, t, u} : /\ Outcome(s, FinishMore(v), a)
                            /\ FinishMore(v) \in Stores
  BY <1>4, <1>7, <1>8, <1>9, FinishCalm, OutcomeCalm DEF Calm, Mild
<1>11. \A v \in {s, u} : Outcome(s, LoadMoreBottom(FinishMore(v)), a)
  BY <1>4, <1>10, LoadCalm, OutcomeCalm
<1> QED
  BY <1>1, <1>10, <1>11

LEMMA NearFits ==
  ASSUME NEW i \in Nat, NEW page \in SUBSET Messages, page \subseteq Near(i)
  PROVE  Fits({Row(j) : j \in page})
<1> DEFINE lo == i - Page \div 2
           hi == i + (Page - 1) \div 2
           new == {Row(j) : j \in page}
<1>1. Page \in Nat /\ Page # 0 /\ Cap \in Nat /\ Page <= Cap
  BY TimelineAssumption
<1>2. /\ lo \in Int /\ hi \in Int
      /\ hi - lo + 1 = Page
  BY <1>1
<1> HIDE DEF lo, hi
<1>3. IsFiniteSet(lo .. hi) /\ Cardinality(lo .. hi) <= Page
  BY <1>1, <1>2, FS_Interval
<1>4. Near(i) = lo .. hi
  BY DEF Near, lo, hi
<1>5. Cardinality(page) <= Cardinality(lo .. hi)
  BY <1>3, <1>4, FS_Subset
<1>6. IsFiniteSet(new) /\ Cardinality(new) <= Cardinality(page) /\ IsFiniteSet(page)
  BY PageRows
<1>7. /\ Cardinality(new) \in Nat /\ Cardinality(page) \in Nat
      /\ Cardinality(lo .. hi) \in Nat
  BY <1>3, <1>6, FS_CardinalityType
<1> HIDE DEF new
<1>8. Cardinality(new) <= Cap
  BY <1>1, <1>3, <1>5, <1>6, <1>7
<1> QED
  BY <1>6, <1>8 DEF Fits, new

LEMMA AroundOutcome ==
  ASSUME NEW s, NEW a, Expected(s, a), a.kind = "around"
  PROVE  Outcome(s, AroundArrives(s, a), a)
<1> DEFINE rows == {Row(i) : i \in a.page}
           t == [s EXCEPT !.rows = rows, !.hasMore = MoreAbove(rows)]
<1>1. AroundArrives(s, a) \in {FinishMore(s), FinishMore(t)}
  BY DEF AroundArrives
<1>2. /\ a.page \in SUBSET Messages /\ a.at \in Nat
      /\ a.page \subseteq Near(a.at) /\ \A i \in a.page : i <= Len(log)
  BY DEF Expected, Answers, Truthful
<1>3. rows \in SUBSET Rows /\ \A r \in rows : r.id # None
  BY <1>2, NewRows
<1>4. Neat({} \cup rows)
  BY <1>2, NoRowsNeat, JoinPage DEF Temps, Ids
<1>5. {} \cup rows = rows
  OBVIOUS
<1>6. Fits(rows)
  BY <1>2, NearFits
<1>7. MoreAbove(rows) \in BOOLEAN /\ s \in Stores
  BY DEF MoreAbove, Expected
<1> HIDE DEF rows
<1>8. /\ t \in Stores /\ t.rows = rows
      /\ t.asks = s.asks /\ t.gen = s.gen /\ t.latest = s.latest
  BY <1>3, <1>7 DEF Stores
<1>9. Temps(rows) = {}
  BY <1>3 DEF Temps
<1> HIDE DEF t
<1>10. Outcome(s, t, a)
  BY <1>4, <1>5, <1>6, <1>7, <1>8, <1>9, RowsOutcome
<1>11. Outcome(s, s, a)
  BY <1>7, StillCalm, NothingNew
<1>12. \A v \in {s, t} : Outcome(s, FinishMore(v), a)
  BY <1>7, <1>8, <1>10, <1>11, FinishCalm, OutcomeCalm
<1> QED
  BY <1>1, <1>12

\* The echo takes the place of the very row it is the echo of, if that row is
\* still there: the sends before it have been answered (temp_match_position).
LEMMA EchoFindsRow ==
  ASSUME NEW s, NEW a, Expected(s, a), a.kind = "event",
         NEW r \in Temps(s.rows), ~r.failed, log[a.at] = r.anchor
  PROVE  /\ SameText(s, a.at) # {}
         /\ FirstRow(SameText(s, a.at)) = r
<1> DEFINE echo == SameText(s, a.at)
           t == FirstRow(echo)
<1>1. r.anchor \in Sends /\ r.anchor # 0
  BY DEF Expected, Neat, Logged, Sends
<1>2. r \in echo
  BY <1>1 DEF SameText
<1>3. echo \in SUBSET Rows /\ echo \subseteq Temps(s.rows)
  BY DEF SameText, Temps, Expected, Stores
<1>4. t \in echo /\ SortKey(t) <= SortKey(r)
  BY <1>2, <1>3, Ends, FirstIsLeast
<1>5. ~t.failed /\ t \in Temps(s.rows)
  BY <1>3, <1>4 DEF SameText
<1>6. r.anchor <= t.anchor
  BY <1>5 DEF Expected, Timely
<1> HIDE DEF t, echo
<1>7. r.at <= t.at /\ (r.anchor = t.anchor => r = t)
  BY <1>5, <1>6 DEF Expected, Neat, Lined
<1>8. /\ r \in Rows /\ t \in Rows /\ r.id = None /\ t.id = None
      /\ r.at \in Nat /\ t.at \in Nat
      /\ SortKey(r) \in Nat /\ SortKey(t) \in Nat
  BY <1>2, <1>3, <1>4, KeyBounded DEF Temps, Rows, Messages
<1>9. r.at = t.at
  BY <1>4, <1>7, <1>8, EarlierKey
<1>10. t.anchor <= r.anchor
  BY <1>4, <1>8, <1>9, KeyInPlace
<1>11. r.anchor = t.anchor
  BY <1>5, <1>6, <1>10 DEF Expected, Neat, Logged, Sends
<1> QED
  BY <1>2, <1>7, <1>11 DEF t, echo

LEMMA EventOutcome ==
  ASSUME NEW s, NEW a, Expected(s, a), a.kind = "event"
  PROVE  Outcome(s, EventArrives(s, a), a)
<1> DEFINE i == a.at
           echo == SameText(s, i)
           t == FirstRow(echo)
           rest == IF echo = {} THEN s.rows ELSE s.rows \ {t}
           e == IF echo = {} THEN Row(i) ELSE [Row(i) EXCEPT !.anchor = t.anchor]
           new == rest \cup {e}
           rows == KeepNewest(new)
           tail == LastRow(rows).id
           out == [s EXCEPT !.last = i]
           in == [s EXCEPT !.rows = rows,
                           !.last = IF tail = None THEN @ ELSE tail]
<1>1. \/ EventArrives(s, a) = out
      \/ EventArrives(s, a) = s
      \/ i \notin Ids(s.rows) /\ EventArrives(s, a) = in
  <2>1. new = IF echo = {} THEN s.rows \cup {Row(i)}
              ELSE (s.rows \ {t}) \cup {[Row(i) EXCEPT !.anchor = t.anchor]}
    OBVIOUS
  <2> QED
    BY <2>1 DEF EventArrives
<1>2. /\ i \in Messages /\ i # None /\ i \in 1 .. Len(log)
      /\ s.rows \in SUBSET Rows /\ s \in Stores
  BY DEF Expected, Named, Truthful, Messages, None, Stores
<1>3. echo \subseteq s.rows
  BY DEF SameText, Temps
<1>4. Row(i) \in Rows /\ Row(i).id = i /\ Row(i).at = i
  BY <1>2, NewRows DEF Row
<1>5. echo # {} => t.anchor \in Sends \cup {None}
  <2>1. echo # {} => t \in Rows
    BY <1>2, <1>3, Ends
  <2> QED
    BY <2>1 DEF Rows
<1>6. e \in Rows /\ e.id = i /\ e.at = i
  <2> HIDE DEF t, echo
  <2> QED
    BY <1>4, <1>5 DEF Rows
<1>7. \A r \in Temps(rest) : ~r.failed => log[i] # r.anchor
  <2> SUFFICES ASSUME NEW r \in Temps(rest), ~r.failed, log[i] = r.anchor
               PROVE  FALSE
    OBVIOUS
  <2>1. r \in Temps(s.rows) /\ (echo # {} => r # t)
    BY DEF Temps
  <2> QED
    BY <2>1, EchoFindsRow
<1>8. rest \in SUBSET s.rows /\ rest \in SUBSET Rows
  BY <1>2
<1> HIDE DEF e, rest, i
<1>9. Neat(rest)
  BY <1>2, <1>8, SubsetNeat DEF Expected
<1>10. i \notin Ids(s.rows) => Neat(new)
  <2> SUFFICES ASSUME i \notin Ids(s.rows) PROVE Neat(rest \cup {e})
    OBVIOUS
  <2>1. IsFiniteSet({e}) /\ {e} \in SUBSET Rows
    BY <1>6, FS_Singleton
  <2>2. e.id \notin Ids(rest) /\ e.id <= Len(log)
    BY <1>2, <1>6, <1>8 DEF Ids
  <2> QED
    BY <1>2, <1>6, <1>7, <1>8, <1>9, <2>1, <2>2, JoinNeat
<1>11. new \in SUBSET Rows /\ new # {} /\ (\A r \in Temps(new) : r \in s.rows)
  BY <1>2, <1>6, <1>8 DEF Temps
<1> HIDE DEF new
<1>12. /\ rows \in SUBSET Rows /\ rows # {} /\ rows \subseteq new
       /\ i \notin Ids(s.rows) => Neat(rows) /\ Fits(rows)
  BY <1>10, <1>11, Kept, TrimFits
<1>13. \A r \in Temps(rows) : r \in s.rows
  BY <1>11, <1>12 DEF Temps
<1>14. tail \in Messages \cup {None}
  <2>1. LastRow(rows) \in Rows
    BY <1>12, Ends
  <2> QED
    BY <2>1 DEF Rows
<1> HIDE DEF rows, tail
<1>15. /\ out \in Stores /\ out.rows = s.rows
       /\ out.asks = s.asks /\ out.gen = s.gen /\ out.latest = s.latest
       /\ in \in Stores /\ in.rows = rows
       /\ in.asks = s.asks /\ in.gen = s.gen /\ in.latest = s.latest
  BY <1>2, <1>12, <1>14 DEF Stores
<1> HIDE DEF out, in
<1>16. Outcome(s, out, a) /\ Outcome(s, s, a)
  BY <1>2, <1>15, MildChange, StillCalm, NothingNew DEF Calm
<1>17. i \notin Ids(s.rows) => Outcome(s, in, a)
  BY <1>2, <1>12, <1>13, <1>15, RowsOutcome
<1> QED
  BY <1>1, <1>16, <1>17

\* The rows of a send: one at the most, and none that has failed.
LEMMA SendingOne ==
  ASSUME NEW s, NEW a, Expected(s, a), IsSend(a)
  PROVE  /\ Sending(s, a) \subseteq Temps(s.rows)
         /\ \A r, q \in Sending(s, a) : r = q
         /\ \A r \in Sending(s, a) : ~r.failed /\ r.anchor = a.at
<1>1. \A r, q \in Sending(s, a) : r \in Temps(s.rows) /\ q \in Temps(s.rows)
                                  /\ r.anchor = a.at /\ q.anchor = a.at
  BY DEF Sending
<1>2. a.at \in Nat
  BY DEF Expected, Answers
<1>3. a.at <= a.at
  BY <1>2
<1>4. \A r, q \in Sending(s, a) : r = q
  BY <1>1, <1>3 DEF Expected, Neat, Lined
<1>5. \A r \in Sending(s, a) : ~r.failed
  BY <1>1 DEF Expected, Timely
<1> QED
  BY <1>1, <1>4, <1>5

LEMMA ReconcileOutcome ==
  ASSUME NEW s, NEW a, Expected(s, a), IsSend(a), a.ok
  PROVE  Outcome(s, Reconcile(s, a), a)
<1> DEFINE id == Max(a.page)
           rest == s.rows \ Sending(s, a)
           e == [Row(id) EXCEPT !.anchor = a.at]
           rows == IF rest # s.rows
                   THEN rest \cup {e}
                   ELSE IF Detached(s) \/ id \in Ids(rest) THEN rest
                   ELSE KeepNewest(rest \cup {Row(id)})
           told == [s EXCEPT !.rows = IF s.cached THEN rows ELSE @,
                             !.last = id]
<1>1. Reconcile(s, a) \in {ToPresent(told), told}
  BY DEF Reconcile
<1>2. /\ id \in Messages /\ id # None /\ id \in 1 .. Len(log) /\ log[id] = a.at
      /\ s.rows \in SUBSET Rows /\ s \in Stores
  <2>1. PICK i \in Messages : a.page = {i}
    BY DEF Expected, Single, IsSend
  <2>2. id = i
    BY <2>1, MaxOfOne
  <2> QED
    BY <2>1, <2>2 DEF Expected, Truthful, Messages, None, Stores
<1>3. Row(id) \in Rows /\ Row(id).id = id /\ Row(id).at = id /\ a.at \in Sends
  BY <1>2, NewRows DEF Row, Expected, Named, IsSend
<1>4. e \in Rows /\ e.id = id /\ e.at = id
  BY <1>3 DEF Rows
<1>5. /\ Sending(s, a) \subseteq Temps(s.rows)
      /\ \A r \in Sending(s, a) : ~r.failed /\ r.anchor = a.at
  BY SendingOne
<1>6. \A r \in Temps(rest) : log[id] # r.anchor /\ r \in s.rows
  BY <1>2 DEF Temps, Sending
<1>7. rest # s.rows => id \notin Ids(s.rows)
  <2> SUFFICES ASSUME NEW r \in Sending(s, a), NEW q \in s.rows, q.id = id
               PROVE  FALSE
    BY DEF Ids
  <2> QED
    BY <1>2, <1>5 DEF Expected, Neat, Apart
<1>8. rest \in SUBSET s.rows /\ rest \in SUBSET Rows
  BY <1>2
<1>9. rest # s.rows => Sending(s, a) \cap s.rows # {}
  OBVIOUS
<1>10. rest # s.rows => Fits(rest \cup {e})
  BY <1>9, SwapFits DEF Expected
<1> HIDE DEF e, rest, id
<1>11. Neat(rest)
  BY <1>2, <1>8, SubsetNeat DEF Expected
<1>12. ASSUME id \notin Ids(rest), NEW x \in Rows, x.id = id, x.at = id
       PROVE  Neat(rest \cup {x}) /\ \A r \in Temps(rest \cup {x}) : r \in s.rows
  <2>1. IsFiniteSet({x}) /\ {x} \in SUBSET Rows
    BY <1>12, FS_Singleton
  <2>2. x.id <= Len(log)
    BY <1>2, <1>12
  <2>3. Neat(rest \cup {x})
    BY <1>2, <1>6, <1>8, <1>11, <1>12, <2>1, <2>2, JoinNeat
  <2>4. \A r \in Temps(rest \cup {x}) : r \in s.rows
    BY <1>2, <1>6, <1>12 DEF Temps
  <2> QED
    BY <2>3, <2>4
<1>13. /\ rows \in SUBSET Rows /\ Neat(rows) /\ Fits(rows)
       /\ \A r \in Temps(rows) : r \in s.rows
  <2>1. CASE rest # s.rows
    <3>1. id \notin Ids(rest)
      BY <1>7, <1>8, <2>1 DEF Ids
    <3>2. rows = rest \cup {e}
      BY <2>1
    <3> HIDE DEF rows
    <3> QED
      BY <1>4, <1>8, <1>10, <1>12, <2>1, <3>1, <3>2
  <2>2. CASE rest = s.rows /\ (Detached(s) \/ id \in Ids(rest))
    <3>1. rows = rest
      BY <2>2
    <3> HIDE DEF rows
    <3> QED
      BY <1>6, <1>8, <1>11, <2>2, <3>1 DEF Expected
  <2>3. CASE rest = s.rows /\ ~(Detached(s) \/ id \in Ids(rest))
    <3>1. rows = KeepNewest(rest \cup {Row(id)})
      BY <2>3
    <3>2. /\ rest \cup {Row(id)} \in SUBSET Rows
          /\ Neat(rest \cup {Row(id)})
          /\ \A r \in Temps(rest \cup {Row(id)}) : r \in s.rows
      BY <1>3, <1>8, <1>12, <2>3
    <3> DEFINE all == rest \cup {Row(id)}
    <3> HIDE DEF rows, all
    <3>3. /\ Neat(rows) /\ Fits(rows) /\ rows \subseteq all
      BY <3>1, <3>2, Kept, TrimFits DEF all
    <3>4. \A r \in Temps(rows) : r \in s.rows
      BY <3>2, <3>3 DEF Temps, all
    <3> QED
      BY <3>2, <3>3, <3>4 DEF all
  <2> QED
    BY <2>1, <2>2, <2>3
<1> HIDE DEF rows
<1>14. /\ told \in Stores
       /\ told.rows = rows \/ told.rows = s.rows
       /\ told.asks = s.asks /\ told.gen = s.gen /\ told.latest = s.latest
  BY <1>2, <1>13 DEF Stores
<1> HIDE DEF told
<1>15. /\ Neat(told.rows) /\ Fits(told.rows)
       /\ \A r \in Temps(told.rows) : r \in s.rows
  BY <1>13, <1>14 DEF Expected, Temps
<1>16. Outcome(s, told, a)
  BY <1>2, <1>14, <1>15, RowsOutcome
<1>17. Outcome(s, ToPresent(told), a)
  BY <1>2, <1>14, <1>16, ToPresentCalm, OutcomeCalm
<1> QED
  BY <1>1, <1>16, <1>17

LEMMA RejectOutcome ==
  ASSUME NEW s, NEW a, Expected(s, a), IsSend(a)
  PROVE  Outcome(s, Reject(s, a), a)
<1> DEFINE rest == s.rows \ Sending(s, a)
           marked == {[r EXCEPT !.failed = TRUE] : r \in Sending(s, a)}
           rows == IF a.denied THEN rest ELSE rest \cup marked
           t == [s EXCEPT !.rows = rows]
<1>1. Reject(s, a) = t
  BY DEF Reject
<1>2. /\ s.rows \in SUBSET Rows /\ s \in Stores
      /\ Neat(s.rows) /\ Fits(s.rows) /\ IsFiniteSet(s.rows)
  BY DEF Expected, Stores, Fits
<1>3. /\ Sending(s, a) \subseteq Temps(s.rows)
      /\ \A r, q \in Sending(s, a) : r = q
      /\ \A r \in Sending(s, a) : ~r.failed /\ r.anchor = a.at
  BY SendingOne
<1>4. rest \in SUBSET s.rows /\ rest \in SUBSET Rows
  BY <1>2
<1>5. Neat(rest)
  BY <1>2, <1>4, SubsetNeat
<1>6. Fits(rest)
  <2>1. Cardinality(rest) <= Cardinality(s.rows) /\ IsFiniteSet(rest)
    BY <1>2, <1>4, FS_Subset
  <2>2. Cardinality(rest) \in Nat /\ Cardinality(s.rows) \in Nat /\ Cap \in Nat
    BY <1>2, <2>1, FS_CardinalityType, TimelineAssumption
  <2>3. Cardinality(s.rows) <= Cap
    BY <1>2 DEF Fits
  <2> HIDE DEF rest
  <2>4. Cardinality(rest) <= Cap
    BY <2>1, <2>2, <2>3
  <2> QED
    BY <2>1, <2>4 DEF Fits
<1>7. CASE Sending(s, a) = {}
  <2>1. rows = s.rows
    BY <1>7
  <2> HIDE DEF rows
  <2>2. t = s
    BY <1>2, <2>1 DEF Stores
  <2> QED
    BY <1>1, <1>2, <2>2, StillCalm, NothingNew
<1>8. CASE Sending(s, a) # {}
  <2>1. PICK r \in Sending(s, a) : Sending(s, a) = {r}
    BY <1>3, <1>8
  <2> DEFINE f == [r EXCEPT !.failed = TRUE]
  <2>2. /\ r \in Temps(s.rows) /\ r \in Rows /\ r.id = None /\ r \in s.rows
        /\ ~r.failed /\ r.anchor = a.at
    BY <1>2, <1>3 DEF Temps
  <2>3. /\ f \in Rows /\ f.id = None /\ f.at = r.at /\ f.anchor = r.anchor
        /\ f.failed
    BY <2>2 DEF Rows
  <2>4. marked = {f}
    BY <2>1
  <2> HIDE DEF f, marked
  <2>5. Sending(s, a) \cap s.rows # {}
    BY <2>1, <2>2
  <2>6. Fits(rest \cup {f})
    BY <1>2, <2>5, SwapFits
  <2>7. rest = s.rows \ {r}
    BY <2>1
  <2> HIDE DEF rest
  <2>8. Temps(rest \cup {f}) = Temps(rest) \cup {f}
        /\ Temps(rest) = Temps(s.rows) \ {r}
    BY <2>3, <2>7 DEF Temps
  <2>9. Lined(rest \cup {f})
    <3>1. IsFiniteSet(rest \cup {f})
      BY <2>6 DEF Fits
    <3>2. \A x \in rest \cup {f} : x.id # None => x.at = x.id
      BY <2>3, <1>5 DEF Neat, Lined
    <3>3. \A x, y \in rest \cup {f} : x.id # None /\ x.id = y.id => x = y
      BY <2>3, <1>5 DEF Neat, Lined
    <3>4. \A x, y \in Temps(s.rows) :
            x.anchor <= y.anchor => x.at <= y.at /\ (x.anchor = y.anchor => x = y)
      BY <1>2 DEF Neat, Lined
    <3>5. r.at \in Nat /\ \A x \in Temps(s.rows) : x.anchor \in Nat
      BY <1>2, <2>2 DEF Neat, Logged, Rows, Messages, Sends
    <3>6. \A x, y \in Temps(rest \cup {f}) :
            x.anchor <= y.anchor => x.at <= y.at /\ (x.anchor = y.anchor => x = y)
      <4> SUFFICES ASSUME NEW x \in Temps(rest \cup {f}),
                          NEW y \in Temps(rest \cup {f}),
                          x.anchor <= y.anchor
                   PROVE  x.at <= y.at /\ (x.anchor = y.anchor => x = y)
        OBVIOUS
      <4>1. CASE x = f /\ y = f
        BY <2>3, <3>5, <4>1
      <4>2. CASE x = f /\ y \in Temps(rest)
        BY <2>2, <2>3, <2>8, <3>4, <4>2
      <4>3. CASE x \in Temps(rest) /\ y = f
        BY <2>2, <2>3, <2>8, <3>4, <4>3
      <4>4. CASE x \in Temps(rest) /\ y \in Temps(rest)
        BY <2>8, <3>4, <4>4
      <4> QED
        BY <2>8, <4>1, <4>2, <4>3, <4>4
    <3> QED
      BY <3>1, <3>2, <3>3, <3>6 DEF Lined
  <2>10. Logged(rest \cup {f})
    <3>1. \A x \in s.rows : x.at <= Len(log)
      BY <1>2 DEF Neat, Logged
    <3>2. \A x \in Temps(s.rows) : x.anchor \in Sends
      BY <1>2 DEF Neat, Logged
    <3> QED
      BY <2>2, <2>3, <2>7, <2>8, <3>1, <3>2 DEF Logged
  <2>11. Apart(rest \cup {f})
    <3>1. \A x \in Temps(rest), q \in rest :
            ~x.failed /\ q.id # None => log[q.id] # x.anchor
      BY <1>5 DEF Neat, Apart
    <3> QED
      BY <2>3, <2>8, <3>1 DEF Apart
  <2>12. /\ Neat(rows) /\ Fits(rows) /\ rows \in SUBSET Rows
         /\ \A x \in Temps(rows) :
               x \in s.rows \/ (x.failed /\ IsSend(a) /\ x.anchor = a.at)
    <3>1. CASE a.denied
      BY <1>4, <1>5, <1>6, <2>7, <3>1 DEF Temps
    <3>2. CASE ~a.denied
      <4>1. rows = rest \cup {f}
        BY <2>4, <3>2
      <4> HIDE DEF rows
      <4>2. \A x \in Temps(rest \cup {f}) :
               x \in s.rows \/ (x.failed /\ IsSend(a) /\ x.anchor = a.at)
        BY <2>2, <2>3, <2>8 DEF Temps
      <4> QED
        BY <1>4, <2>3, <2>6, <2>9, <2>10, <2>11, <4>1, <4>2 DEF Neat
    <3> QED
      BY <3>1, <3>2
  <2> HIDE DEF rows
  <2>13. /\ t \in Stores /\ t.rows = rows
         /\ t.asks = s.asks /\ t.gen = s.gen /\ t.latest = s.latest
    BY <1>2, <2>12 DEF Stores
  <2> HIDE DEF t
  <2> QED
    BY <1>1, <1>2, <2>12, <2>13, RowsOutcome
<1> QED
  BY <1>7, <1>8

LEMMA HandledOutcome ==
  ASSUME NEW s, NEW a, Expected(s, a)
  PROVE  Outcome(s, Handled(s, a), a)
<1>1. /\ a.kind \in {"page", "older", "newer", "around", "send", "event", "seed",
                     "join", "clan"} /\ a.ok \in BOOLEAN
      /\ s \in Stores
  BY DEF Expected, Answers, Kinds, Fetches, Joins
<1>2. CASE a.kind = "page"
  BY <1>2, PageOutcome DEF Handled
<1>3. CASE a.kind = "older"
  BY <1>3, OlderOutcome DEF Handled
<1>4. CASE a.kind = "newer"
  BY <1>4, NewerOutcome DEF Handled
<1>5. CASE a.kind = "around"
  BY <1>5, AroundOutcome DEF Handled
<1>6. CASE a.kind = "send"
  BY <1>1, <1>6, ReconcileOutcome, RejectOutcome DEF Handled, IsSend
<1>7. Outcome(s, s, a)
  BY <1>1, StillCalm, NothingNew
<1>8. CASE a.kind = "event"
  BY <1>7, <1>8, EventOutcome DEF Handled
<1>9. CASE a.kind = "seed"
  <2> DEFINE t == [s EXCEPT !.last = Max(a.page)]
  <2>1. Handled(s, a) = IF a.ok THEN t ELSE s
    BY <1>9 DEF Handled
  <2>2. a.ok => Max(a.page) \in Messages
    BY <1>9, MaxOfOne DEF Expected, Single
  <2>3. a.ok => /\ t \in Stores /\ t.rows = s.rows
                /\ t.asks = s.asks /\ t.gen = s.gen /\ t.latest = s.latest
    BY <1>1, <2>2 DEF Stores
  <2> HIDE DEF t
  <2>4. a.ok => Outcome(s, t, a)
    BY <1>1, <2>3, MildChange, NothingNew DEF Calm
  <2> QED
    BY <1>1, <1>7, <2>1, <2>4
<1>10. CASE a.kind = "join"
  <2> DEFINE t == [s EXCEPT !.joined = FALSE]
  <2>1. Handled(s, a) = IF a.ok THEN s ELSE t
    BY <1>10 DEF Handled
  <2>2. /\ t \in Stores /\ t.rows = s.rows
        /\ t.asks = s.asks /\ t.gen = s.gen /\ t.latest = s.latest
    BY <1>1 DEF Stores
  <2> HIDE DEF t
  <2>3. Outcome(s, t, a)
    BY <1>1, <2>2, MildChange, NothingNew DEF Calm
  <2> QED
    BY <1>1, <1>7, <2>1, <2>3
<1>11. CASE a.kind = "clan"
  BY <1>7, <1>11 DEF Handled
<1> QED
  BY <1>1, <1>2, <1>3, <1>4, <1>5, <1>6, <1>8, <1>9, <1>10, <1>11

-----------------------------------------------------------------------------
(* The order of what is under way.                                         *)

\* The answer a comes before the answer to the send n: it brings no later send.
Before(lg, a, n) ==
    /\ \A i \in a.page : lg[i] < n
    /\ a.kind = "event" => lg[a.at] <= n

\* Sends are served and answered in the order they were made.
SendsInTurn ==
    /\ \A k \in 1 .. Len(answers) : IsSend(answers[k]) =>
          /\ answers[k].at <= sends
          /\ \A j \in 1 .. Len(answers) :
                j < k /\ IsSend(answers[j]) => answers[j].at < answers[k].at
    /\ \A k \in 1 .. Len(store.asks) : IsSend(store.asks[k]) =>
          /\ store.asks[k].at <= sends
          /\ \A j \in 1 .. Len(store.asks) :
                j < k /\ IsSend(store.asks[j]) => store.asks[j].at < store.asks[k].at
          /\ \A j \in 1 .. Len(answers) :
                IsSend(answers[j]) => answers[j].at < store.asks[k].at

\* What is in the log was sent before what waits to be.
LogBefore ==
    \A i \in 1 .. Len(log) :
        /\ log[i] <= sends
        /\ \A k \in 1 .. Len(store.asks) :
              IsSend(store.asks[k]) => log[i] < store.asks[k].at

Told ==
    \A k \in 1 .. Len(answers) :
        /\ Truthful(log, answers[k])
        /\ \A j \in 1 .. Len(answers) :
              k < j /\ IsSend(answers[j]) => Before(log, answers[k], answers[j].at)

\* A row that says its send failed waits for no answer to it.
FailedOver ==
    \A r \in Temps(store.rows) : r.failed =>
        /\ \A k \in 1 .. Len(answers) :
              IsSend(answers[k]) => answers[k].at # r.anchor
        /\ \A k \in 1 .. Len(store.asks) :
              IsSend(store.asks[k]) => store.asks[k].at # r.anchor

InTurn == SendsInTurn /\ LogBefore /\ Told

\* The inductive invariant that adds to IInv what the windows show.
OInv ==
    /\ IInv
    /\ InTurn /\ FailedOver
    /\ Neat(store.rows) /\ Fits(store.rows)
    /\ \A r \in Temps(store.rows) : r.anchor <= sends
    /\ store.latest <= store.gen

LEMMA Lengths ==
  ASSUME Typed
  PROVE  /\ Len(answers) \in Nat /\ Len(store.asks) \in Nat /\ Len(log) \in Nat
         /\ \A k \in 1 .. Len(answers) :
               answers[k] \in Answers /\ answers[k].at \in Nat
         /\ \A k \in 1 .. Len(store.asks) :
               store.asks[k] \in Asks /\ store.asks[k].at \in Nat
         /\ \A i \in 1 .. Len(log) : log[i] \in Nat
         /\ sends \in Nat
         /\ Range(answers) = {answers[k] : k \in 1 .. Len(answers)}
         /\ Range(store.asks) = {store.asks[k] : k \in 1 .. Len(store.asks)}
<1>1. /\ answers \in Seq(Answers)
      /\ store.asks \in Seq(Asks)
      /\ log \in Seq(Sends \cup {0})
  BY DEF Typed, Stores
<1>2. /\ Len(answers) \in Nat /\ Len(store.asks) \in Nat /\ Len(log) \in Nat
      /\ \A k \in 1 .. Len(answers) : answers[k] \in Answers
      /\ \A k \in 1 .. Len(store.asks) : store.asks[k] \in Asks
  BY <1>1, LenProperties, ElementOfSeq
<1>3. /\ \A k \in 1 .. Len(answers) : answers[k].at \in Nat
      /\ \A k \in 1 .. Len(store.asks) : store.asks[k].at \in Nat
  BY <1>2 DEF Answers, Asks
<1>4. sends \in Nat
  BY TimelineAssumption DEF Typed
<1> QED
  BY <1>1, <1>2, <1>3, <1>4, LogRange, SetOfSeq

\* What comes first is what the store can take in.
LEMMA HeadExpected ==
  ASSUME OInv, 1 \in 1 .. Len(answers)
  PROVE  Expected(store, answers[1])
<1> DEFINE a == answers[1]
<1>1. Typed /\ Steady(store, Range(answers)) /\ AnswersTold
  BY DEF OInv, IInv
<1>2. /\ a \in Answers /\ a \in Range(answers)
      /\ log \in Seq(Sends \cup {0}) /\ Len(log) \in Messages /\ store \in Stores
  BY <1>1, Lengths DEF Typed
<1>3. Named(a) /\ Single(a)
  BY <1>1, <1>2 DEF AnswersTold
<1>4. Truthful(log, a)
  BY DEF OInv, InTurn, Told
<1>5. Timely(store, a)
  <2> SUFFICES ASSUME NEW r \in Temps(store.rows)
               PROVE  /\ r.failed /\ IsSend(a) => r.anchor # a.at
                      /\ ~r.failed /\ ~IsSend(a) => \A i \in a.page : log[i] < r.anchor
                      /\ ~r.failed /\ a.kind = "event" => log[a.at] <= r.anchor
    BY DEF Timely
  <2>1. CASE r.failed
    BY <2>1 DEF OInv, FailedOver
  <2>2. CASE ~r.failed /\ ~IsSend(a)
    <3>1. PICK x \in Range(store.asks) \cup Range(answers) :
            x.kind = "send" /\ x.at = r.anchor
      BY <1>1, <2>2 DEF Steady, SendsDue, Due
    <3>2. ASSUME NEW k \in 1 .. Len(store.asks), x = store.asks[k]
          PROVE  \A i \in 1 .. Len(log) : log[i] < r.anchor
      BY <3>1, <3>2 DEF OInv, InTurn, LogBefore, IsSend
    <3>3. ASSUME NEW k \in 1 .. Len(answers), x = answers[k]
          PROVE  Before(log, a, r.anchor)
      <4>1. 1 < k
        BY <2>2, <3>1, <3>3 DEF IsSend
      <4> QED
        BY <3>1, <3>3, <4>1 DEF OInv, InTurn, Told, IsSend
    <3>4. x \in Range(answers) => Before(log, a, r.anchor)
      BY <1>1, <3>3, Lengths
    <3>5. x \in Range(store.asks) => Before(log, a, r.anchor)
      <4>1. x \in Range(store.asks) => \A i \in 1 .. Len(log) : log[i] < r.anchor
        BY <1>1, <3>2, Lengths
      <4>2. r.anchor \in Nat
        BY DEF OInv, Neat, Logged, Sends
      <4>3. \A i \in 1 .. Len(log) : log[i] \in Nat
        BY <1>1, Lengths
      <4> QED
        BY <1>4, <4>1, <4>2, <4>3 DEF Before, Truthful
    <3> QED
      BY <2>2, <3>1, <3>4, <3>5 DEF Before
  <2>3. CASE ~r.failed /\ IsSend(a)
    BY <2>3 DEF IsSend
  <2> QED
    BY <2>1, <2>2, <2>3
<1> QED
  BY <1>2, <1>3, <1>4, <1>5 DEF Expected, OInv

\* The answers left, or lost, and a longer list of requests.
LEMMA TurnKept ==
  ASSUME Typed, InTurn, log' = log, sends' \in {sends, sends + 1},
         NEW d \in {0, 1}, Len(answers') = Len(answers) - d,
         \A k \in 1 .. Len(answers') :
            /\ answers'[k].kind = answers[k + d].kind
            /\ answers'[k].at = answers[k + d].at
            /\ answers'[k].page \in {answers[k + d].page, {}},
         Len(store'.asks) \in Nat, Len(store.asks) <= Len(store'.asks),
         \A k \in 1 .. Len(store.asks) : store'.asks[k] = store.asks[k],
         \A k \in Len(store.asks) + 1 .. Len(store'.asks) :
            IsSend(store'.asks[k]) => /\ sends' = sends + 1
                                      /\ store'.asks[k].at = sends'
                                      /\ k = Len(store.asks) + 1
  PROVE  InTurn'
<1>1. PICK m \in Nat, n \in Nat, m1 \in Nat, n1 \in Nat :
        /\ m = Len(answers) /\ n = Len(store.asks)
        /\ m1 = Len(answers') /\ n1 = Len(store'.asks)
  <2>1. Len(answers) \in Nat /\ Len(store.asks) \in Nat /\ Len(answers) - d \in Nat
    <3>1. Len(answers') \in Nat \/ Len(answers) = 0
      BY Lengths
    <3> QED
      BY <3>1, Lengths
  <2> QED
    BY <2>1
<1>2. \A k \in 1 .. m1 : k + d \in 1 .. m
  BY <1>1
<1>3. \A k \in 1 .. n1 : k \in 1 .. n \/ k \in n + 1 .. n1
  BY <1>1
<1>4. \A k \in 1 .. m1 : IsSend(answers'[k]) <=> IsSend(answers[k + d])
  BY <1>1 DEF IsSend
<1>5. /\ \A k \in 1 .. m : answers[k].at \in Nat
      /\ \A k \in 1 .. n : store.asks[k].at \in Nat
      /\ sends \in Nat
      /\ \A i \in 1 .. Len(log) : log[i] \in Nat
  BY <1>1, Lengths
<1>6. SendsInTurn'
  <2>1. ASSUME NEW k \in 1 .. m1, IsSend(answers'[k])
        PROVE  /\ answers'[k].at <= sends'
               /\ \A j \in 1 .. m1 :
                     j < k /\ IsSend(answers'[j]) => answers'[j].at < answers'[k].at
    <3>1. /\ k + d \in 1 .. m
          /\ IsSend(answers[k + d])
          /\ answers'[k].at = answers[k + d].at
      BY <1>1, <1>2, <1>4, <2>1
    <3>2. answers[k + d].at <= sends
      BY <1>1, <3>1 DEF InTurn, SendsInTurn
    <3>3. ASSUME NEW j \in 1 .. m1, j < k, IsSend(answers'[j])
          PROVE  answers'[j].at < answers'[k].at
      <4>1. /\ j + d \in 1 .. m
            /\ IsSend(answers[j + d])
            /\ answers'[j].at = answers[j + d].at
        BY <1>1, <1>2, <1>4, <3>3
      <4>2. j + d < k + d
        BY <3>3
      <4> QED
        BY <1>1, <3>1, <4>1, <4>2 DEF InTurn, SendsInTurn
    <3> QED
      BY <1>5, <3>1, <3>2, <3>3
  <2>2. ASSUME NEW k \in 1 .. n1, IsSend(store'.asks[k])
        PROVE  /\ store'.asks[k].at <= sends'
               /\ \A j \in 1 .. n1 :
                     j < k /\ IsSend(store'.asks[j]) =>
                           store'.asks[j].at < store'.asks[k].at
               /\ \A j \in 1 .. m1 :
                     IsSend(answers'[j]) => answers'[j].at < store'.asks[k].at
    <3>1. CASE k \in 1 .. n
      <4>1. store'.asks[k] = store.asks[k]
        BY <1>1, <3>1
      <4>2. ASSUME NEW j \in 1 .. n1, j < k, IsSend(store'.asks[j])
            PROVE  store'.asks[j].at < store'.asks[k].at
        <5>1. j \in 1 .. n
          BY <3>1, <4>2
        <5>2. store'.asks[j] = store.asks[j]
          BY <1>1, <5>1
        <5> QED
          BY <1>1, <2>2, <3>1, <4>1, <4>2, <5>1, <5>2 DEF InTurn, SendsInTurn
      <4>3. ASSUME NEW j \in 1 .. m1, IsSend(answers'[j])
            PROVE  answers'[j].at < store'.asks[k].at
        BY <1>1, <1>2, <1>4, <2>2, <3>1, <4>1, <4>3 DEF InTurn, SendsInTurn
      <4>4. store.asks[k].at <= sends
        BY <1>1, <2>2, <3>1, <4>1 DEF InTurn, SendsInTurn
      <4> QED
        BY <1>5, <3>1, <4>1, <4>2, <4>3, <4>4
    <3>2. CASE k \in n + 1 .. n1
      <4>1. sends' = sends + 1 /\ store'.asks[k].at = sends' /\ k = n + 1
        BY <1>1, <2>2, <3>2
      <4>2. ASSUME NEW j \in 1 .. n1, j < k, IsSend(store'.asks[j])
            PROVE  store'.asks[j].at < store'.asks[k].at
        <5>1. j \in 1 .. n
          BY <1>1, <4>1, <4>2
        <5>2. store'.asks[j] = store.asks[j]
          BY <1>1, <5>1
        <5>3. store.asks[j].at <= sends
          BY <1>1, <4>2, <5>1, <5>2 DEF InTurn, SendsInTurn
        <5> QED
          BY <1>5, <4>1, <5>1, <5>2, <5>3
      <4>3. ASSUME NEW j \in 1 .. m1, IsSend(answers'[j])
            PROVE  answers'[j].at < store'.asks[k].at
        <5>1. /\ j + d \in 1 .. m
              /\ IsSend(answers[j + d])
              /\ answers'[j].at = answers[j + d].at
          BY <1>1, <1>2, <1>4, <4>3
        <5>2. answers[j + d].at <= sends
          BY <1>1, <5>1 DEF InTurn, SendsInTurn
        <5> QED
          BY <1>5, <4>1, <5>1, <5>2
      <4> QED
        BY <1>5, <4>1, <4>2, <4>3
    <3> QED
      BY <1>3, <3>1, <3>2
  <2> QED
    BY <1>1, <2>1, <2>2 DEF SendsInTurn
<1>7. LogBefore'
  <2> SUFFICES ASSUME NEW i \in 1 .. Len(log)
               PROVE  /\ log[i] <= sends'
                      /\ \A k \in 1 .. n1 :
                            IsSend(store'.asks[k]) => log[i] < store'.asks[k].at
    BY <1>1 DEF LogBefore
  <2>1. log[i] <= sends /\ log[i] \in Nat
    BY <1>5 DEF InTurn, LogBefore
  <2>2. ASSUME NEW k \in 1 .. n1, IsSend(store'.asks[k])
        PROVE  log[i] < store'.asks[k].at
    <3>1. CASE k \in 1 .. n
      <4>1. store'.asks[k] = store.asks[k]
        BY <1>1, <3>1
      <4> QED
        BY <1>1, <2>2, <3>1, <4>1 DEF InTurn, LogBefore
    <3>2. CASE k \in n + 1 .. n1
      <4>1. sends' = sends + 1 /\ store'.asks[k].at = sends'
        BY <1>1, <2>2, <3>2
      <4> QED
        BY <1>5, <2>1, <4>1
    <3> QED
      BY <1>3, <3>1, <3>2
  <2> QED
    BY <1>5, <2>1, <2>2
<1>8. Told'
  <2> SUFFICES ASSUME NEW k \in 1 .. m1
               PROVE  /\ Truthful(log, answers'[k])
                      /\ \A j \in 1 .. m1 :
                            k < j /\ IsSend(answers'[j])
                               => Before(log, answers'[k], answers'[j].at)
    BY <1>1 DEF Told
  <2>1. /\ k + d \in 1 .. m
        /\ answers'[k].kind = answers[k + d].kind
        /\ answers'[k].at = answers[k + d].at
        /\ answers'[k].page \subseteq answers[k + d].page
    BY <1>1, <1>2
  <2>2. Truthful(log, answers[k + d])
    BY <1>1, <2>1 DEF InTurn, Told
  <2>3. Truthful(log, answers'[k])
    BY <2>1, <2>2 DEF Truthful, IsSend
  <2>4. ASSUME NEW j \in 1 .. m1, k < j, IsSend(answers'[j])
        PROVE  Before(log, answers'[k], answers'[j].at)
    <3>1. /\ j + d \in 1 .. m /\ k + d < j + d
          /\ IsSend(answers[j + d]) /\ answers'[j].at = answers[j + d].at
      BY <1>1, <1>2, <1>4, <2>4
    <3>2. Before(log, answers[k + d], answers[j + d].at)
      BY <1>1, <2>1, <3>1 DEF InTurn, Told
    <3> QED
      BY <2>1, <3>1, <3>2 DEF Before
  <2> QED
    BY <2>3, <2>4
<1> QED
  BY <1>6, <1>7, <1>8 DEF InTurn

\* A request that is served, and what the server says to that.
LEMMA TurnServed ==
  ASSUME Typed, InTurn, sends' = sends,
         NEW d \in {0, 1}, Len(store.asks) - d \in Nat,
         Len(store'.asks) = Len(store.asks) - d,
         \A k \in 1 .. Len(store'.asks) : store'.asks[k] = store.asks[k + d],
         Len(answers') \in Nat, Len(answers) <= Len(answers'),
         \A k \in 1 .. Len(answers) : answers'[k] = answers[k],
         Len(log') \in Nat, Len(log) <= Len(log'),
         \A i \in 1 .. Len(log) : log'[i] = log[i],
         \A i \in Len(log) + 1 .. Len(log') :
            \/ log'[i] = 0
            \/ d = 1 /\ IsSend(store.asks[1]) /\ log'[i] = store.asks[1].at,
         \A k \in Len(answers) + 1 .. Len(answers') :
            /\ Truthful(log', answers'[k])
            /\ IsSend(answers'[k]) =>
                  /\ d = 1 /\ IsSend(store.asks[1]) /\ answers'[k].at = store.asks[1].at
                  /\ \A j \in Len(answers) + 1 .. Len(answers') :
                        j < k =>
                              /\ ~IsSend(answers'[j])
                              /\ Before(log', answers'[j], answers'[k].at)
  PROVE  InTurn'
<1>1. PICK m \in Nat, n \in Nat, m1 \in Nat, n1 \in Nat, l \in Nat, l1 \in Nat :
        /\ m = Len(answers) /\ n = Len(store.asks) /\ l = Len(log)
        /\ m1 = Len(answers') /\ n1 = Len(store'.asks) /\ l1 = Len(log')
  BY Lengths
<1>2. \A k \in 1 .. n1 : k + d \in 1 .. n /\ (d = 1 => 1 < k + d /\ 1 \in 1 .. n)
  BY <1>1
<1>3. /\ \A k \in 1 .. m1 : k \in 1 .. m \/ k \in m + 1 .. m1
      /\ \A i \in 1 .. l1 : i \in 1 .. l \/ i \in l + 1 .. l1
      /\ 1 .. m \subseteq 1 .. m1 /\ 1 .. l \subseteq 1 .. l1
  BY <1>1
<1>4. /\ \A k \in 1 .. m : answers[k].at \in Nat
      /\ \A k \in 1 .. n : store.asks[k].at \in Nat
      /\ sends \in Nat
      /\ \A i \in 1 .. l : log[i] \in Nat
  BY <1>1, Lengths
<1>5. \A k \in 1 .. n1 : IsSend(store'.asks[k]) =>
        /\ IsSend(store.asks[k + d]) /\ store'.asks[k].at = store.asks[k + d].at
        /\ k + d \in 1 .. n
  BY <1>1, <1>2
<1>6. d = 1 /\ IsSend(store.asks[1]) =>
        /\ 1 \in 1 .. n
        /\ store.asks[1].at <= sends
        /\ \A k \in 1 .. m : IsSend(answers[k]) => answers[k].at < store.asks[1].at
        /\ \A i \in 1 .. l : log[i] < store.asks[1].at
        /\ \A k \in 1 .. n : 1 < k /\ IsSend(store.asks[k]) =>
                 store.asks[1].at < store.asks[k].at
  <2>1. d = 1 => 1 \in 1 .. n
    BY <1>1
  <2> QED
    BY <1>1, <2>1 DEF InTurn, SendsInTurn, LogBefore
<1>7. SendsInTurn'
  <2>1. ASSUME NEW k \in 1 .. m1, IsSend(answers'[k])
        PROVE  /\ answers'[k].at <= sends
               /\ \A j \in 1 .. m1 :
                     j < k /\ IsSend(answers'[j]) => answers'[j].at < answers'[k].at
    <3>1. CASE k \in 1 .. m
      <4>1. answers'[k] = answers[k]
        BY <1>1, <3>1
      <4>2. \A j \in 1 .. m1 : j < k => j \in 1 .. m /\ answers'[j] = answers[j]
        BY <1>1, <3>1
      <4> QED
        BY <1>1, <2>1, <3>1, <4>1, <4>2 DEF InTurn, SendsInTurn
    <3>2. CASE k \in m + 1 .. m1
      <4>1. /\ d = 1 /\ IsSend(store.asks[1]) /\ answers'[k].at = store.asks[1].at
            /\ \A j \in m + 1 .. m1 : j < k => ~IsSend(answers'[j])
        BY <1>1, <2>1, <3>2
      <4>2. ASSUME NEW j \in 1 .. m1, j < k, IsSend(answers'[j])
            PROVE  answers'[j].at < answers'[k].at
        <5>1. j \in 1 .. m
          BY <1>3, <4>1, <4>2
        <5>2. answers'[j] = answers[j]
          BY <1>1, <5>1
        <5> QED
          BY <1>6, <4>1, <4>2, <5>1, <5>2
      <4> QED
        BY <1>6, <4>1, <4>2
    <3> QED
      BY <1>3, <3>1, <3>2
  <2>2. ASSUME NEW k \in 1 .. n1, IsSend(store'.asks[k])
        PROVE  /\ store'.asks[k].at <= sends
               /\ \A j \in 1 .. n1 :
                     j < k /\ IsSend(store'.asks[j]) =>
                           store'.asks[j].at < store'.asks[k].at
               /\ \A j \in 1 .. m1 :
                     IsSend(answers'[j]) => answers'[j].at < store'.asks[k].at
    <3>1. /\ IsSend(store.asks[k + d])
          /\ store'.asks[k].at = store.asks[k + d].at
          /\ k + d \in 1 .. n
      BY <1>5, <2>2
    <3>2. store.asks[k + d].at <= sends
      BY <1>1, <3>1 DEF InTurn, SendsInTurn
    <3>3. ASSUME NEW j \in 1 .. n1, j < k, IsSend(store'.asks[j])
          PROVE  store'.asks[j].at < store'.asks[k].at
      <4>1. /\ IsSend(store.asks[j + d])
            /\ store'.asks[j].at = store.asks[j + d].at
            /\ j + d \in 1 .. n
        BY <1>5, <3>3
      <4>2. j + d < k + d
        BY <3>3
      <4> QED
        BY <1>1, <3>1, <4>1, <4>2 DEF InTurn, SendsInTurn
    <3>4. ASSUME NEW j \in 1 .. m1, IsSend(answers'[j])
          PROVE  answers'[j].at < store'.asks[k].at
      <4>1. CASE j \in 1 .. m
        <5>1. answers'[j] = answers[j]
          BY <1>1, <4>1
        <5> QED
          BY <1>1, <3>1, <3>4, <4>1, <5>1 DEF InTurn, SendsInTurn
      <4>2. CASE j \in m + 1 .. m1
        <5>1. d = 1 /\ IsSend(store.asks[1]) /\ answers'[j].at = store.asks[1].at
          BY <1>1, <3>4, <4>2
        <5>2. 1 < k + d
          BY <1>2, <5>1
        <5> QED
          BY <1>6, <3>1, <5>1, <5>2
      <4> QED
        BY <1>3, <4>1, <4>2
    <3> QED
      BY <3>1, <3>2, <3>3, <3>4
  <2> QED
    BY <1>1, <2>1, <2>2 DEF SendsInTurn
<1>8. \A i \in 1 .. l1 :
        \/ i \in 1 .. l /\ log'[i] = log[i]
        \/ log'[i] = 0
        \/ d = 1 /\ IsSend(store.asks[1]) /\ log'[i] = store.asks[1].at
  BY <1>1, <1>3
<1>9. LogBefore'
  <2> SUFFICES ASSUME NEW i \in 1 .. l1
               PROVE  /\ log'[i] <= sends
                      /\ \A k \in 1 .. n1 :
                            IsSend(store'.asks[k]) => log'[i] < store'.asks[k].at
    BY <1>1 DEF LogBefore
  <2>1. CASE i \in 1 .. l /\ log'[i] = log[i]
    BY <1>1, <1>5, <2>1 DEF InTurn, LogBefore
  <2>2. CASE log'[i] = 0
    <3>1. \A k \in 1 .. n1 : IsSend(store'.asks[k]) => 0 < store'.asks[k].at
      <4> SUFFICES ASSUME NEW k \in 1 .. n1, IsSend(store'.asks[k])
                   PROVE  0 < store'.asks[k].at
        OBVIOUS
      <4>1. /\ IsSend(store.asks[k + d])
            /\ store'.asks[k].at = store.asks[k + d].at
            /\ k + d \in 1 .. n
        BY <1>5
      <4>2. 1 \in 1 .. l /\ log[1] \in Nat
        BY <1>1, <1>4 DEF Typed, Messages
      <4>3. log[1] < store.asks[k + d].at
        BY <1>1, <4>1, <4>2 DEF InTurn, LogBefore
      <4> QED
        BY <1>4, <4>1, <4>2, <4>3
    <3> QED
      BY <1>4, <2>2, <3>1
  <2>3. CASE d = 1 /\ IsSend(store.asks[1]) /\ log'[i] = store.asks[1].at
    BY <1>2, <1>5, <1>6, <2>3
  <2> QED
    BY <1>8, <2>1, <2>2, <2>3
<1>10. Told'
  <2> SUFFICES ASSUME NEW k \in 1 .. m1
               PROVE  /\ Truthful(log', answers'[k])
                      /\ \A j \in 1 .. m1 :
                            k < j /\ IsSend(answers'[j])
                               => Before(log', answers'[k], answers'[j].at)
    BY <1>1 DEF Told
  <2>1. CASE k \in m + 1 .. m1
    <3>1. Truthful(log', answers'[k])
      BY <1>1, <2>1
    <3>2. \A j \in 1 .. m1 : k < j => j \in m + 1 .. m1
      BY <2>1
    <3> QED
      BY <1>1, <2>1, <3>1, <3>2
  <2>2. CASE k \in 1 .. m
    <3>1. answers'[k] = answers[k] /\ Truthful(log, answers[k])
      BY <1>1, <2>2 DEF InTurn, Told
    <3>2. /\ answers[k].page \subseteq 1 .. l
          /\ answers[k].kind = "event" => answers[k].at \in 1 .. l
      BY <1>1, <3>1 DEF Truthful
    <3>3. \A i \in 1 .. l : log'[i] = log[i] /\ i \in 1 .. l1
      BY <1>1, <1>3
    <3>4. Truthful(log', answers'[k])
      BY <1>1, <3>1, <3>2, <3>3 DEF Truthful
    <3>5. ASSUME NEW j \in 1 .. m1, k < j, IsSend(answers'[j])
          PROVE  Before(log, answers[k], answers'[j].at)
      <4>1. CASE j \in 1 .. m
        <5>1. answers'[j] = answers[j]
          BY <1>1, <4>1
        <5> QED
          BY <1>1, <2>2, <3>5, <4>1, <5>1 DEF InTurn, Told
      <4>2. CASE j \in m + 1 .. m1
        <5>1. d = 1 /\ IsSend(store.asks[1]) /\ answers'[j].at = store.asks[1].at
          BY <1>1, <3>5, <4>2
        <5>2. \A i \in 1 .. l : log[i] < store.asks[1].at /\ log[i] \in Nat
          BY <1>4, <1>6, <5>1
        <5>3. store.asks[1].at \in Nat
          BY <1>4, <1>6, <5>1
        <5>4. \A i \in answers[k].page : log[i] < store.asks[1].at
          BY <3>2, <5>2
        <5>5. ASSUME answers[k].kind = "event"
              PROVE  log[answers[k].at] <= store.asks[1].at
          <6>1. answers[k].at \in 1 .. l
            BY <3>2, <5>5
          <6>2. /\ log[answers[k].at] < store.asks[1].at
                /\ log[answers[k].at] \in Nat
            BY <5>2, <6>1
          <6> QED
            BY <5>3, <6>2
        <5> QED
          BY <5>1, <5>4, <5>5 DEF Before
      <4> QED
        BY <1>3, <4>1, <4>2
    <3> QED
      BY <3>1, <3>2, <3>3, <3>4, <3>5 DEF Before
  <2> QED
    BY <1>3, <2>1, <2>2
<1> QED
  BY <1>7, <1>9, <1>10 DEF InTurn

-----------------------------------------------------------------------------
(* The steps, when the server keeps the order.                             *)

\* What follows when the first has been taken.
LEMMA FirstGone ==
  ASSUME NEW S, NEW q \in Seq(S), q # <<>> \/ 1 \in DOMAIN q
  PROVE  /\ 1 \in 1 .. Len(q)
         /\ Len(q) - 1 \in Nat
         /\ Len(RemoveAt(q, 1)) = Len(q) - 1
         /\ \A k \in 1 .. Len(RemoveAt(q, 1)) : RemoveAt(q, 1)[k] = q[k + 1]
<1>1. PICK n \in Nat : n = Len(q) /\ DOMAIN q = 1 .. n /\ \A k \in 1 .. n : q[k] \in S
  BY LenProperties, ElementOfSeq
<1>2. n # 0
  <2>1. CASE q # <<>>
    BY <1>1, <2>1, EmptySeq
  <2>2. CASE 1 \in DOMAIN q
    BY <1>1, <2>2
  <2> QED
    BY <2>1, <2>2
<1> DEFINE F == SubSeq(q, 1, 1 - 1)
           B == SubSeq(q, 1 + 1, n)
<1>3. F \in Seq(S) /\ Len(F) = 0
  <2>1. \A k \in 1 .. (1 - 1) : q[k] \in S
    BY <1>1
  <2>2. F \in Seq(S) /\ Len(F) = IF 1 <= 1 - 1 THEN (1 - 1) - 1 + 1 ELSE 0
    BY <2>1, <1>1, SubSeqProperties
  <2> QED
    BY <2>2
<1>4. /\ B \in Seq(S) /\ Len(B) = n - 1
      /\ \A k \in 1 .. n - 1 : B[k] = q[k + 1]
  <2>1. \A k \in (1 + 1) .. n : q[k] \in S
    BY <1>1
  <2>2. /\ B \in Seq(S)
        /\ Len(B) = IF 1 + 1 <= n THEN n - (1 + 1) + 1 ELSE 0
        /\ \A k \in 1 .. n - (1 + 1) + 1 : B[k] = q[(1 + 1) + k - 1]
    BY <2>1, <1>1, SubSeqProperties
  <2>3. \A k \in 1 .. n - 1 :
          k \in 1 .. n - (1 + 1) + 1 /\ (1 + 1) + k - 1 = k + 1
    BY <1>1
  <2>4. Len(B) = n - 1
    BY <2>2, <1>1, <1>2
  <2> QED
    BY <2>2, <2>3, <2>4
<1>5. RemoveAt(q, 1) = F \o B
  BY <1>1 DEF RemoveAt
<1> HIDE DEF F, B
<1>6. /\ Len(F \o B) = n - 1
      /\ \A k \in 1 .. n - 1 : (F \o B)[k] = B[k]
  <2>1. /\ Len(F \o B) = Len(F) + Len(B)
        /\ \A k \in 1 .. Len(F) + Len(B) :
              (F \o B)[k] = IF k <= Len(F) THEN F[k] ELSE B[k - Len(F)]
    BY <1>3, <1>4, ConcatProperties
  <2>2. Len(F) = 0 /\ Len(F) + Len(B) = n - 1
    BY <1>1, <1>3, <1>4
  <2>3. \A k \in 1 .. n - 1 : ~(k <= 0) /\ k - 0 = k
    BY <1>1
  <2> QED
    BY <2>1, <2>2, <2>3
<1> QED
  BY <1>1, <1>2, <1>4, <1>5, <1>6

\* Rows stay true to a log that grows.
LEMMA RowsStay ==
  ASSUME Len(log) \in Nat, Len(log') \in Nat, Len(log) <= Len(log'),
         \A i \in 1 .. Len(log) : log'[i] = log[i],
         store' \in Stores, Neat(store'.rows)
  PROVE  Neat(store.rows)'
<1> DEFINE rows == store'.rows
<1>1. \A r \in rows : r \in Rows
  BY DEF Stores
<1>2. \A r \in rows : /\ r.at \in Nat /\ r.at <= Len(log)
                      /\ r.id # None => r.id = r.at /\ r.at \in 1 .. Len(log)
  BY <1>1 DEF Neat, Lined, Logged, Rows, Messages
<1>3. Lined(store.rows)'
  BY DEF Neat, Lined, Temps
<1>4. Logged(store.rows)'
  <2>1. \A r \in rows : r.at <= Len(log')
    BY <1>2
  <2> QED
    BY <2>1 DEF Neat, Logged, Temps
<1>5. Apart(store.rows)'
  <2>1. \A r \in Temps(rows), q \in rows :
          ~r.failed /\ q.id # None => log[q.id] # r.anchor
    BY DEF Neat, Apart
  <2>2. \A q \in rows : q.id # None => log'[q.id] = log[q.id]
    BY <1>2
  <2>3. \A r \in Temps(rows), q \in rows :
          ~r.failed /\ q.id # None => log'[q.id] # r.anchor
    BY <2>1, <2>2
  <2> QED
    BY <2>3 DEF Apart, Temps
<1> QED
  BY <1>3, <1>4, <1>5 DEF Neat

\* What the store does with the first answer, or of itself (d = 0).
LEMMA StoreStep ==
  ASSUME OInv, IInv', log' = log, sends' = sends,
         NEW d \in {0, 1}, Len(answers') = Len(answers) - d,
         \A k \in 1 .. Len(answers') :
            /\ answers'[k].kind = answers[k + d].kind
            /\ answers'[k].at = answers[k + d].at
            /\ answers'[k].page \in {answers[k + d].page, {}},
         Mild(store, store'), Neat(store'.rows), Fits(store'.rows),
         \A r \in Temps(store'.rows) :
            \/ r \in store.rows
            \/ /\ d = 1 /\ IsSend(answers[1])
               /\ r.failed /\ r.anchor = answers[1].at
  PROVE  OInv'
<1>1. Typed /\ store' \in Stores
  BY DEF OInv, IInv, Mild
<1>2. PICK m \in Nat, n \in Nat, m1 \in Nat, n1 \in Nat :
        /\ m = Len(answers) /\ n = Len(store.asks)
        /\ m1 = Len(answers') /\ n1 = Len(store'.asks)
  <2>1. Typed'
    BY DEF IInv
  <2>2. Len(answers') \in Nat /\ Len(store'.asks) \in Nat
    BY <2>1, LenProperties DEF Typed, Stores
  <2> QED
    BY <1>1, <2>2, Lengths
<1>3. /\ n <= n1
      /\ \A k \in 1 .. n : store'.asks[k] = store.asks[k]
      /\ \A k \in n + 1 .. n1 : ~IsSend(store'.asks[k])
  BY <1>2 DEF Mild
<1>4. InTurn'
  BY <1>1, <1>2, <1>3, TurnKept DEF OInv
<1>5. Neat(store.rows)'
  BY <1>1, Lengths, RowsStay
<1>6. Fits(store.rows)'
  BY DEF Fits
<1>7. store'.latest <= store'.gen
  BY DEF OInv, Mild
<1>8. \A k \in 1 .. m1 : k + d \in 1 .. m /\ answers'[k].at = answers[k + d].at
                         /\ (IsSend(answers'[k]) <=> IsSend(answers[k + d]))
  BY <1>2 DEF IsSend
<1>9. \A k \in 1 .. n1 :
         IsSend(store'.asks[k]) => k \in 1 .. n /\ store'.asks[k] = store.asks[k]
  <2>1. \A k \in 1 .. n1 : k \in 1 .. n \/ k \in n + 1 .. n1
    BY <1>2
  <2> QED
    BY <1>3, <2>1
<1>10. d = 1 => 1 \in 1 .. m
  BY <1>2
<1>11. \A k \in 1 .. m : answers[k].at \in Nat
  BY <1>1, <1>2, Lengths
<1>12. ASSUME NEW r \in Temps(store'.rows)
       PROVE  /\ r.anchor <= sends
              /\ r.failed =>
                   /\ \A k \in 1 .. m1 : IsSend(answers'[k]) =>
                            answers'[k].at # r.anchor
                   /\ \A k \in 1 .. n1 : IsSend(store'.asks[k]) =>
                            store'.asks[k].at # r.anchor
  <2>1. CASE r \in store.rows
    <3>1. r \in Temps(store.rows)
      BY <2>1 DEF Temps
    <3> QED
      BY <1>2, <1>8, <1>9, <3>1 DEF OInv, FailedOver
  <2>2. CASE d = 1 /\ IsSend(answers[1]) /\ r.failed /\ r.anchor = answers[1].at
    <3>1. answers[1].at <= sends
      BY <1>2, <1>10, <2>2 DEF OInv, InTurn, SendsInTurn
    <3>2. ASSUME NEW k \in 1 .. m1, IsSend(answers'[k])
          PROVE  answers'[k].at # r.anchor
      <4>1. /\ k + 1 \in 1 .. m
            /\ 1 < k + 1
            /\ IsSend(answers[k + 1])
            /\ answers'[k].at = answers[k + 1].at
        BY <1>8, <2>2, <3>2
      <4>2. answers[1].at < answers[k + 1].at
        BY <1>2, <1>10, <2>2, <4>1 DEF OInv, InTurn, SendsInTurn
      <4> QED
        BY <1>10, <1>11, <2>2, <4>1, <4>2
    <3>3. ASSUME NEW k \in 1 .. n1, IsSend(store'.asks[k])
          PROVE  store'.asks[k].at # r.anchor
      <4>1. answers[1].at < store.asks[k].at /\ store'.asks[k] = store.asks[k]
        BY <1>2, <1>9, <1>10, <2>2, <3>3 DEF OInv, InTurn, SendsInTurn
      <4> QED
        BY <1>10, <1>11, <2>2, <4>1
    <3> QED
      BY <2>2, <3>1, <3>2, <3>3
  <2> QED
    BY <2>1, <2>2
<1>13. FailedOver'
  BY <1>2, <1>12 DEF FailedOver, Temps
<1>14. (\A r \in Temps(store.rows) : r.anchor <= sends)'
  BY <1>12 DEF Temps
<1> QED
  BY <1>4, <1>5, <1>6, <1>7, <1>13, <1>14 DEF OInv

LEMMA DeliverOrderly ==
  ASSUME OInv, IInv', InOrder, NEW k \in Turn(answers), Deliver(k)
  PROVE  OInv'
<1>1. k = 1 /\ 1 \in DOMAIN answers
  BY DEF Turn
<1>2. answers \in Seq(Answers) /\ store \in Stores
  BY DEF OInv, IInv, Typed
<1>3. /\ 1 \in 1 .. Len(answers)
      /\ Len(answers') = Len(answers) - 1
      /\ \A j \in 1 .. Len(answers') : answers'[j] = answers[j + 1]
  BY <1>1, <1>2, FirstGone DEF Deliver
<1>4. Expected(store, answers[1])
  BY <1>3, HeadExpected
<1>5. store' = Handled(store, answers[1])
  BY <1>1 DEF Deliver
<1>6. Outcome(store, store', answers[1])
  BY <1>4, <1>5, HandledOutcome
<1>7. log' = log /\ sends' = sends
  BY DEF Deliver
<1> QED
  BY <1>3, <1>6, <1>7, StoreStep DEF Outcome

\* What the store does by itself shows no row that was not there.
LEMMA CalmOrderly ==
  ASSUME OInv, IInv', log' = log, sends' = sends,
         Len(answers') = Len(answers),
         \A k \in 1 .. Len(answers') :
            /\ answers'[k].kind = answers[k].kind
            /\ answers'[k].at = answers[k].at
            /\ answers'[k].page \in {answers[k].page, {}},
         Mild(store, store'), store'.rows \in {store.rows, {}}
  PROVE  OInv'
<1>1. Neat(store'.rows) /\ Fits(store'.rows)
  BY NoRowsNeat DEF OInv
<1>2. \A r \in Temps(store'.rows) : r \in store.rows
  BY DEF Temps
<1>3. Len(answers') = Len(answers) - 0
  BY Lengths DEF OInv, IInv
<1>4. \A k \in 1 .. Len(answers') :
            /\ answers'[k].kind = answers[k + 0].kind
            /\ answers'[k].at = answers[k + 0].at
            /\ answers'[k].page \in {answers[k + 0].page, {}}
  <2>1. \A k \in 1 .. Len(answers') : k + 0 = k
    OBVIOUS
  <2> QED
    BY <2>1
<1> QED
  BY <1>1, <1>2, <1>3, <1>4, StoreStep

LEMMA MoveOrderly ==
  ASSUME OInv, IInv', NEW after, Move(after),
         Mild(store, after), after.rows \in {store.rows, {}}
  PROVE  OInv'
BY CalmOrderly DEF Move

LEMMA LostOrderly ==
  ASSUME OInv, IInv', log' = log, sends' = sends, NEW lost,
         answers' = [k \in DOMAIN answers |->
                       IF lost[k] THEN Lose(answers[k]) ELSE answers[k]],
         Calm(store, store')
  PROVE  OInv'
<1>1. answers \in Seq(Answers)
  BY DEF OInv, IInv, Typed
<1>2. DOMAIN answers = 1 .. Len(answers) /\ Len(answers) \in Nat
  BY <1>1, LenProperties
<1>3. answers' \in Seq(Answers)
  BY DEF IInv, Typed
<1>4. Len(answers') = Len(answers)
  <2>1. DOMAIN answers' = 1 .. Len(answers') /\ Len(answers') \in Nat
    BY <1>3, LenProperties
  <2>2. 1 .. Len(answers') = 1 .. Len(answers)
    BY <1>2, <2>1
  <2> QED
    BY <1>2, <2>1, <2>2
<1>5. \A k \in 1 .. Len(answers') :
            /\ answers'[k].kind = answers[k].kind
            /\ answers'[k].at = answers[k].at
            /\ answers'[k].page \in {answers[k].page, {}}
  <2> SUFFICES ASSUME NEW k \in 1 .. Len(answers)
               PROVE  /\ answers'[k].kind = answers[k].kind
                      /\ answers'[k].at = answers[k].at
                      /\ answers'[k].page \in {answers[k].page, {}}
    BY <1>4
  <2>1. answers'[k] = Lose(answers[k]) \/ answers'[k] = answers[k]
    BY <1>2
  <2> QED
    BY <2>1 DEF Lose, Reply
<1> QED
  BY <1>4, <1>5, CalmOrderly DEF Calm

LEMMA ConnectionOrderly ==
  ASSUME OInv, IInv', Disconnect \/ Reconnect \/ Lag
  PROVE  OInv'
<1>1. store \in Stores
  BY DEF OInv, IInv, Typed
<1>2. Calm(store, store) /\ Calm(store, Resync(store))
  BY <1>1, StillCalm, ResyncCalm
<1>3. CASE Disconnect
  <2> DEFINE lost == [k \in DOMAIN answers |-> TRUE]
  <2>1. answers' = [k \in DOMAIN answers |->
                      IF lost[k] THEN Lose(answers[k]) ELSE answers[k]]
    BY <1>3 DEF Disconnect
  <2>2. log' = log /\ sends' = sends /\ store' = store
    BY <1>3 DEF Disconnect
  <2> HIDE DEF lost
  <2> QED
    BY <1>2, <2>1, <2>2, LostOrderly
<1>4. CASE Reconnect
  <2>1. /\ log' = log /\ sends' = sends /\ answers' = answers
        /\ store' = Resync(store)
    BY <1>4 DEF Reconnect
  <2> QED
    BY <1>2, <2>1, CalmOrderly DEF Calm
<1>5. CASE Lag
  <2> DEFINE lost == [k \in DOMAIN answers |-> answers[k].kind = "event"]
  <2>1. answers' = [k \in DOMAIN answers |->
                      IF lost[k] THEN Lose(answers[k]) ELSE answers[k]]
    BY <1>5 DEF Lag
  <2>2. log' = log /\ sends' = sends /\ store' = Resync(store)
    BY <1>5 DEF Lag
  <2> HIDE DEF lost
  <2> QED
    BY <1>2, <2>1, <2>2, LostOrderly
<1> QED
  BY <1>3, <1>4, <1>5

LEMMA UserOrderly ==
  ASSUME OInv, IInv',
         \/ Open \/ Leave \/ Unfocus \/ Close \/ ScrollUp \/ ScrollDown
         \/ ReachTop \/ ReachBottom \/ Present \/ Jump \/ Expire \/ Evict
  PROVE  OInv'
<1>1. store \in Stores
  BY DEF OInv, IInv, Typed
<1>2. ASSUME NEW after, Move(after), Calm(store, after)
      PROVE  OInv'
  BY <1>2, MoveOrderly DEF Calm
<1>3. CASE Open
  BY <1>1, <1>2, <1>3, ReopenCalm, ActivateCalm DEF Open
<1>4. CASE Leave
  BY <1>1, <1>2, <1>4, DeactivateCalm DEF Leave
<1>5. CASE Unfocus \/ Close
  <2> DEFINE t == Shut(store)
             u == IF store.active THEN [t EXCEPT !.jump = None]
                  ELSE [store EXCEPT !.jump = None]
  <2>1. /\ t \in Stores /\ t.asks = store.asks /\ t.rows = store.rows
        /\ t.latest = store.latest /\ t.gen = store.gen
    BY <1>1 DEF Stores, Shut
  <2>2. /\ u \in Stores /\ u.asks = store.asks /\ u.rows = store.rows
        /\ u.latest = store.latest /\ u.gen = store.gen
    BY <1>1, <2>1 DEF Stores, None
  <2>3. Move(t) \/ Move(u)
    BY <1>5 DEF Unfocus, Close
  <2> HIDE DEF t, u
  <2> QED
    BY <1>1, <1>2, <2>1, <2>2, <2>3, MildChange DEF Calm
<1>6. CASE ScrollUp \/ ScrollDown
  <2>1. PICK b \in BOOLEAN : Move([store EXCEPT !.older = b])
    BY <1>6 DEF ScrollUp, ScrollDown
  <2> DEFINE t == [store EXCEPT !.older = b]
  <2>2. /\ t \in Stores /\ t.asks = store.asks /\ t.rows = store.rows
        /\ t.latest = store.latest /\ t.gen = store.gen /\ Move(t)
    BY <1>1, <2>1 DEF Stores
  <2> HIDE DEF t
  <2> QED
    BY <1>1, <1>2, <2>2, MildChange DEF Calm
<1>7. CASE ReachTop \/ ReachBottom
  BY <1>1, <1>2, <1>7, LoadCalm DEF ReachTop, ReachBottom
<1>8. CASE Present
  BY <1>1, <1>2, <1>8, ToPresentCalm DEF Present
<1>9. CASE Jump
  <2>1. PICK i \in 1 .. Len(log) : Move(TryJump([store EXCEPT !.jump = i]))
    BY <1>9 DEF Jump
  <2> DEFINE t == [store EXCEPT !.jump = i]
  <2>2. i \in Messages
    BY TimelineAssumption DEF OInv, IInv, Typed, Messages
  <2>3. /\ t \in Stores /\ t.asks = store.asks /\ t.rows = store.rows
        /\ t.latest = store.latest /\ t.gen = store.gen /\ Move(TryJump(t))
    BY <1>1, <2>1, <2>2 DEF Stores
  <2> HIDE DEF t
  <2>4. Calm(store, t) /\ Calm(t, TryJump(t))
    BY <1>1, <2>3, MildChange, TryJumpCalm DEF Calm
  <2> QED
    BY <1>1, <1>2, <2>3, <2>4, CalmTwice
<1>10. CASE Expire \/ Evict
  <2> DEFINE t == [store EXCEPT !.fresh = FALSE]
             u == [store EXCEPT !.cached = FALSE, !.fresh = FALSE,
                                !.rows = {}, !.hasMore = FALSE]
  <2>1. /\ t \in Stores /\ t.asks = store.asks /\ t.rows = store.rows
        /\ t.latest = store.latest /\ t.gen = store.gen
        /\ u \in Stores /\ u.asks = store.asks /\ u.rows = {}
        /\ u.latest = store.latest /\ u.gen = store.gen
    BY <1>1 DEF Stores
  <2>2. Move(t) \/ Move(u)
    BY <1>10 DEF Expire, Evict
  <2> HIDE DEF t, u
  <2>3. Mild(store, t) /\ Mild(store, u)
    BY <1>1, <2>1, MildChange
  <2> QED
    BY <2>1, <2>2, <2>3, MoveOrderly
<1> QED
  BY <1>3, <1>4, <1>5, <1>6, <1>7, <1>8, <1>9, <1>10

LEMMA SendNeat ==
  ASSUME OInv, sends + 1 \in Sends
  PROVE  Neat(store.rows \cup {TempRow(sends + 1)})
<1> DEFINE n == sends + 1
           t == TempRow(n)
           rows == store.rows
           all == rows \cup {t}
<1>1. /\ t.id = None /\ t.at = Len(log) /\ t.anchor = n /\ ~t.failed
  BY DEF TempRow
<1>2. /\ Len(log) \in Nat /\ sends \in Nat
      /\ \A i \in 1 .. Len(log) : log[i] \in Nat /\ log[i] <= sends
      /\ rows \in SUBSET Rows
  BY Lengths DEF OInv, IInv, Typed, Stores, InTurn, LogBefore
<1> HIDE DEF t
<1>3. \A r \in rows : r.at <= Len(log) /\ (r.id # None => r.id \in 1 .. Len(log))
  BY <1>2 DEF OInv, Neat, Lined, Logged, Rows, Messages
<1>4. \A r \in Temps(rows) : r.anchor < n /\ r.anchor \in Sends /\ r.at <= Len(log)
                             /\ r.anchor \in Nat
  BY <1>2, <1>3 DEF OInv, Neat, Logged, Temps, Sends
<1>5. Temps(all) = Temps(rows) \cup {t}
  BY <1>1 DEF Temps
<1>6. Lined(all)
  <2>1. IsFiniteSet(all)
    BY FS_AddElement DEF OInv, Fits
  <2>2. \A r \in all : r.id # None => r \in rows
    BY <1>1
  <2>3. \A r \in all : r.id # None => r.at = r.id
    BY <2>2 DEF OInv, Neat, Lined
  <2>4. \A r, q \in all : r.id # None /\ r.id = q.id => r = q
    BY <2>2 DEF OInv, Neat, Lined
  <2>5. \A r, q \in Temps(rows) :
          r.anchor <= q.anchor => r.at <= q.at /\ (r.anchor = q.anchor => r = q)
    BY DEF OInv, Neat, Lined
  <2>6. \A r, q \in Temps(rows) \cup {t} :
          r.anchor <= q.anchor => r.at <= q.at /\ (r.anchor = q.anchor => r = q)
    <3> SUFFICES ASSUME NEW r \in Temps(rows) \cup {t}, NEW q \in Temps(rows) \cup {t},
                        r.anchor <= q.anchor
                 PROVE  r.at <= q.at /\ (r.anchor = q.anchor => r = q)
      OBVIOUS
    <3>1. CASE r = t /\ q = t
      BY <1>1, <1>2, <3>1
    <3>2. CASE r = t /\ q \in Temps(rows)
      BY <1>1, <1>2, <1>4, <3>2
    <3>3. CASE r \in Temps(rows) /\ q = t
      BY <1>1, <1>2, <1>4, <3>3
    <3>4. CASE r \in Temps(rows) /\ q \in Temps(rows)
      BY <2>5, <3>4
    <3> QED
      BY <3>1, <3>2, <3>3, <3>4
  <2> HIDE DEF all
  <2> QED
    BY <1>5, <2>1, <2>3, <2>4, <2>6 DEF Lined
<1>7. Logged(all)
  <2>1. \A r \in all : r.at <= Len(log)
    BY <1>1, <1>2, <1>3
  <2> HIDE DEF all
  <2> QED
    BY <1>1, <1>4, <1>5, <2>1 DEF Logged
<1>8. Apart(all)
  <2>1. \A r \in Temps(rows), q \in rows :
          ~r.failed /\ q.id # None => log[q.id] # r.anchor
    BY DEF OInv, Neat, Apart
  <2>2. \A q \in all : q.id # None => q \in rows /\ log[q.id] # n
    BY <1>1, <1>2, <1>3
  <2> HIDE DEF all
  <2> QED
    BY <1>1, <1>5, <2>1, <2>2 DEF Apart
<1> HIDE DEF all
<1>9. Neat(all)
  BY <1>6, <1>7, <1>8 DEF Neat
<1> QED
  BY <1>9 DEF all, t

LEMMA WriteOrderly ==
  ASSUME OInv, IInv', Write
  PROVE  OInv'
<1> DEFINE n == sends + 1
           t == TempRow(n)
           w == IF store.cached /\ ~Detached(store)
                THEN [store EXCEPT !.rows = KeepNewest(@ \cup {t})] ELSE store
           a == [kind |-> "send", at |-> n, gen |-> w.gen, tail |-> w.last]
<1>1. /\ sends < MaxSends /\ sends' = n /\ store' = Send(store, n)
      /\ log' = log /\ answers' = answers
  BY DEF Write
<1>2. /\ Typed /\ store \in Stores /\ sends \in Nat /\ n \in Sends /\ n \in Nat
      /\ Len(log) \in Messages /\ log \in Seq(Sends \cup {0})
  BY <1>1, TimelineAssumption DEF OInv, IInv, Typed, Sends
<1>3. t \in Rows /\ t.id = None /\ ~t.failed /\ t.anchor = n
  BY <1>2 DEF TempRow, Rows, None
<1> HIDE DEF t
<1>4. /\ store.rows \cup {t} \in SUBSET Rows
      /\ Neat(store.rows \cup {t})
  BY <1>2, <1>3, SendNeat DEF Stores, t
<1> DEFINE kept == KeepNewest(store.rows \cup {t})
<1>5. /\ kept \subseteq store.rows \cup {t}
      /\ kept \in SUBSET Rows
      /\ Neat(kept)
      /\ Fits(kept)
  BY <1>4, Kept, TrimFits
<1> HIDE DEF kept
<1>6. /\ w \in Stores /\ w.asks = store.asks
      /\ w.rows \in {store.rows, kept}
      /\ w.latest = store.latest /\ w.gen = store.gen
  <2>1. w = IF store.cached /\ ~Detached(store)
            THEN [store EXCEPT !.rows = kept] ELSE store
    BY DEF kept
  <2> HIDE DEF w
  <2> QED
    BY <1>2, <1>5, <2>1 DEF Stores
<1>7. store' = [w EXCEPT !.asks = Append(@, a)]
  BY <1>1 DEF Send, Ask, t
<1> HIDE DEF w
<1>8. a \in Asks /\ w.asks \in Seq(Asks)
  <2>1. "send" \in Kinds
    BY DEF Kinds
  <2> QED
    BY <1>2, <1>6, <2>1 DEF Asks, Stores
<1>9. a.kind = "send" /\ a.at = n
  OBVIOUS
<1> HIDE DEF a
<1>10. PICK l \in Nat : l = Len(store.asks)
  BY <1>2, Lengths
<1>11. /\ Append(w.asks, a) \in Seq(Asks)
       /\ Len(Append(w.asks, a)) = l + 1
       /\ \A k \in 1 .. l : Append(w.asks, a)[k] = store.asks[k]
       /\ Append(w.asks, a)[l + 1] = a
  BY <1>6, <1>8, <1>10, AppendProperties
<1>12. /\ store' \in Stores /\ store'.asks = Append(w.asks, a)
       /\ store'.rows = w.rows
       /\ store'.latest = store.latest /\ store'.gen = store.gen
  BY <1>6, <1>7, <1>11 DEF Stores
<1>13. /\ Len(store'.asks) = l + 1
       /\ \A k \in 1 .. l : store'.asks[k] = store.asks[k]
       /\ \A k \in l + 1 .. l + 1 : store'.asks[k].at = n /\ k = l + 1
  BY <1>9, <1>11, <1>12
<1>14. InTurn'
  <2>1. Len(answers') = Len(answers) - 0
    BY <1>1, <1>2, Lengths
  <2>2. \A k \in 1 .. Len(answers') :
            /\ answers'[k].kind = answers[k + 0].kind
            /\ answers'[k].at = answers[k + 0].at
            /\ answers'[k].page \in {answers[k + 0].page, {}}
    <3>1. \A k \in 1 .. Len(answers') : k + 0 = k
      OBVIOUS
    <3> QED
      BY <1>1, <3>1
  <2>3. InTurn /\ sends' \in {sends, sends + 1}
    BY <1>1 DEF OInv
  <2>4. /\ Len(store'.asks) \in Nat /\ Len(store.asks) <= Len(store'.asks)
        /\ \A k \in 1 .. Len(store.asks) : store'.asks[k] = store.asks[k]
        /\ \A k \in Len(store.asks) + 1 .. Len(store'.asks) :
              IsSend(store'.asks[k]) => /\ sends' = sends + 1
                                        /\ store'.asks[k].at = sends'
                                        /\ k = Len(store.asks) + 1
    BY <1>1, <1>10, <1>13
  <2> HIDE DEF n
  <2> QED
    BY <1>1, <1>2, <2>1, <2>2, <2>3, <2>4, TurnKept
<1>15. Neat(store'.rows) /\ Fits(store'.rows)
  BY <1>5, <1>6, <1>12 DEF OInv
<1>16. Neat(store.rows)'
  BY <1>1, <1>2, <1>12, <1>15, Lengths, RowsStay
<1>17. \A r \in Temps(store'.rows) :
         \/ r \in Temps(store.rows)
         \/ ~r.failed /\ r.anchor = n
  BY <1>3, <1>5, <1>6, <1>12 DEF Temps
<1>18. ASSUME NEW r \in Temps(store'.rows)
       PROVE  /\ r.anchor <= n
              /\ r.failed =>
                   /\ \A k \in 1 .. Len(answers) : IsSend(answers[k]) =>
                            answers[k].at # r.anchor
                   /\ \A k \in 1 .. l + 1 : IsSend(store'.asks[k]) =>
                            store'.asks[k].at # r.anchor
  <2>1. CASE r \in Temps(store.rows)
    <3>1. r.anchor <= sends /\ r.anchor \in Nat
      BY <2>1 DEF OInv, Neat, Logged, Sends
    <3>2. \A k \in 1 .. l + 1 : k \in 1 .. l \/ k \in l + 1 .. l + 1
      BY <1>10
    <3>3. r.failed => \A k \in 1 .. l :
             IsSend(store.asks[k]) => store.asks[k].at # r.anchor
      BY <1>10, <2>1 DEF OInv, FailedOver
    <3>4. r.failed => \A k \in 1 .. Len(answers) :
             IsSend(answers[k]) => answers[k].at # r.anchor
      BY <2>1 DEF OInv, FailedOver
    <3>5. r.anchor <= n /\ r.anchor # n
      BY <1>2, <3>1
    <3> QED
      BY <1>13, <3>2, <3>3, <3>4, <3>5
  <2>2. CASE ~r.failed /\ r.anchor = n
    BY <1>2, <2>2
  <2> QED
    BY <1>17, <2>1, <2>2
<1>19. FailedOver'
  BY <1>1, <1>13, <1>18 DEF FailedOver, Temps
<1>20. (\A r \in Temps(store.rows) : r.anchor <= sends)'
  BY <1>1, <1>18 DEF Temps
<1>21. Fits(store.rows)' /\ store'.latest <= store'.gen
  BY <1>12, <1>15 DEF OInv, Fits
<1> QED
  BY <1>14, <1>16, <1>19, <1>20, <1>21 DEF OInv

\* The server's steps leave the window alone.
LEMMA ServerStep ==
  ASSUME OInv, IInv', InTurn', sends' = sends,
         store'.rows = store.rows, store'.latest = store.latest, store'.gen = store.gen,
         Len(log') \in Nat, Len(log) <= Len(log'),
         \A i \in 1 .. Len(log) : log'[i] = log[i],
         \A k \in 1 .. Len(store'.asks) : IsSend(store'.asks[k]) =>
            \E j \in 1 .. Len(store.asks) :
               IsSend(store.asks[j]) /\ store.asks[j].at = store'.asks[k].at,
         \A k \in 1 .. Len(answers') : IsSend(answers'[k]) =>
            \/ \E j \in 1 .. Len(store.asks) :
                  IsSend(store.asks[j]) /\ store.asks[j].at = answers'[k].at
            \/ \E j \in 1 .. Len(answers) :
                  IsSend(answers[j]) /\ answers[j].at = answers'[k].at
  PROVE  OInv'
<1>1. store' \in Stores /\ Typed
  BY DEF IInv, Typed, OInv
<1>2. Neat(store'.rows)
  BY DEF OInv
<1>3. Neat(store.rows)'
  BY <1>1, <1>2, Lengths, RowsStay
<1>4. Fits(store.rows)' /\ (\A r \in Temps(store.rows) : r.anchor <= sends)'
      /\ store'.latest <= store'.gen
  BY DEF OInv, Fits, Temps
<1>5. ASSUME NEW r \in Temps(store.rows), r.failed
      PROVE  /\ \A k \in 1 .. Len(answers') : IsSend(answers'[k]) =>
                      answers'[k].at # r.anchor
             /\ \A k \in 1 .. Len(store'.asks) : IsSend(store'.asks[k]) =>
                      store'.asks[k].at # r.anchor
  <2>1. /\ \A k \in 1 .. Len(answers) : IsSend(answers[k]) => answers[k].at # r.anchor
        /\ \A k \in 1 .. Len(store.asks) : IsSend(store.asks[k]) =>
                 store.asks[k].at # r.anchor
    BY <1>5 DEF OInv, FailedOver
  <2> QED
    BY <2>1
<1>6. FailedOver'
  BY <1>5 DEF FailedOver, Temps
<1> QED
  BY <1>3, <1>4, <1>6 DEF OInv

LEMMA LogGrows ==
  ASSUME log \in Seq(Sends \cup {0}), NEW e \in Sends \cup {0}, log' = Append(log, e)
  PROVE  /\ Len(log) \in Nat /\ Len(log') = Len(log) + 1
         /\ \A i \in 1 .. Len(log) : log'[i] = log[i]
         /\ log'[Len(log) + 1] = e
BY AppendProperties, LenProperties

LEMMA PostOrderly ==
  ASSUME OInv, IInv', Post
  PROVE  OInv'
<1>1. /\ log' = Append(log, 0) /\ Len(log) < MaxLog
      /\ store' = store /\ sends' = sends
  BY DEF Post
<1>2. /\ log \in Seq(Sends \cup {0}) /\ answers \in Seq(Answers) /\ Typed
      /\ MaxLog \in Nat
  BY TimelineAssumption DEF OInv, IInv, Typed
<1>3. PICK l \in Nat, m \in Nat, n \in Nat :
        l = Len(log) /\ m = Len(answers) /\ n = Len(store.asks)
  BY <1>2, Lengths
<1>4. /\ Len(log') = l + 1
      /\ \A i \in 1 .. l : log'[i] = log[i]
      /\ log'[l + 1] = 0
  BY <1>1, <1>2, <1>3, LogGrows
<1> DEFINE e == Event(l + 1)
<1>5. e \in Answers /\ e.kind = "event" /\ e.at = l + 1 /\ e.page = {}
  <2>1. l + 1 \in Messages
    BY <1>1, <1>2, <1>3 DEF Messages
  <2> QED
    BY <2>1, EventTold DEF Event
<1>6. ~IsSend(e) /\ Truthful(log', e)
  BY <1>3, <1>4, <1>5 DEF IsSend, Truthful
<1>7. answers' = answers \/ answers' = Append(answers, e)
  BY <1>3 DEF Post
<1> HIDE DEF e
<1>8. \/ answers' = answers
      \/ /\ Len(answers') = m + 1
         /\ \A k \in 1 .. m : answers'[k] = answers[k]
         /\ answers'[m + 1] = e
  BY <1>2, <1>3, <1>5, <1>7, AppendProperties
<1>9. /\ Len(answers') \in Nat /\ m <= Len(answers')
      /\ \A k \in 1 .. m : answers'[k] = answers[k]
      /\ \A k \in m + 1 .. Len(answers') : answers'[k] = e
  <2>1. CASE answers' = answers
    BY <1>3, <2>1
  <2>2. CASE answers' # answers
    <3>1. \A k \in m + 1 .. m + 1 : k = m + 1
      BY <1>3
    <3> QED
      BY <1>3, <1>8, <2>2, <3>1
  <2> QED
    BY <2>1, <2>2
<1>10. InTurn'
  <2>1. \A k \in m + 1 .. Len(answers') :
           Truthful(log', answers'[k]) /\ ~IsSend(answers'[k])
    BY <1>6, <1>9
  <2>2. \A i \in l + 1 .. l + 1 : log'[i] = 0
    BY <1>4
  <2>3. Len(store'.asks) = Len(store.asks) - 0 /\ Len(store.asks) - 0 \in Nat
    BY <1>1, <1>3
  <2>4. \A k \in 1 .. Len(store'.asks) : store'.asks[k] = store.asks[k + 0]
    <3>1. \A k \in 1 .. Len(store'.asks) : k + 0 = k
      OBVIOUS
    <3> QED
      BY <1>1, <3>1
  <2>5. InTurn
    BY DEF OInv
  <2>6. Len(log') \in Nat /\ Len(log) <= Len(log')
    BY <1>3, <1>4
  <2> QED
    BY <1>1, <1>2, <1>3, <1>4, <1>9, <2>1, <2>2, <2>3, <2>4, <2>5, <2>6, TurnServed
<1>11. \A k \in 1 .. Len(answers') : IsSend(answers'[k]) => k \in 1 .. m
  <2>1. \A k \in 1 .. Len(answers') : k \in 1 .. m \/ k \in m + 1 .. Len(answers')
    BY <1>3, <1>9
  <2> QED
    BY <1>6, <1>9, <2>1
<1>12. \A k \in 1 .. Len(answers') : IsSend(answers'[k]) =>
         \E j \in 1 .. Len(answers) :
            IsSend(answers[j]) /\ answers[j].at = answers'[k].at
  BY <1>3, <1>9, <1>11
<1> QED
  BY <1>1, <1>3, <1>4, <1>10, <1>12, ServerStep

\* What the server says to the request it was asked first.
LEMMA ServedOrderly ==
  ASSUME OInv, IInv', 1 \in DOMAIN store.asks,
         store' = [store EXCEPT !.asks = RemoveAt(@, 1)], sends' = sends,
         Len(answers') \in Nat, Len(answers) <= Len(answers'),
         \A k \in 1 .. Len(answers) : answers'[k] = answers[k],
         Len(log') \in Nat, Len(log) <= Len(log'),
         \A i \in 1 .. Len(log) : log'[i] = log[i],
         \A i \in Len(log) + 1 .. Len(log') :
            IsSend(store.asks[1]) /\ log'[i] = store.asks[1].at,
         \A k \in Len(answers) + 1 .. Len(answers') :
            /\ Truthful(log', answers'[k])
            /\ IsSend(answers'[k]) =>
                  /\ IsSend(store.asks[1])
                  /\ answers'[k].at = store.asks[1].at
                  /\ \A j \in Len(answers) + 1 .. Len(answers') : j < k =>
                        /\ ~IsSend(answers'[j])
                        /\ Before(log', answers'[j], answers'[k].at)
  PROVE  OInv'
<1>1. Typed /\ InTurn /\ store \in Stores /\ store.asks \in Seq(Asks)
  BY DEF OInv, IInv, Typed, Stores
<1> DEFINE left == RemoveAt(store.asks, 1)
<1>2. /\ 1 \in 1 .. Len(store.asks) /\ Len(store.asks) - 1 \in Nat
      /\ Len(left) = Len(store.asks) - 1
      /\ \A k \in 1 .. Len(left) : left[k] = store.asks[k + 1]
  BY <1>1, FirstGone
<1>3. /\ store'.asks = left /\ store'.rows = store.rows
      /\ store'.latest = store.latest /\ store'.gen = store.gen
  BY <1>1 DEF Stores
<1> HIDE DEF left
<1>4. /\ Len(store'.asks) = Len(store.asks) - 1
      /\ \A k \in 1 .. Len(store'.asks) : store'.asks[k] = store.asks[k + 1]
  BY <1>2, <1>3
<1>5. InTurn'
  BY <1>1, <1>2, <1>4, TurnServed
<1>6. \A k \in 1 .. Len(store'.asks) : IsSend(store'.asks[k]) =>
        \E j \in 1 .. Len(store.asks) :
           IsSend(store.asks[j]) /\ store.asks[j].at = store'.asks[k].at
  <2>1. \A k \in 1 .. Len(store'.asks) : k + 1 \in 1 .. Len(store.asks)
    BY <1>2, <1>4
  <2> QED
    BY <1>4, <2>1
<1>7. \A k \in 1 .. Len(answers') : IsSend(answers'[k]) =>
        \/ \E j \in 1 .. Len(store.asks) :
              IsSend(store.asks[j]) /\ store.asks[j].at = answers'[k].at
        \/ \E j \in 1 .. Len(answers) :
              IsSend(answers[j]) /\ answers[j].at = answers'[k].at
  <2>1. \A k \in 1 .. Len(answers') :
          k \in 1 .. Len(answers) \/ k \in Len(answers) + 1 .. Len(answers')
    BY <1>1, Lengths
  <2> QED
    BY <1>2, <2>1
<1> QED
  BY <1>3, <1>5, <1>6, <1>7, ServerStep

\* The one answer to a request that leaves the log as it is.
LEMMA AnsweredOrderly ==
  ASSUME OInv, IInv', 1 \in DOMAIN store.asks,
         store' = [store EXCEPT !.asks = RemoveAt(@, 1)], sends' = sends,
         log' = log, NEW b, answers' = Append(answers, b), b \in Answers,
         b.kind = store.asks[1].kind, b.at = store.asks[1].at,
         Truthful(log, b)
  PROVE  OInv'
<1>1. Typed /\ answers \in Seq(Answers)
  BY DEF OInv, IInv, Typed
<1>2. PICK m \in Nat, l \in Nat : m = Len(answers) /\ l = Len(log)
  BY <1>1, Lengths
<1>3. /\ Len(answers') = m + 1
      /\ \A k \in 1 .. m : answers'[k] = answers[k]
      /\ answers'[m + 1] = b
  BY <1>1, <1>2, AppendProperties
<1>4. /\ \A k \in m + 1 .. m + 1 : k = m + 1 /\ answers'[k] = b
      /\ \A i \in l + 1 .. l : FALSE
  BY <1>2, <1>3
<1>5. \A k \in m + 1 .. m + 1 :
        /\ Truthful(log', answers'[k])
        /\ IsSend(answers'[k]) =>
              /\ IsSend(store.asks[1])
              /\ answers'[k].at = store.asks[1].at
              /\ \A j \in m + 1 .. m + 1 : ~(j < k)
  BY <1>2, <1>4 DEF IsSend
<1>6. Len(answers') \in Nat /\ Len(answers) <= Len(answers')
  BY <1>2, <1>3
<1> QED
  BY <1>2, <1>3, <1>4, <1>5, <1>6, ServedOrderly

LEMMA FetchTruthful ==
  ASSUME Len(log) \in Nat, NEW a \in Asks, a.kind # "send"
  PROVE  Truthful(log, Answer(a, PageFor(a)))
<1> DEFINE b == Answer(a, PageFor(a))
<1>1. b.kind = a.kind /\ b.at = a.at /\ b.page = PageFor(a)
  BY DEF Answer, Reply
<1>2. a.kind # "event" /\ a.at \in Nat
  BY DEF Asks, Kinds, Fetches, Joins
<1>3. PageFor(a) \subseteq 1 .. Len(log)
  BY Zenon DEF PageFor
<1>4. ASSUME a.kind = "around"
      PROVE  PageFor(a) \subseteq Near(a.at)
  <2>1. Page \div 2 \in Int /\ (Page - 1) \div 2 \in Int
    BY TimelineAssumption
  <2>2. \A i \in PageFor(a) : /\ i \in Int /\ i >= a.at - Page \div 2
                              /\ i <= a.at + (Page - 1) \div 2
    BY <1>4 DEF PageFor
  <2> QED
    BY <1>2, <2>1, <2>2 DEF Near
<1> HIDE DEF b
<1> QED
  BY <1>1, <1>2, <1>3, <1>4 DEF Truthful, IsSend, b

LEMMA RefusalTruthful ==
  ASSUME NEW lg, NEW a \in Asks, NEW denied
  PROVE  Truthful(lg, Refusal(a, denied))
<1>1. a.kind # "event"
  BY DEF Asks, Kinds, Fetches, Joins
<1> QED
  BY <1>1 DEF Truthful, Refusal, Reply

\* The log takes the message in; its event and its answer go out in one order
\* or the other.
LEMMA SentOrderly ==
  ASSUME OInv, IInv', 1 \in DOMAIN store.asks, ServeSend(1),
         store' = [store EXCEPT !.asks = RemoveAt(@, 1)], sends' = sends
  PROVE  OInv'
<1>1. /\ Typed /\ answers \in Seq(Answers) /\ store.asks \in Seq(Asks)
      /\ log \in Seq(Sends \cup {0})
  BY DEF OInv, IInv, Typed, Stores
<1>2. PICK m \in Nat, l \in Nat : m = Len(answers) /\ l = Len(log)
  BY <1>1, Lengths
<1> DEFINE a == store.asks[1]
           i == l + 1
           e == Event(i)
           b == Answer(a, {i})
<1>3. /\ a.kind = "send" /\ i \in Messages /\ log' = Append(log, a.at)
      /\ \/ answers' = answers \o <<e, b>>
         \/ answers' = answers \o <<b, e>>
         \/ answers' = Append(answers, b)
  BY <1>2 DEF ServeSend
<1>4. a \in Asks /\ a \in Range(store.asks) /\ Named(a)
  BY <1>1, SetOfRemoveAt DEF OInv, IInv, Steady, Sound
<1> HIDE DEF a
<1>5. a.at \in Sends /\ a.at \in Nat
  BY <1>3, <1>4 DEF Named, Sends
<1>6. /\ Len(log') = l + 1
      /\ \A j \in 1 .. l : log'[j] = log[j]
      /\ log'[i] = a.at
  BY <1>1, <1>2, <1>3, <1>5, LogGrows
<1>7. /\ e \in Answers /\ e.kind = "event" /\ e.at = i /\ e.page = {}
      /\ b.kind = "send" /\ b.at = a.at /\ b.page = {i}
  BY <1>3, EventTold DEF Event, Answer, Reply
<1>8. b \in Answers
  <2>1. {i} \in SUBSET Messages /\ \E j \in Messages : {i} = {j}
    BY <1>3
  <2> QED
    BY <1>4, <2>1, ReplyTold DEF Answer
<1> HIDE DEF e, b
<1>9. i \in 1 .. Len(log') /\ i = l + 1
  BY <1>2, <1>6
<1> HIDE DEF i
<1>10. /\ ~IsSend(e) /\ Truthful(log', e) /\ Before(log', e, a.at)
       /\ IsSend(b) /\ Truthful(log', b)
  BY <1>5, <1>6, <1>7, <1>9 DEF IsSend, Truthful, Before
<1>11. /\ Len(answers') \in {m + 1, m + 2}
       /\ \A k \in 1 .. m : answers'[k] = answers[k]
       /\ \A k \in m + 1 .. Len(answers') : answers'[k] \in {e, b}
       /\ \A j, k \in m + 1 .. Len(answers') :
             j < k /\ answers'[k] = b => answers'[j] = e
  <2>1. ASSUME NEW x \in {e, b}, NEW y \in {e, b}, x # y,
               answers' = answers \o <<x, y>>
        PROVE  /\ Len(answers') \in {m + 1, m + 2}
               /\ \A k \in 1 .. m : answers'[k] = answers[k]
               /\ \A k \in m + 1 .. Len(answers') : answers'[k] \in {e, b}
               /\ \A j, k \in m + 1 .. Len(answers') :
                     j < k /\ answers'[k] = b => answers'[j] = e
    <3>1. <<x, y>> \in Seq(Answers) /\ Len(<<x, y>>) = 2
      BY <1>7, <1>8
    <3>2. /\ Len(answers') = m + 2
          /\ \A k \in 1 .. m + 2 :
               answers'[k] = IF k <= m THEN answers[k] ELSE <<x, y>>[k - m]
      BY <1>1, <1>2, <2>1, <3>1, ConcatProperties
    <3>3. /\ m + 1 \in 1 .. m + 2 /\ m + 2 \in 1 .. m + 2
          /\ ~(m + 1 <= m) /\ ~(m + 2 <= m)
          /\ (m + 1) - m = 1 /\ (m + 2) - m = 2
      BY <1>2
    <3>4. answers'[m + 1] = x /\ answers'[m + 2] = y
      BY <3>2, <3>3
    <3>5. \A k \in 1 .. m : k \in 1 .. m + 2 /\ k <= m
      BY <1>2
    <3>6. \A k \in m + 1 .. m + 2 : k = m + 1 \/ k = m + 2
      BY <1>2
    <3>7. \A j, k \in m + 1 .. m + 2 : j < k => j = m + 1 /\ k = m + 2
      BY <1>2
    <3> QED
      BY <2>1, <3>2, <3>4, <3>5, <3>6, <3>7
  <2>2. CASE answers' = Append(answers, b)
    <3>1. /\ Len(answers') = m + 1
          /\ \A k \in 1 .. m : answers'[k] = answers[k]
          /\ answers'[m + 1] = b
      BY <1>1, <1>2, <1>8, <2>2, AppendProperties
    <3>2. \A k \in m + 1 .. m + 1 : k = m + 1
      BY <1>2
    <3>3. \A j, k \in m + 1 .. m + 1 : ~(j < k)
      BY <1>2
    <3> QED
      BY <3>1, <3>2, <3>3
  <2>3. e # b
    BY <1>10
  <2> QED
    BY <1>3, <2>1, <2>2, <2>3
<1>12. Len(answers') \in Nat /\ Len(answers) <= Len(answers')
  BY <1>2, <1>11
<1>13. \A k \in m + 1 .. Len(answers') :
         /\ Truthful(log', answers'[k])
         /\ IsSend(answers'[k]) =>
               /\ IsSend(a) /\ answers'[k].at = a.at
               /\ \A j \in m + 1 .. Len(answers') : j < k =>
                     ~IsSend(answers'[j]) /\ Before(log', answers'[j], answers'[k].at)
  <2> SUFFICES ASSUME NEW k \in m + 1 .. Len(answers')
               PROVE  /\ Truthful(log', answers'[k])
                      /\ IsSend(answers'[k]) =>
                           /\ answers'[k] = b
                           /\ \A j \in m + 1 .. Len(answers') : j < k =>
                                /\ ~IsSend(answers'[j])
                                /\ Before(log', answers'[j], a.at)
    BY <1>3, <1>7 DEF IsSend
  <2>1. answers'[k] \in {e, b}
    BY <1>11
  <2>2. IsSend(answers'[k]) => answers'[k] = b
    BY <1>10, <2>1
  <2>3. answers'[k] = b =>
          \A j \in m + 1 .. Len(answers') : j < k => answers'[j] = e
    BY <1>11
  <2> QED
    BY <1>10, <2>1, <2>2, <2>3
<1>14. Len(log') \in Nat /\ Len(log) <= Len(log')
  BY <1>2, <1>6
<1>15. \A j \in l + 1 .. Len(log') : IsSend(a) /\ log'[j] = a.at
  <2>1. \A j \in l + 1 .. l + 1 : j = i
    BY <1>9
  <2> QED
    BY <1>3, <1>6, <2>1 DEF IsSend
<1> QED
  BY <1>2, <1>6, <1>11, <1>12, <1>13, <1>14, <1>15, ServedOrderly DEF a

LEMMA ServeOrderly ==
  ASSUME OInv, IInv', InOrder, Serve
  PROVE  OInv'
<1>1. PICK k \in Turn(store.asks) :
        /\ \/ ServeFetch(k) \/ ServeSend(k) \/ ServeJoin(k) \/ Refuse(k)
        /\ store' = [store EXCEPT !.asks = RemoveAt(@, k)]
        /\ sends' = sends
  BY DEF Serve
<1>2. k = 1 /\ 1 \in DOMAIN store.asks
  BY DEF Turn
<1> DEFINE a == store.asks[1]
<1>3. /\ Typed /\ store.asks \in Seq(Asks) /\ Len(log) \in Messages
      /\ answers \in Seq(Answers)
  BY DEF OInv, IInv, Typed, Stores
<1>4. a \in Asks /\ Named(a) /\ Len(log) \in Nat
  <2>1. a \in Asks /\ a \in Range(store.asks)
    BY <1>2, <1>3, SetOfRemoveAt
  <2> QED
    BY <1>3, <2>1, Lengths DEF OInv, IInv, Steady, Sound
<1>5. CASE ServeFetch(1)
  <2> DEFINE b == Answer(a, PageFor(a))
  <2>1. /\ a.kind \in Fetches \cup {"page", "seed"}
        /\ answers' = Append(answers, b) /\ log' = log
    BY <1>5 DEF ServeFetch
  <2>2. a.kind # "send"
    BY <2>1 DEF Fetches
  <2> HIDE DEF a
  <2>3. PageFor(a) \in SUBSET Messages
    BY <1>3, PageTyped
  <2>4. a.kind \in {"send", "seed"} => PageFor(a) = {Len(log)}
    BY <1>3, <2>2, SeedPage
  <2>5. b \in Answers
    BY <1>3, <1>4, <2>3, <2>4, ReplyTold DEF Answer
  <2>6. Truthful(log, b)
    BY <1>4, <2>2, FetchTruthful
  <2>7. b.kind = a.kind /\ b.at = a.at
    BY DEF Answer, Reply
  <2> HIDE DEF b
  <2> QED
    BY <1>1, <1>2, <2>1, <2>5, <2>6, <2>7, AnsweredOrderly DEF a
<1>6. CASE ServeSend(1)
  BY <1>1, <1>2, <1>6, SentOrderly
<1>7. CASE ServeJoin(1)
  <2>1. answers' = answers /\ log' = log
    BY <1>7 DEF ServeJoin
  <2>2. PICK m \in Nat, l \in Nat : m = Len(answers) /\ l = Len(log)
    BY <1>3, Lengths
  <2>3. (\A j \in m + 1 .. m : FALSE) /\ (\A j \in l + 1 .. l : FALSE)
    BY <2>2
  <2> QED
    BY <1>1, <1>2, <2>1, <2>2, <2>3, ServedOrderly
<1>8. CASE Refuse(1)
  <2>1. PICK denied \in BOOLEAN : answers' = Append(answers, Refusal(a, denied))
    BY <1>8 DEF Refuse
  <2> DEFINE b == Refusal(a, denied)
  <2>2. log' = log
    BY <1>8 DEF Refuse
  <2> HIDE DEF a
  <2>3. b \in Answers
    BY <1>4, ReplyTold DEF Refusal
  <2>4. Truthful(log, b)
    BY <1>4, RefusalTruthful
  <2>5. b.kind = a.kind /\ b.at = a.at
    BY DEF Refusal, Reply
  <2>6. answers' = Append(answers, b)
    BY <2>1
  <2> HIDE DEF b
  <2> QED
    BY <1>1, <1>2, <2>2, <2>3, <2>4, <2>5, <2>6, AnsweredOrderly DEF a
<1> QED
  BY <1>1, <1>2, <1>5, <1>6, <1>7, <1>8

LEMMA InitOrderly == Init => OInv
<1> SUFFICES ASSUME Init PROVE OInv
  OBVIOUS
<1>1. IInv
  BY InitInv
<1>2. /\ answers = <<>> /\ store.asks = <<>> /\ store.rows = {}
      /\ store.latest = 0 /\ store.gen = 0 /\ sends = 0
      /\ log = [i \in 1 .. History |-> 0]
  BY DEF Init, None
<1>3. History \in Nat /\ Len(log) \in Nat /\ DOMAIN log = 1 .. Len(log)
  <2>1. log \in Seq(Sends \cup {0})
    BY <1>1 DEF IInv, Typed
  <2> QED
    BY <2>1, LenProperties, TimelineAssumption
<1>4. Len(answers) = 0 /\ Len(store.asks) = 0
  BY <1>2
<1>5. \A k \in 1 .. 0 : FALSE
  OBVIOUS
<1>6. \A i \in 1 .. Len(log) : log[i] = 0
  BY <1>2, <1>3
<1>7. Temps(store.rows) = {}
  BY <1>2 DEF Temps
<1>8. InTurn /\ FailedOver
  <2>1. /\ \A k \in 1 .. Len(answers) : FALSE
        /\ \A k \in 1 .. Len(store.asks) : FALSE
    BY <1>4, <1>5
  <2>2. SendsInTurn /\ Told /\ FailedOver
    BY <1>7, <2>1 DEF SendsInTurn, Told, FailedOver
  <2>3. LogBefore
    <3>1. sends = 0 /\ 0 <= 0
      BY <1>2
    <3>2. \A i \in 1 .. Len(log) : log[i] <= sends
      BY <1>6, <3>1
    <3> QED
      BY <2>1, <3>2 DEF LogBefore
  <2> QED
    BY <2>2, <2>3 DEF InTurn
<1> QED
  BY <1>1, <1>2, <1>7, <1>8, NoRowsNeat DEF OInv

LEMMA StepOrderly == InOrder /\ OInv /\ [Next]_vars => OInv'
<1> SUFFICES ASSUME InOrder, OInv, [Next]_vars PROVE OInv'
  OBVIOUS
<1>1. IInv'
  BY StepInv DEF OInv
<1>2. CASE Post
  BY <1>1, <1>2, PostOrderly
<1>3. CASE Serve
  BY <1>1, <1>3, ServeOrderly
<1>4. CASE Disconnect \/ Reconnect \/ Lag
  BY <1>1, <1>4, ConnectionOrderly
<1>5. CASE \E k \in Turn(answers) : Deliver(k)
  BY <1>1, <1>5, DeliverOrderly
<1>6. CASE \/ Open \/ Leave \/ Unfocus \/ Close \/ ScrollUp \/ ScrollDown
           \/ ReachTop \/ ReachBottom \/ Present \/ Jump \/ Expire \/ Evict
  BY <1>1, <1>6, UserOrderly
<1>7. CASE Write
  BY <1>1, <1>7, WriteOrderly
<1>8. CASE UNCHANGED vars
  <2>1. /\ store' = store /\ log' = log /\ answers' = answers
        /\ sends' = sends
    BY <1>8 DEF vars
  <2> QED
    BY <1>1, <2>1
    DEF OInv, InTurn, SendsInTurn, LogBefore, Told, FailedOver, Neat, Lined,
        Logged, Apart, Fits, Temps
<1> QED
  BY <1>2, <1>3, <1>4, <1>5, <1>6, <1>7, <1>8 DEF Next

LEMMA OrderlyNoTwins == OInv => NoTwins
<1> SUFFICES ASSUME OInv, NEW r \in store.rows, NEW q \in store.rows
             PROVE  /\ r.id = q.id /\ r.id # None => r = q
                    /\ (r.id = None /\ ~r.failed) /\ q.id # None
                          => log[q.id] # r.anchor
  BY DEF NoTwins
<1>1. Lined(store.rows) /\ Apart(store.rows)
  BY DEF OInv, Neat
<1>2. r.id = None => r \in Temps(store.rows)
  BY DEF Temps
<1> QED
  BY <1>1, <1>2 DEF Lined, Apart

-----------------------------------------------------------------------------
(* The theorems.                                                           *)

\* Rows, requests, answers and events stay what they should be, whatever the
\* store is asked and however its answers come (MessagesStore).
THEOREM TypeCorrect == Spec => []Typed
<1>1. IInv => Typed
  BY DEF IInv
<1> QED
  BY <1>1, Invariant, PTL

\* A spinner, the guard against a second page and a message to jump to always
\* have their fetch under way: supersession, failures, lost connections, resyncs,
\* evictions and changes of channel leave none behind (activate,
\* apply_initial_fetch_result, finish_loading_more, try_consume_pending_jump).
THEOREM NothingEverHangs == Spec => []NothingHangs
<1>1. IInv => NothingHangs
  BY DEF IInv, Steady, LoadDue, MoreDue, JumpDue, Due, NothingHangs, UnderWay
<1> QED
  BY <1>1, Invariant, PTL

\* A row that says it is being sent has its request under way: its answer, its
\* refusal or the loss of the connection always finds the row, through pages
\* that replace the window, evictions and echoes (reconcile_temp, reject_send).
THEOREM NoGhostEver == Spec => []NoGhosts
<1>1. IInv => NoGhosts
  BY DEF IInv, Steady, SendsDue, Due, NoGhosts, UnderWay
<1> QED
  BY <1>1, Invariant, PTL

\* No message is in the window twice, whether its answer, its echo, a page or a
\* resync brought it first (reconcile_temp, apply_incoming_message).
THEOREM NoTwinEver == InOrder /\ Spec => []NoTwins
<1> SUFFICES ASSUME InOrder PROVE Spec => []NoTwins
  OBVIOUS
<1>1. OInv /\ [Next]_vars => OInv'
  BY StepOrderly
<1>2. Spec => []OInv
  BY <1>1, InitOrderly, PTL DEF Spec
<1> QED
  BY <1>2, OrderlyNoTwins, PTL

\* The window never outgrows MAX_MESSAGES_PER_CHANNEL, whichever end a page, an
\* event or a send extends, and no fetch counts as the latest that was not made
\* (trim_messages, trim_messages_back, jump_to_message).
THEOREM WindowBounded == InOrder /\ Spec => []TypeOK
<1> SUFFICES ASSUME InOrder PROVE Spec => []TypeOK
  OBVIOUS
<1>1. OInv /\ [Next]_vars => OInv'
  BY StepOrderly
<1>2. Spec => []OInv
  BY <1>1, InitOrderly, PTL DEF Spec
<1>3. OInv => TypeOK
  BY DEF OInv, IInv, Fits, TypeOK
<1> QED
  BY <1>2, <1>3, PTL
=============================================================================

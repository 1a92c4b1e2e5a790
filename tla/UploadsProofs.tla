---------------------------- MODULE UploadsProofs ----------------------------
(***************************************************************************)
(* Machine-checked theorems about Uploads, for any messages, files, users   *)
(* and bounds: what the file holds, which jobs run, that none is forgotten, *)
(* and what the message lists when its job is closed.                       *)
(***************************************************************************)
EXTENDS Uploads, SequenceTheorems, TLAPS

Memory == [jobs |-> jobs, failed |-> failed]

\* Jobs as the store and the file hold them: one for each message, of a user.
Good(js, own) ==
    /\ js \subseteq Job
    /\ \A x, y \in js : x.id = y.id => x = y
    /\ \A j \in js : own[j.id] # "nobody"

FileGood(f, own) == f \in File /\ Good(f.jobs, own)

\* The newest save under way is of what the store holds now: this is what
\* makes it enough that a save drops those before it.
StoreInv ==
    /\ FileGood(Memory, owner)
    /\ FileGood(disk, owner)
    /\ saves \in Seq(File)
    /\ \A n \in 1..Len(saves) : FileGood(saves[n], owner)
    /\ saves # <<>> => saves[Len(saves)] = Memory
    /\ DiskNewest

TasksInv ==
    /\ tasks \subseteq Task
    /\ \A t \in tasks : owner[t.id] # "nobody"
    /\ RunningIsLive

\* What the task t and the job j it runs for have in common.
Agree(t, j) ==
    /\ j.pending = t.todo \cup {o.key : o \in t.outcomes}
    /\ t.finished = j.finished \cup {o.key : o \in {x \in t.outcomes : x.uploaded}}

\* What the task t keeps straight, when its message lists the keys listed.
Orderly(t, listed) ==
    /\ \A o \in t.outcomes : o.key \notin t.todo
    /\ \A o1, o2 \in t.outcomes : o1.key = o2.key => o1 = o2
    /\ t.synced \subseteq t.finished /\ t.synced \subseteq listed
    /\ t.phase \in {"last", "done"} => t.todo = {}

TellInv ==
    \A t \in tasks : t.phase # "reread" =>
        /\ Orderly(t, server[t.id])
        /\ \A j \in jobs : j.id = t.id => Agree(t, j)

\* Whoever knows of a message knows all keys it lists: its task, or the store.
ListInv ==
    \A i \in Ids \ fromFile :
        /\ owner[i] = "nobody" => server[i] = {}
        /\ \A t \in tasks : t.id = i => server[i] \subseteq t.finished
        /\ \A j \in jobs : j.id = i /\ i \notin running => server[i] \subseteq j.finished

RestTyped ==
    /\ idOf \in [Keys -> Ids]
    /\ login \in 0..Len(Script) /\ logins \in 0..Len(Script)
    /\ connected \in BOOLEAN /\ restored \in BOOLEAN
    /\ loads \subseteq DOMAIN Script
    /\ written \in {"none", "ok", "lost"} /\ lostWrite \in BOOLEAN
    /\ registry \in [Keys -> {"none", "Uploading", "Uploaded", "Failed"}]
    /\ server \in [Ids -> SUBSET Keys] /\ deleted \subseteq Ids
    /\ owner \in [Ids -> Users \cup {"nobody"}]
    /\ age \in [Ids -> {"fresh", "expired", "old"}]
    /\ events \in 0..MaxEvents
    /\ known \subseteq Ids /\ fromFile \subseteq Ids

AboutTasks == TasksInv /\ NeverForgotten /\ TellInv /\ ListInv

IInv == RestTyped /\ StoreInv /\ AboutTasks
-----------------------------------------------------------------------------
(* What the store holds and saves.                                          *)

\* A message that has an owner keeps one.
OwnersKept == \A i \in Ids : owner[i] # "nobody" => owner'[i] # "nobody"

LEMMA GoodKept ==
  ASSUME NEW js, Good(js, owner), OwnersKept
  PROVE  Good(js, owner')
BY DEF Good, OwnersKept, Job

LEMMA FileGoodKept ==
  ASSUME NEW f, FileGood(f, owner), OwnersKept
  PROVE  FileGood(f, owner')
BY GoodKept DEF FileGood

LEMMA GoodPart ==
  ASSUME NEW js, NEW ks, NEW own, Good(js, own), ks \subseteq js
  PROVE  Good(ks, own)
BY DEF Good

LEMMA MemoryIsFile ==
  ASSUME NEW js \in SUBSET Job, NEW f \in SUBSET Keys
  PROVE  [jobs |-> js, failed |-> f] \in File
BY DEF File

LEMMA PersistedJobs ==
  ASSUME NEW js, NEW f, NEW run, Persist(js, f, run)
  PROVE  /\ jobs' \subseteq js
         /\ \A j \in js : j.id \in run \/ age[j.id] # "old" => j \in jobs'
         /\ \A j \in js \ jobs' : j.id \notin run /\ age[j.id] = "old"
         /\ failed' = f
         /\ written' = "ok" /\ lostWrite' = lostWrite
BY DEF Persist, Pruned

LEMMA Persisted ==
  ASSUME StoreInv, OwnersKept, disk' = disk,
         NEW js, NEW f \in SUBSET Keys, NEW run,
         Good(js, owner'), Persist(js, f, run)
  PROVE  StoreInv'
<1> DEFINE F == [jobs |-> jobs', failed |-> f]
<1>1. jobs' \subseteq js /\ failed' = f /\ saves' = Append(saves, F)
  BY DEF Persist, Pruned
<1>2. Good(jobs', owner')
  BY <1>1, GoodPart
<1>3. F \in File
  BY <1>2, MemoryIsFile DEF Good
<1>4. FileGood(F, owner')
  BY <1>2, <1>3 DEF FileGood
<1>5. Memory' = F
  BY <1>1 DEF Memory
<1>6. saves \in Seq(File)
  BY DEF StoreInv
<1> HIDE DEF F
<1>7. /\ saves' \in Seq(File) /\ saves' # <<>>
      /\ Len(saves') = Len(saves) + 1
      /\ \A n \in 1..Len(saves) : saves'[n] = saves[n]
      /\ saves'[Len(saves) + 1] = F
  BY <1>1, <1>3, <1>6, AppendProperties
<1>8. Len(saves) \in Nat
  BY <1>6, LenProperties
<1>9. \A n \in 1..Len(saves') : FileGood(saves'[n], owner')
  <2> SUFFICES ASSUME NEW n \in 1..Len(saves')
               PROVE  FileGood(saves'[n], owner')
    OBVIOUS
  <2>1. CASE n = Len(saves) + 1
    BY <2>1, <1>4, <1>7
  <2>2. CASE n # Len(saves) + 1
    <3>1. n \in 1..Len(saves)
      BY <2>2, <1>7, <1>8
    <3>2. FileGood(saves[n], owner)
      BY <3>1 DEF StoreInv
    <3> QED
      BY <3>1, <3>2, <1>7, FileGoodKept
  <2> QED
    BY <2>1, <2>2
<1>10. FileGood(disk', owner')
  BY FileGoodKept DEF StoreInv
<1>11. saves'[Len(saves')] = Memory'
  BY <1>5, <1>7
<1>12. DiskNewest'
  BY <1>7 DEF DiskNewest
<1> QED
  BY <1>4, <1>5, <1>7, <1>9, <1>10, <1>11, <1>12 DEF StoreInv

LEMMA StoreUntouched ==
  ASSUME StoreInv, OwnersKept, UNCHANGED <<jobs, failed, saves, disk, written>>
  PROVE  StoreInv'
<1>1. Memory' = Memory
  BY DEF Memory
<1>2. FileGood(Memory', owner') /\ FileGood(disk', owner')
  BY <1>1, FileGoodKept DEF StoreInv
<1>3. \A n \in 1..Len(saves') : FileGood(saves'[n], owner')
  BY FileGoodKept DEF StoreInv
<1>4. DiskNewest'
  BY DEF DiskNewest, StoreInv
<1> QED
  BY <1>1, <1>2, <1>3, <1>4 DEF StoreInv

LEMMA EmptyFiles ==
  /\ Len(<<>>) = 0
  /\ \A s \in Seq(File) : s # <<>> => Len(s) \in Nat \ {0}
BY EmptySeq

LEMMA NewerSaves ==
  ASSUME NEW s \in Seq(File), NEW n \in 1..Len(s), NEW t,
         t = SubSeq(s, n + 1, Len(s))
  PROVE  /\ t \in Seq(File)
         /\ \A i \in 1..Len(t) : n + i \in 1..Len(s) /\ t[i] = s[n + i]
         /\ t # <<>> => t[Len(t)] = s[Len(s)]
         /\ t = <<>> => n = Len(s)
<1>1. PICK k \in Nat : k = Len(s)
  BY LenProperties
<1>2. n \in 1..k /\ n + 1 \in Int /\ k \in Int
  BY <1>1
<1>3. \A i \in (n + 1)..k : s[i] \in File
  BY <1>1, <1>2, LenProperties
<1>4. /\ t \in Seq(File)
      /\ Len(t) = IF n + 1 <= k THEN k - (n + 1) + 1 ELSE 0
      /\ \A i \in 1..(k - (n + 1) + 1) : t[i] = s[(n + 1) + i - 1]
  BY <1>1, <1>2, <1>3, SubSeqProperties
<1>5. PICK m \in Nat : m = Len(t)
  BY <1>4, LenProperties
<1>6. m = k - n
  BY <1>2, <1>4, <1>5
<1>7. \A i \in 1..m : n + i \in 1..k /\ t[i] = s[n + i]
  <2> SUFFICES ASSUME NEW i \in 1..m
               PROVE  n + i \in 1..k /\ t[i] = s[n + i]
    OBVIOUS
  <2>1. i \in 1..(k - (n + 1) + 1) /\ (n + 1) + i - 1 = n + i
        /\ n + i \in 1..k
    BY <1>2, <1>6
  <2> QED
    BY <2>1, <1>4
<1>8. t # <<>> => m # 0
  BY <1>4, <1>5, EmptyFiles
<1>9. t = <<>> => m = 0
  BY <1>5, EmptyFiles
<1>10. t # <<>> => t[m] = s[k]
  <2> SUFFICES ASSUME t # <<>> PROVE t[m] = s[k]
    OBVIOUS
  <2>1. m \in 1..m /\ n + m = k
    BY <1>2, <1>6, <1>8
  <2> QED
    BY <2>1, <1>7
<1>11. t = <<>> => n = k
  BY <1>2, <1>6, <1>9
<1> QED
  BY <1>1, <1>4, <1>5, <1>7, <1>10, <1>11

\* A save that runs leaves the newer ones, the last of which is the newest.
LEMMA SavesStore ==
  ASSUME StoreInv, Saves
  PROVE  StoreInv'
<1>1. PICK n \in DOMAIN saves : Save(n) \/ SaveFails(n)
  BY DEF Saves
<1>2. jobs' = jobs /\ failed' = failed /\ owner' = owner
  BY DEF Saves
<1>3. Memory' = Memory
  BY <1>2 DEF Memory
<1>4. saves \in Seq(File) /\ Len(saves) \in Nat /\ n \in 1..Len(saves)
      /\ saves' = SubSeq(saves, n + 1, Len(saves))
  BY <1>1, LenProperties DEF StoreInv, Save, SaveFails
<1>5. n \in 1..Len(saves) /\ saves \in Seq(File)
  BY <1>4
<1>6. /\ saves' \in Seq(File)
      /\ \A i \in 1..Len(saves') : n + i \in 1..Len(saves) /\ saves'[i] = saves[n + i]
      /\ saves' # <<>> => saves'[Len(saves')] = saves[Len(saves)]
      /\ saves' = <<>> => n = Len(saves)
  <2>1. saves' = SubSeq(saves, n + 1, Len(saves))
    BY <1>4
  <2> QED
    BY ONLY <2>1, <1>5, NewerSaves, SMTT(30)
<1>7. \A i \in 1..Len(saves') : FileGood(saves'[i], owner')
  BY <1>2, <1>6 DEF StoreInv
<1>8. saves # <<>>
  BY <1>4, EmptyFiles
<1>9. saves' # <<>> => saves'[Len(saves')] = Memory'
  BY <1>3, <1>6, <1>8 DEF StoreInv
<1>10. FileGood(Memory', owner')
  BY <1>2, <1>3 DEF StoreInv
<1>11. CASE Save(n)
  <2>1. disk' = saves[n]
    BY <1>11 DEF Save
  <2>3. DiskNewest'
    BY <2>1, <1>6, <1>3, <1>8 DEF DiskNewest, StoreInv, Memory
  <2>4. FileGood(disk', owner')
    BY <2>1, <1>2, <1>4 DEF StoreInv
  <2> QED
    BY <2>3, <2>4, <1>6, <1>7, <1>9, <1>10 DEF StoreInv
<1>12. CASE SaveFails(n)
  <2>1. disk' = disk /\ written' = IF n = Len(saves) THEN "lost" ELSE written
    BY <1>12 DEF SaveFails
  <2>3. DiskNewest'
    BY <2>1, <1>6 DEF DiskNewest
  <2>4. FileGood(disk', owner')
    BY <2>1, <1>2 DEF StoreInv
  <2> QED
    BY <2>3, <2>4, <1>6, <1>7, <1>9, <1>10 DEF StoreInv
<1> QED
  BY <1>1, <1>11, <1>12

-----------------------------------------------------------------------------
(* What a step makes of the tasks.                                          *)

\* Only the job of the message i changes; others go when their week is over.
OthersKept(i) ==
    /\ \A j \in jobs' : j.id # i => j \in jobs
    /\ \A j \in jobs : j.id # i /\ j.id \in running' => j \in jobs'
    /\ \A j \in jobs \ jobs' : j.id # i => age[j.id] = "old"

\* The task t becomes r.
LEMMA TaskGoesOn ==
  ASSUME AboutTasks, NEW t \in tasks, NEW r \in Task, r.id = t.id,
         tasks' = (tasks \ {t}) \cup {r},
         UNCHANGED <<running, owner, age, fromFile, known>>,
         OthersKept(t.id),
         \A i \in Ids : i # t.id => server'[i] = server[i],
         r.phase # "reread" =>
            /\ t.id \in IdsOf(jobs')
            /\ Orderly(r, server'[t.id])
            /\ \A j \in jobs' : j.id = t.id => Agree(r, j),
         t.id \notin fromFile => server'[t.id] \subseteq r.finished
  PROVE  AboutTasks'
<1>1. /\ tasks \subseteq Task /\ running = IdsOf(tasks)
      /\ \A t1, t2 \in tasks : t1.id = t2.id => t1 = t2
      /\ \A t1 \in tasks : t1.phase # "reread" => t1.id \in IdsOf(jobs)
      /\ \A t1 \in tasks : owner[t1.id] # "nobody"
  BY DEF AboutTasks, TasksInv, RunningIsLive
<1>2. \A q \in tasks' : q = r \/ (q \in tasks /\ q.id # t.id)
  BY <1>1
<1>3. \A q \in Task : q.id \in Ids
  BY DEF Task
<1>4. IdsOf(tasks') = IdsOf(tasks)
  BY DEF IdsOf
<1>5. \A q \in tasks : q.id \in running
  BY <1>1 DEF IdsOf
<1>6. TasksInv'
  <2>1. tasks' \subseteq Task
    BY <1>1
  <2>2. \A q \in tasks' : owner'[q.id] # "nobody"
    BY <1>1, <1>2
  <2>3. \A t1, t2 \in tasks' : t1.id = t2.id => t1 = t2
    BY <1>1, <1>2
  <2>4. \A q \in tasks' : q.phase # "reread" => q.id \in IdsOf(jobs')
    <3> SUFFICES ASSUME NEW q \in tasks', q.phase # "reread", q # r
                 PROVE  q.id \in IdsOf(jobs')
      OBVIOUS
    <3>1. q \in tasks /\ q.id # t.id
      BY <1>2
    <3>2. PICK j \in jobs : j.id = q.id
      BY <1>1, <3>1 DEF IdsOf
    <3>3. j \in jobs'
      BY <1>5, <3>1, <3>2 DEF OthersKept
    <3> QED
      BY <3>2, <3>3 DEF IdsOf
  <2> QED
    BY <1>1, <1>4, <2>1, <2>2, <2>3, <2>4 DEF TasksInv, RunningIsLive
<1>7. NeverForgotten'
  <2> SUFFICES ASSUME NEW i \in known', i \notin IdsOf(tasks'), age'[i] # "old"
               PROVE  i \in IdsOf(jobs')
    BY DEF NeverForgotten
  <2>1. i \in IdsOf(jobs)
    BY <1>4 DEF AboutTasks, NeverForgotten
  <2>2. PICK j \in jobs : j.id = i
    BY <2>1 DEF IdsOf
  <2>3. i # t.id
    BY <1>4 DEF IdsOf
  <2>4. j \in jobs'
    BY <2>2, <2>3 DEF OthersKept
  <2> QED
    BY <2>2, <2>4 DEF IdsOf
<1>8. TellInv'
  <2> SUFFICES ASSUME NEW q \in tasks', q.phase # "reread"
               PROVE  /\ Orderly(q, server'[q.id])
                      /\ \A j \in jobs' : j.id = q.id => Agree(q, j)
    BY DEF TellInv
  <2>1. CASE q = r
    BY <2>1
  <2>2. CASE q # r
    <3>1. q \in tasks /\ q.id # t.id
      BY <1>2, <2>2
    <3>2. server'[q.id] = server[q.id]
      BY <1>1, <1>3, <3>1
    <3> QED
      BY <3>1, <3>2 DEF AboutTasks, TellInv, OthersKept
  <2> QED
    BY <2>1, <2>2
<1>9. ListInv'
  <2> SUFFICES ASSUME NEW i \in Ids \ fromFile'
               PROVE  /\ owner'[i] = "nobody" => server'[i] = {}
                      /\ \A q \in tasks' : q.id = i => server'[i] \subseteq q.finished
                      /\ \A j \in jobs' : j.id = i /\ i \notin running'
                                          => server'[i] \subseteq j.finished
    BY DEF ListInv
  <2>1. CASE i = t.id
    <3>1. owner'[i] # "nobody"
      BY <1>1, <2>1
    <3>2. i \in running'
      BY <1>5, <2>1
    <3> QED
      BY <1>2, <2>1, <3>1, <3>2
  <2>2. CASE i # t.id
    BY <1>2, <2>2 DEF AboutTasks, ListInv, OthersKept
  <2> QED
    BY <2>1, <2>2
<1> QED
  BY <1>6, <1>7, <1>8, <1>9 DEF AboutTasks

\* The task t is over.
LEMMA TaskEnds ==
  ASSUME AboutTasks, NEW t \in tasks,
         tasks' = tasks \ {t}, running' = running \ {t.id},
         UNCHANGED <<owner, age, fromFile, server>>,
         OthersKept(t.id),
         known' \subseteq known,
         t.id \in known' => t.id \in IdsOf(jobs') \/ age[t.id] = "old",
         t.id \notin fromFile =>
            \A j \in jobs' : j.id = t.id => server[t.id] \subseteq j.finished
  PROVE  AboutTasks'
<1>1. /\ tasks \subseteq Task /\ running = IdsOf(tasks)
      /\ \A t1, t2 \in tasks : t1.id = t2.id => t1 = t2
      /\ \A t1 \in tasks : t1.phase # "reread" => t1.id \in IdsOf(jobs)
      /\ \A t1 \in tasks : owner[t1.id] # "nobody"
  BY DEF AboutTasks, TasksInv, RunningIsLive
<1>2. \A q \in tasks' : q \in tasks /\ q.id # t.id
  BY <1>1
<1>3. \A q \in tasks' : q.id \in running'
  BY <1>1, <1>2 DEF IdsOf
<1>4. IdsOf(tasks') = IdsOf(tasks) \ {t.id}
  BY <1>1, <1>2 DEF IdsOf
<1>5. TasksInv'
  <2>1. \A q \in tasks' : q.phase # "reread" => q.id \in IdsOf(jobs')
    <3> SUFFICES ASSUME NEW q \in tasks', q.phase # "reread"
                 PROVE  q.id \in IdsOf(jobs')
      OBVIOUS
    <3>1. PICK j \in jobs : j.id = q.id
      BY <1>1, <1>2 DEF IdsOf
    <3>2. j \in jobs'
      BY <1>2, <1>3, <3>1 DEF OthersKept
    <3> QED
      BY <3>1, <3>2 DEF IdsOf
  <2>2. running' = IdsOf(tasks')
    BY <1>1, <1>4
  <2> QED
    BY <1>1, <1>2, <2>1, <2>2 DEF TasksInv, RunningIsLive
<1>6. NeverForgotten'
  <2> SUFFICES ASSUME NEW i \in known', i \notin IdsOf(tasks'), age'[i] # "old", i # t.id
               PROVE  i \in IdsOf(jobs')
    BY DEF NeverForgotten
  <2>1. PICK j \in jobs : j.id = i
    BY <1>4 DEF AboutTasks, NeverForgotten, IdsOf
  <2>2. j \in jobs'
    BY <2>1 DEF OthersKept
  <2> QED
    BY <2>1, <2>2 DEF IdsOf
<1>7. TellInv'
  BY <1>2 DEF AboutTasks, TellInv, OthersKept
<1>8. ListInv'
  <2> SUFFICES ASSUME NEW i \in Ids \ fromFile'
               PROVE  /\ owner'[i] = "nobody" => server'[i] = {}
                      /\ \A q \in tasks' : q.id = i => server'[i] \subseteq q.finished
                      /\ \A j \in jobs' : j.id = i /\ i \notin running'
                                          => server'[i] \subseteq j.finished
    BY DEF ListInv
  <2>1. CASE i = t.id
    BY <1>1, <1>2, <2>1
  <2>2. CASE i # t.id
    BY <1>2, <2>2 DEF AboutTasks, ListInv, OthersKept
  <2> QED
    BY <2>1, <2>2
<1> QED
  BY <1>5, <1>6, <1>7, <1>8 DEF AboutTasks

\* The tasks of ts begin; nothing happens to the jobs that run already.
LEMMA TasksBegin ==
  ASSUME AboutTasks, NEW ts \in SUBSET Task,
         tasks' = tasks \cup ts, running' = running \cup IdsOf(ts),
         OwnersKept, UNCHANGED <<age, server>>, fromFile \subseteq fromFile',
         \A n \in ts : n.id \notin running /\ owner'[n.id] # "nobody",
         \A n1, n2 \in ts : n1.id = n2.id => n1 = n2,
         \A n \in ts : n.phase # "reread" =>
            /\ n.id \in IdsOf(jobs')
            /\ Orderly(n, server[n.id])
            /\ \A j \in jobs' : j.id = n.id => Agree(n, j),
         \A n \in ts : n.id \notin fromFile' => server[n.id] \subseteq n.finished,
         \A j \in jobs : j.id \in running => j \in jobs',
         \A j \in jobs' : j.id \in running => j \in jobs,
         \A j \in jobs' : j.id \notin running' /\ j.id \notin fromFile' => j \in jobs,
         NeverForgotten'
  PROVE  AboutTasks'
<1>1. /\ tasks \subseteq Task /\ running = IdsOf(tasks)
      /\ \A t1, t2 \in tasks : t1.id = t2.id => t1 = t2
      /\ \A t1 \in tasks : t1.phase # "reread" => t1.id \in IdsOf(jobs)
      /\ \A t1 \in tasks : owner[t1.id] # "nobody"
  BY DEF AboutTasks, TasksInv, RunningIsLive
<1>2. \A q \in tasks : q.id \in running /\ q.id \in Ids
  BY <1>1 DEF IdsOf, Task
<1>3. TasksInv'
  <2>1. running' = IdsOf(tasks')
    BY <1>1 DEF IdsOf
  <2>2. \A t1, t2 \in tasks' : t1.id = t2.id => t1 = t2
    BY <1>1, <1>2
  <2>3. \A q \in tasks' : owner'[q.id] # "nobody"
    BY <1>1, <1>2 DEF OwnersKept
  <2>4. \A q \in tasks' : q.phase # "reread" => q.id \in IdsOf(jobs')
    <3> SUFFICES ASSUME NEW q \in tasks, q.phase # "reread"
                 PROVE  q.id \in IdsOf(jobs')
      OBVIOUS
    <3>1. PICK j \in jobs : j.id = q.id
      BY <1>1 DEF IdsOf
    <3>2. j \in jobs'
      BY <1>2, <3>1
    <3> QED
      BY <3>1, <3>2 DEF IdsOf
  <2> QED
    BY <1>1, <2>1, <2>2, <2>3, <2>4 DEF TasksInv, RunningIsLive
<1>4. TellInv'
  <2> SUFFICES ASSUME NEW q \in tasks, q.phase # "reread"
               PROVE  /\ Orderly(q, server'[q.id])
                      /\ \A j \in jobs' : j.id = q.id => Agree(q, j)
    BY DEF TellInv
  <2> QED
    BY <1>2 DEF AboutTasks, TellInv
<1>5. ListInv'
  <2> SUFFICES ASSUME NEW i \in Ids \ fromFile'
               PROVE  /\ owner'[i] = "nobody" => server'[i] = {}
                      /\ \A q \in tasks' : q.id = i => server'[i] \subseteq q.finished
                      /\ \A j \in jobs' : j.id = i /\ i \notin running'
                                          => server'[i] \subseteq j.finished
    BY DEF ListInv
  <2> QED
    BY <1>2 DEF AboutTasks, ListInv, OwnersKept
<1> QED
  BY <1>3, <1>4, <1>5 DEF AboutTasks

-----------------------------------------------------------------------------
(* Steps that leave the jobs and the tasks alone.                           *)

LEMMA TasksUntouched ==
  ASSUME AboutTasks, UNCHANGED <<jobs, running, tasks, server, owner, known, fromFile>>,
         \A i \in Ids : age[i] = "old" => age'[i] = "old", RestTyped
  PROVE  AboutTasks'
<1>1. TasksInv'
  BY DEF AboutTasks, TasksInv, RunningIsLive
<1>2. NeverForgotten'
  BY DEF AboutTasks, NeverForgotten, RestTyped
<1>3. TellInv'
  BY DEF AboutTasks, TellInv
<1>4. ListInv'
  BY DEF AboutTasks, ListInv
<1> QED
  BY <1>1, <1>2, <1>3, <1>4 DEF AboutTasks

LEMMA ScriptLength == Len(Script) \in Nat /\ DOMAIN Script = 1..Len(Script)
BY UploadsAssumption, LenProperties

LEMMA LoginStep ==
  ASSUME IInv, Login
  PROVE  IInv'
<1>1. StoreInv'
  BY StoreUntouched DEF IInv, Login, store, file, outside, OwnersKept
<1>2. AboutTasks'
  BY TasksUntouched DEF IInv, Login, store, file, outside
<1>3. RestTyped'
  BY ScriptLength DEF IInv, RestTyped, Login, store, file, outside
<1> QED
  BY <1>1, <1>2, <1>3 DEF IInv

LEMMA LogoutStep ==
  ASSUME IInv, Logout
  PROVE  IInv'
<1>1. StoreInv'
  BY StoreUntouched DEF IInv, Logout, store, file, outside, OwnersKept
<1>2. AboutTasks'
  BY TasksUntouched DEF IInv, Logout, store, file, outside
<1>3. RestTyped'
  <2>1. connected' \in BOOLEAN /\ restored' \in BOOLEAN
    BY DEF Logout
  <2>2. login' \in 0..Len(Script)
    BY ScriptLength DEF Logout
  <2>3. registry' \in [Keys -> {"none", "Uploading", "Uploaded", "Failed"}]
    BY DEF Logout, IInv, RestTyped
  <2>4. UNCHANGED <<idOf, logins, loads, written, lostWrite, server, deleted, owner, age,
                    events, known, fromFile>>
    BY DEF Logout, store, file, outside
  <2> QED
    BY <2>1, <2>2, <2>3, <2>4 DEF IInv, RestTyped
<1> QED
  BY <1>1, <1>2, <1>3 DEF IInv

LEMMA DisconnectStep ==
  ASSUME IInv, Disconnect
  PROVE  IInv'
<1>1. StoreInv'
  BY StoreUntouched DEF IInv, Disconnect, store, file, outside, OwnersKept
<1>2. AboutTasks'
  BY TasksUntouched DEF IInv, Disconnect, store, file, outside
<1>3. RestTyped'
  BY DEF IInv, RestTyped, Disconnect, store, file, outside
<1> QED
  BY <1>1, <1>2, <1>3 DEF IInv

LEMMA DeleteStep ==
  ASSUME IInv, NEW i \in Ids, Delete(i)
  PROVE  IInv'
<1>1. StoreInv'
  BY StoreUntouched DEF IInv, Delete, store, file, OwnersKept
<1>2. AboutTasks'
  BY TasksUntouched DEF IInv, Delete, store, file
<1>3. RestTyped'
  BY UploadsAssumption DEF IInv, RestTyped, Delete, process, store, file
<1> QED
  BY <1>1, <1>2, <1>3 DEF IInv

LEMMA OlderStep ==
  ASSUME IInv, NEW i \in Ids, Older(i)
  PROVE  IInv'
<1>1. StoreInv'
  BY StoreUntouched DEF IInv, Older, store, file, OwnersKept
<1>2. AboutTasks'
  BY TasksUntouched DEF IInv, Older, store, file, RestTyped
<1>3. RestTyped'
  BY UploadsAssumption DEF IInv, RestTyped, Older, process, store, file
<1> QED
  BY <1>1, <1>2, <1>3 DEF IInv

LEMMA SavesStep ==
  ASSUME IInv, Saves
  PROVE  IInv'
<1>1. StoreInv'
  BY SavesStore DEF IInv
<1>2. AboutTasks'
  BY TasksUntouched DEF IInv, Saves
<1>3. PICK n \in DOMAIN saves : (Save(n) /\ UNCHANGED events) \/ SaveFails(n)
  BY DEF Saves
<1>4. events' \in 0..MaxEvents
  BY <1>3, UploadsAssumption DEF SaveFails, IInv, RestTyped
<1>5. RestTyped'
  <2>1. written' \in {"none", "ok", "lost"}
    BY <1>3 DEF Save, SaveFails, IInv, RestTyped
  <2>2. lostWrite' \in BOOLEAN
    BY <1>3 DEF Save, SaveFails, IInv, RestTyped
  <2> QED
    BY <1>4, <2>1, <2>2 DEF IInv, RestTyped, Saves, process
<1> QED
  BY <1>1, <1>2, <1>5 DEF IInv

\* Nothing is left but the file.
LEMMA CrashStep ==
  ASSUME IInv, Crash
  PROVE  IInv'
<1>1. StoreInv'
  <2>1. Memory' = NoFile /\ saves' = <<>> /\ written' = "none" /\ UNCHANGED <<disk, owner>>
    BY DEF Crash, Memory, NoFile
  <2>2. FileGood(Memory', owner')
    BY <2>1 DEF NoFile, File, FileGood, Good
  <2>3. FileGood(disk', owner')
    BY <2>1 DEF IInv, StoreInv
  <2>4. saves' \in Seq(File) /\ \A n \in 1..Len(saves') : FileGood(saves'[n], owner')
    <3>1. Len(saves') = 0 /\ <<>> \in Seq(File)
      BY <2>1, EmptySeq, EmptyFiles
    <3> QED
      BY <3>1, <2>1
  <2>5. DiskNewest'
    BY <2>1 DEF DiskNewest
  <2> QED
    BY <2>1, <2>2, <2>3, <2>4, <2>5 DEF StoreInv
<1>2. AboutTasks'
  <2>1. TasksInv'
    BY DEF Crash, TasksInv, RunningIsLive, IdsOf
  <2>2. NeverForgotten'
    BY DEF Crash, NeverForgotten
  <2>3. TellInv'
    BY DEF Crash, TellInv
  <2>4. ListInv'
    BY DEF Crash, ListInv, IInv, AboutTasks
  <2> QED
    BY <2>1, <2>2, <2>3, <2>4 DEF AboutTasks
<1>3. RestTyped'
  <2>1. /\ connected' \in BOOLEAN /\ restored' \in BOOLEAN
        /\ lostWrite' \in BOOLEAN
    BY DEF Crash
  <2>2. /\ login' \in 0..Len(Script) /\ loads' \subseteq DOMAIN Script
        /\ known' \subseteq Ids
    BY ScriptLength DEF Crash
  <2>3. /\ registry' \in [Keys -> {"none", "Uploading", "Uploaded", "Failed"}]
        /\ written' \in {"none", "ok", "lost"}
    BY DEF Crash
  <2>4. events' \in 0..MaxEvents
    BY UploadsAssumption DEF Crash, IInv, RestTyped
  <2>5. UNCHANGED <<idOf, logins, server, deleted, owner, age, fromFile>>
    BY DEF Crash
  <2> QED
    BY <2>1, <2>2, <2>3, <2>4, <2>5 DEF IInv, RestTyped
<1> QED
  BY <1>1, <1>2, <1>3 DEF IInv

-----------------------------------------------------------------------------
(* The steps of a task.                                                     *)

LEMMA RestTask ==
  ASSUME NEW t \in Task
  PROVE  /\ Rest(t) \in Task
         /\ Rest(t).id = t.id /\ Rest(t).todo = t.todo /\ Rest(t).finished = t.finished
         /\ Rest(t).synced = t.synced /\ Rest(t).outcomes = t.outcomes
         /\ Rest(t).phase # "reread"
         /\ Rest(t).phase \in {"last", "done"} => t.todo = {}
BY DEF Rest, Task, Phases

LEMMA UploadingTask ==
  ASSUME NEW j \in Job
  PROVE  /\ Uploading(j) \in Task
         /\ Uploading(j).id = j.id /\ Uploading(j).todo = j.pending
         /\ Uploading(j).finished = j.finished
         /\ Uploading(j).synced = {} /\ Uploading(j).outcomes = {}
         /\ Uploading(j).phase # "reread"
         /\ Uploading(j).phase \in {"last", "done"} => j.pending = {}
<1> DEFINE t == [id |-> j.id, phase |-> "first", todo |-> j.pending,
                 finished |-> j.finished, synced |-> {}, fails |-> j.fails,
                 outcomes |-> {}]
<1>1. t \in Task
  BY DEF Task, Job, Phases
<1>2. /\ t.id = j.id /\ t.todo = j.pending /\ t.finished = j.finished
      /\ t.synced = {} /\ t.outcomes = {} /\ t.phase = "first"
  OBVIOUS
<1>3. Uploading(j) = IF j.finished = {} THEN Rest(t) ELSE t
  BY DEF Uploading
<1> HIDE DEF t
<1> QED
  BY <1>1, <1>2, <1>3, RestTask

\* A job that starts to upload agrees with its task.
LEMMA UploadingAgrees ==
  ASSUME NEW j \in Job, NEW listed
  PROVE  Orderly(Uploading(j), listed) /\ Agree(Uploading(j), j)
BY UploadingTask DEF Orderly, Agree, Job

LEMMA PersistOthers ==
  ASSUME NEW js, NEW f, NEW i, Persist(js, f, running'),
         \A j \in js : j.id # i => j \in jobs,
         \A j \in jobs : j.id # i => j \in js
  PROVE  OthersKept(i)
BY PersistedJobs DEF OthersKept

\* The owner of a job that a task is for.
LEMMA TaskFacts ==
  ASSUME IInv, NEW t \in tasks
  PROVE  /\ t \in Task /\ t.id \in Ids /\ owner[t.id] # "nobody" /\ t.id \in running
         /\ t.id \notin fromFile => server[t.id] \subseteq t.finished
         /\ t.phase # "reread" =>
              /\ t.id \in IdsOf(jobs) /\ Orderly(t, server[t.id])
              /\ \A j \in jobs : j.id = t.id => Agree(t, j)
BY DEF IInv, AboutTasks, TasksInv, RunningIsLive, TellInv, ListInv, Task, IdsOf

LEMMA FileEndsStep ==
  ASSUME IInv, NEW t \in tasks, NEW k \in Keys, NEW uploaded \in BOOLEAN,
         FileEnds(t, k, uploaded)
  PROVE  IInv'
<1> DEFINE done == IF uploaded THEN t.finished \cup {k} ELSE t.finished
           o == [key |-> k, uploaded |-> uploaded]
           r == [t EXCEPT !.todo = @ \ {k}, !.finished = done, !.outcomes = @ \cup {o}]
           s == [r EXCEPT !.phase = "sync"]
<1>1. /\ t \in Task /\ owner[t.id] # "nobody" /\ t.id \in Ids
      /\ t.phase = "upload" /\ k \in t.todo
      /\ Orderly(t, server[t.id]) /\ t.id \in IdsOf(jobs)
      /\ \A j \in jobs : j.id = t.id => Agree(t, j)
      /\ t.id \notin fromFile => server[t.id] \subseteq t.finished
  BY TaskFacts DEF FileEnds
<1>2. r \in Task /\ s \in Task
  <2>1. done \in SUBSET Keys /\ o \in [key : Keys, uploaded : BOOLEAN]
    BY <1>1 DEF Task
  <2> HIDE DEF done, o
  <2>2. r \in Task
    BY <1>1, <2>1 DEF Task
  <2> HIDE DEF r
  <2> QED
    BY <2>2 DEF Task, Phases
<1>3. /\ r.id = t.id /\ r.todo = t.todo \ {k} /\ r.finished = done
      /\ r.synced = t.synced /\ r.outcomes = t.outcomes \cup {o}
      /\ r.phase = "upload"
  BY <1>1 DEF Task
<1>4. /\ s.id = t.id /\ s.todo = t.todo \ {k} /\ s.finished = done
      /\ s.synced = t.synced /\ s.outcomes = t.outcomes \cup {o}
      /\ s.phase = "sync"
  BY <1>1 DEF Task
<1>5. tasks' = (tasks \ {t}) \cup
               {IF Cardinality(done \ t.synced) >= Batch THEN s ELSE Rest(r)}
  BY DEF FileEnds
<1>6. /\ UNCHANGED <<process, store, disk, registry, outside, known, fromFile>>
  BY DEF FileEnds
<1>7. o.key = k /\ o.uploaded = uploaded
  OBVIOUS
<1>8. t.finished \subseteq done /\ (uploaded => done = t.finished \cup {k})
      /\ (~uploaded => done = t.finished)
  OBVIOUS
<1> HIDE DEF o, done, r, s
<1>9. PICK q \in Task :
        /\ tasks' = (tasks \ {t}) \cup {q}
        /\ q.id = t.id /\ q.todo = t.todo \ {k} /\ q.finished = done
        /\ q.synced = t.synced /\ q.outcomes = t.outcomes \cup {o}
        /\ q.phase # "reread" /\ q.phase \in {"last", "done"} => q.todo = {}
  <2>1. CASE Cardinality(done \ t.synced) >= Batch
    BY <2>1, <1>2, <1>4, <1>5
  <2>2. CASE ~(Cardinality(done \ t.synced) >= Batch)
    BY <2>2, <1>2, <1>3, <1>5, RestTask
  <2> QED
    BY <2>1, <2>2
<1>10. Orderly(q, server[t.id])
  BY <1>1, <1>7, <1>8, <1>9 DEF Orderly
<1>11. \A j \in jobs : j.id = t.id => Agree(q, j)
  <2> SUFFICES ASSUME NEW j \in jobs, j.id = t.id
               PROVE  Agree(q, j)
    OBVIOUS
  <2>1. Agree(t, j)
    BY <1>1
  <2>2. j.pending = q.todo \cup {x.key : x \in q.outcomes}
    BY <1>1, <1>7, <1>9, <2>1 DEF Agree
  <2>3. q.finished = j.finished \cup {x.key : x \in {y \in q.outcomes : y.uploaded}}
    BY <1>1, <1>7, <1>8, <1>9, <2>1 DEF Agree
  <2> QED
    BY <2>2, <2>3 DEF Agree
<1>12. StoreInv'
  BY <1>6, StoreUntouched DEF IInv, store, file, outside, OwnersKept
<1>13. RestTyped'
  BY <1>6 DEF IInv, RestTyped, process, store, file, outside
<1>14. /\ UNCHANGED <<running, owner, age, fromFile, known>>
       /\ OthersKept(t.id) /\ UNCHANGED server /\ UNCHANGED jobs
  BY <1>6 DEF store, file, outside, OthersKept
<1>15. AboutTasks'
  BY <1>1, <1>8, <1>9, <1>10, <1>11, <1>14, TaskGoesOn DEF IInv
<1> QED
  BY <1>12, <1>13, <1>15 DEF IInv

LEMMA SyncStep ==
  ASSUME IInv, NEW t \in tasks, NEW answered \in BOOLEAN, NEW landed \in BOOLEAN,
         Sync(t, answered, landed)
  PROVE  IInv'
<1> DEFINE r == IF answered THEN [t EXCEPT !.synced = t.finished] ELSE t
           s == [r EXCEPT !.phase = "done"]
<1>1. /\ t \in Task /\ owner[t.id] # "nobody" /\ t.id \in Ids
      /\ t.phase \in {"first", "sync", "last"}
      /\ Orderly(t, server[t.id]) /\ t.id \in IdsOf(jobs)
      /\ \A j \in jobs : j.id = t.id => Agree(t, j)
      /\ t.id \notin fromFile => server[t.id] \subseteq t.finished
  BY TaskFacts DEF Sync
<1>2. r \in Task /\ s \in Task
  BY <1>1 DEF Task, Phases
<1>3. /\ r.id = t.id /\ r.todo = t.todo /\ r.finished = t.finished
      /\ r.outcomes = t.outcomes
      /\ r.synced = t.synced \/ (answered /\ r.synced = t.finished)
  BY <1>1 DEF Task
<1>4. /\ s.id = t.id /\ s.todo = t.todo /\ s.finished = t.finished
      /\ s.outcomes = t.outcomes /\ s.synced = r.synced /\ s.phase = "done"
  <2> HIDE DEF r
  <2> QED
    BY <1>2, <1>3 DEF Task
<1>5. /\ tasks' = (tasks \ {t}) \cup {IF t.phase = "last" THEN s ELSE Rest(r)}
      /\ UNCHANGED <<process, store, disk, registry, idOf, deleted, owner, age, events,
                     known, fromFile>>
      /\ answered => landed
  BY DEF Sync
<1>6. /\ server' \in [Ids -> SUBSET Keys]
      /\ \A i \in Ids : i # t.id => server'[i] = server[i]
      /\ server'[t.id] = IF landed THEN t.finished ELSE server[t.id]
  <2>1. server \in [Ids -> SUBSET Keys]
    BY DEF IInv, RestTyped
  <2>2. t.finished \in SUBSET Keys
    BY <1>1 DEF Task
  <2> QED
    BY <1>1, <2>1, <2>2 DEF Sync, Patch
<1> HIDE DEF r, s
<1>7. PICK q \in Task :
        /\ tasks' = (tasks \ {t}) \cup {q}
        /\ q.id = t.id /\ q.todo = t.todo /\ q.finished = t.finished
        /\ q.outcomes = t.outcomes
        /\ q.synced = t.synced \/ (answered /\ q.synced = t.finished)
        /\ q.phase # "reread" /\ q.phase \in {"last", "done"} => q.todo = {}
  <2>1. CASE t.phase = "last"
    BY <2>1, <1>1, <1>2, <1>3, <1>4, <1>5 DEF Orderly
  <2>2. CASE t.phase # "last"
    BY <2>2, <1>2, <1>3, <1>5, RestTask
  <2> QED
    BY <2>1, <2>2
<1>8. Orderly(q, server'[t.id])
  BY <1>1, <1>5, <1>6, <1>7 DEF Orderly
<1>9. \A j \in jobs : j.id = t.id => Agree(q, j)
  BY <1>1, <1>7 DEF Agree
<1>10. t.id \notin fromFile => server'[t.id] \subseteq q.finished
  BY <1>1, <1>6, <1>7
<1>11. StoreInv'
  BY <1>5, StoreUntouched DEF IInv, store, file, OwnersKept
<1>12. RestTyped'
  BY <1>5, <1>6 DEF IInv, RestTyped, process, store, file
<1>13. /\ UNCHANGED <<running, owner, age, fromFile, known>>
       /\ OthersKept(t.id) /\ UNCHANGED jobs
  BY <1>5 DEF store, file, OthersKept
<1>14. AboutTasks'
  BY <1>1, <1>6, <1>7, <1>8, <1>9, <1>10, <1>13, TaskGoesOn DEF IInv
<1> QED
  BY <1>11, <1>12, <1>14 DEF IInv

\* What a job becomes that records an outcome of its task.
LEMMA Recorded ==
  ASSUME NEW j \in Job, NEW o \in [key : Keys, uploaded : BOOLEAN]
  PROVE  /\ Record(j, o) \in Job /\ Record(j, o).id = j.id
         /\ Record(j, o).pending = j.pending \ {o.key}
         /\ Record(j, o).finished = IF o.uploaded THEN j.finished \cup {o.key}
                                                  ELSE j.finished
BY DEF Record, Job

LEMMA OutcomeStep ==
  ASSUME IInv, NEW t \in tasks, NEW o \in t.outcomes, Outcome(t, o)
  PROVE  IInv'
<1>1. /\ t \in Task /\ owner[t.id] # "nobody" /\ t.id \in Ids /\ t.id \in running
      /\ t.phase # "reread" =>
           /\ t.id \in IdsOf(jobs) /\ Orderly(t, server[t.id])
           /\ \A j \in jobs : j.id = t.id => Agree(t, j)
      /\ t.id \notin fromFile => server[t.id] \subseteq t.finished
  BY TaskFacts
<1>2. o \in [key : Keys, uploaded : BOOLEAN]
  BY <1>1 DEF Task
<1>3. PICK q \in Task :
        /\ tasks' = (tasks \ {t}) \cup {q}
        /\ q.id = t.id /\ q.todo = t.todo /\ q.finished = t.finished
        /\ q.synced = t.synced /\ q.phase = t.phase
        /\ q.outcomes = t.outcomes \ {o}
  <2> DEFINE r == [t EXCEPT !.outcomes = @ \ {o}]
  <2>1. r \in Task
    BY <1>1 DEF Task
  <2>2. /\ r.id = t.id /\ r.todo = t.todo /\ r.finished = t.finished
        /\ r.synced = t.synced /\ r.phase = t.phase
        /\ r.outcomes = t.outcomes \ {o}
    BY <1>1 DEF Task
  <2>3. tasks' = (tasks \ {t}) \cup {r}
    BY DEF Outcome
  <2> HIDE DEF r
  <2> QED
    BY <2>1, <2>2, <2>3
<1>4. UNCHANGED <<process, running, disk, outside, known, fromFile>>
  BY DEF Outcome
<1>5. UNCHANGED <<running, owner, age, fromFile, known, server, disk>>
  BY <1>4 DEF outside
<1>6. registry' \in [Keys -> {"none", "Uploading", "Uploaded", "Failed"}]
  BY <1>2 DEF Outcome, IInv, RestTyped
<1>7. Orderly(t, server[t.id]) => Orderly(q, server[t.id])
  BY <1>3 DEF Orderly
<1>8. CASE t.id \in IdsOf(jobs)
  <2>1. PICK j \in jobs, f \in SUBSET Keys :
          /\ j.id = t.id
          /\ Persist(Without(jobs, t.id) \cup {Record(j, o)}, f, running)
    <3>1. PICK j \in jobs :
            /\ j.id = t.id
            /\ Persist(Without(jobs, t.id) \cup {Record(j, o)},
                       IF ~o.uploaded /\ o.key \in j.pending
                       THEN failed \cup {o.key} ELSE failed,
                       running)
      BY <1>8 DEF Outcome
    <3>2. failed \in SUBSET Keys /\ o.key \in Keys
      BY <1>2 DEF IInv, StoreInv, FileGood, Memory, File
    <3>3. (IF ~o.uploaded /\ o.key \in j.pending
           THEN failed \cup {o.key} ELSE failed) \in SUBSET Keys
      BY <3>2
    <3> QED
      BY <3>1, <3>3
  <2>2. Good(jobs, owner)
    BY DEF IInv, StoreInv, FileGood, Memory
  <2>3. /\ Record(j, o) \in Job /\ Record(j, o).id = t.id
        /\ Record(j, o).pending = j.pending \ {o.key}
        /\ Record(j, o).finished = IF o.uploaded THEN j.finished \cup {o.key}
                                                 ELSE j.finished
    BY <1>2, <2>1, <2>2, Recorded DEF Good
  <2> DEFINE js == Without(jobs, t.id) \cup {Record(j, o)}
  <2>4. Good(js, owner')
    BY <1>1, <1>5, <2>2, <2>3 DEF Good, Without
  <2>5. Persist(js, f, running)
    BY <2>1
  <2>6. /\ \A x \in js : x.id # t.id => x \in jobs
        /\ \A x \in jobs : x.id # t.id => x \in js
        /\ \A x \in js : x.id = t.id => x = Record(j, o)
        /\ Record(j, o) \in js
    BY <2>3 DEF Without
  <2> HIDE DEF js
  <2>7. StoreInv'
    <3>1. StoreInv /\ OwnersKept /\ disk' = disk
      BY <1>5 DEF IInv, OwnersKept
    <3> QED
      BY <2>4, <2>5, <3>1, Persisted
  <2>8. OthersKept(t.id)
    <3>1. Persist(js, f, running')
      BY <1>5, <2>5
    <3> QED
      BY <2>6, <3>1, PersistOthers
  <2>9. /\ jobs' \subseteq js /\ Record(j, o) \in jobs'
        /\ written' = "ok" /\ lostWrite' = lostWrite
    BY <1>1, <2>3, <2>5, <2>6, PersistedJobs
  <2>10. t.phase # "reread" => \A x \in jobs' : x.id = t.id => Agree(q, x)
    <3> SUFFICES ASSUME t.phase # "reread", NEW x \in jobs', x.id = t.id
                 PROVE  Agree(q, x)
      OBVIOUS
    <3>1. x = Record(j, o)
      BY <2>6, <2>9
    <3>2. Agree(t, j) /\ Orderly(t, server[t.id])
      BY <1>1, <2>1
    <3>3. /\ \A y \in t.outcomes : y.key = o.key => y = o
          /\ o.key \notin t.todo
      BY <3>2 DEF Orderly
    <3>4. x.pending = q.todo \cup {y.key : y \in q.outcomes}
      BY <1>3, <2>3, <3>1, <3>2, <3>3 DEF Agree
    <3>5. q.finished = x.finished \cup {y.key : y \in {z \in q.outcomes : z.uploaded}}
      BY <1>3, <2>3, <3>1, <3>2, <3>3 DEF Agree
    <3> QED
      BY <3>4, <3>5 DEF Agree
  <2>11. t.id \in IdsOf(jobs')
    BY <2>3, <2>9 DEF IdsOf
  <2>12. AboutTasks'
    BY <1>1, <1>3, <1>5, <1>7, <2>8, <2>10, <2>11, TaskGoesOn DEF IInv
  <2>13. RestTyped'
    BY <1>4, <1>6, <2>9 DEF IInv, RestTyped, process, outside
  <2> QED
    BY <2>7, <2>12, <2>13 DEF IInv
<1>9. CASE t.id \notin IdsOf(jobs)
  <2>1. UNCHANGED file
    BY <1>9 DEF Outcome, IdsOf
  <2>2. StoreInv'
    BY <1>5, <2>1, StoreUntouched DEF IInv, file, OwnersKept
  <2>3. RestTyped'
    BY <1>4, <1>6, <2>1 DEF IInv, RestTyped, process, outside, file
  <2>4. OthersKept(t.id)
    BY <2>1 DEF file, OthersKept
  <2>5. t.phase = "reread"
    BY <1>1, <1>9
  <2>6. AboutTasks'
    BY <1>1, <1>3, <1>5, <2>4, <2>5, TaskGoesOn DEF IInv
  <2> QED
    BY <2>2, <2>3, <2>6 DEF IInv
<1> QED
  BY <1>8, <1>9

\* What a step may make of the registry.
LEMMA RegistryTyped ==
  ASSUME RestTyped, NEW keys
  PROVE  /\ Begun(keys, registry) \in [Keys -> {"none", "Uploading", "Uploaded", "Failed"}]
         /\ Settled(keys, registry) \in [Keys -> {"none", "Uploading", "Uploaded", "Failed"}]
BY DEF RestTyped, Begun, Settled

\* A task is over, and its job is left out of the store.
LEMMA JobLeaves ==
  ASSUME IInv, NEW t \in tasks,
         tasks' = tasks \ {t}, running' = running \ {t.id}, known' = known \ {t.id},
         UNCHANGED <<process, disk, outside, fromFile>>,
         registry' \in [Keys -> {"none", "Uploading", "Uploaded", "Failed"}],
         \/ Persist(Without(jobs, t.id), failed, running')
         \/ t.id \notin IdsOf(jobs) /\ UNCHANGED file
  PROVE  IInv'
<1>1. UNCHANGED <<owner, age, fromFile, server, disk>>
  BY DEF outside
<1>2. \A j \in Without(jobs, t.id) : j \in jobs /\ j.id # t.id
  BY DEF Without
<1>3. CASE Persist(Without(jobs, t.id), failed, running')
  <2>1. Good(Without(jobs, t.id), owner') /\ failed \in SUBSET Keys
    BY <1>1 DEF IInv, StoreInv, FileGood, Memory, File, Good, Without
  <2>2. StoreInv'
    <3>1. StoreInv /\ OwnersKept /\ disk' = disk
      BY <1>1 DEF IInv, OwnersKept
    <3> QED
      BY <1>3, <2>1, <3>1, Persisted
  <2>3. \A j \in jobs : j.id # t.id => j \in Without(jobs, t.id)
    BY DEF Without
  <2>4. OthersKept(t.id)
    BY <1>2, <1>3, <2>3, PersistOthers
  <2>5. /\ jobs' \subseteq Without(jobs, t.id)
        /\ written' = "ok" /\ lostWrite' = lostWrite
    BY <1>3, PersistedJobs
  <2>6. \A j \in jobs' : j.id # t.id
    BY <1>2, <2>5
  <2>7. AboutTasks'
    BY <1>1, <2>4, <2>6, TaskEnds DEF IInv
  <2>8. RestTyped'
    BY <2>5 DEF IInv, RestTyped, process, outside
  <2> QED
    BY <2>2, <2>7, <2>8 DEF IInv
<1>4. CASE t.id \notin IdsOf(jobs) /\ UNCHANGED file
  <2>1. StoreInv'
    BY <1>1, <1>4, StoreUntouched DEF IInv, file, OwnersKept
  <2>2. OthersKept(t.id)
    BY <1>4 DEF file, OthersKept
  <2>3. \A j \in jobs' : j.id # t.id
    BY <1>4 DEF file, IdsOf
  <2>4. AboutTasks'
    BY <1>1, <2>2, <2>3, TaskEnds DEF IInv
  <2>5. RestTyped'
    BY <1>4 DEF IInv, RestTyped, process, outside, file
  <2> QED
    BY <2>1, <2>4, <2>5 DEF IInv
<1> QED
  BY <1>3, <1>4

LEMMA DiscardStep ==
  ASSUME IInv, NEW t \in tasks, Discard(t),
         UNCHANGED <<process, disk, outside, fromFile>>
  PROVE  IInv'
<1>1. RestTyped
  BY DEF IInv
<1>2. registry' \in [Keys -> {"none", "Uploading", "Uploaded", "Failed"}]
  <2>1. CASE registry' = registry
    BY <1>1, <2>1 DEF RestTyped
  <2>2. CASE \E j \in jobs : registry' = Settled(j.finished \cup j.pending, registry)
    BY <1>1, <2>2, RegistryTyped
  <2> QED
    BY <2>1, <2>2 DEF Discard
<1>3. \/ Persist(Without(jobs, t.id), failed, running')
      \/ t.id \notin IdsOf(jobs) /\ UNCHANGED file
  BY DEF Discard
<1>4. tasks' = tasks \ {t} /\ running' = running \ {t.id} /\ known' = known \ {t.id}
  BY DEF Discard
<1> QED
  BY <1>2, <1>3, <1>4, JobLeaves

LEMMA CompleteStep ==
  ASSUME IInv, NEW t \in tasks, Complete(t)
  PROVE  IInv'
<1>1. /\ t \in Task /\ t.id \in Ids /\ owner[t.id] # "nobody"
      /\ t.phase = "done" /\ t.outcomes = {}
      /\ t.id \in IdsOf(jobs)
      /\ \A j \in jobs : j.id = t.id => Agree(t, j)
      /\ t.id \notin fromFile => server[t.id] \subseteq t.finished
  BY TaskFacts DEF Complete
<1>2. /\ tasks' = tasks \ {t} /\ running' = running \ {t.id}
      /\ UNCHANGED <<process, disk, outside, fromFile>>
  BY DEF Complete
<1>3. RestTyped
  BY DEF IInv
<1>4. PICK j \in jobs :
        /\ j.id = t.id
        /\ \/ /\ registry' = Settled(j.finished, registry)
              /\ known' = known \ {t.id}
              /\ Persist(Without(jobs, t.id), failed, running')
           \/ /\ t.finished # t.synced /\ Retries(j)
              /\ UNCHANGED <<registry, known>>
              /\ Persist(Without(jobs, t.id) \cup {[j EXCEPT !.fails = @ + 1]},
                         failed, running')
           \/ /\ registry' = Settled(j.finished \cup j.pending, registry)
              /\ known' = known \ {t.id}
              /\ Persist(Without(jobs, t.id), failed, running')
  BY <1>1 DEF Complete
<1>5. CASE known' = known \ {t.id} /\ Persist(Without(jobs, t.id), failed, running')
           /\ \E keys \in SUBSET Keys : registry' = Settled(keys, registry)
  <2>1. registry' \in [Keys -> {"none", "Uploading", "Uploaded", "Failed"}]
    BY <1>3, <1>5, RegistryTyped
  <2> QED
    BY <1>2, <1>5, <2>1, JobLeaves
<1>6. CASE /\ Retries(j) /\ UNCHANGED <<registry, known>>
           /\ Persist(Without(jobs, t.id) \cup {[j EXCEPT !.fails = @ + 1]},
                      failed, running')
  <2> DEFINE q == [j EXCEPT !.fails = @ + 1]
             js == Without(jobs, t.id) \cup {q}
  <2>1. Good(jobs, owner) /\ failed \in SUBSET Keys
    BY DEF IInv, StoreInv, FileGood, Memory, File
  <2>2. q \in Job /\ q.id = t.id /\ q.finished = j.finished
    BY <1>4, <1>6, <2>1, UploadsAssumption DEF Good, Job, Retries
  <2>3. UNCHANGED <<owner, age, fromFile, server, disk>>
    BY <1>2 DEF outside
  <2>4. Persist(js, failed, running')
    BY <1>6
  <2>5. /\ \A x \in js : x.id # t.id => x \in jobs
        /\ \A x \in jobs : x.id # t.id => x \in js
        /\ \A x \in js : x.id = t.id => x = q
        /\ q \in js
    BY <2>2 DEF Without
  <2>6. Good(js, owner')
    BY <1>1, <2>1, <2>2, <2>3 DEF Good, Without
  <2> HIDE DEF js, q
  <2>7. StoreInv'
    <3>1. StoreInv /\ OwnersKept /\ disk' = disk
      BY <2>3 DEF IInv, OwnersKept
    <3> QED
      BY <2>1, <2>4, <2>6, <3>1, Persisted
  <2>8. OthersKept(t.id)
    BY <2>4, <2>5, PersistOthers
  <2>9. /\ jobs' \subseteq js /\ (q \in jobs' \/ age[q.id] = "old")
        /\ written' = "ok" /\ lostWrite' = lostWrite
    BY <2>4, <2>5, PersistedJobs
  <2>10. t.id \in IdsOf(jobs') \/ age[t.id] = "old"
    BY <2>2, <2>9 DEF IdsOf
  <2>11. t.id \notin fromFile =>
           \A x \in jobs' : x.id = t.id => server[t.id] \subseteq x.finished
    <3>1. Agree(t, j)
      BY <1>1, <1>4
    <3>2. t.finished = j.finished
      BY <1>1, <3>1 DEF Agree
    <3> QED
      BY <1>1, <2>2, <2>5, <2>9, <3>2
  <2>12. AboutTasks'
    <3>1. known' = known
      BY <1>6
    <3> QED
      BY <1>2, <2>3, <2>8, <2>10, <2>11, <3>1, TaskEnds DEF IInv
  <2>13. RestTyped'
    BY <1>2, <1>6, <2>9 DEF IInv, RestTyped, process, outside
  <2> QED
    BY <2>7, <2>12, <2>13 DEF IInv
<1>7. j.finished \in SUBSET Keys /\ j.finished \cup j.pending \in SUBSET Keys
  BY DEF IInv, StoreInv, FileGood, Memory, Good, Job
<1> QED
  BY <1>4, <1>5, <1>6, <1>7

\* The job of a task that has read its message is put into the store.
LEMMA RereadStep ==
  ASSUME IInv, NEW t \in tasks, Reread(t)
  PROVE  IInv'
<1>1. /\ t \in Task /\ t.id \in Ids /\ owner[t.id] # "nobody" /\ t.id \in running
      /\ t.id \notin fromFile => server[t.id] \subseteq t.finished
  BY TaskFacts
<1>2. UNCHANGED <<process, disk, outside, fromFile>>
  BY DEF Reread
<1>3. CASE Discard(t)
  BY <1>2, <1>3, DiscardStep
<1>4. CASE /\ Run(JobOf(t)) /\ UNCHANGED known
           /\ tasks' = (tasks \ {t}) \cup {Uploading(JobOf(t))}
  <2>1. PICK j \in Job : /\ j = JobOf(t) /\ j.id = t.id /\ j.finished = t.finished
    <3>1. JobOf(t) \in Job /\ JobOf(t).id = t.id /\ JobOf(t).finished = t.finished
      BY <1>1 DEF JobOf, Job, Task
    <3> QED
      BY <3>1
  <2>2. PICK q \in Task :
          /\ q = Uploading(j) /\ q.id = t.id /\ q.finished = t.finished
          /\ q.phase # "reread"
    <3>1. /\ Uploading(j) \in Task /\ Uploading(j).id = t.id
          /\ Uploading(j).finished = t.finished /\ Uploading(j).phase # "reread"
      BY <2>1, UploadingTask
    <3> QED
      BY <3>1
  <2> DEFINE js == Without(jobs, t.id) \cup {j}
  <2>3. UNCHANGED <<owner, age, fromFile, server, disk, known>>
    BY <1>2, <1>4 DEF outside
  <2>4. /\ running' = running /\ Persist(js, failed, running')
        /\ registry' = Begun(j.pending, registry)
    BY <1>1, <1>4, <2>1 DEF Run
  <2>5. /\ \A x \in js : x.id # t.id => x \in jobs
        /\ \A x \in jobs : x.id # t.id => x \in js
        /\ \A x \in js : x.id = t.id => x = j
        /\ j \in js
    BY <2>1 DEF Without
  <2>6. Good(js, owner') /\ failed \in SUBSET Keys
    BY <1>1, <2>1, <2>3 DEF IInv, StoreInv, FileGood, Memory, File, Good, Without
  <2> HIDE DEF js
  <2>7. StoreInv'
    <3>1. StoreInv /\ OwnersKept /\ disk' = disk
      BY <2>3 DEF IInv, OwnersKept
    <3> QED
      BY <2>4, <2>6, <3>1, Persisted
  <2>8. OthersKept(t.id)
    BY <2>4, <2>5, PersistOthers
  <2>9. /\ jobs' \subseteq js /\ j \in jobs'
        /\ written' = "ok" /\ lostWrite' = lostWrite
    BY <1>1, <2>1, <2>4, <2>5, PersistedJobs
  <2>10. t.id \in IdsOf(jobs')
    BY <2>1, <2>9 DEF IdsOf
  <2>11. Orderly(q, server'[t.id]) /\ \A x \in jobs' : x.id = t.id => Agree(q, x)
    BY <2>2, <2>5, <2>9, UploadingAgrees
  <2>12. tasks' = (tasks \ {t}) \cup {q}
    BY <1>4, <2>1, <2>2
  <2>13. AboutTasks'
    BY <1>1, <2>2, <2>3, <2>4, <2>8, <2>10, <2>11, <2>12, TaskGoesOn DEF IInv
  <2>14. RestTyped'
    <3>1. registry' \in [Keys -> {"none", "Uploading", "Uploaded", "Failed"}]
      BY <2>4, RegistryTyped DEF IInv
    <3> QED
      BY <1>2, <2>3, <2>9, <3>1 DEF IInv, RestTyped, process, outside
  <2> QED
    BY <2>7, <2>13, <2>14 DEF IInv
<1> QED
  BY <1>3, <1>4 DEF Reread

-----------------------------------------------------------------------------
(* Jobs that begin: sent, retried at a connection, or resumed from the file. *)

LEMMA SendStep ==
  ASSUME IInv, NEW i \in Ids, Send(i)
  PROVE  IInv'
<1>1. Viewer \in Users /\ Viewer # "nobody"
  BY UploadsAssumption, ScriptLength DEF Send, Viewer, Users
<1>2. PICK j \in Job :
        /\ j.id = i /\ j.pending = KeysOf(i) /\ j.finished = {}
        /\ Run(j) /\ tasks' = tasks \cup {Uploading(j)}
  <2> DEFINE q == [id |-> i, pending |-> KeysOf(i), finished |-> {}, fails |-> 0]
  <2>1. q \in Job
    BY UploadsAssumption DEF Job, KeysOf
  <2>2. Run(q) /\ tasks' = tasks \cup {Uploading(q)}
    BY DEF Send
  <2>3. q.id = i /\ q.pending = KeysOf(i) /\ q.finished = {}
    OBVIOUS
  <2> HIDE DEF q
  <2> QED
    BY <2>1, <2>2, <2>3
<1>3. PICK q \in Task :
        /\ q = Uploading(j) /\ q.id = i /\ q.phase # "reread"
  <2>1. Uploading(j) \in Task /\ Uploading(j).id = i /\ Uploading(j).phase # "reread"
    BY <1>2, UploadingTask
  <2> QED
    BY <2>1
<1>4. owner[i] = "nobody" /\ owner' = [owner EXCEPT ![i] = Viewer]
      /\ known' = known \cup {i}
      /\ UNCHANGED <<process, disk, idOf, server, deleted, age, events, fromFile>>
  BY DEF Send
<1>5. owner \in [Ids -> Users \cup {"nobody"}]
  BY DEF IInv, RestTyped
<1>6. owner'[i] # "nobody" /\ OwnersKept
  BY <1>1, <1>4, <1>5 DEF OwnersKept
<1>7. /\ Good(jobs, owner) /\ failed \in SUBSET Keys
      /\ running = IdsOf(tasks) /\ \A t \in tasks : owner[t.id] # "nobody"
  BY DEF IInv, StoreInv, FileGood, Memory, File, AboutTasks, TasksInv, RunningIsLive
<1>8. i \notin running /\ \A x \in jobs : x.id # i
  BY <1>4, <1>7 DEF IdsOf, Good
<1> DEFINE js == Without(jobs, i) \cup {j}
           ts == {q}
<1>9. running' = running \cup {i} /\ Persist(js, failed, running')
      /\ registry' = Begun(j.pending, registry)
  BY <1>2 DEF Run
<1>10. jobs \subseteq js /\ j \in js /\ \A x \in js : x # j => x \in jobs
  BY <1>8 DEF Without
<1>11. Good(js, owner')
  <2>1. Good(jobs, owner')
    BY <1>6, <1>7, GoodKept
  <2> HIDE DEF js
  <2>2. \A x \in js : x = j \/ x \in jobs
    BY <1>10
  <2> QED
    BY <1>2, <1>6, <1>8, <2>1, <2>2 DEF Good
<1> HIDE DEF js
<1>12. StoreInv'
  <2>1. StoreInv /\ disk' = disk
    BY <1>4 DEF IInv
  <2> QED
    BY <1>6, <1>7, <1>9, <1>11, <2>1, Persisted
<1>13. /\ jobs' \subseteq js /\ j \in jobs'
       /\ \A x \in jobs : x.id \in running => x \in jobs'
       /\ \A x \in jobs \ jobs' : age[x.id] = "old"
       /\ written' = "ok" /\ lostWrite' = lostWrite
  BY <1>2, <1>9, <1>10, PersistedJobs
<1>14. \A x \in jobs' : x = j \/ x \in jobs
  BY <1>10, <1>13
<1>15. /\ ts \in SUBSET Task /\ tasks' = tasks \cup ts /\ IdsOf(ts) = {i}
       /\ \A n \in ts : n = q
  BY <1>2, <1>3 DEF IdsOf
<1>16. i \in IdsOf(jobs') /\ i \in IdsOf(tasks')
  BY <1>2, <1>3, <1>13, <1>15 DEF IdsOf
<1>17. Orderly(q, server[i]) /\ \A x \in jobs' : x.id = i => Agree(q, x)
  BY <1>2, <1>3, <1>8, <1>14, UploadingAgrees
<1>18. NeverForgotten'
  <2> SUFFICES ASSUME NEW k \in known', k # i, age'[k] # "old", k \notin IdsOf(tasks')
               PROVE  k \in IdsOf(jobs')
    BY <1>16 DEF NeverForgotten
  <2>1. k \in known /\ k \notin IdsOf(tasks) /\ age[k] # "old"
    BY <1>4, <1>15 DEF IdsOf
  <2>2. PICK x \in jobs : x.id = k
    BY <2>1 DEF IInv, AboutTasks, NeverForgotten, IdsOf
  <2>3. x \in jobs'
    BY <1>13, <2>1, <2>2
  <2> QED
    BY <2>2, <2>3 DEF IdsOf
<1>19. i \notin fromFile => server[i] = {}
  BY <1>4 DEF IInv, AboutTasks, ListInv
<1>20. AboutTasks'
  <2> HIDE DEF ts
  <2>1. \A n \in ts : n.id \notin running /\ owner'[n.id] # "nobody"
    BY <1>3, <1>6, <1>8, <1>15
  <2>2. \A n \in ts : n.id \notin fromFile' => server[n.id] \subseteq n.finished
    BY <1>3, <1>4, <1>15, <1>19
  <2>3. \A n1, n2 \in ts : n1.id = n2.id => n1 = n2
    BY <1>15
  <2>4. \A n \in ts : n.phase # "reread" =>
          /\ n.id \in IdsOf(jobs')
          /\ Orderly(n, server[n.id])
          /\ \A x \in jobs' : x.id = n.id => Agree(n, x)
    BY <1>3, <1>15, <1>16, <1>17
  <2>5. \A x \in jobs' : x.id \in running => x \in jobs
    BY <1>2, <1>8, <1>14
  <2>6. \A x \in jobs' : x.id \notin running' /\ x.id \notin fromFile' => x \in jobs
    BY <1>2, <1>9, <1>14
  <2>7. AboutTasks /\ running' = running \cup IdsOf(ts)
        /\ UNCHANGED <<age, server>> /\ fromFile \subseteq fromFile'
    BY <1>4, <1>9, <1>15 DEF IInv
  <2> QED
    BY <1>6, <1>13, <1>15, <1>18, <2>1, <2>2, <2>3, <2>4, <2>5, <2>6, <2>7, TasksBegin
<1>21. RestTyped'
  <2>1. registry' \in [Keys -> {"none", "Uploading", "Uploaded", "Failed"}]
    BY <1>9, RegistryTyped DEF IInv
  <2>2. owner' \in [Ids -> Users \cup {"nobody"}]
    BY <1>1, <1>4, <1>5
  <2> QED
    BY <1>4, <1>13, <2>1, <2>2 DEF IInv, RestTyped, process
<1> QED
  BY <1>12, <1>20, <1>21 DEF IInv

LEMMA StartedTasks ==
  ASSUME NEW js \in SUBSET Job, \A x, y \in js : x.id = y.id => x = y,
         \A j \in js : j.id \notin running,
         Started(js, running)
  PROVE  \E ts \in SUBSET Task :
           /\ tasks' = tasks \cup ts /\ running' = running \cup IdsOf(ts)
           /\ IdsOf(ts) = IdsOf(js)
           /\ \A n1, n2 \in ts : n1.id = n2.id => n1 = n2
           /\ \A n \in ts :
                /\ n.phase = "reread"
                /\ \E j \in js : n.id = j.id /\ n.finished = j.finished
<1> DEFINE ts == {Rereading(j) : j \in js}
<1>1. \A j \in js : /\ Rereading(j) \in Task /\ Rereading(j).id = j.id
                    /\ Rereading(j).phase = "reread"
                    /\ Rereading(j).finished = j.finished
  BY DEF Rereading, Task, Job, Phases
<1>2. {x \in js : x.id \notin running} = js
  OBVIOUS
<1>3. tasks' = tasks \cup ts /\ running' = running \cup IdsOf(js)
  BY <1>2 DEF Started
<1>4. IdsOf(ts) = IdsOf(js)
  BY <1>1 DEF IdsOf
<1>5. ts \in SUBSET Task
  BY <1>1
<1>6. \A n1, n2 \in ts : n1.id = n2.id => n1 = n2
  BY <1>1
<1>7. \A n \in ts : /\ n.phase = "reread"
                    /\ \E j \in js : n.id = j.id /\ n.finished = j.finished
  BY <1>1
<1> HIDE DEF ts
<1> QED
  BY <1>3, <1>4, <1>5, <1>6, <1>7

LEMMA ConnectStep ==
  ASSUME IInv, Connect
  PROVE  IInv'
<1>1. UNCHANGED <<login, logins, file, disk, registry, outside, known, fromFile>>
  BY DEF Connect
<1>2. UNCHANGED <<jobs, failed, saves, disk, written, owner, age, server>> /\ OwnersKept
  BY <1>1 DEF file, outside, OwnersKept
<1>3. StoreInv'
  BY <1>2, StoreUntouched DEF IInv
<1>4. RestTyped'
  <2>1. connected' \in BOOLEAN /\ restored' \in BOOLEAN
    BY DEF Connect
  <2>2. loads' \subseteq DOMAIN Script
    BY ScriptLength DEF Connect, IInv, RestTyped
  <2> QED
    BY <1>1, <2>1, <2>2 DEF IInv, RestTyped, file, outside
<1>5. CASE UNCHANGED <<running, tasks>>
  BY <1>1, <1>2, <1>3, <1>4, <1>5, TasksUntouched DEF IInv
<1> DEFINE js == {j \in jobs : /\ owner[j.id] = Viewer /\ j.pending = {}
                               /\ j.finished # {} /\ j.id \notin running}
<1>6. CASE Started(js, running)
  <2>1. Good(jobs, owner)
    BY DEF IInv, StoreInv, FileGood, Memory
  <2>2. /\ js \in SUBSET Job /\ js \subseteq jobs
        /\ \A x, y \in js : x.id = y.id => x = y
        /\ \A j \in js : j.id \notin running
    BY <2>1 DEF Good
  <2> HIDE DEF js
  <2>3. PICK ts \in SUBSET Task :
          /\ tasks' = tasks \cup ts /\ running' = running \cup IdsOf(ts)
          /\ IdsOf(ts) = IdsOf(js)
          /\ \A n1, n2 \in ts : n1.id = n2.id => n1 = n2
          /\ \A n \in ts :
               /\ n.phase = "reread"
               /\ \E j \in js : n.id = j.id /\ n.finished = j.finished
    BY <1>6, <2>2, StartedTasks
  <2>4. \A n \in ts : n.id \in Ids /\ n.id \notin running /\ owner'[n.id] # "nobody"
    BY <1>2, <2>1, <2>2, <2>3 DEF Good, Task
  <2>5. \A n \in ts : n.id \notin fromFile => server[n.id] \subseteq n.finished
    BY <2>2, <2>3, <2>4 DEF IInv, AboutTasks, ListInv
  <2>6. NeverForgotten'
    BY <1>1, <1>2, <2>3 DEF IInv, AboutTasks, NeverForgotten, IdsOf
  <2> QED
    BY <1>1, <1>2, <1>3, <1>4, <2>3, <2>4, <2>5, <2>6, TasksBegin DEF IInv
<1> QED
  BY <1>5, <1>6 DEF Connect

\* The job q is what the job j of the file goes on as.
Continues(q, j, js, u) ==
    /\ q.id = j.id /\ q.finished = j.finished
    /\ \/ j \in Resumed(js, u) /\ q = j
       \/ j \in Expired(js, u) /\ q = [j EXCEPT !.pending = {}]

LEMMA LoadStep ==
  ASSUME IInv, NEW l \in loads, LoadApplied(l)
  PROVE  IInv'
<1> DEFINE js == disk.jobs
           u == Script[l]
           f == failed \cup disk.failed \cup PendingOf(Expired(js, u))
           goOn == Resumed(js, u) \cup
                   {[j EXCEPT !.pending = {}] :
                      j \in {x \in Expired(js, u) : x.finished # {}}}
           next == {j \in jobs : j.id \notin IdsOf(Taken(js))} \cup Kept(js, u)
<1>1. /\ Good(jobs, owner) /\ failed \in SUBSET Keys
      /\ Good(js, owner) /\ disk.failed \in SUBSET Keys
  BY DEF IInv, StoreInv, FileGood, Memory, File
<1>2. UNCHANGED <<login, logins, connected, restored, disk, outside>>
      /\ loads' = loads \ {l}
  BY DEF LoadApplied
<1>3. /\ Persist(next, f, running) /\ Started(goOn, running)
      /\ known' = (known \ IdsOf(Expired(js, u))) \cup IdsOf(Kept(js, u)) \cup IdsOf(goOn)
      /\ fromFile' = fromFile \cup IdsOf(Taken(js))
  BY DEF LoadApplied
<1>4. UNCHANGED <<owner, age, server, disk>> /\ OwnersKept
  BY <1>2 DEF outside, OwnersKept
<1>5. \A j \in Taken(js) : /\ j \in Job /\ j \in js /\ j.id \in Ids /\ j.id \notin running
                           /\ age[j.id] # "old" /\ owner[j.id] # "nobody"
  BY <1>1 DEF Taken, Good, Job
<1>6. Kept(js, u) \subseteq Taken(js) /\ Expired(js, u) \subseteq Taken(js)
      /\ Resumed(js, u) \subseteq Taken(js)
      /\ \A j \in Taken(js) : j \in Kept(js, u) \/ j \in Resumed(js, u)
                              \/ j \in Expired(js, u)
  BY <1>5 DEF Kept, Expired, Resumed, Taken
<1>7. /\ goOn \in SUBSET Job
      /\ \A q \in goOn : \E j \in Taken(js) : Continues(q, j, js, u)
      /\ IdsOf(Resumed(js, u)) \subseteq IdsOf(goOn)
  <2>1. \A j \in Job : /\ [j EXCEPT !.pending = {}] \in Job
                       /\ [j EXCEPT !.pending = {}].id = j.id
                       /\ [j EXCEPT !.pending = {}].finished = j.finished
    BY DEF Job
  <2>2. goOn \in SUBSET Job
    BY <1>5, <1>6, <2>1
  <2>3. \A q \in goOn : \E j \in Taken(js) : Continues(q, j, js, u)
    <3> SUFFICES ASSUME NEW q \in goOn
                 PROVE  \E j \in Taken(js) : Continues(q, j, js, u)
      OBVIOUS
    <3>1. CASE q \in Resumed(js, u)
      <4>1. q \in Taken(js) /\ q.id = q.id /\ q.finished = q.finished
        BY <1>6, <3>1
      <4> QED
        BY <3>1, <4>1 DEF Continues
    <3>2. CASE \E j \in Expired(js, u) : q = [j EXCEPT !.pending = {}]
      <4>1. PICK j \in Expired(js, u) : q = [j EXCEPT !.pending = {}]
        BY <3>2
      <4>2. j \in Taken(js) /\ j \in Job
        BY <1>5, <1>6
      <4>3. q.id = j.id /\ q.finished = j.finished
        BY <2>1, <4>1, <4>2
      <4> QED
        BY <4>1, <4>2, <4>3 DEF Continues
    <3>3. q \in Resumed(js, u) \/ \E j \in Expired(js, u) : q = [j EXCEPT !.pending = {}]
      BY DEF goOn
    <3> QED
      BY <3>1, <3>2, <3>3
  <2> QED
    BY <2>2, <2>3 DEF IdsOf
<1>8. \A q1, q2 \in goOn : q1.id = q2.id => q1 = q2
  <2> SUFFICES ASSUME NEW q1 \in goOn, NEW q2 \in goOn, q1.id = q2.id
               PROVE  q1 = q2
    OBVIOUS
  <2> HIDE DEF goOn
  <2>1. PICK j1 \in Taken(js) : Continues(q1, j1, js, u)
    BY <1>7
  <2>2. PICK j2 \in Taken(js) : Continues(q2, j2, js, u)
    BY <1>7
  <2>3. j1 = j2
    BY <1>1, <1>5, <2>1, <2>2 DEF Good, Continues
  <2>4. ~(j1 \in Resumed(js, u) /\ j1 \in Expired(js, u))
    BY DEF Resumed, Expired
  <2> QED
    BY <2>1, <2>2, <2>3, <2>4 DEF Continues
<1>9. f \in SUBSET Keys
  BY <1>1, <1>5, <1>6 DEF PendingOf, Job
<1>10. Good(next, owner')
  <2>1. \A x \in next : \/ x \in jobs /\ x.id \notin IdsOf(Taken(js))
                        \/ x \in Taken(js) /\ x \in js /\ x.id \in IdsOf(Taken(js))
    BY <1>5, <1>6 DEF IdsOf
  <2> HIDE DEF next
  <2> QED
    BY <1>1, <1>4, <1>5, <2>1 DEF Good
<1>11. /\ \A x \in next : x \in jobs \/ x \in Taken(js)
       /\ \A x \in jobs : x.id \notin IdsOf(Taken(js)) => x \in next
       /\ Kept(js, u) \subseteq next
  BY <1>6
<1>12. \A q \in goOn : q.id \notin running /\ q.id \in IdsOf(Taken(js))
                       /\ owner[q.id] # "nobody"
  <2> HIDE DEF goOn
  <2> QED
    BY <1>5, <1>7 DEF IdsOf, Continues
<1> HIDE DEF f, goOn, next
<1>13. PICK ts \in SUBSET Task :
         /\ tasks' = tasks \cup ts /\ running' = running \cup IdsOf(ts)
         /\ IdsOf(ts) = IdsOf(goOn)
         /\ \A n1, n2 \in ts : n1.id = n2.id => n1 = n2
         /\ \A n \in ts :
              /\ n.phase = "reread"
              /\ \E j \in goOn : n.id = j.id /\ n.finished = j.finished
  BY <1>3, <1>7, <1>8, <1>12, StartedTasks
<1>14. StoreInv'
  <2>1. StoreInv
    BY DEF IInv
  <2> QED
    BY <1>3, <1>4, <1>9, <1>10, <2>1, Persisted
<1>15. /\ jobs' \subseteq next
       /\ \A j \in next : j.id \in running \/ age[j.id] # "old" => j \in jobs'
       /\ written' = "ok" /\ lostWrite' = lostWrite
  BY <1>3, PersistedJobs
<1>16. \A i \in IdsOf(Taken(js)) : i \notin running
  BY <1>5 DEF IdsOf
<1>17. NeverForgotten'
  <2> SUFFICES ASSUME NEW i \in known', age'[i] # "old", i \notin IdsOf(tasks')
               PROVE  i \in IdsOf(jobs')
    BY DEF NeverForgotten
  <2>1. i \notin IdsOf(goOn) /\ i \notin IdsOf(tasks) /\ age[i] # "old"
    BY <1>4, <1>13 DEF IdsOf
  <2>2. CASE i \in IdsOf(Kept(js, u))
    BY <1>11, <1>15, <2>1, <2>2 DEF IdsOf
  <2>3. CASE i \notin IdsOf(Kept(js, u))
    <3>1. i \in known /\ i \notin IdsOf(Expired(js, u))
      BY <1>3, <2>1, <2>3
    <3>2. i \notin IdsOf(Taken(js))
      BY <1>6, <1>7, <2>1, <2>3, <3>1 DEF IdsOf
    <3>3. PICK x \in jobs : x.id = i
      BY <2>1, <3>1 DEF IInv, AboutTasks, NeverForgotten, IdsOf
    <3> QED
      BY <1>11, <1>15, <2>1, <3>2, <3>3 DEF IdsOf
  <2> QED
    BY <2>2, <2>3
<1>18. AboutTasks'
  <2>1. \A n \in ts : n.id \notin running /\ owner'[n.id] # "nobody"
    BY <1>4, <1>12, <1>13
  <2>2. \A n \in ts : n.id \in fromFile'
    BY <1>3, <1>12, <1>13
  <2>3. \A j \in jobs : j.id \in running => j \in jobs'
    BY <1>11, <1>15, <1>16
  <2>4. \A j \in jobs' : j.id \in running => j \in jobs
    BY <1>5, <1>11, <1>15
  <2>5. \A j \in jobs' : j.id \notin fromFile' => j \in jobs
    BY <1>3, <1>11, <1>15 DEF IdsOf
  <2>6. AboutTasks /\ UNCHANGED <<age, server>> /\ fromFile \subseteq fromFile'
    BY <1>3, <1>4 DEF IInv
  <2> QED
    BY <1>4, <1>13, <1>17, <2>1, <2>2, <2>3, <2>4, <2>5, <2>6, TasksBegin
<1>19. RestTyped'
  <2>1. registry' \in [Keys -> {"none", "Uploading", "Uploaded", "Failed"}]
    BY DEF LoadApplied, Begun, IInv, RestTyped
  <2>2. known' \subseteq Ids /\ fromFile' \subseteq Ids
    BY <1>3, <1>5, <1>6, <1>7 DEF IdsOf, IInv, RestTyped, Job
  <2>3. loads' \subseteq DOMAIN Script
    BY <1>2 DEF IInv, RestTyped
  <2> QED
    BY <1>2, <1>15, <2>1, <2>2, <2>3 DEF IInv, RestTyped, outside
<1> QED
  BY <1>14, <1>18, <1>19 DEF IInv

-----------------------------------------------------------------------------
(* The first invariant.                                                     *)

LEMMA InitIInv == Init => IInv
<1> SUFFICES ASSUME Init PROVE IInv
  OBVIOUS
<1>1. StoreInv
  <2>1. Memory = NoFile /\ disk = NoFile /\ saves = <<>>
    BY DEF Init, Memory, NoFile
  <2>2. FileGood(NoFile, owner)
    BY DEF NoFile, File, FileGood, Good
  <2>3. saves \in Seq(File) /\ \A n \in 1..Len(saves) : FileGood(saves[n], owner)
    <3>1. Len(saves) = 0 /\ <<>> \in Seq(File)
      BY <2>1, EmptySeq, EmptyFiles
    <3> QED
      BY <2>1, <3>1
  <2>4. DiskNewest
    BY <2>1 DEF DiskNewest, Memory
  <2> QED
    BY <2>1, <2>2, <2>3, <2>4 DEF StoreInv
<1>2. AboutTasks
  BY DEF Init, AboutTasks, TasksInv, RunningIsLive, NeverForgotten, TellInv, ListInv, IdsOf
<1>3. RestTyped
  <2>1. connected \in BOOLEAN /\ restored \in BOOLEAN /\ lostWrite \in BOOLEAN
    BY DEF Init
  <2>2. /\ idOf \in [Keys -> Ids] /\ login \in 0..Len(Script)
        /\ logins \in 0..Len(Script) /\ events \in 0..MaxEvents
        /\ loads \subseteq DOMAIN Script
    BY ScriptLength, UploadsAssumption DEF Init
  <2>3. /\ registry \in [Keys -> {"none", "Uploading", "Uploaded", "Failed"}]
        /\ written \in {"none", "ok", "lost"}
        /\ server \in [Ids -> SUBSET Keys] /\ deleted \subseteq Ids
        /\ owner \in [Ids -> Users \cup {"nobody"}]
        /\ age \in [Ids -> {"fresh", "expired", "old"}]
        /\ known \subseteq Ids /\ fromFile \subseteq Ids
    BY DEF Init
  <2> QED
    BY <2>1, <2>2, <2>3 DEF RestTyped
<1> QED
  BY <1>1, <1>2, <1>3 DEF IInv

LEMMA NextIInv == IInv /\ [Next]_vars => IInv'
<1> SUFFICES ASSUME IInv, [Next]_vars PROVE IInv'
  OBVIOUS
<1>1. CASE Login
  BY <1>1, LoginStep
<1>2. CASE Logout
  BY <1>2, LogoutStep
<1>3. CASE Connect
  BY <1>3, ConnectStep
<1>4. CASE Disconnect
  BY <1>4, DisconnectStep
<1>5. CASE Crash
  BY <1>5, CrashStep
<1>6. CASE Saves
  BY <1>6, SavesStep
<1>7. ASSUME NEW l \in loads, LoadApplied(l) PROVE IInv'
  BY <1>7, LoadStep
<1>8. ASSUME NEW t \in tasks, Steps(t) PROVE IInv'
  <2>1. ASSUME NEW k \in Keys, NEW uploaded \in BOOLEAN, FileEnds(t, k, uploaded)
        PROVE  IInv'
    BY <2>1, FileEndsStep
  <2>2. ASSUME NEW answered \in BOOLEAN, NEW landed \in BOOLEAN,
               Sync(t, answered, landed)
        PROVE  IInv'
    BY <2>2, SyncStep
  <2>3. ASSUME NEW o \in t.outcomes, Outcome(t, o) PROVE IInv'
    BY <2>3, OutcomeStep
  <2>4. CASE Complete(t)
    BY <2>4, CompleteStep
  <2>5. CASE Reread(t)
    BY <2>5, RereadStep
  <2> QED
    BY <1>8, <2>1, <2>2, <2>3, <2>4, <2>5 DEF Steps
<1>9. ASSUME NEW i \in Ids, Send(i) \/ Delete(i) \/ Older(i) PROVE IInv'
  BY <1>9, SendStep, DeleteStep, OlderStep
<1>10. CASE UNCHANGED vars
  <2>1. StoreInv'
    BY <1>10, StoreUntouched DEF IInv, vars, store, file, outside, OwnersKept
  <2>2. AboutTasks'
    BY <1>10, TasksUntouched DEF IInv, vars, store, file, outside
  <2>3. RestTyped'
    BY <1>10 DEF IInv, RestTyped, vars, process, store, file, outside
  <2> QED
    BY <2>1, <2>2, <2>3 DEF IInv
<1> QED
  BY <1>1, <1>2, <1>3, <1>4, <1>5, <1>6, <1>7, <1>8, <1>9, <1>10 DEF Next

LEMMA AlwaysIInv == Spec => []IInv
BY InitIInv, NextIInv, PTL DEF Spec


-----------------------------------------------------------------------------
(* Spinners and idle jobs.                                                  *)

\* The pending files of a job are files of its message.
InPlace(js) == \A j \in js : j.pending \subseteq KeysOf(j.id)

PlaceInv ==
    /\ InPlace(jobs) /\ InPlace(disk.jobs)
    /\ \A v \in 1..Len(saves) : InPlace(saves[v].jobs)
    /\ \A t \in tasks : t.todo \subseteq KeysOf(t.id)

\* Only the login in use waits for the file, and what the store holds in a
\* process that has not saved yet is nothing.
LoginInv ==
    /\ loads \subseteq {login} \ {0}
    /\ login = 0 => ~restored
    /\ written = "none" => jobs = {}
    /\ written = "lost" => lostWrite

Idle(j) == /\ owner[j.id] = Viewer /\ j.id \notin running
           /\ ~(j.pending = {} /\ j.finished # {})

\* An idle job of the viewer that no connection would retry waits for the
\* file to be read, and is there and in every save on its way there.
StuckInv ==
    login # 0 /\ ~lostWrite =>
      \A j \in jobs : Idle(j) =>
        /\ ~(restored /\ loads = {})
        /\ j.id \in IdsOf(disk.jobs)
        /\ \A v \in 1..Len(saves) : j.id \in IdsOf(saves[v].jobs)

\* A task that has not read its message yet has nothing to report.
FreshInv == \A t \in tasks : t.phase = "reread" => t.outcomes = {}

JInv == PlaceInv /\ LoginInv /\ StuckInv /\ NoSpinnerLeft

Holds(t, k) == t.id = idOf[k] /\ (k \in t.todo \/ \E o \in t.outcomes : o.key = k)

\* Where the saves of the next state, and its file, come from.
SavedFrom ==
    /\ \A v \in 1..Len(saves') : \/ saves'[v].jobs = jobs'
                                 \/ \E w \in 1..Len(saves) : saves'[v] = saves[w]
    /\ disk' = disk \/ \E w \in 1..Len(saves) : disk' = saves[w]

LEMMA PersistSavedFrom ==
  ASSUME IInv, IInv', NEW js, NEW f, NEW run, Persist(js, f, run), disk' = disk
  PROVE  SavedFrom
<1> DEFINE F == [jobs |-> jobs', failed |-> f]
<1>1. saves' = Append(saves, F) /\ F.jobs = jobs' /\ failed' = f
  BY DEF Persist
<1>2. Memory' = F /\ FileGood(Memory', owner')
  BY <1>1 DEF Memory, IInv, StoreInv
<1>3. F \in File
  BY <1>2 DEF FileGood
<1>4. saves \in Seq(File) /\ Len(saves) \in Nat
  BY LenProperties DEF IInv, StoreInv
<1> HIDE DEF F
<1>5. /\ Len(saves') = Len(saves) + 1
      /\ \A n \in 1..Len(saves) : saves'[n] = saves[n]
      /\ saves'[Len(saves) + 1] = F
  BY <1>1, <1>3, <1>4, AppendProperties
<1>6. ASSUME NEW v \in 1..Len(saves')
      PROVE  saves'[v].jobs = jobs' \/ \E w \in 1..Len(saves) : saves'[v] = saves[w]
  <2>1. CASE v = Len(saves) + 1
    BY <1>1, <1>5, <2>1
  <2>2. CASE v # Len(saves) + 1
    <3>1. v \in 1..Len(saves)
      BY <1>4, <1>5, <2>2
    <3> QED
      BY <1>5, <3>1
  <2> QED
    BY <2>1, <2>2
<1> QED
  BY <1>6 DEF SavedFrom

LEMMA SavesSavedFrom ==
  ASSUME IInv, Saves
  PROVE  SavedFrom
<1>1. PICK n \in DOMAIN saves : Save(n) \/ SaveFails(n)
  BY DEF Saves
<1>2. saves \in Seq(File) /\ n \in 1..Len(saves)
  BY <1>1, LenProperties DEF IInv, StoreInv
<1>3. saves' = SubSeq(saves, n + 1, Len(saves))
  BY <1>1 DEF Save, SaveFails
<1>4. \A i \in 1..Len(saves') : n + i \in 1..Len(saves) /\ saves'[i] = saves[n + i]
  BY ONLY <1>2, <1>3, NewerSaves, SMTT(30)
<1>5. disk' = disk \/ disk' = saves[n]
  BY <1>1 DEF Save, SaveFails
<1> QED
  BY <1>2, <1>4, <1>5 DEF SavedFrom

LEMMA SameSavedFrom ==
  ASSUME saves' = saves, disk' = disk
  PROVE  SavedFrom
BY DEF SavedFrom

LEMMA PlaceKept ==
  ASSUME PlaceInv, SavedFrom, idOf' = idOf,
         \A j \in jobs' : j.pending \subseteq KeysOf(j.id),
         \A t \in tasks' : t.todo \subseteq KeysOf(t.id)
  PROVE  PlaceInv'
<1>1. \A j \in jobs' : j.pending \subseteq {k \in Keys : idOf'[k] = j.id}
  BY DEF KeysOf
<1>2. \A t \in tasks' : t.todo \subseteq {k \in Keys : idOf'[k] = t.id}
  BY DEF KeysOf
<1>3. \A j \in disk'.jobs : j.pending \subseteq {k \in Keys : idOf'[k] = j.id}
  BY DEF PlaceInv, InPlace, KeysOf, SavedFrom
<1>4. \A v \in 1..Len(saves') : \A j \in saves'[v].jobs :
        j.pending \subseteq {k \in Keys : idOf'[k] = j.id}
  BY <1>1 DEF PlaceInv, InPlace, KeysOf, SavedFrom
<1> QED
  BY <1>1, <1>2, <1>3, <1>4 DEF PlaceInv, InPlace, KeysOf

LEMMA StuckKept ==
  ASSUME StuckInv, SavedFrom, login' = login, lostWrite' = lostWrite \/ lostWrite',
         restored' /\ loads' = {} => restored /\ loads = {},
         \A j \in jobs' :
           /\ owner'[j.id] = Viewer /\ j.id \notin running'
           /\ ~(j.pending = {} /\ j.finished # {})
           => j \in jobs /\ Idle(j)
  PROVE  StuckInv'
<1> SUFFICES ASSUME login' # 0, ~lostWrite', NEW j \in jobs', Idle(j)'
             PROVE  /\ ~(restored' /\ loads' = {})
                    /\ j.id \in IdsOf(disk'.jobs)
                    /\ \A v \in 1..Len(saves') : j.id \in IdsOf(saves'[v].jobs)
  BY DEF StuckInv, IdsOf
<1>1. Viewer' = Viewer
  BY DEF Viewer
<1>2. j \in jobs /\ Idle(j)
  BY <1>1 DEF Idle
<1>3. /\ ~(restored /\ loads = {}) /\ j.id \in IdsOf(disk.jobs)
      /\ \A v \in 1..Len(saves) : j.id \in IdsOf(saves[v].jobs)
  BY <1>2 DEF StuckInv
<1>4. j.id \in IdsOf(jobs')
  BY DEF IdsOf
<1> QED
  BY <1>3, <1>4 DEF SavedFrom

LEMMA SpinKept ==
  ASSUME NoSpinnerLeft, idOf' = idOf, deleted \subseteq deleted',
         \A k \in Keys : registry'[k] = "Uploading" =>
           \/ idOf[k] \in deleted'
           \/ \E q \in tasks' : Holds(q, k)
           \/ /\ registry[k] = "Uploading"
              /\ \A t \in tasks : Holds(t, k) => \E q \in tasks' : Holds(q, k)
  PROVE  NoSpinnerLeft'
<1> SUFFICES ASSUME NEW k \in Keys, registry'[k] = "Uploading", idOf'[k] \notin deleted'
             PROVE  \E t \in tasks' : /\ t.id = idOf'[k]
                                      /\ k \in t.todo \/ \E o \in t.outcomes : o.key = k
  BY DEF NoSpinnerLeft
<1>1. \E q \in tasks' : Holds(q, k)
  BY DEF NoSpinnerLeft, Holds
<1> QED
  BY <1>1 DEF Holds

\* The steps that change neither jobs nor tasks.
LEMMA QuietPlace ==
  ASSUME PlaceInv, SavedFrom, UNCHANGED <<idOf, jobs, tasks>>
  PROVE  PlaceInv'
BY PlaceKept DEF PlaceInv, InPlace

LEMMA SameStuck ==
  ASSUME StuckInv, SavedFrom, UNCHANGED <<login, restored, loads, jobs, running, owner>>,
         lostWrite' = lostWrite \/ lostWrite'
  PROVE  StuckInv'
BY StuckKept DEF Idle

LEMMA SameSpin ==
  ASSUME NoSpinnerLeft, UNCHANGED <<idOf, tasks, registry>>, deleted \subseteq deleted'
  PROVE  NoSpinnerLeft'
BY SpinKept

LEMMA LoginKeepsJ ==
  ASSUME IInv, JInv, Login
  PROVE  JInv'
<1>1. UNCHANGED <<restored, loads, jobs, saves, disk, written, lostWrite, idOf, tasks,
                  registry, deleted>>
      /\ login = 0 /\ login' # 0 /\ saves = <<>> /\ loads = {}
  BY DEF Login, AtRest, store, file, outside, IInv, RestTyped
<1>2. ~restored
  BY <1>1 DEF JInv, LoginInv
<1>3. PlaceInv'
  BY <1>1, SameSavedFrom, QuietPlace DEF JInv
<1>4. LoginInv'
  BY <1>1 DEF JInv, LoginInv
<1>5. StuckInv'
  <2>1. lostWrite \/ jobs = {} \/ disk = [jobs |-> jobs, failed |-> failed]
    BY <1>1 DEF IInv, RestTyped, StoreInv, DiskNewest, JInv, LoginInv
  <2>2. lostWrite \/ \A j \in jobs : j.id \in IdsOf(disk.jobs)
    BY <2>1 DEF IdsOf
  <2>3. Len(saves) = 0
    BY <1>1, EmptyFiles
  <2> QED
    BY <1>1, <1>2, <2>2, <2>3 DEF StuckInv
<1>6. NoSpinnerLeft'
  BY <1>1, SameSpin DEF JInv
<1> QED
  BY <1>3, <1>4, <1>5, <1>6 DEF JInv

LEMMA LogoutKeepsJ ==
  ASSUME IInv, JInv, Logout
  PROVE  JInv'
<1>1. UNCHANGED <<loads, jobs, saves, disk, written, lostWrite, idOf, tasks, deleted>>
      /\ login' = 0 /\ ~restored' /\ loads = {}
      /\ \A k \in Keys : registry'[k] = "Uploading" => registry[k] = "Uploading"
  BY DEF Logout, AtRest, store, file, outside
<1>2. PlaceInv'
  BY <1>1, SameSavedFrom, QuietPlace DEF JInv
<1>3. LoginInv'
  BY <1>1 DEF JInv, LoginInv
<1>4. StuckInv'
  BY <1>1 DEF StuckInv
<1>5. NoSpinnerLeft'
  BY <1>1, SpinKept DEF JInv
<1> QED
  BY <1>2, <1>3, <1>4, <1>5 DEF JInv

LEMMA QuietKeepsJ ==
  ASSUME JInv, deleted \subseteq deleted',
         UNCHANGED <<login, restored, loads, jobs, running, saves, disk, written,
                     lostWrite, tasks, registry, idOf, owner>>
  PROVE  JInv'
<1>1. SavedFrom
  BY SameSavedFrom
<1>2. PlaceInv'
  BY <1>1, QuietPlace DEF JInv
<1>3. StuckInv'
  BY <1>1, SameStuck DEF JInv
<1>4. NoSpinnerLeft'
  BY SameSpin DEF JInv
<1>5. LoginInv'
  BY DEF JInv, LoginInv
<1> QED
  BY <1>2, <1>3, <1>4, <1>5 DEF JInv

LEMMA SavesKeepJ ==
  ASSUME IInv, JInv, Saves
  PROVE  JInv'
<1>1. SavedFrom
  BY SavesSavedFrom
<1>2. UNCHANGED <<login, restored, loads, jobs, running, tasks, registry, idOf, owner,
                  deleted>>
  BY DEF Saves, process
<1>3. PICK n \in DOMAIN saves : Save(n) \/ SaveFails(n)
  BY DEF Saves
<1>4. /\ lostWrite' = lostWrite \/ lostWrite'
      /\ written' = written \/ (written' = "lost" /\ lostWrite')
  BY <1>3 DEF Save, SaveFails
<1>5. written' = "none" => written = "none"
  BY <1>4
<1>6. written' = "lost" => lostWrite'
  <2>1. CASE Save(n)
    BY <2>1 DEF Save, JInv, LoginInv
  <2>2. CASE SaveFails(n)
    BY <2>2 DEF SaveFails
  <2> QED
    BY <1>3, <2>1, <2>2
<1>7. LoginInv'
  BY <1>2, <1>5, <1>6 DEF JInv, LoginInv
<1>8. PlaceInv'
  BY <1>1, <1>2, QuietPlace DEF JInv
<1>9. StuckInv'
  BY <1>1, <1>2, <1>4, SameStuck DEF JInv
<1>10. NoSpinnerLeft'
  BY <1>2, SameSpin DEF JInv
<1> QED
  BY <1>7, <1>8, <1>9, <1>10 DEF JInv

LEMMA CrashKeepsJ ==
  ASSUME IInv, IInv', JInv, Crash
  PROVE  JInv'
<1>1. /\ jobs' = {} /\ tasks' = {} /\ saves' = <<>> /\ loads' = {} /\ login' = 0
      /\ ~restored' /\ written' = "none"
      /\ registry' = [k \in Keys |-> "none"]
      /\ UNCHANGED <<disk, idOf, deleted>>
  BY DEF Crash
<1>2. SavedFrom
  BY <1>1, EmptyFiles DEF SavedFrom
<1>3. PlaceInv'
  BY <1>1, <1>2, PlaceKept DEF JInv
<1>4. LoginInv'
  BY <1>1 DEF LoginInv
<1>5. StuckInv'
  BY <1>1 DEF StuckInv
<1>6. NoSpinnerLeft'
  BY <1>1 DEF NoSpinnerLeft
<1> QED
  BY <1>3, <1>4, <1>5, <1>6 DEF JInv

\* The task t becomes q, which holds what t held.
LEMMA TaskKeepsJ ==
  ASSUME JInv, NEW t \in tasks, NEW q,
         tasks' = (tasks \ {t}) \cup {q}, q.id = t.id,
         \A k \in Keys : Holds(t, k) => Holds(q, k),
         q.todo \subseteq t.todo,
         UNCHANGED <<login, restored, loads, jobs, running, saves, disk, written,
                     lostWrite, registry, idOf, owner, deleted>>
  PROVE  JInv'
<1>1. SavedFrom
  BY SameSavedFrom
<1>2. PlaceInv'
  <2>1. \A x \in tasks' : x.todo \subseteq KeysOf(x.id)
    BY DEF JInv, PlaceInv
  <2> QED
    BY <1>1, <2>1, PlaceKept DEF JInv, PlaceInv, InPlace
<1>3. StuckInv'
  BY <1>1, SameStuck DEF JInv
<1>4. NoSpinnerLeft'
  BY SpinKept DEF JInv
<1>5. LoginInv'
  BY DEF JInv, LoginInv
<1> QED
  BY <1>2, <1>3, <1>4, <1>5 DEF JInv

LEMMA FileEndsKeepsJ ==
  ASSUME IInv, JInv, NEW t \in tasks, NEW k \in Keys, NEW uploaded \in BOOLEAN,
         FileEnds(t, k, uploaded)
  PROVE  JInv'
<1> DEFINE done == IF uploaded THEN t.finished \cup {k} ELSE t.finished
           o == [key |-> k, uploaded |-> uploaded]
           r == [t EXCEPT !.todo = @ \ {k}, !.finished = done, !.outcomes = @ \cup {o}]
           s == [r EXCEPT !.phase = "sync"]
<1>1. t \in Task /\ k \in t.todo
  BY TaskFacts DEF FileEnds
<1>2. /\ r.id = t.id /\ r.todo = t.todo \ {k} /\ r.outcomes = t.outcomes \cup {o}
      /\ s.id = t.id /\ s.todo = t.todo \ {k} /\ s.outcomes = t.outcomes \cup {o}
  BY <1>1 DEF Task
<1>3. Rest(r).id = r.id /\ Rest(r).todo = r.todo /\ Rest(r).outcomes = r.outcomes
  BY <1>1 DEF Rest, Task
<1>4. tasks' = (tasks \ {t}) \cup
               {IF Cardinality(done \ t.synced) >= Batch THEN s ELSE Rest(r)}
  BY DEF FileEnds
<1>5. o.key = k
  OBVIOUS
<1> HIDE DEF done, o, r, s
<1>6. PICK q : /\ tasks' = (tasks \ {t}) \cup {q} /\ q.id = t.id
               /\ q.todo = t.todo \ {k} /\ q.outcomes = t.outcomes \cup {o}
  BY <1>2, <1>3, <1>4
<1>7. \A x \in Keys : Holds(t, x) => Holds(q, x)
  BY <1>5, <1>6 DEF Holds
<1>8. UNCHANGED <<login, restored, loads, jobs, running, saves, disk, written,
                  lostWrite, registry, idOf, owner, deleted>>
  BY DEF FileEnds, process, store, file, outside
<1> QED
  BY <1>6, <1>7, <1>8, TaskKeepsJ

LEMMA SyncKeepsJ ==
  ASSUME IInv, JInv, NEW t \in tasks, NEW answered \in BOOLEAN, NEW landed \in BOOLEAN,
         Sync(t, answered, landed)
  PROVE  JInv'
<1> DEFINE r == IF answered THEN [t EXCEPT !.synced = t.finished] ELSE t
           s == [r EXCEPT !.phase = "done"]
<1>1. t \in Task
  BY TaskFacts
<1>2. r \in Task /\ r.id = t.id /\ r.todo = t.todo /\ r.outcomes = t.outcomes
  BY <1>1 DEF Task
<1>3. tasks' = (tasks \ {t}) \cup {IF t.phase = "last" THEN s ELSE Rest(r)}
  BY DEF Sync
<1> HIDE DEF r
<1>4. /\ s.id = r.id /\ s.todo = r.todo /\ s.outcomes = r.outcomes
      /\ Rest(r).id = r.id /\ Rest(r).todo = r.todo /\ Rest(r).outcomes = r.outcomes
  BY <1>2 DEF Task, Rest
<1> HIDE DEF s
<1>5. PICK q : /\ tasks' = (tasks \ {t}) \cup {q} /\ q.id = t.id
               /\ q.todo = t.todo /\ q.outcomes = t.outcomes
  BY <1>2, <1>3, <1>4
<1>6. UNCHANGED <<login, restored, loads, jobs, running, saves, disk, written,
                  lostWrite, registry, idOf, owner, deleted>>
  BY DEF Sync, process, store, file
<1> QED
  BY <1>5, <1>6, TaskKeepsJ DEF Holds

LEMMA OutcomeKeepsJ ==
  ASSUME IInv, IInv', JInv, NEW t \in tasks, NEW o \in t.outcomes, Outcome(t, o)
  PROVE  JInv'
<1> DEFINE q == [t EXCEPT !.outcomes = @ \ {o}]
<1>1. t \in Task /\ t.id \in running
  BY TaskFacts
<1>2. q.id = t.id /\ q.todo = t.todo /\ q.outcomes = t.outcomes \ {o}
  BY <1>1 DEF Task
<1>3. tasks' = (tasks \ {t}) \cup {q}
      /\ UNCHANGED <<login, restored, loads, running, disk, idOf, owner, deleted>>
  BY DEF Outcome, process, outside
<1> HIDE DEF q
<1>4. o \in [key : Keys, uploaded : BOOLEAN]
  BY <1>1 DEF Task
<1>5. \A k \in Keys : registry'[k] = "Uploading" => registry[k] = "Uploading" /\ k # o.key
  BY <1>4 DEF Outcome, IInv, RestTyped
<1>6. NoSpinnerLeft'
  <2>1. \A k \in Keys, x \in tasks :
          k # o.key /\ Holds(x, k) => \E y \in tasks' : Holds(y, k)
    BY <1>2, <1>3 DEF Holds
  <2> QED
    BY <1>3, <1>5, <2>1, SpinKept DEF JInv
<1>7. /\ SavedFrom /\ lostWrite' = lostWrite
      /\ \A j \in jobs' : \/ j \in jobs
                          \/ /\ j.id = t.id
                             /\ \E x \in jobs : x.id = t.id /\ j.pending \subseteq x.pending
      /\ written' = "ok" \/ (written' = written /\ jobs' = jobs)
  <2>1. CASE UNCHANGED file
    BY <1>3, <2>1, SameSavedFrom DEF file
  <2>2. CASE \E f : \E x \in jobs : x.id = t.id /\
               Persist(Without(jobs, t.id) \cup {Record(x, o)}, f, running)
    <3> PICK f : \E x \in jobs : x.id = t.id /\
               Persist(Without(jobs, t.id) \cup {Record(x, o)}, f, running)
      BY <2>2
    <3>1. PICK x \in jobs : x.id = t.id /\
               Persist(Without(jobs, t.id) \cup {Record(x, o)}, f, running)
      OBVIOUS
    <3>2. x \in Job
      BY DEF IInv, StoreInv, FileGood, Memory, Good
    <3>3. Record(x, o).id = t.id /\ Record(x, o).pending \subseteq x.pending
      BY <1>4, <3>1, <3>2, Recorded
    <3>4. SavedFrom
      BY <1>3, <3>1, PersistSavedFrom
    <3>5. jobs' \subseteq Without(jobs, t.id) \cup {Record(x, o)}
          /\ written' = "ok" /\ lostWrite' = lostWrite
      BY <3>1, PersistedJobs
    <3> QED
      BY <3>1, <3>3, <3>4, <3>5 DEF Without
  <2> QED
    BY <2>1, <2>2 DEF Outcome
<1>8. PlaceInv'
  <2>1. \A j \in jobs' : j.pending \subseteq KeysOf(j.id)
    BY <1>7 DEF JInv, PlaceInv, InPlace
  <2>2. \A x \in tasks' : x.todo \subseteq KeysOf(x.id)
    BY <1>2, <1>3 DEF JInv, PlaceInv
  <2> QED
    BY <1>3, <1>7, <2>1, <2>2, PlaceKept DEF JInv
<1>9. StuckInv'
  <2>1. \A j \in jobs' : j.id \notin running' => j \in jobs
    BY <1>1, <1>3, <1>7
  <2> QED
    BY <1>3, <1>7, <2>1, StuckKept DEF JInv, Idle
<1>10. LoginInv'
  <2>1. written' = "none" => jobs' = {}
    BY <1>7 DEF JInv, LoginInv
  <2>2. written' = "lost" => lostWrite'
    BY <1>7 DEF JInv, LoginInv
  <2> QED
    BY <1>3, <2>1, <2>2 DEF JInv, LoginInv
<1> QED
  BY <1>6, <1>8, <1>9, <1>10 DEF JInv

\* The task t is over; its job is gone, or done but for the patch.
LEMMA EndKeepsJ ==
  ASSUME IInv, JInv, NEW t \in tasks,
         tasks' = tasks \ {t}, running' = running \ {t.id},
         UNCHANGED <<login, restored, loads, idOf, owner, deleted, lostWrite>>,
         SavedFrom,
         written' = "ok" \/ UNCHANGED <<written, jobs>>,
         \A k \in Keys : registry'[k] = "Uploading" => registry[k] = "Uploading",
         \A k \in Keys : Holds(t, k) => idOf[k] \in deleted,
         \A j \in jobs' : \/ j \in jobs /\ j.id # t.id
                          \/ j.id = t.id /\ j.pending = {} /\ j.finished # {}
  PROVE  JInv'
<1>1. PlaceInv'
  <2>1. \A j \in jobs' : j.pending \subseteq KeysOf(j.id)
    BY DEF JInv, PlaceInv, InPlace
  <2>2. \A x \in tasks' : x.todo \subseteq KeysOf(x.id)
    BY DEF JInv, PlaceInv
  <2> QED
    BY <2>1, <2>2, PlaceKept DEF JInv
<1>2. StuckInv'
  BY StuckKept DEF JInv, Idle
<1>3. NoSpinnerLeft'
  BY SpinKept DEF JInv
<1>4. LoginInv'
  <2>1. written' = "none" => jobs' = {}
    BY DEF JInv, LoginInv
  <2>2. written' = "lost" => lostWrite'
    BY DEF JInv, LoginInv
  <2> QED
    BY <2>1, <2>2 DEF JInv, LoginInv
<1> QED
  BY <1>1, <1>2, <1>3, <1>4 DEF JInv

LEMMA LeavesFrom ==
  ASSUME IInv, IInv', disk' = disk, NEW i,
         \/ Persist(Without(jobs, i), failed, running')
         \/ i \notin IdsOf(jobs) /\ UNCHANGED file
  PROVE  /\ SavedFrom /\ lostWrite' = lostWrite
         /\ written' = "ok" \/ UNCHANGED <<written, jobs>>
         /\ \A j \in jobs' : j \in jobs /\ j.id # i
<1>1. CASE Persist(Without(jobs, i), failed, running')
  <2>1. /\ jobs' \subseteq Without(jobs, i)
        /\ written' = "ok" /\ lostWrite' = lostWrite
    BY <1>1, PersistedJobs
  <2>2. SavedFrom
    BY <1>1, PersistSavedFrom
  <2> QED
    BY <2>1, <2>2 DEF Without
<1>2. CASE i \notin IdsOf(jobs) /\ UNCHANGED file
  BY <1>2, SameSavedFrom DEF file, IdsOf
<1> QED
  BY <1>1, <1>2

LEMMA DiscardKeepsJ ==
  ASSUME IInv, IInv', JInv, NEW t \in tasks, t.id \in deleted, Discard(t),
         UNCHANGED <<process, disk, outside, fromFile>>
  PROVE  JInv'
<1>1. \/ Persist(Without(jobs, t.id), failed, running')
      \/ t.id \notin IdsOf(jobs) /\ UNCHANGED file
  BY DEF Discard
<1>2. disk' = disk
  OBVIOUS
<1>3. /\ SavedFrom /\ lostWrite' = lostWrite
      /\ written' = "ok" \/ UNCHANGED <<written, jobs>>
      /\ \A j \in jobs' : j \in jobs /\ j.id # t.id
  BY <1>1, <1>2, LeavesFrom
<1>4. \A k \in Keys : registry'[k] = "Uploading" => registry[k] = "Uploading"
  BY DEF Discard, Settled
<1>5. \A k \in Keys : Holds(t, k) => idOf[k] \in deleted
  BY DEF Holds
<1>6. tasks' = tasks \ {t} /\ running' = running \ {t.id}
  BY DEF Discard
<1>7. UNCHANGED <<login, restored, loads, idOf, owner, deleted>>
  BY DEF process, outside
<1> QED
  BY <1>3, <1>4, <1>5, <1>6, <1>7, EndKeepsJ

LEMMA CompleteKeepsJ ==
  ASSUME IInv, IInv', JInv, NEW t \in tasks, Complete(t)
  PROVE  JInv'
<1>1. /\ t \in Task /\ t.phase = "done" /\ t.outcomes = {} /\ t.id \in IdsOf(jobs)
      /\ Orderly(t, server[t.id])
      /\ \A j \in jobs : j.id = t.id => Agree(t, j)
  BY TaskFacts DEF Complete
<1>2. tasks' = tasks \ {t} /\ running' = running \ {t.id} /\ disk' = disk
  BY DEF Complete
<1>3. UNCHANGED <<login, restored, loads, idOf, owner, deleted>>
  BY DEF Complete, process, outside
<1>4. t.todo = {}
  BY <1>1 DEF Orderly
<1>5. \A k \in Keys : Holds(t, k) => idOf[k] \in deleted
  BY <1>1, <1>4 DEF Holds
<1>6. \A k \in Keys : registry'[k] = "Uploading" => registry[k] = "Uploading"
  BY DEF Complete, Settled
<1>7. CASE Persist(Without(jobs, t.id), failed, running')
  <2>1. /\ SavedFrom /\ lostWrite' = lostWrite
        /\ written' = "ok" \/ UNCHANGED <<written, jobs>>
        /\ \A j \in jobs' : j \in jobs /\ j.id # t.id
    BY <1>2, <1>7, LeavesFrom
  <2> QED
    BY <1>2, <1>3, <1>5, <1>6, <2>1, EndKeepsJ
<1>8. CASE \E j \in jobs : /\ j.id = t.id /\ t.finished # t.synced
                           /\ Persist(Without(jobs, t.id) \cup {[j EXCEPT !.fails = @ + 1]},
                                      failed, running')
  <2>1. PICK j \in jobs :
          /\ j.id = t.id /\ t.finished # t.synced
          /\ Persist(Without(jobs, t.id) \cup {[j EXCEPT !.fails = @ + 1]},
                     failed, running')
    BY <1>8
  <2> DEFINE q == [j EXCEPT !.fails = @ + 1]
  <2>2. j \in Job
    BY DEF IInv, StoreInv, FileGood, Memory, Good
  <2>3. q.id = t.id /\ q.pending = j.pending /\ q.finished = j.finished
    BY <2>1, <2>2 DEF Job
  <2>4. Persist(Without(jobs, t.id) \cup {q}, failed, running')
    BY <2>1
  <2> HIDE DEF q
  <2>5. j.pending = {} /\ j.finished = t.finished
    BY <1>1, <1>4, <2>1 DEF Agree
  <2>6. t.finished # {}
    BY <1>1, <2>1 DEF Orderly
  <2>7. SavedFrom
    BY <1>2, <2>4, PersistSavedFrom
  <2>8. /\ jobs' \subseteq Without(jobs, t.id) \cup {q}
        /\ written' = "ok" /\ lostWrite' = lostWrite
    BY <2>4, PersistedJobs
  <2>9. \A x \in jobs' : \/ x \in jobs /\ x.id # t.id
                         \/ x.id = t.id /\ x.pending = {} /\ x.finished # {}
    BY <2>3, <2>5, <2>6, <2>8 DEF Without
  <2> QED
    BY <1>2, <1>3, <1>5, <1>6, <2>7, <2>8, <2>9, EndKeepsJ
<1> QED
  BY <1>1, <1>7, <1>8 DEF Complete

LEMMA RereadKeepsJ ==
  ASSUME IInv, IInv', JInv, FreshInv, NEW t \in tasks, Reread(t)
  PROVE  JInv'
<1>1. UNCHANGED <<process, disk, outside, fromFile>>
  BY DEF Reread
<1>2. CASE t.id \in deleted /\ Discard(t)
  BY <1>1, <1>2, DiscardKeepsJ
<1>3. CASE /\ Run(JobOf(t))
           /\ tasks' = (tasks \ {t}) \cup {Uploading(JobOf(t))}
  <2>1. t \in Task /\ t.id \in running /\ t.phase = "reread"
    BY TaskFacts DEF Reread
  <2>2. PICK j \in Job : j = JobOf(t) /\ j.id = t.id /\ j.pending = t.todo
    <3>1. JobOf(t) \in Job /\ JobOf(t).id = t.id /\ JobOf(t).pending = t.todo
      BY <2>1 DEF JobOf, Job, Task
    <3> QED
      BY <3>1
  <2>3. PICK q : /\ q = Uploading(j) /\ q.id = t.id /\ q.todo = t.todo
    BY <2>2, UploadingTask
  <2>4. /\ running' = running /\ Persist(Without(jobs, t.id) \cup {j}, failed, running')
        /\ registry' = Begun(j.pending, registry)
    BY <1>3, <2>1, <2>2 DEF Run
  <2>5. tasks' = (tasks \ {t}) \cup {q}
    BY <1>3, <2>2, <2>3
  <2>6. UNCHANGED <<login, restored, loads, idOf, owner, deleted, disk>>
    BY <1>1 DEF process, outside
  <2>7. SavedFrom
    BY <2>4, <2>6, PersistSavedFrom
  <2>8. /\ jobs' \subseteq Without(jobs, t.id) \cup {j}
        /\ written' = "ok" /\ lostWrite' = lostWrite
    BY <2>4, PersistedJobs
  <2>9. \A x \in jobs' : x \in jobs \/ x = j
    BY <2>8 DEF Without
  <2>10. t.todo \subseteq KeysOf(t.id)
    BY DEF JInv, PlaceInv
  <2>11. PlaceInv'
    <3>1. \A x \in jobs' : x.pending \subseteq KeysOf(x.id)
      BY <2>2, <2>9, <2>10 DEF JInv, PlaceInv, InPlace
    <3>2. \A x \in tasks' : x.todo \subseteq KeysOf(x.id)
      BY <2>3, <2>5, <2>10 DEF JInv, PlaceInv
    <3> QED
      BY <2>6, <2>7, <3>1, <3>2, PlaceKept DEF JInv
  <2>12. StuckInv'
    <3>1. \A x \in jobs' : x.id \notin running' => x \in jobs
      BY <2>1, <2>2, <2>4, <2>9
    <3> QED
      BY <2>4, <2>6, <2>7, <2>8, <3>1, StuckKept DEF JInv, Idle
  <2>13. NoSpinnerLeft'
    <3>1. \A k \in Keys : k \in t.todo => Holds(q, k)
      BY <2>3, <2>10 DEF Holds, KeysOf
    <3>2. \A k \in Keys : registry'[k] = "Uploading" /\ k \notin t.todo
                          => registry[k] = "Uploading"
      BY <2>2, <2>4 DEF Begun
    <3>3. t.outcomes = {}
      BY <2>1 DEF FreshInv
    <3>4. \A k \in Keys, x \in tasks : Holds(x, k) => \E y \in tasks' : Holds(y, k)
      BY <2>3, <2>5, <3>3 DEF Holds
    <3> QED
      BY <2>5, <2>6, <3>1, <3>2, <3>4, SpinKept DEF JInv
  <2>14. LoginInv'
    BY <2>6, <2>8 DEF JInv, LoginInv
  <2> QED
    BY <2>11, <2>12, <2>13, <2>14 DEF JInv
<1> QED
  BY <1>2, <1>3 DEF Reread

LEMMA SendKeepsJ ==
  ASSUME IInv, IInv', JInv, NEW i \in Ids, Send(i)
  PROVE  JInv'
<1> DEFINE r == [id |-> i, pending |-> KeysOf(i), finished |-> {}, fails |-> 0]
<1>1. /\ Run(r) /\ tasks' = tasks \cup {Uploading(r)}
      /\ UNCHANGED <<login, restored, loads, disk, idOf, deleted>>
      /\ owner' = [owner EXCEPT ![i] = Viewer] /\ owner[i] = "nobody"
  BY DEF Send, process
<1>2. r \in Job /\ r.id = i /\ r.pending = KeysOf(i)
  BY UploadsAssumption DEF Job, KeysOf
<1> HIDE DEF r
<1>3. PICK q : q = Uploading(r) /\ q.id = i /\ q.todo = KeysOf(i)
  BY <1>2, UploadingTask
<1>4. /\ running' = running \cup {i}
      /\ Persist(Without(jobs, i) \cup {r}, failed, running')
      /\ registry' = Begun(KeysOf(i), registry)
  BY <1>1, <1>2 DEF Run
<1>5. SavedFrom
  BY <1>1, <1>4, PersistSavedFrom
<1>6. /\ \A x \in jobs' : x \in jobs \/ x = r
      /\ written' = "ok" /\ lostWrite' = lostWrite
  BY <1>4, PersistedJobs DEF Without
<1>7. PlaceInv'
  <2>1. \A x \in jobs' : x.pending \subseteq KeysOf(x.id)
    BY <1>2, <1>6 DEF JInv, PlaceInv, InPlace
  <2>2. \A x \in tasks' : x.todo \subseteq KeysOf(x.id)
    BY <1>1, <1>3 DEF JInv, PlaceInv
  <2> QED
    BY <1>1, <1>5, <2>1, <2>2, PlaceKept DEF JInv
<1>8. StuckInv'
  <2>1. \A x \in jobs' : x.id \notin running' => x \in jobs /\ x.id # i
    BY <1>2, <1>4, <1>6
  <2>2. \A x \in jobs : x.id \in Ids /\ (x.id # i => owner'[x.id] = owner[x.id])
    BY <1>1 DEF IInv, RestTyped, StoreInv, FileGood, Memory, Good, Job
  <2> QED
    BY <1>1, <1>4, <1>5, <1>6, <2>1, <2>2, StuckKept DEF JInv, Idle
<1>9. NoSpinnerLeft'
  <2>1. \A k \in Keys : k \in KeysOf(i) => Holds(q, k)
    BY <1>3 DEF Holds, KeysOf
  <2>2. \A k \in Keys : registry'[k] = "Uploading" /\ k \notin KeysOf(i)
                        => registry[k] = "Uploading"
    BY <1>4 DEF Begun
  <2>3. q \in tasks' /\ tasks \subseteq tasks'
    BY <1>1, <1>3
  <2> QED
    BY <1>1, <2>1, <2>2, <2>3, SpinKept DEF JInv
<1>10. LoginInv'
  BY <1>1, <1>6 DEF JInv, LoginInv
<1> QED
  BY <1>7, <1>8, <1>9, <1>10 DEF JInv

LEMMA StartedFrom ==
  ASSUME NEW js, NEW run, Started(js, run)
  PROVE  /\ tasks \subseteq tasks' /\ running' = run \cup IdsOf(js)
         /\ \A x \in tasks' : x \in tasks \/ \E j \in js : x = Rereading(j)
         /\ \A j \in js : j.id \notin run => Rereading(j) \in tasks'
BY DEF Started

LEMMA RereadingFields ==
  ASSUME NEW j
  PROVE  /\ Rereading(j).id = j.id /\ Rereading(j).todo = j.pending
         /\ Rereading(j).phase = "reread" /\ Rereading(j).outcomes = {}
BY DEF Rereading

LEMMA ConnectKeepsJ ==
  ASSUME IInv, JInv, Connect
  PROVE  JInv'
<1> DEFINE js == {j \in jobs : /\ owner[j.id] = Viewer /\ j.pending = {}
                               /\ j.finished # {} /\ j.id \notin running}
<1>1. /\ login # 0 /\ restored'
      /\ UNCHANGED <<login, jobs, saves, disk, written, lostWrite, registry, idOf, owner,
                     deleted>>
  BY DEF Connect, file, outside
<1>2. /\ tasks \subseteq tasks' /\ running \subseteq running'
      /\ \A x \in tasks' : x \in tasks \/ x.todo \subseteq KeysOf(x.id)
  <2>1. CASE UNCHANGED <<running, tasks>>
    BY <2>1
  <2>2. CASE Started(js, running)
    <3>1. \A j \in js : j.pending = {}
      OBVIOUS
    <3> HIDE DEF js
    <3>2. /\ tasks \subseteq tasks' /\ running' = running \cup IdsOf(js)
          /\ \A x \in tasks' : x \in tasks \/ \E j \in js : x = Rereading(j)
      BY <2>2, StartedFrom
    <3> QED
      BY <3>1, <3>2, RereadingFields
  <2> QED
    BY <2>1, <2>2 DEF Connect
<1>3. /\ loads' \subseteq {login} \ {0}
      /\ loads' = {} => restored /\ loads = {}
  <2>1. CASE ~restored /\ loads' = loads \cup {login}
    BY <1>1, <2>1 DEF JInv, LoginInv
  <2>2. CASE restored /\ loads' = loads
    BY <2>2 DEF JInv, LoginInv
  <2> QED
    BY <2>1, <2>2 DEF Connect
<1>4. SavedFrom
  BY <1>1, SameSavedFrom
<1>5. PlaceInv'
  BY <1>1, <1>2, <1>4, PlaceKept DEF JInv, PlaceInv, InPlace
<1>6. StuckInv'
  BY <1>1, <1>2, <1>3, <1>4, StuckKept DEF JInv, Idle
<1>7. NoSpinnerLeft'
  BY <1>1, <1>2, SpinKept DEF JInv
<1>8. LoginInv'
  BY <1>1, <1>3 DEF JInv, LoginInv
<1> QED
  BY <1>5, <1>6, <1>7, <1>8 DEF JInv

LEMMA LoadKeepsJ ==
  ASSUME IInv, IInv', JInv, NEW l \in loads, LoadApplied(l)
  PROVE  JInv'
<1> DEFINE js == disk.jobs
           u == Script[l]
           goOn == Resumed(js, u) \cup
                   {[j EXCEPT !.pending = {}] :
                      j \in {x \in Expired(js, u) : x.finished # {}}}
           next == {j \in jobs : j.id \notin IdsOf(Taken(js))} \cup Kept(js, u)
<1>1. l = login /\ l # 0 /\ u = Viewer
  BY DEF JInv, LoginInv, Viewer
<1>2. /\ UNCHANGED <<login, restored, disk, idOf, owner, deleted, age>>
      /\ loads' = loads \ {l} /\ Started(goOn, running)
      /\ \E f : Persist(next, f, running)
  BY DEF LoadApplied, outside
<1>3. \A k \in Keys : registry'[k] = "Uploading" =>
                        registry[k] = "Uploading" \/ k \in PendingOf(Resumed(js, u))
  BY DEF LoadApplied, Begun, Begins
<1>4. \A j \in Taken(js) : j \in js /\ j.id \notin running
  BY DEF Taken
<1>5. /\ Kept(js, u) \subseteq Taken(js) /\ Resumed(js, u) \subseteq Taken(js)
      /\ Expired(js, u) \subseteq Taken(js) /\ Resumed(js, u) \subseteq goOn
      /\ \A j \in Kept(js, u) : owner[j.id] # u
  BY DEF Kept, Resumed, Expired
<1>6. /\ \A j \in Resumed(js, u) : j.pending \subseteq KeysOf(j.id)
      /\ \A j \in Kept(js, u) : j.pending \subseteq KeysOf(j.id)
  BY <1>4, <1>5 DEF JInv, PlaceInv, InPlace
<1>7. \A j \in js : j \in Job
  BY DEF IInv, StoreInv, FileGood, Good
<1>8. \A j \in goOn : j.pending \subseteq KeysOf(j.id)
  <2> SUFFICES ASSUME NEW j \in goOn PROVE j.pending \subseteq KeysOf(j.id)
    OBVIOUS
  <2>1. CASE j \in Resumed(js, u)
    BY <1>6, <2>1
  <2>2. CASE \E x \in Expired(js, u) : j = [x EXCEPT !.pending = {}]
    <3>1. PICK x \in Expired(js, u) : j = [x EXCEPT !.pending = {}]
      BY <2>2
    <3>2. x \in Job
      BY <1>4, <1>5, <1>7
    <3>3. j.pending = {}
      BY <3>1, <3>2 DEF Job
    <3> QED
      BY <3>3
  <2> QED
    BY <2>1, <2>2
<1>9. /\ \A x \in next : \/ x \in jobs /\ x.id \notin IdsOf(Taken(js))
                         \/ x \in Kept(js, u)
  OBVIOUS
<1> HIDE DEF goOn, next
<1>10. /\ tasks \subseteq tasks' /\ running' = running \cup IdsOf(goOn)
       /\ \A x \in tasks' : x \in tasks \/ \E j \in goOn : x = Rereading(j)
       /\ \A j \in goOn : j.id \notin running => Rereading(j) \in tasks'
  BY <1>2, StartedFrom
<1>11. SavedFrom
  BY <1>2, PersistSavedFrom
<1>12. /\ jobs' \subseteq next /\ written' = "ok" /\ lostWrite' = lostWrite
       /\ \A j \in jobs' : j.id \in running \/ age[j.id] # "old"
  BY <1>2 DEF Persist, Pruned
<1>13. PlaceInv'
  <2>1. \A x \in jobs' : x.pending \subseteq KeysOf(x.id)
    BY <1>6, <1>9, <1>12 DEF JInv, PlaceInv, InPlace
  <2>2. \A x \in tasks' : x.todo \subseteq KeysOf(x.id)
    BY <1>8, <1>10, RereadingFields DEF JInv, PlaceInv
  <2> QED
    BY <1>2, <1>11, <2>1, <2>2, PlaceKept DEF JInv
<1>14. StuckInv'
  \* An idle job would be in the file, and so have been taken from it.
  <2> SUFFICES ASSUME login' # 0, ~lostWrite', NEW j \in jobs', Idle(j)'
               PROVE  FALSE
    BY DEF StuckInv
  <2>1. owner[j.id] = Viewer /\ j.id \notin running
        /\ ~(j.pending = {} /\ j.finished # {})
    BY <1>2, <1>10 DEF Idle, Viewer
  <2>2. j \in jobs /\ j.id \notin IdsOf(Taken(js))
    BY <1>1, <1>5, <1>9, <1>12, <2>1
  <2>3. j.id \in IdsOf(disk.jobs)
    BY <1>2, <1>12, <2>1, <2>2 DEF JInv, StuckInv, Idle
  <2>4. age[j.id] # "old"
    BY <1>12, <2>1
  <2> QED
    BY <2>1, <2>2, <2>3, <2>4 DEF Taken, IdsOf
<1>15. NoSpinnerLeft'
  <2>1. ASSUME NEW k \in Keys, k \in PendingOf(Resumed(js, u))
        PROVE  \E q \in tasks' : Holds(q, k)
    <3>1. PICK j \in Resumed(js, u) : k \in j.pending
      BY <2>1 DEF PendingOf
    <3>2. Rereading(j) \in tasks' /\ k \in KeysOf(j.id)
      BY <1>4, <1>5, <1>6, <1>10, <3>1
    <3>3. Holds(Rereading(j), k)
      BY <3>1, <3>2, RereadingFields DEF Holds, KeysOf
    <3> QED
      BY <3>2, <3>3
  <2> QED
    BY <1>2, <1>3, <1>10, <2>1, SpinKept DEF JInv
<1>16. LoginInv'
  BY <1>2, <1>12 DEF JInv, LoginInv
<1> QED
  BY <1>13, <1>14, <1>15, <1>16 DEF JInv

LEMMA NextFresh == IInv /\ FreshInv /\ [Next]_vars => FreshInv'
<1> SUFFICES ASSUME IInv, FreshInv, [Next]_vars PROVE FreshInv'
  OBVIOUS
<1>1. CASE UNCHANGED tasks
  BY <1>1 DEF FreshInv
<1>2. CASE tasks' = {}
  BY <1>2 DEF FreshInv
<1>3. ASSUME NEW js, Started(js, running)
      PROVE  FreshInv'
  BY <1>3, StartedFrom, RereadingFields DEF FreshInv
<1>4. ASSUME NEW t \in tasks, Steps(t)
      PROVE  FreshInv'
  <2>1. t \in Task
    BY TaskFacts
  <2>2. CASE tasks' \subseteq tasks
    BY <2>2 DEF FreshInv
  <2>3. ASSUME NEW k \in Keys, NEW uploaded \in BOOLEAN, FileEnds(t, k, uploaded)
        PROVE  FreshInv'
    <3>1. \E r \in Task :
            tasks' \in {(tasks \ {t}) \cup {q} : q \in {Rest(r), [r EXCEPT !.phase = "sync"]}}
      <4> DEFINE done == IF uploaded THEN t.finished \cup {k} ELSE t.finished
                 o == [key |-> k, uploaded |-> uploaded]
                 r == [t EXCEPT !.todo = @ \ {k}, !.finished = done,
                                !.outcomes = @ \cup {o}]
      <4>1. done \in SUBSET Keys /\ o \in [key : Keys, uploaded : BOOLEAN]
        BY <2>1 DEF Task
      <4>2. tasks' = (tasks \ {t}) \cup
               {IF Cardinality(done \ t.synced) >= Batch
                THEN [r EXCEPT !.phase = "sync"] ELSE Rest(r)}
        BY <2>3 DEF FileEnds
      <4> HIDE DEF done, o
      <4>3. r \in Task
        BY <2>1, <4>1 DEF Task
      <4> HIDE DEF r
      <4> QED
        BY <4>2, <4>3
    <3>2. PICK r \in Task :
            tasks' \in {(tasks \ {t}) \cup {q} : q \in {Rest(r), [r EXCEPT !.phase = "sync"]}}
      BY <3>1
    <3>3. ASSUME NEW q \in {Rest(r), [r EXCEPT !.phase = "sync"]}
          PROVE  q.phase # "reread"
      BY <3>2, RestTask DEF Task
    <3> QED
      BY <3>2, <3>3 DEF FreshInv
  <2>4. ASSUME NEW answered \in BOOLEAN, NEW landed \in BOOLEAN,
               Sync(t, answered, landed)
        PROVE  FreshInv'
    <3> DEFINE r == IF answered THEN [t EXCEPT !.synced = t.finished] ELSE t
    <3>1. r \in Task
      BY <2>1 DEF Task
    <3>2. tasks' = (tasks \ {t}) \cup
               {IF t.phase = "last" THEN [r EXCEPT !.phase = "done"] ELSE Rest(r)}
      BY <2>4 DEF Sync
    <3> HIDE DEF r
    <3>3. [r EXCEPT !.phase = "done"].phase # "reread" /\ Rest(r).phase # "reread"
      BY <3>1, RestTask DEF Task
    <3> QED
      BY <3>2, <3>3 DEF FreshInv
  <2>5. ASSUME NEW o \in t.outcomes, Outcome(t, o)
        PROVE  FreshInv'
    <3>1. t.phase # "reread"
      BY DEF FreshInv
    <3>2. [t EXCEPT !.outcomes = @ \ {o}].phase = t.phase
      BY <2>1 DEF Task
    <3>3. tasks' = (tasks \ {t}) \cup {[t EXCEPT !.outcomes = @ \ {o}]}
      BY <2>5 DEF Outcome
    <3> QED
      BY <3>1, <3>2, <3>3 DEF FreshInv
  <2>6. CASE Reread(t)
    <3>1. CASE tasks' = (tasks \ {t}) \cup {Uploading(JobOf(t))}
      <4>1. JobOf(t) \in Job
        BY <2>1 DEF JobOf, Job, Task
      <4> QED
        BY <3>1, <4>1, UploadingTask DEF FreshInv
    <3>2. CASE tasks' \subseteq tasks
      BY <2>2, <3>2
    <3> QED
      BY <2>6, <3>1, <3>2 DEF Reread, Discard
  <2> QED
    BY <1>4, <2>2, <2>3, <2>4, <2>5, <2>6 DEF Steps, Complete
<1>5. ASSUME NEW i \in Ids, Send(i)
      PROVE  FreshInv'
  <2> DEFINE r == [id |-> i, pending |-> KeysOf(i), finished |-> {}, fails |-> 0]
  <2>1. r \in Job
    BY UploadsAssumption DEF Job, KeysOf
  <2>2. tasks' = tasks \cup {Uploading(r)}
    BY <1>5 DEF Send
  <2> HIDE DEF r
  <2> QED
    BY <2>1, <2>2, UploadingTask DEF FreshInv
<1>6. ASSUME Next
      PROVE  FreshInv'
  <2>1. ASSUME NEW l \in loads, LoadApplied(l) PROVE FreshInv'
    <3>1. \E js : Started(js, running)
      BY <2>1 DEF LoadApplied
    <3> QED
      BY <1>3, <3>1
  <2>2. CASE Connect
    <3>1. UNCHANGED tasks \/ \E js : Started(js, running)
      BY <2>2 DEF Connect
    <3> QED
      BY <1>1, <1>3, <3>1
  <2>3. CASE Login \/ Logout \/ Disconnect \/ Saves \/ \E i \in Ids : Delete(i) \/ Older(i)
    BY <1>1, <2>3 DEF Login, Logout, Disconnect, Saves, Delete, Older
  <2>4. CASE Crash
    BY <1>2, <2>4 DEF Crash
  <2> QED
    BY <1>4, <1>5, <1>6, <2>1, <2>2, <2>3, <2>4 DEF Next
<1> QED
  BY <1>1, <1>6 DEF vars

LEMMA NextJInv == IInv /\ IInv' /\ FreshInv /\ JInv /\ [Next]_vars => JInv'
<1> SUFFICES ASSUME IInv, IInv', FreshInv, JInv, [Next]_vars PROVE JInv'
  OBVIOUS
<1>1. CASE Login
  BY <1>1, LoginKeepsJ
<1>2. CASE Logout
  BY <1>2, LogoutKeepsJ
<1>3. CASE Connect
  BY <1>3, ConnectKeepsJ
<1>4. CASE Disconnect
  BY <1>4, QuietKeepsJ DEF Disconnect, store, file, outside
<1>5. CASE Crash
  BY <1>5, CrashKeepsJ
<1>6. CASE Saves
  BY <1>6, SavesKeepJ
<1>7. ASSUME NEW l \in loads, LoadApplied(l) PROVE JInv'
  BY <1>7, LoadKeepsJ
<1>8. ASSUME NEW t \in tasks, Steps(t) PROVE JInv'
  <2>1. ASSUME NEW k \in Keys, NEW uploaded \in BOOLEAN, FileEnds(t, k, uploaded)
        PROVE  JInv'
    BY <2>1, FileEndsKeepsJ
  <2>2. ASSUME NEW answered \in BOOLEAN, NEW landed \in BOOLEAN,
               Sync(t, answered, landed)
        PROVE  JInv'
    BY <2>2, SyncKeepsJ
  <2>3. ASSUME NEW o \in t.outcomes, Outcome(t, o) PROVE JInv'
    BY <2>3, OutcomeKeepsJ
  <2>4. CASE Complete(t)
    BY <2>4, CompleteKeepsJ
  <2>5. CASE Reread(t)
    BY <2>5, RereadKeepsJ
  <2> QED
    BY <1>8, <2>1, <2>2, <2>3, <2>4, <2>5 DEF Steps
<1>9. ASSUME NEW i \in Ids, Send(i) PROVE JInv'
  BY <1>9, SendKeepsJ
<1>10. ASSUME NEW i \in Ids, Delete(i) \/ Older(i) PROVE JInv'
  BY <1>10, QuietKeepsJ DEF Delete, Older, process, store, file
<1>11. CASE UNCHANGED vars
  BY <1>11, QuietKeepsJ DEF vars, process, store, file, outside
<1> QED
  BY <1>1, <1>2, <1>3, <1>4, <1>5, <1>6, <1>7, <1>8, <1>9, <1>10, <1>11 DEF Next

LEMMA InitJInv == Init => FreshInv /\ JInv
<1> SUFFICES ASSUME Init PROVE FreshInv /\ JInv
  OBVIOUS
<1>1. Len(saves) = 0
  BY EmptyFiles DEF Init
<1>2. PlaceInv
  BY <1>1 DEF Init, PlaceInv, InPlace, NoFile
<1>3. LoginInv /\ StuckInv
  BY DEF Init, LoginInv, StuckInv
<1>4. NoSpinnerLeft
  BY DEF Init, NoSpinnerLeft
<1>5. FreshInv
  BY DEF Init, FreshInv
<1> QED
  BY <1>2, <1>3, <1>4, <1>5 DEF JInv

LEMMA AlwaysJInv == Spec => []JInv
<1>1. IInv /\ FreshInv /\ [Next]_vars => FreshInv'
  BY NextFresh
<1>2. IInv /\ IInv' /\ FreshInv /\ JInv /\ [Next]_vars => JInv'
  BY NextJInv
<1> QED
  BY <1>1, <1>2, InitJInv, AlwaysIInv, PTL DEF Spec

-----------------------------------------------------------------------------
(* The theorems.                                                            *)

\* Every variable keeps its type, for any messages, files, users and bounds.
THEOREM TypeCorrect == Spec => []TypeOK
<1>1. IInv => TypeOK
  <2> SUFFICES ASSUME IInv PROVE TypeOK
    OBVIOUS
  <2>1. jobs \subseteq Job /\ failed \subseteq Keys
    BY DEF IInv, StoreInv, FileGood, Good, Memory, File
  <2>2. saves \in Seq(File) /\ disk \in File
    BY DEF IInv, StoreInv, FileGood
  <2>3. tasks \subseteq Task /\ running \subseteq Ids
    BY DEF IInv, AboutTasks, TasksInv, RunningIsLive, IdsOf, Task
  <2> QED
    BY <2>1, <2>2, <2>3 DEF IInv, RestTyped, TypeOK
<1> QED
  BY <1>1, AlwaysIInv, PTL

\* Once no save is under way the file is what the store holds, unless the
\* last write failed: the generation of a save decides, in any order of the
\* detached tasks of `persist_upload_jobs`.
THEOREM DiskAlwaysNewest == Spec => []DiskNewest
<1>1. IInv => DiskNewest
  BY DEF IInv, StoreInv
<1> QED
  BY <1>1, AlwaysIInv, PTL

\* `running_upload_jobs` names the jobs that have a task, each of which has
\* one, and a task that has read its message has its job in the store.
THEOREM RunningAlwaysLive == Spec => []RunningIsLive
<1>1. IInv => RunningIsLive
  BY DEF IInv, AboutTasks, TasksInv
<1> QED
  BY <1>1, AlwaysIInv, PTL

\* A job this process has taken on is in the store or in the hands of a task
\* until it is closed, given up, discarded or too old.
THEOREM NothingForgotten == Spec => []NeverForgotten
<1>1. IInv => NeverForgotten
  BY DEF IInv, AboutTasks
<1> QED
  BY <1>1, AlwaysIInv, PTL

\* `complete_upload_job` closes a job as patched only when all its files have
\* been accounted for and the message lists those that were uploaded.
THEOREM ClosesOnlyWhenTold == Spec => []ClosesWhenTold
<1>1. IInv => ClosesWhenTold
  <2> SUFFICES ASSUME IInv, NEW t \in tasks, NEW j \in jobs,
                      t.id = j.id, t.phase = "done", t.outcomes = {},
                      t.finished = t.synced
               PROVE  j.pending = {} /\ j.finished \subseteq server[j.id]
    BY DEF ClosesWhenTold
  <2>1. Orderly(t, server[t.id]) /\ Agree(t, j)
    BY DEF IInv, AboutTasks, TellInv
  <2>2. t.todo = {}
    BY <2>1 DEF Orderly
  <2>3. j.pending = {} /\ j.finished = t.finished
    BY <2>1, <2>2 DEF Agree
  <2> QED
    BY <2>1, <2>3 DEF Orderly
<1> QED
  BY <1>1, AlwaysIInv, PTL

\* The patches of a message whose job has not been through the file list more
\* and more of its files, over all retries of the job.
THEOREM ListsGrow == Spec => Cumulative
<1>1. IInv /\ [Next]_vars => [\A i \in Ids \ fromFile : server[i] \subseteq server'[i]]_vars
  <2> SUFFICES ASSUME IInv, Next, NEW i \in Ids \ fromFile
               PROVE  server[i] \subseteq server'[i]
    OBVIOUS
  <2>1. CASE server' = server
    BY <2>1
  <2>2. CASE \E t \in tasks, answered, landed \in BOOLEAN : Sync(t, answered, landed)
    <3>1. PICK t \in tasks, answered \in BOOLEAN, landed \in BOOLEAN :
            Sync(t, answered, landed)
      BY <2>2
    <3>2. /\ server \in [Ids -> SUBSET Keys]
          /\ server' = [server EXCEPT ![t.id] = IF landed THEN Patch(t) ELSE @]
      BY <3>1 DEF Sync, IInv, RestTyped
    <3>3. t.id = i => server[i] \subseteq t.finished
      BY DEF IInv, AboutTasks, ListInv
    <3> QED
      BY <3>2, <3>3 DEF Patch
  <2> QED
    BY <2>1, <2>2 DEF Next, Steps, Login, Logout, Connect, Disconnect, Crash, Saves,
       LoadApplied, FileEnds, Outcome, Complete, Reread, Send, Delete, Older, outside
<1> QED
  BY <1>1, AlwaysIInv, PTL DEF Spec, Cumulative

\* No file goes on being shown as uploading that no task has, unless its
\* message is deleted.
THEOREM NoSpinnerEverLeft == Spec => []NoSpinnerLeft
<1>1. JInv => NoSpinnerLeft
  BY DEF JInv
<1> QED
  BY <1>1, AlwaysJInv, PTL

\* Once the file is read, every job of the viewer that is not running is one
\* that `retry_unsynced_upload_jobs` will take up.
THEOREM NothingEverStuck == Spec => []NothingStuck
<1>1. IInv /\ JInv => NothingStuck
  BY DEF NothingStuck, JInv, LoginInv, StuckInv, Idle
<1> QED
  BY <1>1, AlwaysIInv, AlwaysJInv, PTL
=============================================================================

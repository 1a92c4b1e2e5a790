------------------------------ MODULE Uploads ------------------------------
(* Attachment uploads that outlive the message they belong to: the upload    *)
(* jobs of MessagesStore (mezon-store/messages.rs, upload_jobs.rs, the upload*)
(* registry of presign.rs) and the task that uploads the files and patches   *)
(* the message (mezon-client/app_api.rs).                                    *)
(*                                                                           *)
(* A message is sent before its files are uploaded; the job says which keys  *)
(* are still pending and which are finished, and the message shows a file    *)
(* once a patch lists its key.  The store saves all jobs in one file, by     *)
(* detached tasks that run in any order, and takes them up again after a     *)
(* restart or a login.                                                       *)
EXTENDS Naturals, Sequences, FiniteSets

CONSTANTS
    Ids,              \* messages with attachments (bucket and message id)
    Keys,             \* the keys of their files
    Layouts,          \* bound: how the files are spread over the messages
    Script,           \* bound: the users that log in, one after the other
    SentIn,           \* bound: SentIn[i] is the login in which message i is sent
    Batch,            \* PRESIGN_EDIT_BATCH_SIZE
    MaxSyncFailures,  \* MAX_SYNC_FAILURES
    MaxSaves,         \* bound: saves under way
    MaxEvents         \* bound: crashes, failed writes, deletions and steps of
                      \* ageing, together

Users == {Script[n] : n \in DOMAIN Script}

ASSUME UploadsAssumption ==
    /\ IsFiniteSet(Keys)
    /\ Script \in Seq(Users) /\ "nobody" \notin Users
    /\ Layouts \subseteq [Keys -> Ids] /\ SentIn \in [Ids -> DOMAIN Script]
    /\ Batch \in Nat \ {0} /\ MaxSyncFailures \in Nat \ {0}
    /\ MaxSaves \in Nat \ {0} /\ MaxEvents \in Nat

VARIABLES
    idOf,         \* idOf[k]: the message of file k
    login,        \* the login in use, an index of Script; 0 before and after
    logins,       \* logins so far
    connected,    \* was_connected of the connection watch
    restored,     \* upload_jobs_restored
    jobs,         \* upload_jobs
    failed,       \* the keys of failed_uploads
    running,      \* running_upload_jobs
    saves,        \* detached saves above LAST_WRITTEN, by generation
    disk,         \* upload_jobs.json
    loads,        \* the logins whose restore waits for the file
    tasks,        \* the tasks of the jobs that run
    registry,     \* the upload registry
    server,       \* server[i]: the keys that message i lists as finished
    deleted,      \* messages deleted on the server
    owner,        \* owner[i]: the user_id of job i
    age,          \* age[i]: how long ago job i was started
    events,       \* events of the outside so far
    known,        \* history: the jobs this process has to bring to an end
    written,      \* history: what became of this process's last save
    lostWrite,    \* history: a write has failed in this process
    fromFile      \* history: jobs that were taken from the file

process == <<login, logins, connected, restored, loads>>
file == <<jobs, failed, saves, written, lostWrite>>
store == <<file, running>>
outside == <<idOf, server, deleted, owner, age, events>>
vars == <<process, store, disk, tasks, registry, outside, known, fromFile>>

Viewer == IF login = 0 THEN "nobody" ELSE Script[login]
KeysOf(i) == {k \in Keys : idOf[k] = i}

Job == [id : Ids, pending : SUBSET Keys, finished : SUBSET Keys,
        fails : 0..(MaxSyncFailures - 1)]
File == [jobs : SUBSET Job, failed : SUBSET Keys]
NoFile == [jobs |-> {}, failed |-> {}]
Phases == {"reread", "first", "upload", "sync", "last", "done"}
Task == [id : Ids, phase : Phases, todo : SUBSET Keys, finished : SUBSET Keys,
         synced : SUBSET Keys, fails : 0..(MaxSyncFailures - 1),
         outcomes : SUBSET [key : Keys, uploaded : BOOLEAN]]

Init ==
    /\ idOf \in Layouts
    /\ login = 0 /\ logins = 0 /\ connected = FALSE /\ restored = FALSE
    /\ loads = {}
    /\ jobs = {} /\ failed = {} /\ running = {} /\ saves = <<>>
    /\ written = "none" /\ lostWrite = FALSE
    /\ disk = NoFile
    /\ tasks = {}
    /\ registry = [k \in Keys |-> "none"]
    /\ server = [i \in Ids |-> {}] /\ deleted = {}
    /\ owner = [i \in Ids |-> "nobody"] /\ age = [i \in Ids |-> "fresh"]
    /\ events = 0
    /\ known = {} /\ fromFile = {}

-----------------------------------------------------------------------------
(* The jobs and the file.                                                    *)

(* Bound on delays: the file is read and written in milliseconds, so people  *)
(* find it at rest when they log in or out, and read when they send.  A crash*)
(* finds it in any state, and so do the tasks.                               *)
AtRest == saves = <<>> /\ loads = {}

IdsOf(js) == {j.id : j \in js}
Without(js, i) == {j \in js : j.id # i}

(* `prune`: a job is kept for a week, and for as long as it runs.            *)
Pruned(js, run) == {j \in js : age[j.id] # "old" \/ j.id \in run}

(* `persist_upload_jobs` with the jobs js, the failed uploads f and the      *)
(* running jobs run: a detached task saves what they are now.                *)
Persist(js, f, run) ==
    /\ Len(saves) < MaxSaves
    /\ jobs' = Pruned(js, run)
    /\ failed' = f
    /\ saves' = Append(saves, [jobs |-> jobs', failed |-> f])
    /\ written' = "ok" /\ UNCHANGED lostWrite

(* (mutant) `save` does not look at the generation.                          *)
SaveInAnyOrder(n) ==
    /\ disk' = saves[n]
    /\ saves' = SubSeq(saves, 1, n - 1) \o SubSeq(saves, n + 1, Len(saves))
    /\ UNCHANGED <<written, lostWrite>>

(* The n-th save runs.  Those of an earlier generation return when they find *)
(* a later one in LAST_WRITTEN.                                              *)
Save(n) ==
    /\ disk' = saves[n]
    /\ saves' = SubSeq(saves, n + 1, Len(saves))
    /\ UNCHANGED <<written, lostWrite>>

(* The write fails, which is only logged; the generation has been taken.     *)
SaveFails(n) ==
    /\ events < MaxEvents
    /\ events' = events + 1
    /\ saves' = SubSeq(saves, n + 1, Len(saves))
    /\ written' = IF n = Len(saves) THEN "lost" ELSE written
    /\ lostWrite' = TRUE
    /\ UNCHANGED disk

Saves ==
    \E n \in DOMAIN saves :
        /\ \/ Save(n) /\ UNCHANGED events
           \/ SaveFails(n)
        /\ UNCHANGED <<process, jobs, failed, running, tasks, registry, idOf, server,
                       deleted, owner, age, known, fromFile>>

-----------------------------------------------------------------------------
(* The task of a job.                                                        *)

(* What the task does next once a patch has been tried: await the uploads,   *)
(* patch what is left, or return.                                            *)
Rest(t) ==
    [t EXCEPT !.phase = IF t.todo # {} THEN "upload"
                        ELSE IF t.finished # t.synced THEN "last" ELSE "done"]

(* (mutant) The keys that an earlier run of the job finished are dropped.    *)
UploadingAnew(j) ==
    Rest([id |-> j.id, phase |-> "upload", todo |-> j.pending, finished |-> {},
          synced |-> {}, fails |-> j.fails, outcomes |-> {}])

(* `upload_presigned_and_patch` starts with a patch for the keys that an     *)
(* earlier run of the job has finished.                                      *)
Uploading(j) ==
    LET t == [id |-> j.id, phase |-> "first", todo |-> j.pending,
              finished |-> j.finished, synced |-> {}, fails |-> j.fails,
              outcomes |-> {}]
    IN  IF j.finished = {} THEN Rest(t) ELSE t

Rereading(j) ==
    [id |-> j.id, phase |-> "reread", todo |-> j.pending, finished |-> j.finished,
     synced |-> {}, fails |-> j.fails, outcomes |-> {}]

JobOf(t) ==
    [id |-> t.id, pending |-> t.todo, finished |-> t.finished, fails |-> t.fails]

Begun(keys, reg) == [k \in Keys |-> IF k \in keys THEN "Uploading" ELSE reg[k]]
Settled(keys, reg) == [k \in Keys |-> IF k \in keys THEN "none" ELSE reg[k]]

(* `run_upload_job` up to its first await: the job is registered.            *)
Run(j) ==
    /\ registry' = Begun(j.pending, registry)
    /\ running' = running \cup {j.id}
    /\ Persist(Without(jobs, j.id) \cup {j}, failed, running')

(* A message goes out and its files start to upload.                         *)
Send(i) ==
    LET j == [id |-> i, pending |-> KeysOf(i), finished |-> {}, fails |-> 0]
    IN  /\ connected /\ login = SentIn[i] /\ loads = {}
        /\ owner[i] = "nobody" /\ KeysOf(i) # {}
        /\ owner' = [owner EXCEPT ![i] = Viewer]
        /\ Run(j)
        /\ tasks' = tasks \cup {Uploading(j)}
        /\ known' = known \cup {i}
        /\ UNCHANGED <<process, disk, idOf, server, deleted, age, events, fromFile>>

(* One file is uploaded, or cannot be.                                       *)
FileEnds(t, k, uploaded) ==
    LET done == IF uploaded THEN t.finished \cup {k} ELSE t.finished
        r == [t EXCEPT !.todo = @ \ {k}, !.finished = done,
                       !.outcomes = @ \cup {[key |-> k, uploaded |-> uploaded]}]
    IN  /\ t.phase = "upload" /\ k \in t.todo
        /\ tasks' = (tasks \ {t}) \cup
               {IF Cardinality(done \ t.synced) >= Batch
                THEN [r EXCEPT !.phase = "sync"] ELSE Rest(r)}
        /\ UNCHANGED <<process, store, disk, registry, outside, known, fromFile>>

(* (mutant) A patch lists only what the last one did not.                    *)
OnlyNewKeys(t) == t.finished \ t.synced

(* A patch carries the list of all keys finished so far.                     *)
Patch(t) == t.finished

(* `sync_presign_finish_with_retry`: the patch is answered, or none of its   *)
(* attempts is, though one may have reached the server.  After the last one  *)
(* the task returns whether every finished key is in the message.            *)
Sync(t, answered, landed) ==
    LET r == IF answered THEN [t EXCEPT !.synced = t.finished] ELSE t
    IN  /\ t.phase \in {"first", "sync", "last"}
        /\ answered => landed
        /\ server' = [server EXCEPT ![t.id] = IF landed THEN Patch(t) ELSE @]
        /\ tasks' = (tasks \ {t}) \cup
               {IF t.phase = "last" THEN [r EXCEPT !.phase = "done"] ELSE Rest(r)}
        /\ UNCHANGED <<process, store, disk, registry, idOf, deleted, owner, age, events,
                       known, fromFile>>

(* (mutant) A failed key is left among the pending ones.                     *)
RecordUploaded(j, o) ==
    IF o.uploaded
    THEN [j EXCEPT !.pending = @ \ {o.key}, !.finished = @ \cup {o.key}] ELSE j

(* `record` *)
Record(j, o) ==
    [j EXCEPT !.pending = @ \ {o.key},
              !.finished = IF o.uploaded THEN @ \cup {o.key} ELSE @]

(* `apply_upload_job_outcome`, which the channel of the task calls.          *)
Outcome(t, o) ==
    /\ o \in t.outcomes
    /\ tasks' = (tasks \ {t}) \cup {[t EXCEPT !.outcomes = @ \ {o}]}
    /\ registry' =
         [registry EXCEPT ![o.key] = IF o.uploaded THEN "Uploaded" ELSE "Failed"]
    /\ \/ \E j \in jobs :
            /\ j.id = t.id
            /\ Persist(Without(jobs, t.id) \cup {Record(j, o)},
                       IF ~o.uploaded /\ o.key \in j.pending
                       THEN failed \cup {o.key} ELSE failed,
                       running)
       \/ t.id \notin IdsOf(jobs) /\ UNCHANGED file
    /\ UNCHANGED <<process, running, disk, outside, known, fromFile>>

(* (mutant) The last retry is one too many.                                  *)
RetriesOnceMore(j) == j.fails + 1 <= MaxSyncFailures

(* `note_sync_failure`: whether a job whose patch failed is retried.         *)
Retries(j) == j.fails + 1 < MaxSyncFailures

(* `complete_upload_job`: once the outcomes are drained the job is closed if *)
(* the message lists its keys, kept to be retried or given up if it does not.*)
Complete(t) ==
    /\ t.phase = "done" /\ t.outcomes = {}
    /\ tasks' = tasks \ {t}
    /\ running' = running \ {t.id}
    /\ \/ \E j \in jobs :
            /\ j.id = t.id
            /\ \/ /\ t.finished = t.synced
                  /\ registry' = Settled(j.finished, registry)
                  /\ known' = known \ {t.id}
                  /\ Persist(Without(jobs, t.id), failed, running')
               \/ /\ t.finished # t.synced /\ Retries(j)
                  /\ UNCHANGED <<registry, known>>
                  /\ Persist(Without(jobs, t.id) \cup {[j EXCEPT !.fails = @ + 1]},
                             failed, running')
               \/ /\ t.finished # t.synced /\ ~Retries(j)
                  /\ registry' = Settled(j.finished \cup j.pending, registry)
                  /\ known' = known \ {t.id}
                  /\ Persist(Without(jobs, t.id), failed, running')
       \/ /\ t.id \notin IdsOf(jobs)
          /\ UNCHANGED <<file, registry, known>>
    /\ UNCHANGED <<process, disk, outside, fromFile>>

(* (mutant) The early return comes before the job stops running.             *)
DiscardStillRunning(t) ==
    /\ tasks' = tasks \ {t}
    /\ known' = known \ {t.id}
    /\ \/ \E j \in jobs :
            /\ j.id = t.id
            /\ running' = running \ {t.id}
            /\ registry' = Settled(j.finished \cup j.pending, registry)
            /\ Persist(Without(jobs, t.id), failed, running')
       \/ t.id \notin IdsOf(jobs) /\ UNCHANGED <<store, registry>>

(* `discard_upload_job`: the message was deleted.                            *)
Discard(t) ==
    /\ tasks' = tasks \ {t}
    /\ running' = running \ {t.id}
    /\ known' = known \ {t.id}
    /\ \/ \E j \in jobs :
            /\ j.id = t.id
            /\ registry' = Settled(j.finished \cup j.pending, registry)
            /\ Persist(Without(jobs, t.id), failed, running')
       \/ /\ t.id \notin IdsOf(jobs)
          /\ UNCHANGED <<file, registry>>

(* `current_upload_job` has read the page around the message: the job is     *)
(* dropped if the page shows a gap where the message was, and goes on if the *)
(* message is there, the page does not tell, or could not be read.           *)
Reread(t) ==
    /\ t.phase = "reread"
    /\ \/ t.id \in deleted /\ Discard(t)
       \/ /\ Run(JobOf(t))
          /\ tasks' = (tasks \ {t}) \cup {Uploading(JobOf(t))}
          /\ UNCHANGED known
    /\ UNCHANGED <<process, disk, outside, fromFile>>

Steps(t) ==
    \/ \E k \in Keys, uploaded \in BOOLEAN : FileEnds(t, k, uploaded)
    \/ \E answered, landed \in BOOLEAN : Sync(t, answered, landed)
    \/ \E o \in t.outcomes : Outcome(t, o)
    \/ Complete(t)
    \/ Reread(t)

-----------------------------------------------------------------------------
(* Restoring and retrying.                                                   *)

(* `start_upload_job` for each of js: the ones that run already are skipped. *)
Started(js, run) ==
    /\ running' = run \cup IdsOf(js)
    /\ tasks' = tasks \cup {Rereading(j) : j \in {x \in js : x.id \notin run}}

(* `restore_upload_jobs`, at every transition to Connected: the first one    *)
(* after a login reads the file, the others retry the viewer's jobs whose    *)
(* files are up but not in the message.                                      *)
Connect ==
    /\ login # 0 /\ ~connected
    /\ connected' = TRUE /\ restored' = TRUE
    /\ \/ /\ ~restored
          /\ loads' = loads \cup {login}
          /\ UNCHANGED <<running, tasks>>
       \/ /\ restored
          /\ UNCHANGED loads
          /\ Started({j \in jobs : /\ owner[j.id] = Viewer /\ j.pending = {}
                                   /\ j.finished # {} /\ j.id \notin running},
                     running)
    /\ UNCHANGED <<login, logins, file, disk, registry, outside, known, fromFile>>

Disconnect ==
    /\ connected
    /\ connected' = FALSE
    /\ UNCHANGED <<login, logins, restored, loads, store, disk, tasks, registry,
                   outside, known, fromFile>>

(* `plan_restore` for the user u: what is taken from the file, and of that   *)
(* what another user left, what can go on and what is past its window.       *)
Taken(js) == {j \in js : j.id \notin running /\ age[j.id] # "old"}

(* (mutant) The jobs of other users are not put back.                        *)
DropKept(js, u) == {}

Kept(js, u) == {j \in Taken(js) : owner[j.id] # u}
Resumed(js, u) == {j \in Taken(js) : owner[j.id] = u /\ age[j.id] = "fresh"}
Expired(js, u) == {j \in Taken(js) : owner[j.id] = u /\ age[j.id] # "fresh"}

PendingOf(js) == UNION {j.pending : j \in js}

(* (mutant) The files of expired jobs begin to upload as well.               *)
BeginAll(js, u) == PendingOf(Resumed(js, u) \cup Expired(js, u))

Begins(js, u) == PendingOf(Resumed(js, u))

(* `load` and `resume_upload_jobs`, for the user of the login l that asked   *)
(* for it.  The file is what the saves so far have made of it.               *)
LoadApplied(l) ==
    LET js == disk.jobs
        u == Script[l]
        f == failed \cup disk.failed \cup PendingOf(Expired(js, u))
        goOn == Resumed(js, u) \cup
                {[j EXCEPT !.pending = {}] :
                   j \in {x \in Expired(js, u) : x.finished # {}}}
    IN  /\ loads' = loads \ {l}
        /\ registry' = Begun(Begins(js, u),
                             [k \in Keys |-> IF k \in f /\ owner[idOf[k]] = u
                                             THEN "Failed" ELSE registry[k]])
        /\ Persist({j \in jobs : j.id \notin IdsOf(Taken(js))} \cup Kept(js, u),
                   f, running)
        /\ Started(goOn, running)
        /\ known' = (known \ IdsOf(Expired(js, u))) \cup IdsOf(Kept(js, u))
                    \cup IdsOf(goOn)
        /\ fromFile' = fromFile \cup IdsOf(Taken(js))
        /\ UNCHANGED <<login, logins, connected, restored, disk, outside>>

-----------------------------------------------------------------------------
(* Logins, restarts and the world outside.                                   *)

Login ==
    /\ login = 0 /\ logins < Len(Script) /\ AtRest
    /\ login' = logins + 1 /\ logins' = logins + 1
    /\ UNCHANGED <<connected, restored, loads, store, disk, tasks, registry, outside,
                   known, fromFile>>

(* `reset`, and the connection goes.  Jobs that run go on.                   *)
Logout ==
    /\ login # 0 /\ AtRest
    /\ login' = 0 /\ connected' = FALSE /\ restored' = FALSE
    /\ registry' =
         [k \in Keys |-> IF registry[k] = "Failed" THEN "none" ELSE registry[k]]
    /\ UNCHANGED <<logins, loads, store, disk, tasks, outside, known, fromFile>>

(* The process ends, and starts again with nothing but the file.             *)
Crash ==
    /\ events < MaxEvents
    /\ events' = events + 1
    /\ login' = 0 /\ connected' = FALSE /\ restored' = FALSE /\ loads' = {}
    /\ jobs' = {} /\ failed' = {} /\ running' = {} /\ saves' = <<>>
    /\ written' = "none" /\ lostWrite' = FALSE
    /\ tasks' = {} /\ known' = {}
    /\ registry' = [k \in Keys |-> "none"]
    /\ UNCHANGED <<logins, disk, idOf, server, deleted, owner, age, fromFile>>

Delete(i) ==
    /\ owner[i] # "nobody" /\ i \notin deleted
    /\ events < MaxEvents /\ events' = events + 1
    /\ deleted' = deleted \cup {i}
    /\ UNCHANGED <<process, store, disk, tasks, registry, idOf, server, owner, age,
                   known, fromFile>>

(* A job gets past the window in which its uploads can be resumed, and past  *)
(* the week for which it is kept.                                            *)
Older(i) ==
    /\ owner[i] # "nobody" /\ age[i] # "old"
    /\ events < MaxEvents /\ events' = events + 1
    /\ age' = [age EXCEPT ![i] = IF @ = "fresh" THEN "expired" ELSE "old"]
    /\ UNCHANGED <<process, store, disk, tasks, registry, idOf, server, deleted, owner,
                   known, fromFile>>

Next ==
    \/ Login \/ Logout \/ Connect \/ Disconnect \/ Crash
    \/ Saves
    \/ \E l \in loads : LoadApplied(l)
    \/ \E t \in tasks : Steps(t)
    \/ \E i \in Ids : Send(i) \/ Delete(i) \/ Older(i)

Spec == Init /\ [][Next]_vars

-----------------------------------------------------------------------------
(* Properties.                                                               *)

TypeOK ==
    /\ idOf \in [Keys -> Ids]
    /\ login \in 0..Len(Script) /\ logins \in 0..Len(Script)
    /\ connected \in BOOLEAN /\ restored \in BOOLEAN
    /\ loads \subseteq DOMAIN Script
    /\ jobs \subseteq Job /\ failed \subseteq Keys /\ running \subseteq Ids
    /\ saves \in Seq(File) /\ disk \in File /\ written \in {"none", "ok", "lost"}
    /\ lostWrite \in BOOLEAN
    /\ tasks \subseteq Task
    /\ registry \in [Keys -> {"none", "Uploading", "Uploaded", "Failed"}]
    /\ server \in [Ids -> SUBSET Keys] /\ deleted \subseteq Ids
    /\ owner \in [Ids -> Users \cup {"nobody"}]
    /\ age \in [Ids -> {"fresh", "expired", "old"}]
    /\ events \in 0..MaxEvents
    /\ known \subseteq Ids /\ fromFile \subseteq Ids

(* Whatever the order in which the detached saves run, the file holds the    *)
(* jobs and the failed uploads of the store once none is under way, unless   *)
(* the last write failed.                                                    *)
DiskNewest ==
    saves = <<>> /\ written = "ok" => disk = [jobs |-> jobs, failed |-> failed]

(* The jobs marked as running are the ones that have a task, and no job has  *)
(* two: a second one would upload and patch against the first, and one that  *)
(* is marked without a task is never restored or retried again.  Once a task *)
(* has read its message, the store has the job to record its outcomes in.    *)
RunningIsLive ==
    /\ running = IdsOf(tasks)
    /\ \A t1, t2 \in tasks : t1.id = t2.id => t1 = t2
    /\ \A t \in tasks : t.phase # "reread" => t.id \in IdsOf(jobs)

(* A job that this process has started or taken up is in the store or in the *)
(* hands of a task until the message lists its files, it is given up, its    *)
(* message is deleted or its week is over; also while other users are in.    *)
NeverForgotten ==
    \A i \in known : i \in IdsOf(jobs) \cup IdsOf(tasks) \/ age[i] = "old"

(* A file is shown as uploading only while a task has it, or its message is  *)
(* deleted: nothing else would ever end the spinner.                         *)
NoSpinnerLeft ==
    \A k \in Keys : registry[k] = "Uploading" =>
        \/ idOf[k] \in deleted
        \/ \E t \in tasks : /\ t.id = idOf[k]
                            /\ k \in t.todo \/ \E o \in t.outcomes : o.key = k

(* When the task of a job returns that the message is patched, every file of *)
(* the job has been accounted for and the message lists the finished ones:   *)
(* the job is closed on that word, and no one patches the message afterwards.*)
ClosesWhenTold ==
    \A t \in tasks, j \in jobs :
        t.id = j.id /\ t.phase = "done" /\ t.outcomes = {} /\ t.finished = t.synced
        => j.pending = {} /\ j.finished \subseteq server[j.id]

(* The viewer's jobs that are not running are ones the next connection will  *)
(* retry, once the file has been read: none is left with files that nothing  *)
(* uploads.  (A file that a failed write left behind may lack a job.)        *)
NothingStuck ==
    restored /\ loads = {} /\ ~lostWrite =>
        \A j \in jobs : owner[j.id] = Viewer /\ j.id \notin running
                        => j.pending = {} /\ j.finished # {}

(* A patch lists every key that an earlier one listed, also when the job was *)
(* retried: the message never goes back to a file that is not there.  A job  *)
(* that was taken from the file may not know of the last patches.            *)
Cumulative ==
    [][\A i \in Ids \ fromFile : server[i] \subseteq server'[i]]_vars
=============================================================================

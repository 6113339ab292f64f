------------------------------- MODULE JobBackup -------------------------------
(***************************************************************************)
(* The Redis backup of the job queue (queue.go: backupJobToRedis,          *)
(* deleteFromRedis, restoreFromRedis) across crashes and restarts.         *)
(*                                                                         *)
(* Methods of the queue run under q.mu, but each backup is a goroutine of  *)
(* its own that reads the live Job without the lock and then writes to     *)
(* Redis, so backups overtake one another.  The restore is a goroutine     *)
(* too, and puts new Job values into q.jobs: a job may have two copies in  *)
(* memory, one made by NewJob and one by the restore.                      *)
(*                                                                         *)
(* Not only workers end jobs: a chat stream calls Complete or Fail for the *)
(* id it was opened with, whatever that job is doing (ai/handler.go).      *)
(*                                                                         *)
(* The order of the slice, subscribers and results are left out: a result  *)
(* is written to Redis but never read back.                                *)
(***************************************************************************)
EXTENDS Integers, FiniteSets, Bags

CONSTANTS
    Jobs,           \* ids NewJob may hand out
    MaxRetries,     \* Job.MaxRetries
    RetentionMs,    \* the expiration go-redis sends for QueueConfig.ResultRetention
    MaxLives,       \* bound: the server is started at most so often
    MaxTasks,       \* bound: at most so many backup goroutines at a time
    MaxChatFails,   \* bound: chat streams fail a job at most so often in one life
    EarlyChats      \* bound: may chat streams end a job in the life that accepted it?

ASSUME BackupConstants ==
    /\ MaxRetries \in Nat \ {0}
    /\ RetentionMs \in Nat \ {0}
    /\ MaxLives \in Nat \ {0} /\ MaxTasks \in Nat \ {0}
    /\ MaxChatFails \in Nat /\ EarlyChats \in BOOLEAN

VARIABLES
    current,      \* q.jobs: which copy of each job is in the map, or "none"
    job,          \* of each copy: its status and attempts
    waiting,      \* q.pending: how many entries each copy has
    running,      \* how many workers run each job
    tasks,        \* the backup goroutines
    store,        \* Redis: the snapshot under the key of each job, or None
    restore,      \* restoreFromRedis: its phase, the keys left, the snapshot in hand
    faulty,       \* may calls to Redis fail, and keys be evicted?
    lives,        \* how often the server was started
    started,      \* of each job: how often a worker started it in this life
    born,         \* the life in which Enqueue accepted each job, or 0
    deleted,      \* ids that Delete removed, in any life
    failed,       \* how often chat streams failed each job in this life
    touched,      \* the jobs that a chat stream completed or failed in this life
    lapsed        \* the jobs whose key expired and was not written since

memory     == <<current, job, waiting, running>>
era        == <<faulty, lives>>
history    == <<started, born, deleted, failed, touched, lapsed>>
chats      == <<failed, touched>>
backupVars == <<memory, tasks, store, restore, era, history>>

Final    == {"completed", "failed"}
Status   == {"pending", "processing", "cancelled"} \cup Final
Snapshot == [status : Status, attempts : Nat]
None     == [status |-> "none", attempts |-> 0]
Copies   == Jobs \X {"own", "restored"}
DayMs    == 24 * 60 * 60 * 1000

\* A goroutine: about to read the status of a copy, about to read its attempts,
\* about to write the snapshot, about to delete the key.
ReadTask(o)      == [do |-> "read", copy |-> o, snap |-> None]
CountTask(o, s)  == [do |-> "count", copy |-> o, snap |-> s]
WriteTask(o, s)  == [do |-> "write", copy |-> o, snap |-> s]
DeleteTask(j)    == [do |-> "delete", copy |-> <<j, "own">>, snap |-> None]
Task == [do : {"read", "count", "write", "delete"}, copy : Copies, snap : Snapshot \cup {None}]

Go(t)     == BagCardinality(tasks) < MaxTasks /\ tasks' = tasks (+) SetToBag({t})
Done(t)   == tasks (-) SetToBag({t})
Copy(j)   == <<j, current[j]>>
Known(j)  == current[j] # "none"
Entries(j) == {o \in Copies : o[1] = j /\ waiting[o] > 0}

BackupTypeOK ==
    /\ current \in [Jobs -> {"none", "own", "restored"}]
    /\ job \in [Copies -> Snapshot \cup {None}]
    /\ waiting \in [Copies -> Nat]
    /\ running \in [Jobs -> Nat]
    /\ IsABag(tasks) /\ BagToSet(tasks) \subseteq Task
    /\ store \in [Jobs -> Snapshot \cup {None}]
    /\ restore \in [phase : {"list", "get", "put", "done"}, keys : SUBSET Jobs,
                    id : Jobs \cup {"none"}, snap : Snapshot \cup {None}]
    /\ faulty \in BOOLEAN /\ lives \in 1 .. MaxLives
    /\ started \in [Jobs -> Nat]
    /\ born \in [Jobs -> 0 .. MaxLives]
    /\ deleted \subseteq Jobs /\ touched \subseteq Jobs /\ lapsed \subseteq Jobs
    /\ failed \in [Jobs -> Nat]

EmptyMemory ==
    [current |-> [j \in Jobs |-> "none"], job |-> [o \in Copies |-> None],
     waiting |-> [o \in Copies |-> 0], running |-> [j \in Jobs |-> 0]]

ToList == [phase |-> "list", keys |-> {}, id |-> "none", snap |-> None]

BackupInit ==
    /\ current = EmptyMemory.current /\ job = EmptyMemory.job
    /\ waiting = EmptyMemory.waiting /\ running = EmptyMemory.running
    /\ tasks = EmptyBag
    /\ store = [j \in Jobs |-> None]
    /\ restore = ToList
    /\ lives = 1
    /\ started = [j \in Jobs |-> 0]
    /\ faulty \in BOOLEAN
    /\ born = [j \in Jobs |-> 0]
    /\ deleted = {} /\ touched = {} /\ lapsed = {}
    /\ failed = [j \in Jobs |-> 0]

-------------------------------------------------------------------------------
(* Methods of the queue *)

\* Mutant of Enqueue: the new job is not backed up.
EnqueueOnly(j) ==
    /\ born[j] = 0
    /\ current' = [current EXCEPT ![j] = "own"]
    /\ job' = [job EXCEPT ![<<j, "own">>] = [status |-> "pending", attempts |-> 0]]
    /\ waiting' = [waiting EXCEPT ![<<j, "own">>] = @ + 1]
    /\ born' = [born EXCEPT ![j] = lives]
    /\ UNCHANGED <<running, tasks, store, restore, era, started, deleted, chats, lapsed>>

Enqueue(j) ==
    /\ born[j] = 0
    /\ current' = [current EXCEPT ![j] = "own"]
    /\ job' = [job EXCEPT ![<<j, "own">>] = [status |-> "pending", attempts |-> 0]]
    /\ waiting' = [waiting EXCEPT ![<<j, "own">>] = @ + 1]
    /\ born' = [born EXCEPT ![j] = lives]
    /\ Go(ReadTask(<<j, "own">>))
    /\ UNCHANGED <<running, store, restore, era, started, deleted, chats, lapsed>>

\* A worker takes an entry of the slice, whichever copy it is.
Dequeue(o) ==
    /\ waiting[o] > 0
    /\ waiting' = [waiting EXCEPT ![o] = @ - 1]
    /\ job' = [job EXCEPT ![o] = [status |-> "processing", attempts |-> @.attempts + 1]]
    /\ running' = [running EXCEPT ![o[1]] = @ + 1]
    /\ started' = [started EXCEPT ![o[1]] = @ + 1]
    /\ Go(ReadTask(o))
    /\ UNCHANGED <<current, store, restore, era, born, deleted, chats, lapsed>>

\* Complete and Fail look the job up by its id: they meet the copy in the map, and ask
\* neither for its status nor for who calls.
Complete(j) ==
    /\ Known(j)
    /\ job' = [job EXCEPT ![Copy(j)].status = "completed"]
    /\ Go(ReadTask(Copy(j)))
    /\ UNCHANGED <<current, waiting, store, restore, era>>

\* Mutant of Fail: it requeues whatever the attempts.
FailRequeues(j) ==
    /\ Known(j)
    /\ job' = [job EXCEPT ![Copy(j)].status = "pending"]
    /\ waiting' = [waiting EXCEPT ![Copy(j)] = @ + 1]
    /\ Go(ReadTask(Copy(j)))
    /\ UNCHANGED <<current, store, restore, era>>

Fail(j) ==
    LET again == job[Copy(j)].attempts < MaxRetries
    IN  /\ Known(j)
        /\ job' = [job EXCEPT ![Copy(j)].status = IF again THEN "pending" ELSE "failed"]
        /\ waiting' = IF again THEN [waiting EXCEPT ![Copy(j)] = @ + 1] ELSE waiting
        /\ Go(ReadTask(Copy(j)))
        /\ UNCHANGED <<current, store, restore, era>>

\* The job is gone when the worker is done (ErrJobNotFound), or no handler runs jobs of
\* its type (skipJob): it stays as it is.
Leave(j) == UNCHANGED <<current, job, waiting, tasks, store, restore, era>>

\* A worker is done with a job.
RunEnds(j) ==
    /\ running[j] > 0
    /\ running' = [running EXCEPT ![j] = @ - 1]
    /\ Complete(j) \/ Fail(j) \/ Leave(j)
    /\ UNCHANGED history

\* A chat stream that was opened for the job ends it.  Any number of streams may be, and
\* one whose agent errs fails the job twice: for the error event and for the error.
ChatEnds(j) ==
    /\ EarlyChats \/ born[j] < lives
    /\ \/ Complete(j) /\ UNCHANGED failed
       \/ /\ failed[j] < MaxChatFails
          /\ Fail(j)
          /\ failed' = [failed EXCEPT ![j] = @ + 1]
    /\ touched' = touched \cup {j}
    /\ UNCHANGED <<running, started, born, deleted, lapsed>>

\* The removal loops drop the first entry that bears the id.
DropEntry(j) ==
    \/ Entries(j) = {} /\ UNCHANGED waiting
    \/ \E o \in Entries(j) : waiting' = [waiting EXCEPT ![o] = @ - 1]

\* Cancel starts no backup.
Cancel(j) ==
    /\ Known(j)
    /\ job[Copy(j)].status \notin Final
    /\ job' = [job EXCEPT ![Copy(j)].status = "cancelled"]
    /\ DropEntry(j)
    /\ UNCHANGED <<current, running, tasks, store, restore, era, history>>

Delete(j) ==
    /\ Known(j)
    /\ current' = [current EXCEPT ![j] = "none"]
    /\ DropEntry(j)
    /\ Go(DeleteTask(j))
    /\ deleted' = deleted \cup {j}
    /\ UNCHANGED <<job, running, store, restore, era, started, born, chats, lapsed>>

-------------------------------------------------------------------------------
(* Backup goroutines *)

\* json.Marshal reads the fields of the live job one after the other, without q.mu:
\* the attempts may be newer than the status.
Marshal(t) ==
    /\ t.do \in {"read", "count"}
    /\ tasks' = LET now == job[t.copy]
                IN  Done(t) (+) SetToBag({IF t.do = "read" THEN CountTask(t.copy, now)
                                          ELSE WriteTask(t.copy, [now EXCEPT !.status = t.snap.status])})
    /\ UNCHANGED <<memory, store, restore, era, history>>

Write(t) ==
    /\ t.do = "write"
    /\ store' = [store EXCEPT ![t.copy[1]] = t.snap]
    /\ lapsed' = lapsed \ {t.copy[1]}
    /\ tasks' = Done(t)
    /\ UNCHANGED <<memory, restore, era, started, born, deleted, chats>>

Erase(t) ==
    /\ t.do = "delete"
    /\ store' = [store EXCEPT ![t.copy[1]] = None]
    /\ tasks' = Done(t)
    /\ UNCHANGED <<memory, restore, era, history>>

\* A failed call is logged and forgotten.
CallFails(t) ==
    /\ faulty /\ t.do \in {"write", "delete"}
    /\ tasks' = Done(t)
    /\ UNCHANGED <<memory, store, restore, era, history>>

\* A key lives for RetentionMs after it was written; a day is longer than the behaviours
\* here last, anything less may pass between two steps.
Expire(j) ==
    /\ faulty \/ RetentionMs < DayMs
    /\ store[j] # None
    /\ store' = [store EXCEPT ![j] = None]
    /\ lapsed' = lapsed \cup {j}
    /\ UNCHANGED <<memory, tasks, restore, era, started, born, deleted, chats>>

-------------------------------------------------------------------------------
(* Restart *)

\* The process ends and is started again: NewQueue begins with empty maps.
Crash ==
    /\ lives < MaxLives
    /\ lives' = lives + 1
    /\ current' = EmptyMemory.current /\ job' = EmptyMemory.job
    /\ waiting' = EmptyMemory.waiting /\ running' = EmptyMemory.running
    /\ tasks' = EmptyBag
    /\ restore' = ToList
    /\ started' = [j \in Jobs |-> 0]
    /\ failed' = [j \in Jobs |-> 0] /\ touched' = {}
    /\ UNCHANGED <<store, faulty, born, deleted, lapsed>>

\* Mutant of ListKeys: one page of the keys is taken for all of them.
ListPage ==
    /\ restore.phase = "list"
    /\ \E ks \in SUBSET {j \in Jobs : store[j] # None} :
          /\ Cardinality(ks) <= 1
          /\ restore' = [restore EXCEPT !.phase = "get", !.keys = ks]
    /\ UNCHANGED <<memory, tasks, store, era, history>>

ListKeys ==
    /\ restore.phase = "list"
    /\ restore' = [restore EXCEPT !.phase = "get", !.keys = {j \in Jobs : store[j] # None}]
    /\ UNCHANGED <<memory, tasks, store, era, history>>

ListFails ==
    /\ faulty /\ restore.phase = "list"
    /\ restore' = [restore EXCEPT !.phase = "done"]
    /\ UNCHANGED <<memory, tasks, store, era, history>>

\* Gets the next key; one that is gone, or cannot be read, is passed over.
Get(j) ==
    /\ restore.phase = "get" /\ j \in restore.keys
    /\ \/ /\ store[j] # None
          /\ restore' = [phase |-> "put", keys |-> restore.keys \ {j}, id |-> j, snap |-> store[j]]
       \/ /\ store[j] = None \/ faulty
          /\ restore' = [restore EXCEPT !.keys = @ \ {j}]
    /\ UNCHANGED <<memory, tasks, store, era, history>>

\* Mutant of Put: whatever was restored is queued.
PutAll ==
    LET j == restore.id  o == <<j, "restored">>
    IN  /\ restore.phase = "put"
        /\ current' = [current EXCEPT ![j] = "restored"]
        /\ job' = [job EXCEPT ![o] = restore.snap]
        /\ waiting' = [waiting EXCEPT ![o] = @ + 1]
        /\ restore' = [restore EXCEPT !.phase = "get", !.id = "none", !.snap = None]
        /\ UNCHANGED <<running, tasks, store, era, history>>

\* The snapshot replaces what q.jobs holds; only a pending job is queued.
Put ==
    LET j == restore.id  o == <<j, "restored">>
    IN  /\ restore.phase = "put"
        /\ current' = [current EXCEPT ![j] = "restored"]
        /\ job' = [job EXCEPT ![o] = restore.snap]
        /\ waiting' = IF restore.snap.status = "pending" THEN [waiting EXCEPT ![o] = @ + 1]
                      ELSE waiting
        /\ restore' = [restore EXCEPT !.phase = "get", !.id = "none", !.snap = None]
        /\ UNCHANGED <<running, tasks, store, era, history>>

Restored ==
    /\ restore.phase = "get" /\ restore.keys = {}
    /\ restore' = [restore EXCEPT !.phase = "done"]
    /\ UNCHANGED <<memory, tasks, store, era, history>>

TaskStep(t)   == Marshal(t) \/ Write(t) \/ Erase(t) \/ CallFails(t)
Worker        == \/ \E o \in Copies : Dequeue(o)
                 \/ \E j \in Jobs : RunEnds(j)
Client        == \E j \in Jobs : Enqueue(j) \/ Cancel(j) \/ Delete(j) \/ ChatEnds(j)
Restoring     == ListKeys \/ ListFails \/ (\E j \in Jobs : Get(j)) \/ Put \/ Restored

BackupNext ==
    \/ Client \/ Worker \/ Restoring
    \/ \E t \in BagToSet(tasks) : TaskStep(t)
    \/ \E j \in Jobs : Expire(j)
    \/ Crash

BackupSpec == BackupInit /\ [][BackupNext]_backupVars

-------------------------------------------------------------------------------
(* Properties *)

\* A job from an earlier life of the server.  One that is accepted while the restore
\* still runs is not: the restore may give it a twin, and undo what became of it.
Old(j) == born[j] \in 1 .. lives - 1

Places(j) == waiting[<<j, "own">>] + waiting[<<j, "restored">>]

\* A restart gives no old job two workers or two places in the slice, although requests
\* and workers do not wait for the restore: only a chat stream that fails the job adds a
\* place.  What the restore queues is pending, and stays so until a chat stream ends it.
RestoredOnce ==
    \A j \in Jobs : Old(j) =>
        /\ Places(j) + running[j] <= 1 + failed[j]
        /\ j \notin touched => \A o \in Entries(j) : job[o].status = "pending"

\* The variables keep their types, and the restore makes no twin of an old job.
RestoredSound == BackupTypeOK /\ RestoredOnce

\* The attempts of a snapshot may be older than the crash, and newer than the status
\* next to them; still, a restart grants a job no more than MaxRetries further runs, and
\* one for each time a chat stream fails it, whether or not a worker was at it.
RetryBudget == \A j \in Jobs : Old(j) => started[j] <= MaxRetries + failed[j]

\* What Complete or Fail ended after a restart stays ended, until the process ends or
\* Delete removes it: the restore undoes nothing that happened to an old job.  Only a
\* chat stream may change it, or have changed it before.
EndedStaysEnded ==
    [][\A j \in Jobs :
          Old(j) /\ Known(j) /\ job[Copy(j)].status \in Final /\ lives' = lives
             /\ current'[j] # "none" /\ j \notin touched'
             => (job[Copy(j)].status)' = job[Copy(j)].status]_backupVars

\* A job is in Redis as soon as no backup goroutine of it is in flight, unless Delete
\* took it out or its key expired since it was last written: the goroutines of Enqueue
\* and Dequeue see to it, and no restart or backup that comes late undoes it.
BackedUp ==
    \A j \in Jobs : ~faulty /\ Known(j) /\ (\A t \in BagToSet(tasks) : t.copy[1] # j)
                        => store[j] # None \/ j \in deleted \cup lapsed

\* An old job whose snapshot is in Redis is in q.jobs when the restore is done: no key
\* is passed over (restoreFromRedis).
RestartRestores ==
    \A j \in Jobs : ~faulty /\ Old(j) /\ restore.phase = "done" /\ store[j] # None
                        => Known(j) \/ j \in deleted

-------------------------------------------------------------------------------
(* The inductive invariant *)

Again(j) == <<j, "restored">>

\* The restore has not decided about the key of the job yet.
Undecided(j) ==
    \/ restore.phase = "list"
    \/ restore.phase \in {"get", "put"} /\ j \in restore.keys
    \/ restore.phase = "put" /\ restore.id = j

\* What is read, written and put is a snapshot of a job, and each key is put once.
SnapshotsTrue ==
    /\ \A t \in BagToSet(tasks) :
          /\ t.do # "delete" => job[t.copy] \in Snapshot
          /\ t.do \in {"count", "write"} => t.snap \in Snapshot
    /\ restore.phase = "put" =>
          restore.id \in Jobs \ restore.keys /\ restore.snap \in Snapshot

\* All that happens to an old job happens to the copy the restore made; until then
\* nothing happens to the job.  The copy has one worker or one place in the slice, and
\* neither once it ended, but for what chat streams did to it.  Its attempts count the
\* runs of this life.
OldSound(j) ==
    /\ current[j] # "own" /\ waiting[<<j, "own">>] = 0
    /\ Undecided(j) => /\ current[j] = "none" /\ waiting[Again(j)] = 0
                       /\ running[j] = 0 /\ started[j] = 0
                       /\ failed[j] = 0 /\ j \notin touched
    /\ waiting[Again(j)] + running[j] <= 1 + failed[j]
    /\ started[j] + waiting[Again(j)] <= MaxRetries + failed[j]
    /\ started[j] <= job[Again(j)].attempts
    /\ j \notin touched =>
          /\ failed[j] = 0
          /\ waiting[Again(j)] > 0 => job[Again(j)].status = "pending"
          /\ job[Again(j)].status \in Final => waiting[Again(j)] = 0 /\ running[j] = 0

BackupInv ==
    BackupTypeOK /\ SnapshotsTrue /\ (\A j \in Jobs : Old(j) => OldSound(j))

\* Who deletes a key deletes the job; the key of any other job that is in q.jobs, or
\* that the restore has in hand, is there or about to be written, or it expired.
KeyKept(j) ==
    /\ Known(j) => \/ store[j] # None \/ j \in deleted \cup lapsed
                   \/ \E t \in BagToSet(tasks) : t.do # "delete" /\ t.copy[1] = j
    /\ restore.phase = "put" /\ restore.id = j => store[j] # None \/ j \in deleted \cup lapsed

Deletions == \A t \in BagToSet(tasks) : t.do = "delete" => t.copy[1] \in deleted

KeptInv == ~faulty => Deletions /\ \A j \in Jobs : KeyKept(j)

\* Whoever could write the key of a job, now or later, has a job that q.jobs holds; and
\* an old job with a key is there, or the restore has yet to decide about it.
Remembered(j) == Known(j) \/ j \in deleted

FoundInv ==
    ~faulty =>
        /\ \A t \in BagToSet(tasks) : Remembered(t.copy[1])
        /\ \A o \in Copies : waiting[o] > 0 => Remembered(o[1])
        /\ \A j \in Jobs : Old(j) /\ store[j] # None => Remembered(j) \/ Undecided(j)

-------------------------------------------------------------------------------
(* Claims of the comments, which the code does not keep *)

\* queue.go:355: "Delete removes a job and its result from memory and Redis".  It does
\* not come back.
DeleteForgets == \A j \in deleted : ~Known(j)

\* services.go:163: "24 hours in minutes".  Within that time only Delete takes a
\* snapshot out of a sound Redis.
KeptADay ==
    [][\A j \in Jobs : ~faulty /\ store[j] # None /\ store'[j] = None => j \in deleted]_backupVars
===============================================================================

------------------------------- MODULE JobQueue -------------------------------
(***************************************************************************)
(* The in-memory job queue of internal/services/jobs/queue/queue.go: the   *)
(* jobs map, the priority queue of pending jobs, the results map and the   *)
(* progress channels of the subscribers.  Every exported method of Queue   *)
(* runs under q.mu, so each is one action.  This module gives the methods; *)
(* WorkerPool.tla and JobStreams.tla call them from the worker goroutines  *)
(* and from the HTTP handlers.  The Redis backup is left to JobBackup.tla: *)
(* here the queue runs with UseRedisBackup = false, as services.go builds  *)
(* it when no Redis is configured.                                         *)
(*                                                                         *)
(* Job percentages, messages and timestamps other than CreatedAt are not   *)
(* modelled.                                                               *)
(***************************************************************************)
EXTENDS Naturals, Sequences, FiniteSets, Functions

CONSTANTS
    Jobs,         \* ids NewJob may hand out, assumed distinct
    Priority,     \* [Jobs -> Nat], Job.Priority: higher is more urgent
    CreatedAt,    \* [Jobs -> Nat], Job.CreatedAt, set by NewJob before Enqueue
    Capacity,     \* QueueConfig.Capacity
    MaxRetries,   \* Job.MaxRetries, 3 in NewJob
    Channels,     \* progress channels Subscribe may allocate
    ChanCap,      \* buffer of a progress channel, 100 in Subscribe
    NoJob         \* stands for "no job" where an id is expected

ASSUME QueueConstants ==
    /\ Priority \in [Jobs -> Nat]
    /\ CreatedAt \in [Jobs -> Nat]
    /\ Capacity \in Nat \ {0}
    /\ MaxRetries \in Nat
    /\ ChanCap \in Nat \ {0}
    /\ NoJob \notin Jobs

VARIABLES
    issued,       \* ids of the jobs ever accepted by Enqueue
    status,       \* q.jobs: the status of each job, "absent" when not in the map
    attempts,     \* q.jobs: Job.Attempts
    pending,      \* q.pending: the slice of waiting jobs
    results,      \* q.results: the status of the stored result, or "none"
    subscribers,  \* q.subscribers: the registered channels of each job
    chan,         \* every channel: is it closed, and what its buffer holds
    closed        \* q.closed

jobVars   == <<issued, status, attempts, pending, results>>
chanVars  == <<subscribers, chan>>
queueVars == <<jobVars, chanVars, closed>>

Final    == {"completed", "failed"}
Status   == {"absent", "pending", "processing", "cancelled"} \cup Final

\* Stage of a progress event: "processing" stands for every intermediate stage.
Stage    == {"processing", "completed", "failed", "cancelled"}

\* A progress event; data says whether it carries the payload of the result.
Event    == [stage : Stage, data : BOOLEAN]

Progress(stage) == [stage |-> stage, data |-> FALSE]

QueueTypeOK ==
    /\ issued \in SUBSET Jobs
    /\ status \in [Jobs -> Status]
    /\ attempts \in [Jobs -> Nat]
    /\ pending \in Seq(Jobs)
    /\ results \in [Jobs -> {"none"} \cup Final]
    /\ subscribers \in [Jobs -> SUBSET Channels]
    /\ chan \in [Channels -> [closed : BOOLEAN, buf : Seq(Event)]]
    /\ closed \in BOOLEAN

-------------------------------------------------------------------------------
(* The pending slice *)

\* The less function of sortPending.
Before(a, b) ==
    \/ Priority[a] > Priority[b]
    \/ Priority[a] = Priority[b] /\ CreatedAt[a] < CreatedAt[b]

\* The jobs of a slice, and the two things the queue keeps true of its own: no job
\* is listed twice, and none is listed after a job it comes before.
Elems(s)    == {s[i] : i \in DOMAIN s}
Distinct(s) == \A i, k \in DOMAIN s : s[i] = s[k] => i = k
Sorted(s)   == \A i, k \in DOMAIN s : i < k => ~Before(s[k], s[i])

\* The orders sort.Slice may leave s in: it is not a stable sort, so jobs that
\* tie may end up in either order.
SortPending(s) ==
    {t \in {[i \in DOMAIN s |-> s[p[i]]] : p \in Bijection(DOMAIN s, DOMAIN s)} : Sorted(t)}

\* Mutant of Requeue: the sort is forgotten.
RequeueUnsorted(j) == pending' = Append(pending, j)

\* append followed by sortPending
Requeue(j) == pending' \in SortPending(Append(pending, j))

\* The removal loop of Cancel and Delete: the first entry of j, if there is one.
Without(s, j) ==
    LET at == {i \in DOMAIN s : s[i] = j}
    IN  IF at = {} THEN s
        ELSE LET first == CHOOSE i \in at : \A k \in at : i <= k
             IN  [i \in 1 .. Len(s) - 1 |-> IF i < first THEN s[i] ELSE s[i + 1]]

-------------------------------------------------------------------------------
(* Channels *)

\* A non-blocking send: an event that finds the buffer full is dropped.
Send(c, e) == IF Len(c.buf) < ChanCap THEN [c EXCEPT !.buf = Append(@, e)] ELSE c

\* notifySubscribers
Notify(j, e) ==
    /\ chan' = [c \in Channels |->
                  IF c \in subscribers[j] THEN Send(chan[c], e) ELSE chan[c]]
    /\ UNCHANGED subscribers

\* closeSubscribers for the jobs of J
CloseSubscribers(J) ==
    /\ chan' = [c \in Channels |->
                  IF \E j \in J : c \in subscribers[j]
                  THEN [chan[c] EXCEPT !.closed = TRUE] ELSE chan[c]]
    /\ subscribers' = [j \in Jobs |-> IF j \in J THEN {} ELSE subscribers[j]]

\* Mutant of NotifyAndClose: the closed channels stay registered.
NotifyAndCloseKeeps(j, e) ==
    /\ chan' = [c \in Channels |->
                  IF c \in subscribers[j]
                  THEN [Send(chan[c], e) EXCEPT !.closed = TRUE] ELSE chan[c]]
    /\ UNCHANGED subscribers

\* notifySubscribers followed by closeSubscribers
NotifyAndClose(j, e) ==
    /\ chan' = [c \in Channels |->
                  IF c \in subscribers[j]
                  THEN [Send(chan[c], e) EXCEPT !.closed = TRUE] ELSE chan[c]]
    /\ subscribers' = [subscribers EXCEPT ![j] = {}]

-------------------------------------------------------------------------------
(* Methods of Queue *)

QueueInit ==
    /\ issued = {}
    /\ status = [j \in Jobs |-> "absent"]
    /\ attempts = [j \in Jobs |-> 0]
    /\ pending = <<>>
    /\ results = [j \in Jobs |-> "none"]
    /\ subscribers = [j \in Jobs |-> {}]
    /\ chan = [c \in Channels |-> [closed |-> FALSE, buf |-> <<>>]]
    /\ closed = FALSE

\* A new job enters the queue, unless it is closed or full.
Enqueue(j) ==
    /\ j \notin issued
    /\ ~closed
    /\ Len(pending) < Capacity
    /\ issued' = issued \cup {j}
    /\ status' = [status EXCEPT ![j] = "pending"]
    /\ Requeue(j)
    /\ UNCHANGED <<attempts, results, chanVars, closed>>

\* The head of the slice goes to a worker.  A job that is no longer in q.jobs may
\* still be in the slice; what happens to it then is seen by nobody.
Dequeue(j) ==
    LET known == status[j] # "absent"
    IN  /\ ~closed
        /\ pending # <<>>
        /\ j = Head(pending)
        /\ pending' = Tail(pending)
        /\ status' = IF known THEN [status EXCEPT ![j] = "processing"] ELSE status
        /\ attempts' = IF known THEN [attempts EXCEPT ![j] = @ + 1] ELSE attempts
        /\ UNCHANGED <<issued, results, chanVars, closed>>

\* A job that is gone: Complete and Fail return ErrJobNotFound and change nothing.
NotFound(j) == status[j] = "absent" /\ UNCHANGED queueVars

\* Mutant of Complete: no lookup in q.jobs.
CompleteUnknown(j) ==
    /\ status' = [status EXCEPT ![j] = "completed"]
    /\ results' = [results EXCEPT ![j] = "completed"]
    /\ NotifyAndClose(j, [stage |-> "completed", data |-> TRUE])
    /\ UNCHANGED <<issued, attempts, pending, closed>>

\* Complete looks at no status: a cancelled job becomes completed.
Complete(j) ==
    /\ status[j] # "absent"
    /\ status' = [status EXCEPT ![j] = "completed"]
    /\ results' = [results EXCEPT ![j] = "completed"]
    /\ NotifyAndClose(j, [stage |-> "completed", data |-> TRUE])
    /\ UNCHANGED <<issued, attempts, pending, closed>>

\* Mutants of Retry: one attempt too many, and a job that is not requeued.
RetryOffByOne(j) ==
    /\ status[j] # "absent"
    /\ attempts[j] <= MaxRetries
    /\ status' = [status EXCEPT ![j] = "pending"]
    /\ Requeue(j)
    /\ UNCHANGED <<issued, attempts, results, chanVars, closed>>

RetryForgotten(j) ==
    /\ status[j] # "absent"
    /\ attempts[j] < MaxRetries
    /\ status' = [status EXCEPT ![j] = "pending"]
    /\ UNCHANGED <<issued, attempts, pending, results, chanVars, closed>>

\* Fail with attempts left: the job waits again, whatever the capacity.
Retry(j) ==
    /\ status[j] # "absent"
    /\ attempts[j] < MaxRetries
    /\ status' = [status EXCEPT ![j] = "pending"]
    /\ Requeue(j)
    /\ UNCHANGED <<issued, attempts, results, chanVars, closed>>

\* Mutant of FailForGood: the subscribers are told, but not closed.
FailLeavesChannels(j) ==
    /\ status[j] # "absent"
    /\ attempts[j] >= MaxRetries
    /\ status' = [status EXCEPT ![j] = "failed"]
    /\ results' = [results EXCEPT ![j] = "failed"]
    /\ Notify(j, Progress("failed"))
    /\ UNCHANGED <<issued, attempts, pending, closed>>

\* Fail with no attempt left.
FailForGood(j) ==
    /\ status[j] # "absent"
    /\ attempts[j] >= MaxRetries
    /\ status' = [status EXCEPT ![j] = "failed"]
    /\ results' = [results EXCEPT ![j] = "failed"]
    /\ NotifyAndClose(j, Progress("failed"))
    /\ UNCHANGED <<issued, attempts, pending, closed>>

Fail(j) == Retry(j) \/ FailForGood(j)

\* Mutants of Cancel: the job stays in the slice; a finished job is cancelled.
CancelKeepsSlot(j) ==
    /\ status[j] \notin {"absent"} \cup Final
    /\ status' = [status EXCEPT ![j] = "cancelled"]
    /\ NotifyAndClose(j, Progress("cancelled"))
    /\ UNCHANGED <<issued, attempts, pending, results, closed>>

CancelFinished(j) ==
    /\ status[j] # "absent"
    /\ status' = [status EXCEPT ![j] = "cancelled"]
    /\ pending' = Without(pending, j)
    /\ NotifyAndClose(j, Progress("cancelled"))
    /\ UNCHANGED <<issued, attempts, results, closed>>

\* Cancel refuses a completed or failed job and removes the job from pending.
Cancel(j) ==
    /\ status[j] \notin {"absent"} \cup Final
    /\ status' = [status EXCEPT ![j] = "cancelled"]
    /\ pending' = Without(pending, j)
    /\ NotifyAndClose(j, Progress("cancelled"))
    /\ UNCHANGED <<issued, attempts, results, closed>>

\* Delete forgets the job and its result; subscribers get no event.
Delete(j) ==
    /\ status[j] # "absent"
    /\ status' = [status EXCEPT ![j] = "absent"]
    /\ attempts' = [attempts EXCEPT ![j] = 0]
    /\ results' = [results EXCEPT ![j] = "none"]
    /\ pending' = Without(pending, j)
    /\ CloseSubscribers({j})
    /\ UNCHANGED <<issued, closed>>

\* CleanupOldResults: the jobs of J are those whose result is past its retention.
CleanupOldResults(J) ==
    /\ J # {}
    /\ \A j \in J : results[j] # "none"
    /\ status' = [j \in Jobs |-> IF j \in J THEN "absent" ELSE status[j]]
    /\ attempts' = [j \in Jobs |-> IF j \in J THEN 0 ELSE attempts[j]]
    /\ results' = [j \in Jobs |-> IF j \in J THEN "none" ELSE results[j]]
    /\ UNCHANGED <<issued, pending, chanVars, closed>>

Fresh(c) == ~chan[c].closed /\ \A j \in Jobs : c \notin subscribers[j]

\* Subscribe asks neither whether the job exists nor whether it is finished.
Subscribe(j, c) ==
    /\ Fresh(c)
    /\ subscribers' = [subscribers EXCEPT ![j] = @ \cup {c}]
    /\ UNCHANGED <<jobVars, chan, closed>>

ReportProgress(j, stage) ==
    /\ Notify(j, Progress(stage))
    /\ UNCHANGED <<jobVars, closed>>

\* Close closes every subscriber channel and rejects later Enqueue and Dequeue.
Close ==
    /\ closed' = TRUE
    /\ CloseSubscribers(Jobs)
    /\ UNCHANGED jobVars
===============================================================================

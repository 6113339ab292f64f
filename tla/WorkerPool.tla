------------------------------ MODULE WorkerPool ------------------------------
(***************************************************************************)
(* The worker pool of internal/services/jobs/queue/pool.go over the queue  *)
(* of JobQueue.tla, the HTTP handlers that enqueue, cancel, delete and     *)
(* subscribe, and the shutdown of internal/api/services.go (Close).        *)
(*                                                                         *)
(* A worker is a goroutine looping over processNextJob.  Between Dequeue   *)
(* and the final Complete or Fail it holds no lock, so everything the HTTP *)
(* handlers do interleaves with it.  The forwardProgress goroutine of a    *)
(* run outlives the run; the goroutines of successive runs of one job are  *)
(* merged into one FIFO per job.                                           *)
(***************************************************************************)
EXTENDS JobQueue

CONSTANTS
    Workers,      \* worker goroutines of the pool, 4 in services.go
    ChatJobs,     \* jobs of type evaluation_chat: no handler is registered
    PlanJobs,     \* jobs of type investment_planning
    FwdCap,       \* buffer of a run's progressChan, 100 in processNextJob; 0: all is dropped
    SchedulerOn   \* is a Scheduler started?  services.go starts none

ASSUME PoolConstants ==
    /\ IsFiniteSet(Workers) /\ Workers # {}
    /\ ChatJobs \subseteq Jobs
    /\ PlanJobs \subseteq Jobs \ ChatJobs
    /\ MaxRetries > 0
    /\ FwdCap \in Nat
    /\ SchedulerOn \in BOOLEAN

VARIABLES
    worker,       \* where each worker is in processNextJob, and with which job
    fwd,          \* stages reported by the runs of a job and not yet forwarded
    pool          \* WorkerPool: "running", "stopping" (Stop waits) or "stopped"

poolVars == <<worker, fwd, pool>>
vars     == <<queueVars, poolVars>>

HandledJobs == Jobs \ ChatJobs

Idle == [pc |-> "idle", job |-> NoJob]
Gone == [pc |-> "stopped", job |-> NoJob]

\* "running": in the handler; "finishing": it has reported its last stage.
Busy(w)  == worker[w].pc \in {"running", "finishing"}
BusySet  == {w \in Workers : Busy(w)}
Held     == {worker[w].job : w \in BusySet}

TypeOK ==
    /\ QueueTypeOK
    /\ worker \in [Workers -> {Idle, Gone} \cup [pc : {"running", "finishing"}, job : Jobs]]
    /\ fwd \in [Jobs -> Seq(Stage)]
    /\ pool \in {"running", "stopping", "stopped"}

Init ==
    /\ QueueInit
    /\ worker = [w \in Workers |-> Idle]
    /\ fwd = [j \in Jobs |-> <<>>]
    /\ pool = "running"

-------------------------------------------------------------------------------
(* Workers *)

\* The ticker fired.  The select of worker() picks at random when the pool is
\* stopping, so a stopping worker may still take a job.
Take(w) ==
    /\ worker[w].pc = "idle"
    /\ \E j \in Jobs :
        /\ Dequeue(j)
        /\ worker' = [worker EXCEPT ![w] = [pc |-> "running", job |-> j]]
    /\ UNCHANGED <<fwd, pool>>

\* No handler for the type: skipJob leaves the job "processing", for the HTTP
\* endpoint to finish.
Skip(w) ==
    /\ worker[w].pc = "running"
    /\ worker[w].job \in ChatJobs
    /\ worker' = [worker EXCEPT ![w] = Idle]
    /\ UNCHANGED <<queueVars, fwd, pool>>

Running(w) == worker[w].pc = "running" /\ worker[w].job \in HandledJobs

\* reportProgress of the handlers: dropped when progressChan is full.
Emit(w, stage) ==
    LET j == worker[w].job
    IN  fwd' = IF Len(fwd[j]) < FwdCap THEN [fwd EXCEPT ![j] = Append(@, stage)] ELSE fwd

Step(w) ==
    /\ Running(w)
    /\ Emit(w, "processing")
    /\ UNCHANGED <<queueVars, worker, pool>>

\* A plan that has succeeded reports the stage "completed" before it returns.
ReportPlan(w) ==
    /\ Running(w)
    /\ worker[w].job \in PlanJobs
    /\ Emit(w, "completed")
    /\ worker' = [worker EXCEPT ![w].pc = "finishing"]
    /\ UNCHANGED <<queueVars, pool>>

\* The handler returned a result.
Succeed(w) ==
    /\ \/ Running(w) /\ worker[w].job \notin PlanJobs
       \/ worker[w].pc = "finishing"
    /\ Complete(worker[w].job) \/ NotFound(worker[w].job)
    /\ worker' = [worker EXCEPT ![w] = Idle]
    /\ UNCHANGED <<fwd, pool>>

\* The handler returned an error, timed out or saw its context cancelled.
Err(w) ==
    /\ Running(w)
    /\ Fail(worker[w].job) \/ NotFound(worker[w].job)
    /\ worker' = [worker EXCEPT ![w] = Idle]
    /\ UNCHANGED <<fwd, pool>>

\* One iteration of forwardProgress.
Forward(j) ==
    /\ fwd[j] # <<>>
    /\ ReportProgress(j, Head(fwd[j]))
    /\ fwd' = [fwd EXCEPT ![j] = Tail(@)]
    /\ UNCHANGED <<worker, pool>>

\* Mutant of Leave: a worker leaves only once the queue is closed.
LeaveWhenClosed(w) ==
    /\ closed
    /\ worker[w].pc = "idle"
    /\ worker' = [worker EXCEPT ![w] = Gone]
    /\ UNCHANGED <<queueVars, fwd, pool>>

\* The other branch of the select: ctx.Done().
Leave(w) ==
    /\ pool = "stopping"
    /\ worker[w].pc = "idle"
    /\ worker' = [worker EXCEPT ![w] = Gone]
    /\ UNCHANGED <<queueVars, fwd, pool>>

-------------------------------------------------------------------------------
(* Shutdown: Services.Close calls Stop, which cancels the context of the pool
   and waits for every worker, and then closes the queue. *)

Stop ==
    /\ pool = "running"
    /\ pool' = "stopping"
    /\ UNCHANGED <<queueVars, worker, fwd>>

WaitDone ==
    /\ pool = "stopping"
    /\ \A w \in Workers : worker[w].pc = "stopped"
    /\ pool' = "stopped"
    /\ UNCHANGED <<queueVars, worker, fwd>>

\* Mutant of CloseQueue: the queue is closed without waiting for the pool.
CloseAtOnce ==
    /\ pool # "running"
    /\ ~closed
    /\ Close
    /\ UNCHANGED poolVars

CloseQueue ==
    /\ pool = "stopped"
    /\ ~closed
    /\ Close
    /\ UNCHANGED poolVars

-------------------------------------------------------------------------------
(* HTTP handlers and the scheduler *)

Client ==
    /\ \E j \in Jobs : Enqueue(j) \/ Cancel(j) \/ Delete(j)
    /\ UNCHANGED poolVars

\* A stream handler subscribes; what it does next is in JobStreams.tla.
Listen ==
    /\ \E j \in Jobs, c \in Channels : Subscribe(j, c)
    /\ UNCHANGED poolVars

Cleanup ==
    /\ SchedulerOn
    /\ \E J \in SUBSET Jobs : CleanupOldResults(J)
    /\ UNCHANGED poolVars

PoolStep ==
    \/ \E w \in Workers :
        Take(w) \/ Skip(w) \/ Step(w) \/ ReportPlan(w) \/ Succeed(w) \/ Err(w) \/ Leave(w)
    \/ \E j \in Jobs : Forward(j)
    \/ Stop \/ WaitDone \/ CloseQueue
    \/ Cleanup

Next == PoolStep \/ Client \/ Listen

Spec == Init /\ [][Next]_vars

\* A worker polls every 100 ms, and a handler returns: its context expires after
\* jobTimeout.  Nothing is assumed of clients, nor that anyone calls Stop.
Fairness ==
    /\ \A w \in Workers : /\ WF_vars(Take(w))
                          /\ WF_vars(Skip(w) \/ Succeed(w) \/ Err(w))
                          /\ WF_vars(Leave(w))
    /\ WF_vars(WaitDone)
    /\ WF_vars(CloseQueue)

FairSpec == Spec /\ Fairness

-------------------------------------------------------------------------------
(* Properties *)

\* No job is run twice at a time.  The pending slice lists each waiting job
\* once, exactly the jobs whose status is pending, and a job in a worker's hands
\* is not among them: Dequeue, the requeue of Fail and the removals of Cancel and
\* Delete (queue.go) keep slice and statuses in step although a worker holds no
\* lock while its handler runs.
NoDoubleProcessing ==
    /\ Distinct(pending)
    /\ \A j \in Jobs : status[j] = "pending" <=> j \in Elems(pending)
    /\ \A v, w \in BusySet : worker[v].job = worker[w].job => v = w
    /\ \A j \in Held : status[j] # "pending"

\* A handler is never started more than MaxRetries times for one job, even when
\* cancellations and failures alternate (Dequeue counts, Fail compares).
AttemptsBounded ==
    \A j \in Jobs : /\ attempts[j] <= MaxRetries
                    /\ status[j] = "pending" => attempts[j] < MaxRetries

\* Fail requeues without looking at the capacity, so the slice may outgrow it,
\* but never by more than the number of workers: what waits and what runs
\* together stay below Capacity plus one job per worker.
BacklogBounded == Len(pending) + Cardinality(BusySet) <= Capacity + Cardinality(Workers)

\* A result is stored exactly for the jobs that are over, and says the same as
\* the status that polling clients read (Complete, Fail, Delete in queue.go).
ResultMatchesStatus ==
    \A j \in Jobs : results[j] = IF status[j] \in Final THEN status[j] ELSE "none"

\* Stop waits for the workers before the queue is closed (Services.Close), so a
\* closed queue has no handler behind its back and leaves no job with a handler
\* in the status "processing".
ShutdownQuiesced ==
    closed => /\ BusySet = {}
              /\ \A j \in HandledJobs : status[j] # "processing"

\* Every registered channel is open and belongs to one job: notifySubscribers never
\* sends on a closed channel and closeSubscribers never closes one twice, which
\* would panic, although a job may end, be cancelled and end again.
RegisteredOpen ==
    \A j \in Jobs : \A c \in subscribers[j] :
        /\ ~chan[c].closed
        /\ \A k \in Jobs : c \in subscribers[k] => k = j

\* A completed or failed job keeps its status until it is deleted: no late
\* progress, error, cancellation or second worker brings it back.
FinalStays ==
    [][\A j \in Jobs : status[j] \in Final => status'[j] \in {status[j], "absent"}]_vars

\* A deleted job does not come back when the handler it left behind returns.
GoneStaysGone ==
    [][\A j \in issued : status[j] = "absent" => status'[j] = "absent"]_vars

\* What Cancel does guarantee: a job cancelled while no worker runs it is never
\* run again.
IdleCancelSticks ==
    [][\A j \in Jobs : status[j] = "cancelled" /\ j \notin Held
                        => status'[j] \in {"cancelled", "absent"}]_vars

\* A worker takes a most urgent waiting job, and of these an oldest one, however
\* retries and new jobs arrived (sortPending).
MostUrgentFirst ==
    [][\A j \in Jobs : status[j] = "pending" /\ status'[j] = "processing"
                        => \A k \in Jobs : status[k] = "pending" => ~Before(k, j)]_vars

\* Every accepted job with a handler is brought to an end, whatever is retried,
\* cancelled or enqueued meanwhile, unless the server shuts down.
JobsEnd ==
    \A j \in HandledJobs :
        status[j] = "pending" ~> (status[j] \notin {"pending", "processing"} \/ pool # "running")

\* A shutdown that has begun ends with the queue closed: Stop does not wait for
\* ever, although stopping workers may still take jobs.
ShutdownEnds == pool = "stopping" ~> closed

\* The pool over the queue implements the abstract job board: the sorted slice
\* stands for the set of waiting jobs, the workers for the slots.
Lifecycle == INSTANCE JobLifecycle WITH
    state <- status, runs <- attempts, running <- Held,
    MaxRuns <- MaxRetries, Slots <- Cardinality(Workers)

RefinesLifecycle == Lifecycle!Spec

-------------------------------------------------------------------------------
(* The inductive invariant *)

\* What a worker holds was accepted, and only Cancel and Delete touch its status.
HeldStatus ==
    \A j \in Held : j \in issued /\ status[j] \in {"processing", "cancelled", "absent"}

\* Only accepted jobs are in q.jobs, and a job is first started by Dequeue.
IssuedFirst ==
    \A j \in Jobs : j \notin issued => status[j] = "absent" /\ attempts[j] = 0

\* "processing" means that a worker runs the job, if the job has a handler.
ProcessingIsHeld ==
    \A j \in HandledJobs : status[j] = "processing" => j \in Held

\* Services.Close closes the queue after Stop has seen every worker leave.
StopOrder ==
    /\ closed => pool = "stopped"
    /\ pool = "stopped" => \A w \in Workers : worker[w] = Gone

\* What every step preserves: with all of it the properties above follow.
IInv ==
    /\ TypeOK
    /\ NoDoubleProcessing
    /\ Sorted(pending)
    /\ AttemptsBounded
    /\ BacklogBounded
    /\ ResultMatchesStatus
    /\ HeldStatus
    /\ IssuedFirst
    /\ ProcessingIsHeld
    /\ StopOrder

-------------------------------------------------------------------------------
(* Claims of the comments, which the code does not keep *)

\* queue.go: "Cancel cancels a pending or processing job".  A cancelled job is
\* not run, retried or completed afterwards.
CancelledStays ==
    [][\A j \in Jobs : status[j] = "cancelled" => status'[j] \in {"cancelled", "absent"}]_vars
===============================================================================

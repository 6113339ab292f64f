----------------------------- MODULE JobLifecycle -----------------------------
(***************************************************************************)
(* What the job queue promises its clients, without slices, channels,      *)
(* worker loops or locks: a set of jobs, each with a state and a number of *)
(* runs, and a set of runs in progress.  A run is not bound to the state   *)
(* of its job: cancelling or deleting a job does not end its run, and what *)
(* the run reports when it ends is taken into account as long as the job   *)
(* exists.  WorkerPool.tla implements this specification.                  *)
(***************************************************************************)
EXTENDS Naturals, FiniteSets

CONSTANTS
    Jobs, Priority, CreatedAt,
    MaxRuns,      \* a job is started at most so many times
    Slots         \* at most so many runs are in progress

VARIABLES
    state,        \* of each job
    runs,         \* how often each job was started
    running       \* the jobs with a run in progress

vars == <<state, runs, running>>

MoreUrgent(a, b) ==
    \/ Priority[a] > Priority[b]
    \/ Priority[a] = Priority[b] /\ CreatedAt[a] < CreatedAt[b]

Waiting == {j \in Jobs : state[j] = "pending"}

Init ==
    /\ state = [j \in Jobs |-> "absent"]
    /\ runs = [j \in Jobs |-> 0]
    /\ running = {}

Submit(j) ==
    /\ state[j] = "absent" /\ j \notin running
    /\ state' = [state EXCEPT ![j] = "pending"]
    /\ UNCHANGED <<runs, running>>

\* A most urgent waiting job, not yet running, is started on a free slot.
Start(j) ==
    /\ j \in Waiting \ running
    /\ \A k \in Waiting : ~MoreUrgent(k, j)
    /\ Cardinality(running) < Slots
    /\ runs[j] < MaxRuns
    /\ state' = [state EXCEPT ![j] = "processing"]
    /\ runs' = [runs EXCEPT ![j] = @ + 1]
    /\ running' = running \cup {j}

\* The run ends; a job that exists takes its outcome, or is left for another
\* party to finish.
End(j) ==
    /\ j \in running
    /\ running' = running \ {j}
    /\ UNCHANGED runs
    /\ \/ state[j] # "absent" /\ state' = [state EXCEPT ![j] = "completed"]
       \/ /\ state[j] # "absent"
          /\ state' = [state EXCEPT ![j] = IF runs[j] < MaxRuns THEN "pending" ELSE "failed"]
       \/ state[j] \in {"processing", "cancelled", "absent"} /\ UNCHANGED state

Cancel(j) ==
    /\ state[j] \in {"pending", "processing", "cancelled"}
    /\ state' = [state EXCEPT ![j] = "cancelled"]
    /\ UNCHANGED <<runs, running>>

\* Deleted by its owner, or finished long ago.
Forget(J) ==
    /\ state' = [j \in Jobs |-> IF j \in J THEN "absent" ELSE state[j]]
    /\ runs' = [j \in Jobs |-> IF j \in J THEN 0 ELSE runs[j]]
    /\ UNCHANGED running

Next ==
    \/ \E j \in Jobs : Submit(j) \/ Start(j) \/ End(j) \/ Cancel(j)
    \/ \E J \in SUBSET Jobs : Forget(J)

Spec == Init /\ [][Next]_vars
===============================================================================

--------------------------- MODULE JobStreamsProofs ---------------------------
(***************************************************************************)
(* Proofs about JobStreams.tla, for every set of jobs, workers and         *)
(* requests.  Chat streams break the pool's invariant for the jobs they    *)
(* are opened for, so what is kept is stated job by job (JobSound), and    *)
(* every method of the queue is shown to leave the other jobs alone.       *)
(***************************************************************************)
EXTENDS JobStreams, WorkerPoolProofs

-------------------------------------------------------------------------------
(* One job of a slice *)

\* What CHOOSE finds in Without.
LEMMA Smallest ==
    ASSUME NEW S \in SUBSET Nat, S # {}
    PROVE  \E i \in S : \A m \in S : i <= m
<1> DEFINE R == OpToRel(<, Nat)
<1>1. IsWellFoundedOn(R, Nat)
      BY NatLessThanWellFounded
<1>2. \A x, y \in Nat : <<x, y>> \in R <=> x < y
      BY DEF OpToRel
<1> HIDE DEF R
<1>3. \E i \in S : \A m \in S : ~(<<m, i>> \in R)
      BY <1>1, WFMin
<1>4. PICK i \in S : \A m \in S : ~(<<m, i>> \in R)
      BY <1>3
<1>5. \A m \in S : ~(m < i)
      BY <1>2, <1>4
<1> QED
    BY <1>5

\* Sorting lists a job as often as before.
LEMMA SortPendingOnce ==
    ASSUME NEW s \in Seq(Jobs), NEW t \in SortPending(s), NEW j, Once(s, j)
    PROVE  Once(t, j)
<1>1. PICK p \in Bijection(DOMAIN s, DOMAIN s) : t = [i \in DOMAIN s |-> s[p[i]]]
      BY DEF SortPending
<1>2. /\ p \in [DOMAIN s -> DOMAIN s]
      /\ \A i, k \in DOMAIN s : p[i] = p[k] => i = k
      BY <1>1 DEF Bijection, Injection, IsInjective
<1>3. DOMAIN t = DOMAIN s /\ \A i \in DOMAIN s : t[i] = s[p[i]]
      BY <1>1
<1> QED
    BY <1>2, <1>3 DEF Once

\* Requeue of k: another job keeps its places, and k has one if it had none.
LEMMA RequeueOnce ==
    ASSUME NEW s \in Seq(Jobs), NEW k \in Jobs, NEW t \in SortPending(Append(s, k)),
           NEW j \in Jobs
    PROVE  /\ j # k => (j \in Elems(t) <=> j \in Elems(s)) /\ (Once(s, j) => Once(t, j))
           /\ k \in Elems(t)
           /\ k \notin Elems(s) => Once(t, k)
<1> DEFINE a == Append(s, k)
<1>1. /\ a \in Seq(Jobs) /\ Len(s) \in Nat
      /\ DOMAIN s = 1 .. Len(s) /\ DOMAIN a = 1 .. Len(s) + 1
      /\ \A i \in 1 .. Len(s) : a[i] = s[i]
      /\ a[Len(s) + 1] = k
      OBVIOUS
<1>2. Elems(t) = Elems(s) \cup {k}
      BY RequeueSlice
<1> HIDE DEF a
<1>3. ASSUME j # k, Once(s, j) PROVE Once(a, j)
      BY <1>1, <1>3 DEF Once
<1>4. ASSUME k \notin Elems(s) PROVE Once(a, k)
      BY <1>1, <1>4 DEF Once, Elems
<1>5. t \in SortPending(a)
      BY DEF a
<1> QED
    BY <1>1, <1>2, <1>3, <1>4, <1>5, SortPendingOnce

\* The head k leaves.
LEMMA TailOnce ==
    ASSUME NEW s \in Seq(Jobs), s # <<>>, NEW j \in Jobs
    PROVE  /\ Once(s, j) => Once(Tail(s), j)
           /\ j # Head(s) => (j \in Elems(Tail(s)) <=> j \in Elems(s))
           /\ j = Head(s) => j \in Elems(s)
           /\ j = Head(s) /\ Once(s, j) => j \notin Elems(Tail(s))
<1> DEFINE t == Tail(s)
<1>1. /\ Len(s) \in Nat \ {0} /\ DOMAIN s = 1 .. Len(s)
      /\ Head(s) = s[1]
      /\ t \in Seq(Jobs) /\ Len(t) = Len(s) - 1
      /\ \A i \in 1 .. Len(s) - 1 : t[i] = s[i + 1]
      BY HeadTailProperties
<1>2. DOMAIN t = 1 .. Len(s) - 1
      BY <1>1
<1> HIDE DEF t
<1>3. /\ \A i \in DOMAIN t : i \in Nat /\ i + 1 \in DOMAIN s /\ t[i] = s[i + 1]
      /\ \A i \in DOMAIN s : i = 1 \/ (i - 1 \in DOMAIN t /\ t[i - 1] = s[i])
      /\ 1 \in DOMAIN s
      BY <1>1, <1>2
<1>4. ASSUME Once(s, j) PROVE Once(t, j)
  <2> SUFFICES ASSUME NEW i \in DOMAIN t, NEW k \in DOMAIN t, t[i] = j, t[k] = j
               PROVE  i = k
      BY DEF Once
  <2>1. i + 1 = k + 1
        BY <1>3, <1>4 DEF Once
  <2> QED
      BY <1>3, <2>1
<1>5. j \in Elems(t) => j \in Elems(s)
      BY <1>3 DEF Elems
<1>6. j \in Elems(s) => j = Head(s) \/ j \in Elems(t)
      BY <1>1, <1>3 DEF Elems
<1>7. j = Head(s) => j \in Elems(s)
      BY <1>1, <1>3 DEF Elems
<1>8. ASSUME j = Head(s), Once(s, j) PROVE j \notin Elems(t)
  <2>1. ASSUME NEW i \in DOMAIN t, t[i] = j PROVE FALSE
    <3>1. i \in Nat /\ i + 1 \in DOMAIN s /\ s[i + 1] = j /\ s[1] = j /\ 1 \in DOMAIN s
          BY <1>1, <1>3, <1>8, <2>1
    <3>2. i + 1 = 1
          BY <1>8, <3>1 DEF Once
    <3>3. i \in 1 .. Len(s) - 1
          BY <1>2
    <3> QED
        BY <3>2, <3>3
  <2> QED
      BY <2>1 DEF Elems
<1> QED
    BY <1>4, <1>5, <1>6, <1>7, <1>8 DEF t

\* The removal loops: the first place of k goes.
LEMMA WithoutOnce ==
    ASSUME NEW s \in Seq(Jobs), NEW k \in Jobs, NEW j \in Jobs
    PROVE  /\ Once(s, j) => Once(Without(s, k), j)
           /\ j # k => (j \in Elems(Without(s, k)) <=> j \in Elems(s))
           /\ Once(s, k) => k \notin Elems(Without(s, k))
<1> DEFINE at == {i \in DOMAIN s : s[i] = k}
           t == Without(s, k)
<1>1. DOMAIN s = 1 .. Len(s) /\ Len(s) \in Nat
      OBVIOUS
<1>2. CASE at = {}
  <2>1. t = s /\ k \notin Elems(s)
        BY <1>2 DEF Without, Elems
  <2> QED
      BY <2>1
<1>3. CASE at # {}
  <2> DEFINE first == CHOOSE i \in at : \A m \in at : i <= m
             from(i) == IF i < first THEN i ELSE i + 1
  <2>1. first \in DOMAIN s /\ s[first] = k
    <3>1. at \subseteq Nat /\ at # {}
          BY <1>1, <1>3
    <3>2. \E i \in at : \A m \in at : i <= m
          BY <3>1, Smallest
    <3>3. first \in at
          BY <3>2
    <3> HIDE DEF first
    <3> QED
        BY <3>3
  <2>2. t = [i \in 1 .. Len(s) - 1 |-> IF i < first THEN s[i] ELSE s[i + 1]]
        BY <1>3 DEF Without
  <2> HIDE DEF first, at
  <2>3. DOMAIN t = 1 .. Len(s) - 1 /\ \A i \in DOMAIN t : t[i] = s[from(i)]
        BY <2>2
  <2> HIDE DEF t
  <2>4. \A i \in DOMAIN t : i \in Nat /\ from(i) \in DOMAIN s /\ from(i) # first
        BY <1>1, <2>1, <2>3
  <2>5. \A i, m \in DOMAIN t : from(i) = from(m) => i = m
        BY <1>1, <2>1, <2>4
  <2>6. ASSUME NEW m \in DOMAIN s, m # first
        PROVE  \E i \in DOMAIN t : from(i) = m
    <3>1. CASE m < first
      <4>1. m \in DOMAIN t /\ from(m) = m
            BY <1>1, <2>1, <2>3, <3>1
      <4> QED
          BY <4>1
    <3>2. CASE m > first
      <4>1. m - 1 \in DOMAIN t /\ from(m - 1) = m
            BY <1>1, <2>1, <2>3, <3>2
      <4> QED
          BY <4>1
    <3> QED
        BY <1>1, <2>1, <2>6, <3>1, <3>2
  <2> HIDE DEF from
  <2>7. ASSUME Once(s, j) PROVE Once(t, j)
        BY <2>3, <2>4, <2>5, <2>7 DEF Once
  <2>8. j \in Elems(t) => j \in Elems(s)
        BY <2>3, <2>4 DEF Elems
  <2>9. ASSUME j # k, j \in Elems(s) PROVE j \in Elems(t)
    <3>1. PICK m \in DOMAIN s : j = s[m]
          BY <2>9 DEF Elems
    <3>2. PICK i \in DOMAIN t : from(i) = m
          BY <2>1, <2>6, <2>9, <3>1
    <3> QED
        BY <2>3, <3>1, <3>2 DEF Elems
  <2>10. ASSUME Once(s, k) PROVE k \notin Elems(t)
    <3>1. ASSUME NEW i \in DOMAIN t, t[i] = k PROVE FALSE
          BY <2>1, <2>3, <2>4, <2>10, <3>1 DEF Once
    <3> QED
        BY <3>1 DEF Elems
  <2> QED
      BY <2>7, <2>8, <2>9, <2>10 DEF t
<1> QED
    BY <1>2, <1>3

-------------------------------------------------------------------------------
(* One job and the steps of the pool *)

\* What a step leaves of a job it is not about.
Untouched(j) ==
    /\ status'[j] = status[j] /\ results'[j] = results[j]
    /\ j \in issued' <=> j \in issued
    /\ j \in Elems(pending') <=> j \in Elems(pending)
    /\ Once(pending, j) => Once(pending', j)

\* What no step does to a job that is over or gone.
Kept(j) ==
    /\ j \in issued => j \in issued'
    /\ status[j] \in Final => status'[j] \in {status[j], "absent"}
    /\ j \in issued /\ status[j] = "absent" => status'[j] = "absent"

\* A method called for job k is about k only.
LEMMA OthersUntouched ==
    ASSUME QueueTypeOK, NEW j \in Jobs, NEW k \in Jobs, j # k,
           \/ Enqueue(k) \/ Dequeue(k) \/ Complete(k) \/ Fail(k) \/ Cancel(k) \/ Delete(k)
           \/ NotFound(k)
    PROVE  Untouched(j)
<1>1. pending \in Seq(Jobs)
      BY DEF QueueTypeOK
<1>2. status'[j] = status[j] /\ results'[j] = results[j] /\ (j \in issued' <=> j \in issued)
      BY DEF Enqueue, Dequeue, Complete, Fail, Retry, FailForGood, Cancel, Delete, NotFound,
             queueVars, jobVars, QueueTypeOK
<1>3. \/ UNCHANGED pending
      \/ pending' \in SortPending(Append(pending, k))
      \/ pending' = Without(pending, k)
      \/ pending # <<>> /\ k = Head(pending) /\ pending' = Tail(pending)
      BY DEF Enqueue, Dequeue, Complete, Fail, Retry, FailForGood, Cancel, Delete, NotFound,
             queueVars, jobVars, Requeue
<1>4. /\ j \in Elems(pending') <=> j \in Elems(pending)
      /\ Once(pending, j) => Once(pending', j)
  <2>1. CASE UNCHANGED pending
        BY <2>1
  <2>2. CASE pending' \in SortPending(Append(pending, k))
        BY <1>1, <2>2, RequeueOnce
  <2>3. CASE pending' = Without(pending, k)
        BY <1>1, <2>3, WithoutOnce
  <2>4. CASE pending # <<>> /\ k = Head(pending) /\ pending' = Tail(pending)
        BY <1>1, <2>4, TailOnce
  <2> QED
      BY <1>3, <2>1, <2>2, <2>3, <2>4
<1> QED
    BY <1>2, <1>4 DEF Untouched

LEMMA SoundFrame ==
    ASSUME NEW j \in Jobs, JobSound(j), Untouched(j), Holders(j)' \subseteq Holders(j)
    PROVE  JobSound(j)' /\ Kept(j)
BY DEF JobSound, Untouched, Kept

\* A worker without a job takes k; a worker lets go of its job.
LEMMA HoldersTake ==
    ASSUME TypeOK, NEW w \in Workers, NEW k \in Jobs, worker[w] = Idle,
           worker' = [worker EXCEPT ![w] = [pc |-> "running", job |-> k]], NEW j \in Jobs
    PROVE  Holders(j)' = IF j = k THEN Holders(j) \cup {w} ELSE Holders(j)
<1>1. ~Busy(w)
      BY DEF Busy, Idle
<1>2. /\ worker'[w].pc = "running" /\ worker'[w].job = k
      /\ \A v \in Workers \ {w} : worker'[v] = worker[v]
      BY DEF TypeOK
<1> QED
    BY <1>1, <1>2 DEF Holders, Busy

LEMMA HoldersRelease ==
    ASSUME TypeOK, NEW w \in Workers, worker' = [worker EXCEPT ![w] = Idle], NEW j \in Jobs
    PROVE  Holders(j)' = Holders(j) \ {w}
<1>1. worker'[w].pc = "idle" /\ \A v \in Workers \ {w} : worker'[v] = worker[v]
      BY DEF TypeOK, Idle
<1> QED
    BY <1>1 DEF Holders, Busy

\* The steps of a worker, and its departure, that move no job.
LEMMA HoldersSame ==
    ASSUME TypeOK, NEW w \in Workers, Step(w) \/ ReportPlan(w) \/ Leave(w), NEW j \in Jobs
    PROVE  Holders(j)' = Holders(j)
<1>1. CASE Step(w)
      BY <1>1 DEF Step, Holders, Busy
<1>2. CASE ReportPlan(w)
  <2>1. worker[w].pc = "running" /\ w \in BusySet
        BY <1>2 DEF ReportPlan, Running, BusySet, Busy
  <2>2. worker[w] \in [pc : {"running", "finishing"}, job : Jobs]
        BY <2>1, WorkerStates, Zenon
  <2>3. worker'[w] = [worker[w] EXCEPT !.pc = "finishing"]
        BY <1>2 DEF ReportPlan, TypeOK
  <2>4. worker'[w].job = worker[w].job /\ worker'[w].pc = "finishing"
        BY <2>2, <2>3
  <2>5. \A v \in Workers \ {w} : worker'[v] = worker[v]
        BY <1>2 DEF ReportPlan, TypeOK
  <2> QED
      BY <2>1, <2>4, <2>5 DEF Holders, Busy
<1>3. CASE Leave(w)
  <2>1. worker[w].pc = "idle" /\ worker'[w].pc = "stopped"
        BY <1>3 DEF Leave, TypeOK, Gone
  <2>2. \A v \in Workers \ {w} : worker'[v] = worker[v]
        BY <1>3 DEF Leave, TypeOK
  <2> QED
      BY <2>1, <2>2 DEF Holders, Busy
<1> QED
    BY <1>1, <1>2, <1>3

\* A client's call for the job itself.
LEMMA SoundClient ==
    ASSUME TypeOK, NEW j \in Jobs, JobSound(j), Enqueue(j) \/ Cancel(j) \/ Delete(j),
           UNCHANGED poolVars
    PROVE  JobSound(j)' /\ Kept(j)
<1>1. pending \in Seq(Jobs)
      BY DEF TypeOK, QueueTypeOK
<1>2. Holders(j)' = Holders(j)
      BY DEF poolVars, Holders, Busy
<1>3. CASE Enqueue(j)
  <2>1. /\ j \notin issued /\ issued' = issued \cup {j}
        /\ pending' \in SortPending(Append(pending, j))
        /\ status'[j] = "pending" /\ results'[j] = results[j]
        BY <1>3 DEF Enqueue, Requeue, TypeOK, QueueTypeOK
  <2>2. Once(pending', j) /\ j \in Elems(pending')
        BY <1>1, <2>1, RequeueOnce DEF JobSound
  <2> QED
      BY <1>2, <2>1, <2>2 DEF JobSound, Kept, Final
<1>4. CASE Cancel(j) \/ Delete(j)
  <2>1. /\ status[j] # "absent" /\ issued' = issued
        /\ pending' = Without(pending, j)
        /\ \/ status'[j] = "cancelled" /\ results'[j] = results[j] /\ status[j] \notin Final
           \/ status'[j] = "absent" /\ results'[j] = "none"
        BY <1>4 DEF Cancel, Delete, TypeOK, QueueTypeOK
  <2>2. Once(pending', j) /\ j \notin Elems(pending')
        BY <1>1, <2>1, WithoutOnce DEF JobSound
  <2> QED
      BY <1>2, <2>1, <2>2 DEF JobSound, Kept, Final
<1> QED
    BY <1>3, <1>4

\* A worker takes the job from the head of the slice.
LEMMA SoundTake ==
    ASSUME TypeOK, NEW j \in Jobs, JobSound(j), NEW w \in Workers, worker[w] = Idle, Dequeue(j),
           worker' = [worker EXCEPT ![w] = [pc |-> "running", job |-> j]]
    PROVE  JobSound(j)' /\ Kept(j)
<1>1. /\ pending \in Seq(Jobs) /\ pending # <<>> /\ j = Head(pending)
      /\ pending' = Tail(pending)
      BY DEF TypeOK, QueueTypeOK, Dequeue
<1>2. j \in Elems(pending) /\ j \notin Elems(pending') /\ Once(pending', j)
      BY <1>1, TailOnce DEF JobSound
<1>3. status[j] = "pending" /\ Holders(j) = {} /\ j \in issued
      BY <1>2 DEF JobSound
<1>4. Holders(j)' = {w}
      BY <1>3, HoldersTake
<1>5. status'[j] = "processing" /\ issued' = issued /\ results' = results
      BY <1>3 DEF Dequeue, TypeOK, QueueTypeOK
<1> QED
    BY <1>2, <1>3, <1>4, <1>5 DEF JobSound, Kept, Final

\* The run of the job ends.
LEMMA SoundEnds ==
    ASSUME TypeOK, NEW j \in Jobs, JobSound(j), NEW w \in Holders(j),
           Complete(j) \/ Fail(j) \/ NotFound(j), worker' = [worker EXCEPT ![w] = Idle]
    PROVE  JobSound(j)' /\ Kept(j)
<1>1. Holders(j) = {w} /\ w \in Workers /\ pending \in Seq(Jobs)
      BY DEF JobSound, Holders, TypeOK, QueueTypeOK
<1>2. Holders(j)' = {}
      BY <1>1, HoldersRelease
<1>3. j \in issued /\ status[j] \in {"processing", "cancelled", "absent"}
      BY DEF JobSound
<1>4. j \notin Elems(pending) /\ Once(pending, j) /\ results[j] = "none"
      BY <1>3 DEF JobSound, Final
<1>5. /\ issued' = issued
      /\ \/ status[j] = "absent" /\ status'[j] = "absent" /\ UNCHANGED <<pending, results>>
         \/ /\ status[j] # "absent" /\ status'[j] \in Final /\ UNCHANGED pending
            /\ results'[j] = status'[j]
         \/ /\ status[j] # "absent" /\ status'[j] = "pending"
            /\ pending' \in SortPending(Append(pending, j)) /\ UNCHANGED results
      BY DEF Complete, Fail, Retry, FailForGood, NotFound, Requeue, queueVars, jobVars, Final,
             TypeOK, QueueTypeOK
<1>6. CASE UNCHANGED pending /\ status'[j] # "pending"
      BY <1>2, <1>3, <1>4, <1>5, <1>6 DEF JobSound, Kept, Final
<1>7. CASE status'[j] = "pending" /\ pending' \in SortPending(Append(pending, j)) /\ UNCHANGED results
  <2>1. j \in Elems(pending') /\ Once(pending', j)
        BY <1>1, <1>4, <1>7, RequeueOnce
  <2> QED
      BY <1>2, <1>3, <1>4, <1>5, <1>7, <2>1 DEF JobSound, Kept, Final
<1> QED
    BY <1>5, <1>6, <1>7 DEF Final

\* Any step of the pool and its clients, seen from one job.
LEMMA SoundPool ==
    ASSUME TypeOK, NEW j \in Jobs, JobSound(j), PoolStep \/ Client
    PROVE  JobSound(j)' /\ Kept(j)
<1>1. QueueTypeOK
      BY DEF TypeOK
<1>2. ASSUME NEW w \in Workers, Take(w) PROVE JobSound(j)' /\ Kept(j)
  <2>1. PICK k \in Jobs : Dequeue(k) /\ worker' = [worker EXCEPT ![w] = [pc |-> "running", job |-> k]]
        BY <1>2 DEF Take
  <2>2. worker[w] = Idle
        BY <1>2, WorkerStates DEF Take
  <2>3. CASE k = j
        BY <2>1, <2>2, <2>3, SoundTake
  <2>4. CASE k # j
        BY <1>1, <2>1, <2>2, <2>4, HoldersTake, OthersUntouched, SoundFrame
  <2> QED
      BY <2>3, <2>4
<1>3. ASSUME NEW w \in Workers, Succeed(w) \/ Err(w) PROVE JobSound(j)' /\ Kept(j)
  <2>1. /\ w \in BusySet /\ worker' = [worker EXCEPT ![w] = Idle]
        /\ \/ Complete(worker[w].job) \/ Fail(worker[w].job)
           \/ NotFound(worker[w].job)
        BY <1>3 DEF Succeed, Err, Running, BusySet, Busy
  <2>2. worker[w].job \in Jobs /\ w \in Holders(worker[w].job)
        BY <2>1, WorkerStates DEF Held, Holders, BusySet
  <2>3. CASE worker[w].job = j
        BY <2>1, <2>2, <2>3, SoundEnds
  <2>4. CASE worker[w].job # j
        BY <1>1, <2>1, <2>2, <2>4, HoldersRelease, OthersUntouched, SoundFrame
  <2> QED
      BY <2>3, <2>4
<1>4. ASSUME UNCHANGED jobVars PROVE Untouched(j)
      BY <1>4 DEF jobVars, Untouched, Elems, Once
<1>5. ASSUME NEW w \in Workers, Skip(w) PROVE JobSound(j)' /\ Kept(j)
      BY <1>4, <1>5, HoldersRelease, SoundFrame DEF Skip, queueVars
<1>6. ASSUME NEW w \in Workers, Step(w) \/ ReportPlan(w) \/ Leave(w)
      PROVE  JobSound(j)' /\ Kept(j)
  <2>1. UNCHANGED jobVars
        BY <1>6 DEF Step, ReportPlan, Leave, queueVars
  <2> QED
      BY <1>4, <1>6, <2>1, HoldersSame, SoundFrame
<1>7. ASSUME worker' = worker PROVE Holders(j)' = Holders(j)
      BY <1>7 DEF Holders, Busy
<1>8. ASSUME (\E k \in Jobs : Forward(k)) \/ Stop \/ WaitDone \/ CloseQueue
      PROVE  JobSound(j)' /\ Kept(j)
  <2>1. UNCHANGED jobVars /\ worker' = worker
        BY <1>8 DEF Forward, ReportProgress, Stop, WaitDone, CloseQueue, Close, poolVars, queueVars
  <2> QED
      BY <1>4, <1>7, <2>1, SoundFrame
<1>9. ASSUME Cleanup PROVE JobSound(j)' /\ Kept(j)
  <2>1. PICK J \in SUBSET Jobs : CleanupOldResults(J)
        BY <1>9 DEF Cleanup
  <2>2. Holders(j)' = Holders(j)
        BY <1>7, <1>9 DEF Cleanup, poolVars
  <2>3. CASE j \in J
        BY <2>1, <2>2, <2>3 DEF CleanupOldResults, JobSound, Kept, Final
  <2>4. CASE j \notin J
    <3>1. Untouched(j)
          BY <2>1, <2>4 DEF CleanupOldResults, Untouched, Elems, Once
    <3> QED
        BY <2>2, <3>1, SoundFrame
  <2> QED
      BY <2>3, <2>4
<1>10. ASSUME Client PROVE JobSound(j)' /\ Kept(j)
  <2>1. PICK k \in Jobs : Enqueue(k) \/ Cancel(k) \/ Delete(k)
        BY <1>10 DEF Client
  <2>2. UNCHANGED poolVars /\ Holders(j)' = Holders(j)
        BY <1>7, <1>10 DEF Client, poolVars
  <2>3. CASE k = j
        BY <2>1, <2>2, <2>3, SoundClient
  <2>4. CASE k # j
        BY <1>1, <2>1, <2>2, <2>4, OthersUntouched, SoundFrame
  <2> QED
      BY <2>3, <2>4
<1> QED
    BY <1>2, <1>3, <1>5, <1>6, <1>8, <1>9, <1>10 DEF PoolStep

-------------------------------------------------------------------------------
(* The requests *)

Request == [pc : {"unopened", "open", "over"}, job : Jobs \cup {NoJob},
            told : Told, early : BOOLEAN]

\* The end of a request changes nothing else of it.
LEMMA EndsRequest ==
    ASSUME StreamTypeOK, NEW s \in Streams, NEW told \in Told, EndStream(s, told)
    PROVE  /\ stream' \in [Streams -> Request]
           /\ stream'[s].pc = "over" /\ stream'[s].told = told
           /\ stream'[s].job = stream[s].job /\ stream'[s].early = stream[s].early
           /\ \A r \in Streams : r # s => stream'[r] = stream[r]
<1>1. stream \in [Streams -> Request]
      BY DEF StreamTypeOK, Request
<1> DEFINE r1 == [stream[s] EXCEPT !.pc = "over"]
           r2 == [r1 EXCEPT !.told = told]
<1>2. stream[s] \in Request
      BY <1>1
<1>3. r2 \in Request /\ r2.pc = "over" /\ r2.told = told /\ r2.job = stream[s].job
      /\ r2.early = stream[s].early
      BY <1>2 DEF Request
<1>4. stream' = [stream EXCEPT ![s] = r2]
      BY <1>1 DEF EndStream
<1> HIDE DEF r2, r1, Request
<1> QED
    BY <1>1, <1>3, <1>4

\* The job that a request is opened for; a chat request is opened for no quiet one.
LEMMA AskedJob ==
    ASSUME NEW s \in Streams
    PROVE  Asks[s] \in Jobs /\ (Kind[s] = "chat" => Asks[s] \notin Quiet)
BY StreamConstants DEF Quiet

\* What a stream handler does to the queue and the pool: it calls a method for the job
\* of a chat request, or touches no job.
LEMMA StreamActs ==
    ASSUME StreamTypeOK, StreamJobs, NEW s \in Streams, StreamStep(s)
    PROVE  /\ UNCHANGED poolVars
           /\ \/ UNCHANGED jobVars
              \/ \E k \in Jobs \ Quiet : JobOf(s) = k /\ (Complete(k) \/ Fail(k) \/ NotFound(k))
<1>1. CASE \E j \in Jobs : OpenStream(s, j)
      BY <1>1 DEF OpenStream, Subscribe
<1>2. CASE ShowProgress(s) \/ ShowOutcome(s)
      BY <1>2 DEF ShowProgress, ShowOutcome, Pop
<1>3. CASE SeeClosed(s) \/ Timeout(s) \/ Disconnect(s) \/ AgentEnds(s)
      BY <1>3 DEF SeeClosed, Timeout, Disconnect, AgentEnds, vars, queueVars
<1>4. CASE AgentFails(s) \/ ChatComplete(s) \/ ChatError(s)
  <2>1. agent[s] # "none"
        BY <1>4 DEF AgentFails, ChatComplete, ChatError
  <2>2. JobOf(s) \in Jobs \ Quiet
        BY <2>1, AskedJob DEF StreamJobs
  <2>3. UNCHANGED poolVars
        BY <1>4 DEF AgentFails, ChatComplete, ChatError
  <2>4. Complete(JobOf(s)) \/ Fail(JobOf(s)) \/ NotFound(JobOf(s))
        BY <1>4 DEF AgentFails, ChatComplete, ChatError
  <2> QED
      BY <2>2, <2>3, <2>4
<1> QED
    BY <1>1, <1>2, <1>3, <1>4 DEF StreamStep

\* How a step changes a request and its agent.
LEMMA RequestStep ==
    ASSUME TypeOK, StreamTypeOK, StreamJobs, NEW s \in Streams, StreamStep(s)
    PROVE  /\ StreamTypeOK'
           /\ \A r \in Streams : r # s => stream'[r] = stream[r] /\ agent'[r] = agent[r]
           /\ \/ /\ stream[s].pc = "unopened" /\ agent[s] = "none"
                 /\ \E j \in issued : OpenStream(s, j) /\ j = Asks[s] /\ stream'[s].job = j
                 /\ stream'[s].pc = "open" /\ stream'[s].told = "nothing"
                 /\ stream'[s].early <=> ~closed /\ status[stream'[s].job] \in {"pending", "processing"}
                 /\ agent'[s] # "none" => Kind[s] = "chat"
              \/ /\ stream[s].pc # "unopened"
                 /\ stream'[s].pc # "unopened"
                 /\ stream'[s].job = stream[s].job /\ stream'[s].early = stream[s].early
                 /\ stream'[s].told # stream[s].told =>
                        \/ ShowOutcome(s) /\ stream'[s].told \in {"failed", "completed", "completed without result"}
                        \/ SeeClosed(s)
                        \/ stream'[s].told \in {"timed out", "silence"}
                        \/ Kind[s] = "chat"
                 /\ agent'[s] # "none" => agent[s] # "none"
<1>0. /\ stream \in [Streams -> Request] /\ agent \in [Streams -> AgentState]
      /\ StreamTypeOK' <=> /\ stream' \in [Streams -> Request]
                           /\ agent' \in [Streams -> AgentState]
      BY DEF StreamTypeOK, Request
<1>1. ASSUME NEW told \in Told, EndStream(s, told), stream[s].pc # "unopened", UNCHANGED agent,
             \/ ShowOutcome(s) /\ told \in {"failed", "completed", "completed without result"}
             \/ SeeClosed(s)
             \/ told \in {"timed out", "silence"}
             \/ Kind[s] = "chat"
      PROVE  /\ StreamTypeOK'
             /\ \A r \in Streams : r # s => stream'[r] = stream[r] /\ agent'[r] = agent[r]
             /\ stream'[s].pc # "unopened"
             /\ stream'[s].job = stream[s].job /\ stream'[s].early = stream[s].early
             /\ agent'[s] = agent[s]
             /\ \/ ShowOutcome(s) /\ stream'[s].told \in {"failed", "completed", "completed without result"}
                \/ SeeClosed(s)
                \/ stream'[s].told \in {"timed out", "silence"}
                \/ Kind[s] = "chat"
      BY <1>0, <1>1, EndsRequest
<1>2. ASSUME NEW j \in Jobs, OpenStream(s, j)
      PROVE  /\ StreamTypeOK'
             /\ \A r \in Streams : r # s => stream'[r] = stream[r] /\ agent'[r] = agent[r]
             /\ stream[s].pc = "unopened" /\ agent[s] = "none"
             /\ j \in issued /\ j = Asks[s] /\ stream'[s].job = j
             /\ stream'[s].pc = "open" /\ stream'[s].told = "nothing"
             /\ stream'[s].early <=> ~closed /\ status[j] \in {"pending", "processing"}
             /\ agent'[s] # "none" => Kind[s] = "chat"
  <2> DEFINE new == [pc |-> "open", job |-> j, told |-> "nothing",
                     early |-> ~closed /\ status[j] \in {"pending", "processing"}]
  <2>1. new \in Request /\ new.pc = "open" /\ new.job = j /\ new.told = "nothing"
        /\ (new.early <=> ~closed /\ status[j] \in {"pending", "processing"})
        BY DEF Request, Told
  <2>2. stream' = [stream EXCEPT ![s] = new]
        BY <1>2 DEF OpenStream
  <2> HIDE DEF new
  <2>3. stream[s].pc = "unopened" /\ agent[s] = "none" /\ j \in issued /\ j = Asks[s]
        BY <1>2 DEF OpenStream, StreamJobs
  <2>4. \/ agent' = [agent EXCEPT ![s] = "working"] /\ Kind[s] = "chat"
        \/ agent' = agent
        BY <1>2 DEF OpenStream
  <2>5. /\ agent' \in [Streams -> AgentState]
        /\ \A r \in Streams : r # s => agent'[r] = agent[r]
        /\ agent'[s] # "none" => Kind[s] = "chat"
        BY <1>0, <2>3, <2>4 DEF AgentState
  <2> QED
      BY <1>0, <2>1, <2>2, <2>3, <2>5
<1>3. ASSUME ShowProgress(s) \/ AgentEnds(s) \/ AgentFails(s)
      PROVE  /\ StreamTypeOK' /\ UNCHANGED stream
             /\ \A r \in Streams : r # s => agent'[r] = agent[r]
             /\ stream[s].pc # "unopened"
             /\ agent'[s] # "none" => agent[s] # "none"
      BY <1>0, <1>3 DEF ShowProgress, Pop, Open, AgentEnds, AgentFails, AgentState, StreamJobs
<1>4. ASSUME ShowOutcome(s)
      PROVE  \E told \in Told : /\ EndStream(s, told) /\ stream[s].pc # "unopened"
                                /\ UNCHANGED agent
                                /\ told \in {"failed", "completed", "completed without result"}
      BY <1>4 DEF ShowOutcome, Pop, Open, Told
<1>5. ASSUME SeeClosed(s) \/ Timeout(s) \/ Disconnect(s)
      PROVE  \E told \in Told : /\ EndStream(s, told) /\ stream[s].pc # "unopened"
                                /\ UNCHANGED agent
                                /\ SeeClosed(s) \/ told \in {"timed out", "silence"}
  <2>1. CASE SeeClosed(s)
    <3> DEFINE told == CASE results[JobOf(s)] = "completed" -> "completed"
                         [] Kind[s] = "memo" -> "failed"
                         [] OTHER -> "silence"
    <3>1. told \in Told /\ EndStream(s, told) /\ UNCHANGED agent /\ stream[s].pc # "unopened"
          BY <2>1 DEF SeeClosed, Open, Told
    <3> QED
        BY <2>1, <3>1
  <2>2. CASE Timeout(s) \/ Disconnect(s)
        BY <2>2 DEF Timeout, Disconnect, Open, Told
  <2> QED
      BY <1>5, <2>1, <2>2
<1>6. ASSUME ChatComplete(s) \/ ChatError(s)
      PROVE  \E told \in Told : /\ EndStream(s, told) /\ stream[s].pc # "unopened"
                                /\ UNCHANGED agent /\ Kind[s] = "chat"
      BY <1>6 DEF ChatComplete, ChatError, Open, Told, StreamJobs
<1>7. CASE \E j \in Jobs : OpenStream(s, j)
      BY <1>2, <1>7
<1>8. CASE ShowProgress(s) \/ AgentEnds(s) \/ AgentFails(s)
      BY <1>3, <1>8
<1>9. CASE ShowOutcome(s) \/ SeeClosed(s) \/ Timeout(s) \/ Disconnect(s) \/ ChatComplete(s) \/ ChatError(s)
  <2>1. PICK told \in Told : /\ EndStream(s, told) /\ stream[s].pc # "unopened" /\ UNCHANGED agent
                             /\ \/ ShowOutcome(s) /\ told \in {"failed", "completed", "completed without result"}
                                \/ SeeClosed(s)
                                \/ told \in {"timed out", "silence"}
                                \/ Kind[s] = "chat"
        BY <1>4, <1>5, <1>6, <1>9
  <2> QED
      BY <1>1, <2>1
<1> QED
    BY <1>7, <1>8, <1>9 DEF StreamStep

-------------------------------------------------------------------------------
(* Quiet jobs, while chat streams end theirs *)

\* The types of the queue and the pool, whoever acts.
LEMMA StreamTypes == SoundInv /\ [StreamNext]_allVars => TypeOK' /\ StreamTypeOK'
<1> SUFFICES ASSUME SoundInv, [StreamNext]_allVars PROVE TypeOK' /\ StreamTypeOK'
    OBVIOUS
<1> USE DEF SoundInv
<1>1. ASSUME PoolStep \/ Client \/ Listen \/ UNCHANGED vars PROVE TypeOK'
      BY <1>1, TypeStep DEF Next
<1>2. ASSUME UNCHANGED streamVars PROVE StreamTypeOK'
      BY <1>2 DEF streamVars, StreamTypeOK
<1>3. ASSUME NEW s \in Streams, StreamStep(s) PROVE TypeOK' /\ StreamTypeOK'
  <2>1. CASE \E j \in Jobs : OpenStream(s, j)
    <3>1. Listen
          BY <2>1, StreamConstants DEF OpenStream, Listen
    <3> QED
        BY <1>1, <1>3, <3>1, RequestStep
  <2>2. CASE ShowProgress(s) \/ ShowOutcome(s)
    <3>1. /\ chan[s].buf # <<>> /\ chan' = [chan EXCEPT ![s].buf = Tail(@)]
          /\ UNCHANGED <<jobVars, subscribers, closed, poolVars>>
          BY <2>2 DEF ShowProgress, ShowOutcome, Pop
    <3>2. chan \in [Channels -> ChanType] /\ s \in Channels
          BY StreamConstants DEF TypeOK, QueueTypeOK, ChanType
    <3>3. chan[s].buf \in Seq(Event) /\ chan[s].closed \in BOOLEAN
          BY <3>2 DEF ChanType
    <3>4. Tail(chan[s].buf) \in Seq(Event)
          BY <3>1, <3>3, HeadTailProperties
    <3>5. [chan[s] EXCEPT !.buf = Tail(chan[s].buf)] \in ChanType
          BY <3>2, <3>3, <3>4 DEF ChanType
    <3>6. chan' \in [Channels -> ChanType]
          BY <3>1, <3>2, <3>5
    <3>7. TypeOK'
          BY <3>1, <3>6 DEF TypeOK, QueueTypeOK, ChanType, jobVars, poolVars
    <3> QED
        BY <1>3, <3>7, RequestStep
  <2>3. CASE SeeClosed(s) \/ Timeout(s) \/ Disconnect(s) \/ AgentEnds(s)
    <3>1. UNCHANGED vars
          BY <2>3 DEF SeeClosed, Timeout, Disconnect, AgentEnds
    <3> QED
        BY <1>1, <1>3, <3>1, RequestStep
  <2>4. CASE AgentFails(s) \/ ChatComplete(s) \/ ChatError(s)
    <3>1. UNCHANGED poolVars /\ JobOf(s) \in Jobs
      <4>1. agent[s] # "none"
            BY <2>4 DEF AgentFails, ChatComplete, ChatError
      <4>2. JobOf(s) \in Jobs
            BY <4>1, AskedJob DEF StreamJobs
      <4> QED
          BY <2>4, <4>2 DEF AgentFails, ChatComplete, ChatError
    <3>2. QueueTypeOK'
          BY <2>4, <3>1, QueueOpType DEF TypeOK, AgentFails, ChatComplete, ChatError
    <3>3. TypeOK'
          BY <3>1, <3>2 DEF TypeOK, poolVars
    <3> QED
        BY <1>3, <3>3, RequestStep
  <2> QED
      BY <1>3, <2>1, <2>2, <2>3, <2>4 DEF StreamStep
<1> QED
    BY <1>1, <1>2, <1>3 DEF StreamNext, allVars

\* A quiet job and any step: chat streams call methods for other jobs only.
LEMMA SoundJob ==
    ASSUME SoundInv, [StreamNext]_allVars, NEW j \in Quiet
    PROVE  JobSound(j)' /\ Kept(j)
<1> USE DEF SoundInv
<1>1. j \in Jobs /\ JobSound(j) /\ QueueTypeOK
      BY DEF Quiet, TypeOK
<1>2. CASE PoolStep \/ Client
      BY <1>1, <1>2, SoundPool
<1>3. ASSUME UNCHANGED poolVars PROVE Holders(j)' = Holders(j)
      BY <1>3 DEF poolVars, Holders, Busy
<1>4. ASSUME UNCHANGED jobVars PROVE Untouched(j)
      BY <1>4 DEF jobVars, Untouched, Elems, Once
<1>5. CASE \E s \in Streams : StreamStep(s)
  <2>1. PICK s \in Streams : StreamStep(s)
        BY <1>5
  <2>2. CASE UNCHANGED jobVars
        BY <1>1, <1>3, <1>4, <2>1, <2>2, StreamActs, SoundFrame
  <2>3. CASE \E k \in Jobs \ Quiet : Complete(k) \/ Fail(k) \/ NotFound(k)
    <3>1. Untouched(j)
          BY <1>1, <2>3, OthersUntouched
    <3> QED
        BY <1>1, <1>3, <2>1, <3>1, StreamActs, SoundFrame
  <2> QED
      BY <2>1, <2>2, <2>3, StreamActs
<1>6. CASE UNCHANGED allVars
      BY <1>1, <1>3, <1>4, <1>6, SoundFrame DEF allVars, vars, queueVars
<1> QED
    BY <1>2, <1>5, <1>6 DEF StreamNext

\* No step takes back that a job was issued.
LEMMA IssuedGrows == SoundInv /\ [StreamNext]_allVars => issued \subseteq issued'
<1> SUFFICES ASSUME SoundInv, [StreamNext]_allVars PROVE issued \subseteq issued'
    OBVIOUS
<1>1. ASSUME NEW k, \/ Enqueue(k) \/ Dequeue(k) \/ Complete(k) \/ Fail(k) \/ Cancel(k) \/ Delete(k)
                    \/ NotFound(k)
      PROVE  issued \subseteq issued'
      BY <1>1 DEF Enqueue, Dequeue, Complete, Fail, Retry, FailForGood, Cancel, Delete, NotFound,
                  queueVars, jobVars
<1>2. ASSUME UNCHANGED jobVars PROVE issued \subseteq issued'
      BY <1>2 DEF jobVars
<1>3. CASE Client
      BY <1>1, <1>3 DEF Client
<1>4. CASE PoolStep
  <2>1. ASSUME NEW w \in Workers, Take(w) \/ Succeed(w) \/ Err(w) PROVE issued \subseteq issued'
        BY <1>1, <2>1 DEF Take, Succeed, Err
  <2>2. ASSUME NEW w \in Workers, Skip(w) \/ Step(w) \/ ReportPlan(w) \/ Leave(w)
        PROVE  issued \subseteq issued'
        BY <1>2, <2>2 DEF Skip, Step, ReportPlan, Leave, queueVars
  <2>3. ASSUME (\E k \in Jobs : Forward(k)) \/ Stop \/ WaitDone \/ CloseQueue
        PROVE  issued \subseteq issued'
        BY <1>2, <2>3 DEF Forward, ReportProgress, Stop, WaitDone, CloseQueue, Close, queueVars
  <2>4. ASSUME Cleanup PROVE issued \subseteq issued'
        BY <2>4 DEF Cleanup, CleanupOldResults
  <2> QED
      BY <1>4, <2>1, <2>2, <2>3, <2>4 DEF PoolStep
<1>5. CASE \E s \in Streams : StreamStep(s)
      BY <1>1, <1>2, <1>5, StreamActs DEF SoundInv
<1>6. CASE UNCHANGED allVars
      BY <1>2, <1>6 DEF allVars, vars, queueVars
<1> QED
    BY <1>3, <1>4, <1>5, <1>6 DEF StreamNext

LEMMA StreamJobsStep == SoundInv /\ [StreamNext]_allVars => StreamJobs'
<1> SUFFICES ASSUME SoundInv, [StreamNext]_allVars, NEW q \in Streams
             PROVE  /\ IF stream'[q].pc = "unopened" THEN stream'[q] = Unopened
                       ELSE stream'[q].job = Asks[q] /\ stream'[q].job \in issued'
                    /\ agent'[q] # "none" => Kind[q] = "chat" /\ stream'[q].pc # "unopened"
    BY DEF StreamJobs, JobOf
<1>1. issued \subseteq issued'
      BY IssuedGrows
<1>2. /\ IF stream[q].pc = "unopened" THEN stream[q] = Unopened
         ELSE stream[q].job = Asks[q] /\ stream[q].job \in issued
      /\ agent[q] # "none" => Kind[q] = "chat" /\ stream[q].pc # "unopened"
      BY DEF SoundInv, StreamJobs, JobOf
<1>3. CASE UNCHANGED streamVars
      BY <1>1, <1>2, <1>3 DEF streamVars
<1>4. ASSUME NEW s \in Streams, StreamStep(s)
      PROVE  /\ IF stream'[q].pc = "unopened" THEN stream'[q] = Unopened
                ELSE stream'[q].job = Asks[q] /\ stream'[q].job \in issued'
             /\ agent'[q] # "none" => Kind[q] = "chat" /\ stream'[q].pc # "unopened"
  <2>1. CASE q # s
    <3>1. stream'[q] = stream[q] /\ agent'[q] = agent[q]
          BY <1>4, <2>1, RequestStep DEF SoundInv
    <3> QED
        BY <1>1, <1>2, <3>1
  <2>2. CASE q = s
    <3>1. CASE stream[s].pc = "unopened"
      <4>1. PICK j \in issued : j = Asks[s] /\ stream'[s].job = j
            BY <1>4, <3>1, RequestStep DEF SoundInv
      <4>2. stream'[s].pc = "open" /\ (agent'[s] # "none" => Kind[s] = "chat")
            BY <1>4, <3>1, RequestStep DEF SoundInv
      <4> QED
          BY <1>1, <2>2, <4>1, <4>2
    <3>2. CASE stream[s].pc # "unopened"
      <4>1. /\ stream'[s].pc # "unopened"
            /\ stream'[s].job = stream[s].job
            /\ agent'[s] # "none" => agent[s] # "none"
            BY <1>4, <3>2, RequestStep DEF SoundInv
      <4> QED
          BY <1>1, <1>2, <2>2, <3>2, <4>1
    <3> QED
        BY <3>1, <3>2
  <2> QED
      BY <2>1, <2>2
<1> QED
    BY <1>3, <1>4 DEF StreamNext, allVars

LEMMA SoundInit == StreamInit => SoundInv
<1> SUFFICES ASSUME StreamInit PROVE SoundInv
    OBVIOUS
<1>1. TypeOK /\ StreamTypeOK
      BY TypeInit DEF StreamInit, StreamTypeOK, Unopened, Told, AgentState
<1>2. StreamJobs
      BY DEF StreamInit, StreamJobs, Unopened
<1>3. ASSUME NEW j \in Quiet PROVE JobSound(j)
      BY DEF Quiet, JobSound, StreamInit, Init, QueueInit, Holders, Busy, Idle, Elems, Once, Final
<1> QED
    BY <1>1, <1>2, <1>3 DEF SoundInv

LEMMA SoundStep == SoundInv /\ [StreamNext]_allVars => SoundInv'
<1> SUFFICES ASSUME SoundInv, [StreamNext]_allVars PROVE SoundInv'
    OBVIOUS
<1>1. \A j \in Quiet : JobSound(j)'
      BY SoundJob
<1> QED
    BY <1>1, StreamTypes, StreamJobsStep DEF SoundInv, Quiet

\* Streams and pool together keep what is left of the pool's invariant: types, requests
\* that keep to their job, and every job that no chat stream touches.
THEOREM StreamInvariance == StreamSpec => []SoundInv
BY SoundInit, SoundStep, PTL DEF StreamSpec

\* Chat streams complete and fail the jobs they are opened for at any time; any other
\* job is listed once at most, and held by nobody but its one worker when it runs.
THEOREM QuietOnceHolds == StreamSpec => []QuietOnce
<1>1. SoundInv => QuietOnce
  <2> SUFFICES ASSUME SoundInv, NEW j \in Quiet
               PROVE  /\ Cardinality({i \in DOMAIN pending : pending[i] = j}) <= 1
                      /\ j \in Held => \A i \in DOMAIN pending : pending[i] # j
                      /\ \A v, w \in BusySet : worker[v].job = j /\ worker[w].job = j => v = w
      BY DEF QuietOnce, Entries
  <2>1. JobSound(j)
        BY DEF SoundInv
  <2> DEFINE at == {i \in DOMAIN pending : pending[i] = j}
  <2>2. Cardinality(at) <= 1
    <3>1. CASE at = {}
          BY <3>1, FS_EmptySet
    <3>2. CASE at # {}
      <4>1. PICK i \in at : TRUE
            BY <3>2
      <4>2. at = {i}
            BY <2>1, <4>1 DEF JobSound, Once
      <4>3. Cardinality({i}) = 1
            BY FS_Singleton
      <4> HIDE DEF at
      <4> QED
          BY <4>2, <4>3
    <3> QED
        BY <3>1, <3>2
  <2>3. \A v, w \in BusySet : worker[v].job = j /\ worker[w].job = j => v = w
        BY <2>1 DEF JobSound, Holders, BusySet
  <2>4. ASSUME j \in Held, NEW i \in DOMAIN pending, pending[i] = j PROVE FALSE
    <3>1. Holders(j) # {}
          BY <2>4 DEF Held, BusySet, Holders
    <3>2. j \in Elems(pending)
          BY <2>4 DEF Elems
    <3> QED
        BY <2>1, <3>1, <3>2 DEF JobSound
  <2> QED
      BY <2>2, <2>3, <2>4
<1> QED
    BY <1>1, StreamInvariance, PTL

\* A job without a chat stream that is over stays as it is until it is deleted.
THEOREM QuietFinalHolds == StreamSpec => QuietFinalStays
<1>1. SoundInv /\ [StreamNext]_allVars =>
          \A j \in Quiet : status[j] \in Final => status'[j] \in {status[j], "absent"}
      BY SoundJob DEF Kept
<1> QED
    BY <1>1, StreamInvariance, PTL DEF StreamSpec, QuietFinalStays

-------------------------------------------------------------------------------
(* Requests that came in time *)

\* What sending and closing do to one channel.
LEMMA ChannelRecord ==
    ASSUME QueueTypeOK, NEW c \in Channels, NEW e \in Event
    PROVE  /\ Send(chan[c], e).closed = chan[c].closed
           /\ Send(chan[c], e).buf \in {chan[c].buf, Append(chan[c].buf, e)}
           /\ [Send(chan[c], e) EXCEPT !.closed = TRUE].closed = TRUE
           /\ [Send(chan[c], e) EXCEPT !.closed = TRUE].buf = Send(chan[c], e).buf
           /\ [chan[c] EXCEPT !.closed = TRUE].closed = TRUE
           /\ [chan[c] EXCEPT !.closed = TRUE].buf = chan[c].buf
<1>1. chan[c] \in ChanType /\ chan[c].closed \in BOOLEAN /\ chan[c].buf \in Seq(Event)
      BY DEF QueueTypeOK, ChanType
<1>2. Append(chan[c].buf, e) \in Seq(Event)
      BY <1>1
<1>3. Send(chan[c], e) \in ChanType
      BY <1>1, <1>2 DEF Send, ChanType
<1>4. /\ Send(chan[c], e).closed = chan[c].closed
      /\ Send(chan[c], e).buf \in {chan[c].buf, Append(chan[c].buf, e)}
      BY <1>1, <1>2 DEF Send, ChanType
<1>5. \A r \in ChanType : /\ [r EXCEPT !.closed = TRUE].closed = TRUE
                          /\ [r EXCEPT !.closed = TRUE].buf = r.buf
      BY DEF ChanType
<1> QED
    BY <1>1, <1>3, <1>4, <1>5

\* No method of the queue takes a request off a job that is not over.
LEMMA AttendedOp ==
    ASSUME QueueTypeOK, NEW s \in Channels, NEW j \in Jobs, NEW k \in Jobs, Attended(s, j),
           \/ Enqueue(k) \/ Dequeue(k) \/ Complete(k) \/ Fail(k) \/ Cancel(k) \/ Delete(k)
           \/ NotFound(k)
    PROVE  Attended(s, j)'
<1>1. ASSUME NEW e \in Event, NotifyAndClose(k, e), UNCHANGED closed,
             \A i \in Jobs : i # k => status'[i] = status[i]
      PROVE  Attended(s, j)'
  <2>1. chan'[s].closed = (s \in subscribers[k] \/ chan[s].closed)
        BY <1>1, ChannelRecord DEF NotifyAndClose, QueueTypeOK
  <2>2. j # k => subscribers'[j] = subscribers[j]
        BY <1>1 DEF NotifyAndClose, QueueTypeOK
  <2> QED
      BY <1>1, <2>1, <2>2 DEF Attended
<1>2. /\ Progress("failed") \in Event
      /\ Progress("cancelled") \in Event
      /\ [stage |-> "completed", data |-> TRUE] \in Event
      BY EventTypes DEF Stage
<1>3. CASE Complete(k) \/ FailForGood(k) \/ Cancel(k)
      BY <1>1, <1>2, <1>3 DEF Complete, FailForGood, Cancel, QueueTypeOK
<1>4. CASE Delete(k)
  <2>1. chan'[s].closed = (s \in subscribers[k] \/ chan[s].closed)
    <3>1. \E e \in Event : TRUE
          BY <1>2
    <3> QED
        BY <1>4, <3>1, ChannelRecord DEF Delete, CloseSubscribers, QueueTypeOK
  <2>2. j # k => subscribers'[j] = subscribers[j] /\ status'[j] = status[j]
        BY <1>4 DEF Delete, CloseSubscribers, QueueTypeOK
  <2> QED
      BY <1>4, <2>1, <2>2 DEF Delete, Attended
<1>5. CASE Enqueue(k) \/ Dequeue(k) \/ Retry(k) \/ NotFound(k)
  <2>1. UNCHANGED <<chanVars, closed>>
        BY <1>5 DEF Enqueue, Dequeue, Retry, NotFound, queueVars
  <2>2. status'[j] \in {status[j], "pending", "processing"}
        BY <1>5 DEF Enqueue, Dequeue, Retry, NotFound, queueVars, jobVars, QueueTypeOK
  <2> QED
      BY <2>1, <2>2 DEF Attended, chanVars
<1> QED
    BY <1>3, <1>4, <1>5 DEF Fail

LEMMA AttendedStep ==
    ASSUME ~SchedulerOn, SoundInv, [StreamNext]_allVars, NEW s \in Streams, NEW j \in Jobs,
           Attended(s, j)
    PROVE  Attended(s, j)'
<1>1. QueueTypeOK /\ s \in Channels
      BY StreamConstants DEF SoundInv, TypeOK
<1>2. ASSUME UNCHANGED <<chan, subscribers, status, closed>> PROVE Attended(s, j)'
      BY <1>2 DEF Attended
<1>3. ASSUME NEW w \in Workers, Take(w) PROVE Attended(s, j)'
      BY <1>1, <1>3, AttendedOp DEF Take
<1>4. ASSUME NEW w \in Workers, Succeed(w) \/ Err(w) PROVE Attended(s, j)'
  <2>1. w \in BusySet
        BY <1>4 DEF Succeed, Err, Running, BusySet, Busy
  <2>2. worker[w].job \in Jobs
        BY <2>1, WorkerStates DEF Held, SoundInv
  <2> QED
      BY <1>1, <1>4, <2>2, AttendedOp DEF Succeed, Err
<1>5. ASSUME NEW w \in Workers, Skip(w) \/ Step(w) \/ ReportPlan(w) \/ Leave(w)
      PROVE  Attended(s, j)'
      BY <1>2, <1>5 DEF Skip, Step, ReportPlan, Leave, queueVars, jobVars, chanVars
<1>6. ASSUME NEW k \in Jobs, Forward(k) PROVE Attended(s, j)'
  <2>1. Progress(Head(fwd[k])) \in Event
    <3>1. Head(fwd[k]) \in Stage
          BY <1>6, HeadTailProperties DEF Forward, SoundInv, TypeOK
    <3> QED
        BY <3>1, EventTypes
  <2>2. chan'[s].closed = chan[s].closed
        BY <1>1, <1>6, <2>1, ChannelRecord DEF Forward, ReportProgress, Notify
  <2> QED
      BY <1>6, <2>2 DEF Forward, ReportProgress, Notify, jobVars, Attended
<1>7. CASE Stop \/ WaitDone
      BY <1>2, <1>7 DEF Stop, WaitDone, queueVars, jobVars, chanVars
<1>8. CASE CloseQueue
  <2>1. \E e \in Event : TRUE
        BY EventTypes DEF Stage
  <2>2. chan'[s].closed = (chan[s].closed \/ \E k \in Jobs : s \in subscribers[k])
        BY <1>1, <1>8, <2>1, ChannelRecord DEF CloseQueue, Close, CloseSubscribers, QueueTypeOK
  <2> QED
      BY <2>2 DEF Attended
<1>9. CASE Client
      BY <1>1, <1>9, AttendedOp DEF Client
<1>10. ASSUME NEW r \in Streams, StreamStep(r) PROVE Attended(s, j)'
  <2>1. CASE \E k \in Jobs : OpenStream(r, k)
        BY <1>1, <2>1 DEF OpenStream, Subscribe, jobVars, Attended, QueueTypeOK
  <2>2. CASE ShowProgress(r) \/ ShowOutcome(r)
    <3>1. /\ chan' = [chan EXCEPT ![r].buf = Tail(@)]
          /\ UNCHANGED <<jobVars, subscribers, closed>>
          BY <2>2 DEF ShowProgress, ShowOutcome, Pop
    <3>2. chan \in [Channels -> ChanType] /\ r \in Channels
          BY <1>1, StreamConstants DEF QueueTypeOK, ChanType
    <3>3. chan'[s].closed = chan[s].closed
      <4>1. CASE s = r
        <5>1. chan'[s] = [chan[s] EXCEPT !.buf = Tail(chan[s].buf)]
              BY <3>1, <3>2, <4>1
        <5>2. chan[s] \in ChanType
              BY <1>1, <3>2
        <5> QED
            BY <5>1, <5>2 DEF ChanType
      <4>2. CASE s # r
            BY <1>1, <3>1, <3>2, <4>2
      <4> QED
          BY <4>1, <4>2
    <3> QED
        BY <3>1, <3>3 DEF Attended, jobVars
  <2>3. CASE SeeClosed(r) \/ Timeout(r) \/ Disconnect(r) \/ AgentEnds(r)
        BY <1>2, <2>3 DEF SeeClosed, Timeout, Disconnect, AgentEnds, vars, queueVars, jobVars, chanVars
  <2>4. CASE AgentFails(r) \/ ChatComplete(r) \/ ChatError(r)
    <3>1. JobOf(r) \in Jobs
      <4>1. agent[r] # "none"
            BY <2>4 DEF AgentFails, ChatComplete, ChatError
      <4> QED
          BY <4>1, AskedJob DEF SoundInv, StreamJobs
    <3> QED
        BY <1>1, <2>4, <3>1, AttendedOp DEF AgentFails, ChatComplete, ChatError
  <2> QED
      BY <1>10, <2>1, <2>2, <2>3, <2>4 DEF StreamStep
<1>11. CASE UNCHANGED allVars
       BY <1>2, <1>11 DEF allVars, vars, queueVars, jobVars, chanVars
<1>12. ~Cleanup
       BY DEF Cleanup
<1> QED
    BY <1>3, <1>4, <1>5, <1>6, <1>7, <1>8, <1>9, <1>10, <1>11, <1>12 DEF StreamNext, PoolStep

LEMMA EarlyStep ==
    ASSUME ~SchedulerOn, SoundInv, EarlyAttended, [StreamNext]_allVars
    PROVE  EarlyAttended'
<1> DEFINE After(r, j) == \/ chan'[r].closed
                         \/ /\ r \in subscribers'[j] /\ ~closed'
                            /\ status'[j] \in {"pending", "processing"}
<1> SUFFICES ASSUME NEW r \in Streams, stream'[r].early
             PROVE  After(r, stream'[r].job)
    BY DEF EarlyAttended, Attended, JobOf
<1>1. ASSUME stream'[r].early = stream[r].early, stream'[r].job = stream[r].job
      PROVE  After(r, stream'[r].job)
  <2>1. stream[r].early /\ stream[r].pc # "unopened"
        BY <1>1 DEF SoundInv, StreamJobs, Unopened
  <2>2. PICK j \in Jobs : j = stream[r].job /\ Attended(r, j)
        BY <2>1 DEF SoundInv, StreamJobs, EarlyAttended, JobOf, TypeOK, QueueTypeOK
  <2>3. Attended(r, j)'
        BY <2>2, AttendedStep
  <2> QED
      BY <1>1, <2>2, <2>3 DEF Attended
<1>2. CASE UNCHANGED streamVars
      BY <1>1, <1>2 DEF streamVars
<1>3. ASSUME NEW s \in Streams, StreamStep(s) PROVE After(r, stream'[r].job)
  <2>1. CASE r # s
    <3>1. stream'[r] = stream[r]
          BY <1>3, <2>1, RequestStep DEF SoundInv
    <3> QED
        BY <1>1, <3>1
  <2>2. CASE r = s
    <3>1. CASE stream[s].pc # "unopened"
      <4>1. stream'[s].job = stream[s].job /\ stream'[s].early = stream[s].early
            BY <1>3, <3>1, RequestStep DEF SoundInv
      <4> QED
          BY <1>1, <2>2, <4>1
    <3>2. CASE stream[s].pc = "unopened"
      <4>1. PICK j \in issued : OpenStream(s, j) /\ stream'[s].job = j
            BY <1>3, <3>2, RequestStep DEF SoundInv
      <4>2. ~closed /\ status[j] \in {"pending", "processing"}
            BY <1>3, <2>2, <3>2, <4>1, RequestStep DEF SoundInv
      <4>3. s \in subscribers'[j] /\ UNCHANGED <<status, closed>>
            BY <4>1 DEF OpenStream, Subscribe, jobVars, SoundInv, TypeOK, QueueTypeOK
      <4> QED
          BY <2>2, <4>1, <4>2, <4>3
    <3> QED
        BY <3>1, <3>2
  <2> QED
      BY <2>1, <2>2
<1> QED
    BY <1>2, <1>3 DEF StreamNext, allVars

\* In a server without a scheduler, as services.go builds it, nobody who subscribed
\* before the job was over is left with an open channel when it is: the way out of the
\* job closes every channel that is registered for it.
THEOREM ChannelsClose == ~SchedulerOn /\ StreamSpec => []ChannelsSound
<1> SUFFICES ASSUME ~SchedulerOn PROVE StreamSpec => []ChannelsSound
    OBVIOUS
<1>1. SoundInv /\ EarlyAttended => ChannelsSound
      BY DEF SoundInv, EarlyAttended, Attended, ChannelsSound, EarlyChannelClosed
<1>2. StreamInit => EarlyAttended
      BY DEF StreamInit, EarlyAttended, Unopened
<1>3. SoundInv /\ EarlyAttended /\ [StreamNext]_allVars => EarlyAttended'
      BY EarlyStep
<1> QED
    BY <1>1, <1>2, <1>3, StreamInvariance, PTL DEF StreamSpec

-------------------------------------------------------------------------------
(* What clients are told *)

\* No run of a job reports "failed"; what waits to be forwarded stays so.
LEMMA FwdStep == SoundInv /\ FwdStages /\ [StreamNext]_allVars => FwdStages'
<1> SUFFICES ASSUME SoundInv, FwdStages, [StreamNext]_allVars PROVE FwdStages'
    OBVIOUS
<1>1. ASSUME UNCHANGED fwd PROVE FwdStages'
      BY <1>1 DEF FwdStages
<1>2. fwd \in [Jobs -> Seq(Stage)]
      BY DEF SoundInv, TypeOK
<1>3. ASSUME NEW w \in Workers, NEW stage \in {"processing", "completed"}, Emit(w, stage)
      PROVE  FwdStages'
  <2> SUFFICES ASSUME NEW j \in Jobs, NEW i \in DOMAIN fwd'[j] PROVE fwd'[j][i] # "failed"
      BY DEF FwdStages
  <2>1. CASE fwd'[j] = fwd[j]
        BY <2>1 DEF FwdStages
  <2>2. CASE fwd'[j] = Append(fwd[j], stage)
    <3>1. fwd[j] \in Seq(Stage)
          BY <1>2
    <3>2. \/ i \in DOMAIN fwd[j] /\ fwd'[j][i] = fwd[j][i]
          \/ fwd'[j][i] = stage
          BY <2>2, <3>1
    <3> QED
        BY <3>2 DEF FwdStages
  <2>3. fwd'[j] = fwd[j] \/ fwd'[j] = Append(fwd[j], stage)
        BY <1>2, <1>3 DEF Emit
  <2> QED
      BY <2>1, <2>2, <2>3
<1>4. ASSUME NEW k \in Jobs, Forward(k) PROVE FwdStages'
  <2> SUFFICES ASSUME NEW j \in Jobs, NEW i \in DOMAIN fwd'[j] PROVE fwd'[j][i] # "failed"
      BY DEF FwdStages
  <2>1. fwd[k] \in Seq(Stage) /\ fwd[k] # <<>>
        BY <1>2, <1>4 DEF Forward
  <2>2. CASE j = k
    <3>1. fwd'[j] = Tail(fwd[k])
          BY <1>2, <1>4, <2>2 DEF Forward
    <3>2. i + 1 \in DOMAIN fwd[k] /\ fwd'[j][i] = fwd[k][i + 1]
          BY <2>1, <3>1, HeadTailProperties
    <3> QED
        BY <3>2 DEF FwdStages
  <2>3. CASE j # k
        BY <1>2, <1>4, <2>3 DEF Forward, FwdStages
  <2> QED
      BY <2>2, <2>3
<1>5. ASSUME NEW w \in Workers, Step(w) \/ ReportPlan(w) PROVE FwdStages'
      BY <1>3, <1>5 DEF Step, ReportPlan
<1>6. CASE \E s \in Streams : StreamStep(s)
      BY <1>1, <1>6, StreamActs DEF SoundInv, poolVars
<1>7. CASE UNCHANGED allVars
      BY <1>1, <1>7 DEF allVars, vars, poolVars
<1>8. CASE Client \/ Cleanup \/ CloseQueue \/ Stop \/ WaitDone
      BY <1>1, <1>8 DEF Client, Cleanup, CloseQueue, Stop, WaitDone, poolVars
<1>9. ASSUME NEW w \in Workers, Take(w) \/ Skip(w) \/ Succeed(w) \/ Err(w) \/ Leave(w)
      PROVE  FwdStages'
      BY <1>1, <1>9 DEF Take, Skip, Succeed, Err, Leave
<1> QED
    BY <1>4, <1>5, <1>6, <1>7, <1>8, <1>9 DEF StreamNext, PoolStep

\* What a step does to the channel r: nothing, or its request reads an event, or one is
\* added that is true of the job the channel is registered for.
Heard(r) ==
    /\ \A j \in Jobs : subscribers'[j] \subseteq subscribers[j]
    /\ \/ chan'[r].buf = chan[r].buf
       \/ \E k \in Jobs, e \in Event : /\ r \in subscribers[k]
                                      /\ chan'[r].buf = Append(chan[r].buf, e)
                                      /\ Bears(status'[k], e)

LEMMA HeardOp ==
    ASSUME QueueTypeOK, NEW r \in Channels, NEW k \in Jobs,
           \/ Enqueue(k) \/ Dequeue(k) \/ Complete(k) \/ Fail(k) \/ Cancel(k) \/ Delete(k)
           \/ NotFound(k)
    PROVE  Heard(r)
<1>1. ASSUME NEW e \in Event, NotifyAndClose(k, e), Bears(status'[k], e)
      PROVE  Heard(r)
  <2>1. \A j \in Jobs : subscribers'[j] \subseteq subscribers[j]
        BY <1>1 DEF NotifyAndClose, QueueTypeOK
  <2>2. chan'[r] = IF r \in subscribers[k] THEN [Send(chan[r], e) EXCEPT !.closed = TRUE] ELSE chan[r]
        BY <1>1 DEF NotifyAndClose
  <2>3. /\ [Send(chan[r], e) EXCEPT !.closed = TRUE].buf = Send(chan[r], e).buf
        /\ Send(chan[r], e).buf \in {chan[r].buf, Append(chan[r].buf, e)}
        BY <1>1, ChannelRecord
  <2>4. \/ chan'[r].buf = chan[r].buf
        \/ r \in subscribers[k] /\ chan'[r].buf = Append(chan[r].buf, e)
        BY <2>2, <2>3
  <2> QED
      BY <1>1, <2>1, <2>4 DEF Heard
<1>2. /\ Progress("failed") \in Event
      /\ Progress("cancelled") \in Event
      /\ [stage |-> "completed", data |-> TRUE] \in Event
      BY EventTypes DEF Stage
<1>3. CASE Complete(k)
  <2>1. Bears(status'[k], [stage |-> "completed", data |-> TRUE])
        BY <1>3 DEF Complete, Bears, QueueTypeOK
  <2> QED
      BY <1>1, <1>2, <1>3, <2>1 DEF Complete
<1>4. CASE FailForGood(k)
  <2>1. Bears(status'[k], Progress("failed"))
        BY <1>4 DEF FailForGood, Bears, Progress, QueueTypeOK
  <2> QED
      BY <1>1, <1>2, <1>4, <2>1 DEF FailForGood
<1>5. CASE Cancel(k)
  <2>1. Bears(status'[k], Progress("cancelled"))
        BY DEF Bears, Progress
  <2> QED
      BY <1>1, <1>2, <1>5, <2>1 DEF Cancel
<1>6. CASE Delete(k)
  <2>1. \E e \in Event : TRUE
        BY <1>2
  <2> QED
      BY <1>6, <2>1, ChannelRecord DEF Delete, CloseSubscribers, Heard, QueueTypeOK
<1>7. CASE Enqueue(k) \/ Dequeue(k) \/ Retry(k) \/ NotFound(k)
      BY <1>7 DEF Enqueue, Dequeue, Retry, NotFound, queueVars, chanVars, Heard
<1> QED
    BY <1>3, <1>4, <1>5, <1>6, <1>7 DEF Fail

\* The pool and its clients.
LEMMA HeardPool ==
    ASSUME SoundInv, FwdStages, PoolStep \/ Client, NEW r \in Streams
    PROVE  Heard(r)
<1>1. QueueTypeOK /\ r \in Channels
      BY StreamConstants DEF SoundInv, TypeOK
<1>2. ASSUME UNCHANGED chanVars PROVE Heard(r)
      BY <1>2 DEF chanVars, Heard
<1>3. ASSUME NEW w \in Workers, Take(w) PROVE Heard(r)
      BY <1>1, <1>3, HeardOp DEF Take
<1>4. ASSUME NEW w \in Workers, Succeed(w) \/ Err(w) PROVE Heard(r)
  <2>1. w \in BusySet
        BY <1>4 DEF Succeed, Err, Running, BusySet, Busy
  <2>2. worker[w].job \in Jobs
        BY <2>1, WorkerStates DEF Held, SoundInv
  <2> QED
      BY <1>1, <1>4, <2>2, HeardOp DEF Succeed, Err
<1>5. ASSUME NEW w \in Workers, Skip(w) \/ Step(w) \/ ReportPlan(w) \/ Leave(w)
      PROVE  Heard(r)
      BY <1>2, <1>5 DEF Skip, Step, ReportPlan, Leave, queueVars
<1>6. ASSUME NEW k \in Jobs, Forward(k) PROVE Heard(r)
  <2>1. Head(fwd[k]) \in Stage /\ Head(fwd[k]) # "failed"
    <3>1. fwd[k] \in Seq(Stage) /\ fwd[k] # <<>>
          BY <1>6 DEF Forward, SoundInv, TypeOK
    <3>2. 1 \in DOMAIN fwd[k] /\ Head(fwd[k]) = fwd[k][1] /\ Head(fwd[k]) \in Stage
          BY <3>1, HeadTailProperties
    <3> QED
        BY <3>2 DEF FwdStages
  <2> DEFINE e == Progress(Head(fwd[k]))
  <2>2. e \in Event /\ Bears(status'[k], e)
        BY <2>1, EventTypes DEF Bears, Progress
  <2>3. Notify(k, e)
        BY <1>6 DEF Forward, ReportProgress
  <2> HIDE DEF e
  <2> QED
      BY <1>1, <2>2, <2>3, ChannelRecord DEF Notify, Heard
<1>7. CASE Stop \/ WaitDone
      BY <1>2, <1>7 DEF Stop, WaitDone, queueVars
<1>8. CASE CloseQueue
  <2>1. \E e \in Event : TRUE
        BY EventTypes DEF Stage
  <2> QED
      BY <1>1, <1>8, <2>1, ChannelRecord DEF CloseQueue, Close, CloseSubscribers, Heard, QueueTypeOK
<1>9. CASE Cleanup
      BY <1>2, <1>9 DEF Cleanup, CleanupOldResults
<1>10. CASE Client
       BY <1>1, <1>10, HeardOp DEF Client
<1> QED
    BY <1>3, <1>4, <1>5, <1>6, <1>7, <1>8, <1>9, <1>10 DEF PoolStep

\* Any step.
LEMMA ChannelStep ==
    ASSUME SoundInv, FwdStages, [StreamNext]_allVars, NEW r \in Streams
    PROVE  \/ Heard(r)
           \/ /\ stream[r].pc # "unopened" /\ chan[r].buf # <<>>
              /\ chan'[r].buf = Tail(chan[r].buf) /\ UNCHANGED subscribers
           \/ /\ UNCHANGED chan
              /\ \E s \in Streams, k \in Jobs : OpenStream(s, k)
<1>1. QueueTypeOK /\ r \in Channels
      BY StreamConstants DEF SoundInv, TypeOK
<1>2. ASSUME UNCHANGED chanVars PROVE Heard(r)
      BY <1>2 DEF chanVars, Heard
<1>3. CASE PoolStep \/ Client
      BY <1>3, HeardPool
<1>4. CASE UNCHANGED allVars
      BY <1>2, <1>4 DEF allVars, vars, queueVars
<1>5. ASSUME NEW s \in Streams, NEW k \in Jobs, OpenStream(s, k) PROVE UNCHANGED chan
      BY <1>5 DEF OpenStream, Subscribe
<1>6. ASSUME NEW s \in Streams, ShowProgress(s) \/ ShowOutcome(s)
      PROVE  \/ Heard(r)
             \/ /\ stream[r].pc # "unopened" /\ chan[r].buf # <<>>
                /\ chan'[r].buf = Tail(chan[r].buf) /\ UNCHANGED subscribers
  <2>1. /\ stream[s].pc # "unopened" /\ chan[s].buf # <<>>
        /\ chan' = [chan EXCEPT ![s].buf = Tail(@)] /\ UNCHANGED subscribers
        BY <1>6 DEF ShowProgress, ShowOutcome, Pop, Open
  <2>2. chan \in [Channels -> ChanType] /\ s \in Channels
        BY <1>1, StreamConstants DEF QueueTypeOK, ChanType
  <2>3. CASE s = r
    <3>1. chan'[r] = [chan[r] EXCEPT !.buf = Tail(chan[r].buf)] /\ chan[r] \in ChanType
          BY <1>1, <2>1, <2>2, <2>3
    <3>2. chan'[r].buf = Tail(chan[r].buf)
          BY <3>1 DEF ChanType
    <3> QED
        BY <2>1, <2>3, <3>2
  <2>4. CASE s # r
        BY <1>1, <2>1, <2>2, <2>4 DEF Heard
  <2> QED
      BY <2>3, <2>4
<1>7. ASSUME NEW s \in Streams, SeeClosed(s) \/ Timeout(s) \/ Disconnect(s) \/ AgentEnds(s)
      PROVE  Heard(r)
      BY <1>2, <1>7 DEF SeeClosed, Timeout, Disconnect, AgentEnds, vars, queueVars
<1>8. ASSUME NEW s \in Streams, AgentFails(s) \/ ChatComplete(s) \/ ChatError(s)
      PROVE  Heard(r)
  <2>1. JobOf(s) \in Jobs
    <3>1. agent[s] # "none"
          BY <1>8 DEF AgentFails, ChatComplete, ChatError
    <3> QED
        BY <3>1, AskedJob DEF SoundInv, StreamJobs
  <2> QED
      BY <1>1, <1>8, <2>1, HeardOp DEF AgentFails, ChatComplete, ChatError
<1> QED
    BY <1>3, <1>4, <1>5, <1>6, <1>7, <1>8 DEF StreamNext, StreamStep

\* A channel is registered for the job of its request only, and empty until then.
LEMMA OwnStep ==
    ASSUME SoundInv, FwdStages, OwnChannel, [StreamNext]_allVars
    PROVE  OwnChannel'
<1> SUFFICES ASSUME NEW r \in Streams
             PROVE  /\ stream'[r].pc = "unopened" => chan'[r].buf = <<>>
                    /\ \A j \in Jobs : r \in subscribers'[j] => stream'[r].pc # "unopened" /\ stream'[r].job = j
    BY DEF OwnChannel, JobOf
<1>1. /\ stream[r].pc = "unopened" => chan[r].buf = <<>>
      /\ \A j \in Jobs : r \in subscribers[j] => stream[r].pc # "unopened" /\ stream[r].job = j
      BY DEF OwnChannel, JobOf
<1>2. \/ stream'[r].pc # "unopened" /\ stream'[r].job = stream[r].job /\ stream[r].pc # "unopened"
      \/ stream'[r] = stream[r]
      \/ \E j \in Jobs : OpenStream(r, j) /\ stream'[r].job = j /\ stream'[r].pc = "open" /\ stream[r].pc = "unopened"
  <2>1. CASE UNCHANGED streamVars
        BY <2>1 DEF streamVars
  <2>2. ASSUME NEW s \in Streams, StreamStep(s), s # r PROVE stream'[r] = stream[r]
        BY <2>2, RequestStep DEF SoundInv
  <2>3. CASE StreamStep(r)
        BY <2>3, RequestStep DEF SoundInv, TypeOK, QueueTypeOK
  <2> QED
      BY <2>1, <2>2, <2>3 DEF StreamNext, allVars
<1>3. CASE Heard(r)
      BY <1>1, <1>2, <1>3 DEF Heard
<1>4. CASE stream[r].pc # "unopened" /\ UNCHANGED subscribers
      BY <1>1, <1>2, <1>4
<1>5. CASE UNCHANGED chan /\ \E s \in Streams, k \in Jobs : OpenStream(s, k)
  <2>1. PICK s \in Streams, k \in Jobs : OpenStream(s, k)
        BY <1>5
  <2>2. /\ \A j \in Jobs : subscribers'[j] = IF j = k THEN subscribers[j] \cup {s} ELSE subscribers[j]
        BY <2>1 DEF OpenStream, Subscribe, SoundInv, TypeOK, QueueTypeOK
  <2>3. CASE s = r
    <3>1. stream[r].pc = "unopened" /\ stream'[r].pc = "open" /\ stream'[r].job = k
          BY <2>1, <2>3, StreamConstants DEF OpenStream, SoundInv, StreamTypeOK
    <3> QED
        BY <1>1, <2>2, <2>3, <3>1
  <2>4. CASE s # r
    <3>1. stream'[r] = stream[r]
          BY <2>1, <2>4 DEF OpenStream, SoundInv, StreamTypeOK
    <3> QED
        BY <1>1, <1>5, <2>2, <2>4, <3>1
  <2> QED
      BY <2>3, <2>4
<1> QED
    BY <1>3, <1>4, <1>5, ChannelStep

\* An event that was true of a quiet job stays true of it.
LEMMA BearsStays ==
    ASSUME SoundInv, [StreamNext]_allVars, NEW j \in Quiet \cap issued, NEW e,
           Bears(status[j], e)
    PROVE  Bears(status'[j], e)
<1>1. Kept(j)
      BY SoundJob
<1> QED
    BY <1>1 DEF Kept, Bears, Final

\* A request for a quiet job is open, or was, and its job is issued.
LEMMA QuietJob ==
    ASSUME SoundInv, NEW s \in Streams, JobOf(s) \in Quiet
    PROVE  stream[s].pc # "unopened" /\ JobOf(s) \in Quiet \cap issued
<1>1. NoJob \notin Quiet
      BY QueueConstants DEF Quiet
<1> QED
    BY <1>1 DEF SoundInv, StreamJobs, Unopened, JobOf

LEMMA EventsStep ==
    ASSUME SoundInv, FwdStages, OwnChannel, EventsTrue, [StreamNext]_allVars
    PROVE  EventsTrue'
<1> SUFFICES ASSUME NEW r \in Streams, stream'[r].pc # "unopened", stream'[r].job \in Quiet,
                    NEW i \in DOMAIN chan'[r].buf
             PROVE  Bears(status'[stream'[r].job], chan'[r].buf[i])
    BY DEF EventsTrue, JobOf
<1>0. chan[r].buf \in Seq(Event)
  <2>1. chan[r] \in ChanType
        BY StreamConstants DEF SoundInv, TypeOK, QueueTypeOK, ChanType
  <2> QED
      BY <2>1 DEF ChanType
<1>1. CASE stream[r].pc = "unopened"
  <2>1. chan[r].buf = <<>> /\ \A k \in Jobs : r \notin subscribers[k]
        BY <1>1 DEF OwnChannel
  <2>2. chan'[r].buf = <<>>
        BY <1>1, <2>1, ChannelStep DEF Heard
  <2> QED
      BY <2>2
<1>2. CASE stream[r].pc # "unopened"
  <2> DEFINE j == stream[r].job
  <2>1. stream'[r].job = j
    <3>1. CASE UNCHANGED streamVars
          BY <3>1 DEF streamVars
    <3>2. ASSUME NEW s \in Streams, StreamStep(s), s # r PROVE stream'[r] = stream[r]
          BY <3>2, RequestStep DEF SoundInv
    <3>3. CASE StreamStep(r)
          BY <1>2, <3>3, RequestStep DEF SoundInv
    <3> QED
        BY <3>1, <3>2, <3>3 DEF StreamNext, allVars
  <2>2. j \in Quiet \cap issued
        BY <1>2, <2>1, QuietJob DEF JobOf
  <2>3. \A n \in DOMAIN chan[r].buf : Bears(status'[j], chan[r].buf[n])
    <3>1. \A n \in DOMAIN chan[r].buf : Bears(status[j], chan[r].buf[n])
          BY <1>2, <2>2 DEF EventsTrue, JobOf
    <3> QED
        BY <2>2, <3>1, BearsStays
  <2> HIDE DEF j
  <2>4. CASE chan'[r].buf = chan[r].buf
        BY <2>1, <2>3, <2>4
  <2>5. ASSUME NEW k \in Jobs, NEW e \in Event, r \in subscribers[k],
               chan'[r].buf = Append(chan[r].buf, e), Bears(status'[k], e)
        PROVE  Bears(status'[stream'[r].job], chan'[r].buf[i])
    <3>1. k = j
          BY <2>5 DEF OwnChannel, JobOf, j
    <3>2. \/ i \in DOMAIN chan[r].buf /\ chan'[r].buf[i] = chan[r].buf[i]
          \/ chan'[r].buf[i] = e
          BY <1>0, <2>5
    <3> QED
        BY <2>1, <2>3, <2>5, <3>1, <3>2
  <2>6. CASE chan[r].buf # <<>> /\ chan'[r].buf = Tail(chan[r].buf)
    <3>1. i + 1 \in DOMAIN chan[r].buf /\ chan'[r].buf[i] = chan[r].buf[i + 1]
          BY <1>0, <2>6, HeadTailProperties
    <3> QED
        BY <2>1, <2>3, <3>1
  <2> QED
      BY <2>4, <2>5, <2>6, ChannelStep DEF Heard
<1> QED
    BY <1>1, <1>2

LEMMA ToldStep ==
    ASSUME SoundInv, EventsTrue, ToldTheTruth, [StreamNext]_allVars
    PROVE  ToldTheTruth'
<1> DEFINE True(r, told, st) ==
              /\ Kind[r] # "chat" /\ told = "completed" => st \in {"completed", "absent"}
              /\ Kind[r] \in {"plan", "market"} /\ told = "failed" => st \in {"failed", "absent"}
<1> SUFFICES ASSUME NEW r \in Streams, stream'[r].job \in Quiet
             PROVE  True(r, stream'[r].told, status'[stream'[r].job])
    BY DEF ToldTheTruth, JobOf
<1>1. JobOf(r) \in Quiet => True(r, stream[r].told, status[stream[r].job])
      BY DEF ToldTheTruth, JobOf
<1>2. ASSUME stream'[r].told = stream[r].told, stream'[r].job = stream[r].job
      PROVE  True(r, stream'[r].told, status'[stream'[r].job])
  <2>1. CASE Kind[r] = "chat" \/ stream[r].told \notin {"completed", "failed"}
        BY <1>2, <2>1
  <2>2. CASE Kind[r] # "chat" /\ stream[r].told \in {"completed", "failed"}
    <3>2. JobOf(r) \in Quiet /\ JobOf(r) \in issued
          BY <1>2, QuietJob DEF JobOf
    <3>3. Kept(JobOf(r))
          BY <3>2, SoundJob
    <3> QED
        BY <1>1, <1>2, <3>2, <3>3 DEF Kept, Final, JobOf
  <2> QED
      BY <2>1, <2>2
<1>3. CASE UNCHANGED streamVars
      BY <1>2, <1>3 DEF streamVars
<1>4. ASSUME NEW s \in Streams, StreamStep(s), s # r
      PROVE  True(r, stream'[r].told, status'[stream'[r].job])
      BY <1>2, <1>4, RequestStep DEF SoundInv
<1>5. ASSUME StreamStep(r)
      PROVE  True(r, stream'[r].told, status'[stream'[r].job])
  <2>1. CASE ShowOutcome(r) /\ Kind[r] # "chat"
    <3> DEFINE e == Head(chan[r].buf)
    <3>1. stream[r].pc # "unopened" /\ chan[r].buf # <<>> /\ UNCHANGED jobVars
          BY <2>1 DEF ShowOutcome, Pop, Open
    <3>2. e = chan[r].buf[1] /\ 1 \in DOMAIN chan[r].buf
      <4>1. chan[r] \in ChanType
            BY StreamConstants DEF SoundInv, TypeOK, QueueTypeOK, ChanType
      <4>2. chan[r].buf \in Seq(Event)
            BY <4>1 DEF ChanType
      <4> QED
          BY <3>1, <4>2, HeadTailProperties
    <3> HIDE DEF e
    <3>4. PICK told \in Told :
              /\ EndStream(r, told)
              /\ e.stage \in Final
              /\ told = IF e.stage = "failed" THEN "failed"
                        ELSE IF e.data THEN "completed" ELSE "completed without result"
          BY <2>1 DEF ShowOutcome, EndsAt, Told, e
    <3>5. stream'[r].told = told /\ stream'[r].job = stream[r].job
          BY <3>4, EndsRequest DEF SoundInv
    <3>3. Bears(status[JobOf(r)], e)
          BY <3>1, <3>2, <3>5 DEF EventsTrue, JobOf
    <3> QED
        BY <3>1, <3>3, <3>4, <3>5 DEF Bears, Final, JobOf, jobVars
  <2>2. CASE SeeClosed(r)
    <3>1. stream[r].pc # "unopened" /\ Kind[r] # "chat" /\ UNCHANGED vars
          BY <2>2 DEF SeeClosed, Open
    <3>2. PICK told \in Told :
              /\ EndStream(r, told)
              /\ told = "completed" => results[JobOf(r)] = "completed"
              /\ told = "failed" => Kind[r] = "memo"
          BY <2>2 DEF SeeClosed, Told
    <3>3. stream'[r].told = told /\ stream'[r].job = stream[r].job
          BY <3>2, EndsRequest DEF SoundInv
    <3>4. JobSound(JobOf(r))
          BY <3>3 DEF SoundInv, JobOf
    <3>5. results[JobOf(r)] = "completed" => status[JobOf(r)] = "completed"
          BY <3>4 DEF JobSound
    <3> QED
        BY <3>1, <3>2, <3>3, <3>5 DEF JobOf, vars, queueVars, jobVars
  <2>3. CASE stream'[r].told \in {"timed out", "silence", "nothing"} \/ Kind[r] = "chat"
        BY <2>3
  <2>4. CASE stream'[r].told = stream[r].told /\ stream'[r].job = stream[r].job
        BY <1>2, <2>4
  <2> QED
      BY <1>5, <2>1, <2>2, <2>3, <2>4, RequestStep DEF SoundInv
<1> QED
    BY <1>3, <1>4, <1>5 DEF StreamNext, allVars

\* No plan or market client is told of a success or a failure that did not happen, and
\* no memo client of a success: events that wait in a channel, are forwarded late or are
\* dropped never speak of another outcome than the one the queue keeps.
THEOREM TruthHolds == StreamSpec => []ToldTheTruth
<1>1. StreamInit => TruthInv
  <2> SUFFICES ASSUME StreamInit PROVE TruthInv
      OBVIOUS
  <2>1. \A s \in Streams : chan[s].buf = <<>> /\ stream[s].told = "nothing" /\ stream[s].pc = "unopened"
        BY StreamConstants DEF StreamInit, Init, QueueInit, Unopened
  <2>2. \A j \in Jobs : subscribers[j] = {} /\ fwd[j] = <<>>
        BY DEF StreamInit, Init, QueueInit
  <2> QED
      BY <2>1, <2>2 DEF TruthInv, FwdStages, OwnChannel, EventsTrue, ToldTheTruth
<1>2. SoundInv /\ TruthInv /\ [StreamNext]_allVars => TruthInv'
  <2> SUFFICES ASSUME SoundInv, TruthInv, [StreamNext]_allVars PROVE TruthInv'
      OBVIOUS
  <2> USE DEF TruthInv
  <2>1. FwdStages'
        BY FwdStep
  <2>2. OwnChannel'
        BY OwnStep
  <2>3. EventsTrue'
        BY EventsStep
  <2>4. ToldTheTruth'
        BY ToldStep
  <2> QED
      BY <2>1, <2>2, <2>3, <2>4
<1>3. TruthInv => ToldTheTruth
      BY DEF TruthInv
<1> QED
    BY <1>1, <1>2, <1>3, StreamInvariance, PTL DEF StreamSpec

\* A request takes one event out of its channel and closes nothing; what chat requests
\* do to their jobs, they do by methods of the queue.
LEMMA StreamOpenStep ==
    ASSUME SoundInv, RegisteredOpen, [StreamNext]_allVars
    PROVE  RegisteredOpen'
<1>1. TypeOK /\ QueueTypeOK /\ StreamTypeOK /\ StreamJobs
      BY DEF SoundInv, TypeOK
<1>2. CASE PoolStep \/ Client \/ UNCHANGED allVars
      BY <1>1, <1>2, OpenStep DEF Next, allVars
<1>3. ASSUME NEW s \in Streams, StreamStep(s) PROVE RegisteredOpen'
  <2>1. s \in Channels
        BY StreamConstants
  <2>2. CASE \E j \in Jobs : OpenStream(s, j)
        BY <1>1, <2>1, <2>2, OpenSubscribe DEF OpenStream
  <2>3. CASE ShowProgress(s) \/ ShowOutcome(s)
    <3>1. subscribers' = subscribers /\ chan' = [chan EXCEPT ![s].buf = Tail(@)]
          BY <2>3 DEF ShowProgress, ShowOutcome, Pop
    <3>2. \A c \in Channels : chan'[c].closed = chan[c].closed
          BY <1>1, <3>1 DEF QueueTypeOK
    <3> QED
        BY <1>1, <3>1, <3>2 DEF RegisteredOpen, QueueTypeOK
  <2>4. CASE SeeClosed(s) \/ Timeout(s) \/ Disconnect(s) \/ AgentEnds(s)
        BY <2>4 DEF SeeClosed, Timeout, Disconnect, AgentEnds, vars, queueVars, chanVars,
                    RegisteredOpen
  <2>5. CASE AgentFails(s) \/ ChatComplete(s) \/ ChatError(s)
    <3>1. JobOf(s) \in Jobs
          BY <1>1, <2>5, AskedJob
          DEF StreamJobs, AgentFails, ChatComplete, ChatError
    <3>2. Complete(JobOf(s)) \/ Fail(JobOf(s)) \/ NotFound(JobOf(s))
          BY <2>5 DEF AgentFails, ChatComplete, ChatError
    <3> QED
        BY <1>1, <3>1, <3>2, OpenMethods
  <2> QED
      BY <1>3, <2>2, <2>3, <2>4, <2>5 DEF StreamStep
<1> QED
    BY <1>2, <1>3 DEF StreamNext

\* Also beside chat streams, which end a job again that is over, or that a worker skips:
\* the queue sends on no closed channel and closes none twice (notifySubscribers,
\* closeSubscribers).
THEOREM StreamsOpen == StreamSpec => []RegisteredOpen
<1>1. StreamInit => RegisteredOpen
      BY OpenInit DEF StreamInit
<1>2. SoundInv /\ RegisteredOpen /\ [StreamNext]_allVars => RegisteredOpen'
      BY StreamOpenStep
<1> QED
    BY <1>1, <1>2, StreamInvariance, PTL DEF StreamSpec

-------------------------------------------------------------------------------
(* The board of the quiet jobs *)

\* The methods that are called for one job.
Method(k) ==
    \/ Enqueue(k) \/ Dequeue(k) \/ Complete(k) \/ Fail(k) \/ Cancel(k) \/ Delete(k)
    \/ NotFound(k)

\* The removal loop keeps the order, also if a job is listed twice.
LEMMA WithoutSorted ==
    ASSUME NEW s \in Seq(Jobs), NEW k \in Jobs, Sorted(s)
    PROVE  Sorted(Without(s, k))
<1> DEFINE at == {i \in DOMAIN s : s[i] = k}
           t == Without(s, k)
<1>1. DOMAIN s = 1 .. Len(s) /\ Len(s) \in Nat
      OBVIOUS
<1>2. CASE at = {}
      BY <1>2 DEF Without
<1>3. CASE at # {}
  <2> DEFINE first == CHOOSE i \in at : \A m \in at : i <= m
             from(i) == IF i < first THEN i ELSE i + 1
  <2>1. first \in DOMAIN s
    <3>1. at \subseteq Nat /\ at # {}
          BY <1>1, <1>3
    <3>2. \E i \in at : \A m \in at : i <= m
          BY <3>1, Smallest
    <3>3. first \in at
          BY <3>2
    <3> HIDE DEF first
    <3> QED
        BY <3>3
  <2>2. t = [i \in 1 .. Len(s) - 1 |-> IF i < first THEN s[i] ELSE s[i + 1]]
        BY <1>3 DEF Without
  <2> HIDE DEF first, at
  <2>3. DOMAIN t = 1 .. Len(s) - 1 /\ \A i \in DOMAIN t : t[i] = s[from(i)]
        BY <2>2
  <2> HIDE DEF t
  <2>4. \A i, m \in DOMAIN t : i < m =>
           from(i) \in DOMAIN s /\ from(m) \in DOMAIN s /\ from(i) < from(m)
        BY <1>1, <2>1, <2>3
  <2> HIDE DEF from
  <2>5. Sorted(t)
        BY <2>3, <2>4 DEF Sorted
  <2> QED
      BY <2>5 DEF t
<1> QED
    BY <1>2, <1>3

\* What a method does to the slice keeps its order.
LEMMA MethodSorted ==
    ASSUME QueueTypeOK, Sorted(pending), NEW k \in Jobs, Method(k)
    PROVE  Sorted(pending')
<1>1. pending \in Seq(Jobs)
      BY DEF QueueTypeOK
<1>2. \/ UNCHANGED pending
      \/ pending' \in SortPending(Append(pending, k))
      \/ pending' = Without(pending, k)
      \/ pending # <<>> /\ pending' = Tail(pending)
      BY DEF Method, Enqueue, Dequeue, Complete, Fail, Retry, FailForGood, Cancel, Delete,
             NotFound, queueVars, jobVars, Requeue
<1>3. CASE UNCHANGED pending
      BY <1>3
<1>4. CASE pending' \in SortPending(Append(pending, k))
      BY <1>1, <1>4, RequeueSlice
<1>5. CASE pending' = Without(pending, k)
      BY <1>1, <1>5, WithoutSorted
<1>6. CASE pending # <<>> /\ pending' = Tail(pending)
      BY <1>1, <1>6, TailSlice
<1> QED
    BY <1>2, <1>3, <1>4, <1>5, <1>6

\* A method changes status and attempts of its own job only.
LEMMA MethodElsewhere ==
    ASSUME QueueTypeOK, NEW k \in Jobs, Method(k), NEW j \in Jobs, j # k
    PROVE  /\ status'[j] = status[j] /\ attempts'[j] = attempts[j]
           /\ j \in issued' <=> j \in issued
BY DEF Method, Enqueue, Dequeue, Complete, Fail, Retry, FailForGood, Cancel, Delete, NotFound,
       queueVars, jobVars, QueueTypeOK

\* Every step is one method for one job, or a cleanup, or changes no job.
LEMMA StepKinds ==
    ASSUME SoundInv, [StreamNext]_allVars
    PROVE  \/ UNCHANGED jobVars
           \/ \E k \in Jobs : Method(k)
           \/ \E J \in SUBSET Jobs : CleanupOldResults(J)
<1>1. CASE Client
      BY <1>1 DEF Client, Method
<1>2. CASE PoolStep
  <2>1. ASSUME NEW w \in Workers, Take(w)
        PROVE  \E k \in Jobs : Method(k)
        BY <2>1 DEF Take, Method
  <2>2. ASSUME NEW w \in Workers, Succeed(w) \/ Err(w)
        PROVE  \E k \in Jobs : Method(k)
    <3>1. w \in BusySet
          BY <2>2 DEF Succeed, Err, Running, BusySet, Busy
    <3>2. worker[w].job \in Jobs
          BY <3>1, WorkerStates DEF SoundInv, Held
    <3> QED
        BY <2>2, <3>2 DEF Succeed, Err, Method
  <2>3. ASSUME NEW w \in Workers, Skip(w) \/ Step(w) \/ ReportPlan(w) \/ Leave(w)
        PROVE  UNCHANGED jobVars
        BY <2>3 DEF Skip, Step, ReportPlan, Leave, queueVars
  <2>4. ASSUME (\E k \in Jobs : Forward(k)) \/ Stop \/ WaitDone \/ CloseQueue
        PROVE  UNCHANGED jobVars
        BY <2>4 DEF Forward, ReportProgress, Stop, WaitDone, CloseQueue, Close, queueVars
  <2> QED
      BY <1>2, <2>1, <2>2, <2>3, <2>4 DEF PoolStep, Cleanup
<1>3. CASE \E s \in Streams : StreamStep(s)
      BY <1>3, StreamActs DEF SoundInv, Method
<1>4. CASE UNCHANGED allVars
      BY <1>4 DEF allVars, vars, queueVars
<1> QED
    BY <1>1, <1>2, <1>3, <1>4 DEF StreamNext

LEMMA BoardInvStep ==
    ASSUME SoundInv, BoardInv, [StreamNext]_allVars
    PROVE  BoardInv'
<1>1. QueueTypeOK
      BY DEF SoundInv, TypeOK
<1>2. CASE UNCHANGED jobVars
      BY <1>2 DEF BoardInv, Sorted, Before, jobVars
<1>3. ASSUME NEW J \in SUBSET Jobs, CleanupOldResults(J) PROVE BoardInv'
  <2>1. pending' = pending /\ issued' = issued
        BY <1>3 DEF CleanupOldResults
  <2>2. \A j \in Jobs : /\ status'[j] \in {status[j], "absent"}
                        /\ attempts'[j] \in {attempts[j], 0}
                        /\ status'[j] = "pending" => attempts'[j] = attempts[j]
        BY <1>3 DEF CleanupOldResults
  <2> QED
      BY <2>1, <2>2 DEF BoardInv, Sorted, Before, Quiet
<1>4. ASSUME NEW k \in Jobs, Method(k) PROVE BoardInv'
  <2>1. Sorted(pending)'
        BY <1>1, <1>4, MethodSorted DEF BoardInv, Sorted, Before
  <2>2. ASSUME NEW j \in Quiet
        PROVE  /\ status'[j] = "pending" => attempts'[j] < MaxRetries
               /\ j \notin issued' => attempts'[j] = 0
    <3>1. j \in Jobs
          BY DEF Quiet
    <3>2. CASE j # k
          BY <1>1, <1>4, <3>1, <3>2, MethodElsewhere DEF BoardInv
    <3>3. CASE j = k
      <4>1. attempts[j] \in Nat /\ MaxRetries \in Nat \ {0}
            BY <1>1, <3>1, QueueConstants, PoolConstants DEF QueueTypeOK
      <4>2. /\ j \notin issued => status[j] = "absent" /\ attempts[j] = 0
            /\ status[j] = "pending" => attempts[j] < MaxRetries
            BY DEF SoundInv, JobSound, BoardInv
      <4>3. /\ status \in [Jobs -> Status] /\ attempts \in [Jobs -> Nat]
            BY <1>1 DEF QueueTypeOK
      <4>4. CASE Enqueue(j)
            BY <3>1, <4>1, <4>2, <4>4 DEF Enqueue
      <4>5. CASE Dequeue(j)
        <5>1. j \in Elems(pending)
              BY <1>1, <4>5, TailSlice DEF Dequeue, QueueTypeOK
        <5>2. status[j] = "pending" /\ j \in issued
              BY <4>2, <5>1 DEF SoundInv, JobSound
        <5>3. status'[j] = "processing" /\ issued' = issued
              BY <3>1, <4>3, <4>5, <5>2 DEF Dequeue
        <5> QED
            BY <5>2, <5>3
      <4>6. CASE Complete(j)
            BY <3>1, <4>2, <4>3, <4>6 DEF Complete
      <4>7. CASE Retry(j)
            BY <3>1, <4>2, <4>3, <4>7 DEF Retry
      <4>8. CASE FailForGood(j)
            BY <3>1, <4>2, <4>3, <4>8 DEF FailForGood
      <4>9. CASE Cancel(j)
            BY <3>1, <4>2, <4>3, <4>9 DEF Cancel
      <4>10. CASE Delete(j)
             BY <3>1, <4>1, <4>2, <4>3, <4>10 DEF Delete
      <4>11. CASE NotFound(j)
             BY <4>2, <4>11 DEF NotFound, queueVars, jobVars
      <4> QED
          BY <1>4, <3>3, <4>4, <4>5, <4>6, <4>7, <4>8, <4>9, <4>10, <4>11 DEF Method, Fail
    <3> QED
        BY <3>2, <3>3
  <2> QED
      BY <2>1, <2>2 DEF BoardInv
<1> QED
    BY <1>2, <1>3, <1>4, StepKinds

\* Who runs a job holds it.
LEMMA HeldHas == \A j \in Jobs : j \in Held <=> Holders(j) # {}
BY DEF Held, BusySet, Holders

LEMMA HeldHasNext == \A j \in Jobs : j \in Held' <=> Holders(j)' # {}
BY DEF Held, BusySet, Holders

BoardMove == [Board!Next]_(Board!vars)

\* What no quiet job notices.
LEMMA BoardFrame ==
    ASSUME \A j \in Quiet : /\ status'[j] = status[j] /\ attempts'[j] = attempts[j]
                            /\ Holders(j)' = {} <=> Holders(j) = {}
    PROVE  BoardMove
<1>1. [j \in Quiet |-> status'[j]] = [j \in Quiet |-> status[j]]
      OBVIOUS
<1>2. [j \in Quiet |-> attempts'[j]] = [j \in Quiet |-> attempts[j]]
      OBVIOUS
<1>3. Held' \cap Quiet = Held \cap Quiet
      BY HeldHas, HeldHasNext DEF Quiet
<1> QED
    BY <1>1, <1>2, <1>3 DEF BoardMove, Board!vars

\* A method for a job with a chat stream, whoever calls it and whoever lets go of the job.
LEMMA ChatFrame ==
    ASSUME QueueTypeOK, NEW k \in Jobs \ Quiet, Method(k),
           \A j \in Quiet : Holders(j)' = Holders(j)
    PROVE  BoardMove
BY MethodElsewhere, BoardFrame DEF Quiet

\* A worker that takes a quiet job starts it: a most urgent one, on a free slot.
LEMMA BoardStart ==
    ASSUME SoundInv, BoardInv, NEW w \in Workers, Take(w),
           NEW k \in Quiet, Dequeue(k),
           worker' = [worker EXCEPT ![w] = [pc |-> "running", job |-> k]]
    PROVE  Board!Start(k)
<1> DEFINE st == [j \in Quiet |-> status[j]]
           at == [j \in Quiet |-> attempts[j]]
<1>1. /\ TypeOK /\ QueueTypeOK /\ k \in Jobs /\ JobSound(k)
      /\ pending \in Seq(Jobs) /\ pending # <<>> /\ k = Head(pending)
      BY DEF SoundInv, TypeOK, QueueTypeOK, Quiet, Dequeue
<1>2. worker[w] = Idle /\ w \notin BusySet
      BY <1>1, WorkerStates DEF Take, BusySet, Busy
<1>3. status[k] = "pending" /\ Holders(k) = {}
      BY <1>1, TailSlice DEF JobSound
<1>4. attempts[k] < MaxRetries
      BY <1>3 DEF BoardInv
<1>5. ASSUME NEW j \in Quiet, status[j] = "pending" PROVE ~Before(j, k)
  <2>1. j \in Jobs /\ j \in Elems(pending)
        BY <1>5 DEF SoundInv, JobSound, Quiet
  <2>2. PICK i \in DOMAIN pending : j = pending[i]
        BY <2>1 DEF Elems
  <2>3. i \in 1 .. Len(pending) /\ 1 \in DOMAIN pending /\ k = pending[1]
        BY <1>1, <2>2
  <2>4. CASE i = 1
        BY <2>1, <2>2, <2>3, <2>4, QueueConstants DEF Before
  <2>5. CASE i # 1
        BY <1>1, <2>2, <2>3, <2>5 DEF BoardInv, Sorted
  <2> QED
      BY <2>4, <2>5
<1>6. Board!Cardinality(Held \cap Quiet) < Cardinality(Workers)
  <2>1. Cardinality(Held) < Cardinality(Workers) /\ Cardinality(Workers) \in Nat
        BY <1>1, <1>2, SlotFree, Counts
  <2> DEFINE f == [v \in BusySet |-> worker[v].job]
  <2>2. f \in Surjection(BusySet, Held)
        BY DEF Held, Surjection
  <2>3. IsFiniteSet(Held)
        BY <1>1, <2>2, Counts, FS_Surjection
  <2>4. /\ Cardinality(Held \cap Quiet) <= Cardinality(Held)
        /\ Cardinality(Held \cap Quiet) \in Nat /\ Cardinality(Held) \in Nat
        BY <2>3, FS_Subset, FS_CardinalityType
  <2>5. Board!Cardinality(Held \cap Quiet) = Cardinality(Held \cap Quiet)
        BY DEF Cardinality, Board!Cardinality
  <2> QED
      BY <2>1, <2>4, <2>5
<1>7. /\ status' = [status EXCEPT ![k] = "processing"]
      /\ attempts' = [attempts EXCEPT ![k] = @ + 1]
      BY <1>3 DEF Dequeue
<1>8. /\ [j \in Quiet |-> status'[j]] = [st EXCEPT ![k] = "processing"]
      /\ [j \in Quiet |-> attempts'[j]] = [at EXCEPT ![k] = @ + 1]
      BY <1>1, <1>7 DEF QueueTypeOK, Quiet
<1>9. Held' = Held \cup {k}
      BY <1>1, <1>2, HeldTake
<1>10. k \notin Held
       BY <1>1, <1>3, HeldHas
<1> QED
    BY <1>3, <1>4, <1>5, <1>6, <1>8, <1>9, <1>10
    DEF Board!Start, Board!Waiting, Board!MoreUrgent, Before

\* A worker lets go of a quiet job: its run ends, or the job has no handler.
LEMMA BoardEnd ==
    ASSUME SoundInv, NEW w \in Workers, NEW k \in Quiet, w \in Holders(k),
           Complete(k) \/ Fail(k) \/ NotFound(k) \/ UNCHANGED queueVars,
           worker' = [worker EXCEPT ![w] = Idle]
    PROVE  Board!End(k)
<1> DEFINE st == [j \in Quiet |-> status[j]]
           at == [j \in Quiet |-> attempts[j]]
<1>1. TypeOK /\ QueueTypeOK /\ k \in Jobs /\ JobSound(k)
      BY DEF SoundInv, TypeOK, Quiet
<1>2. Holders(k) = {w} /\ status[k] \in {"processing", "cancelled", "absent"}
      BY <1>1 DEF JobSound
<1>3. Holders(k)' = {}
      BY <1>1, <1>2, HoldersRelease
<1>4. ASSUME NEW j \in Quiet, j # k PROVE Holders(j)' = Holders(j)
  <2>1. j \in Jobs
        BY DEF Quiet
  <2>2. w \notin Holders(j)
        BY <1>4 DEF Holders
  <2>3. Holders(j)' = Holders(j) \ {w}
        BY <1>1, <2>1, HoldersRelease
  <2> QED
      BY <2>2, <2>3
<1>5. Held' \cap Quiet = (Held \cap Quiet) \ {k} /\ k \in Held \cap Quiet
      BY <1>1, <1>3, <1>4, HeldHas, HeldHasNext DEF Quiet
<1>6. /\ UNCHANGED attempts
      /\ \/ status[k] # "absent" /\ status' = [status EXCEPT ![k] = "completed"]
         \/ /\ status[k] # "absent"
            /\ status' = [status EXCEPT
                            ![k] = IF attempts[k] < MaxRetries THEN "pending" ELSE "failed"]
         \/ UNCHANGED status
  <2>1. attempts[k] \in Nat /\ MaxRetries \in Nat
        BY <1>1, QueueConstants DEF QueueTypeOK
  <2> QED
      BY <2>1 DEF Complete, Fail, Retry, FailForGood, NotFound, queueVars, jobVars
<1>7. \A x : status' = [status EXCEPT ![k] = x] =>
               [j \in Quiet |-> status'[j]] = [st EXCEPT ![k] = x]
      BY <1>1 DEF QueueTypeOK, Quiet
<1> QED
    BY <1>2, <1>5, <1>6, <1>7 DEF Board!End

\* What clients ask for a quiet job.
LEMMA BoardClient ==
    ASSUME SoundInv, NEW k \in Quiet, Enqueue(k) \/ Cancel(k) \/ Delete(k),
           UNCHANGED worker
    PROVE  Board!Next
<1> DEFINE st == [j \in Quiet |-> status[j]]
           at == [j \in Quiet |-> attempts[j]]
<1>1. QueueTypeOK /\ k \in Jobs /\ JobSound(k)
      BY DEF SoundInv, TypeOK, Quiet
<1>2. Held' = Held
      BY DEF Held, BusySet, Busy
<1>3. \A x : status' = [status EXCEPT ![k] = x] =>
               [j \in Quiet |-> status'[j]] = [st EXCEPT ![k] = x]
      BY <1>1 DEF QueueTypeOK, Quiet
<1>4. CASE Enqueue(k)
  <2>1. status[k] = "absent" /\ k \notin Held
        BY <1>1, <1>4, HeldHas DEF Enqueue, JobSound
  <2>2. attempts' = attempts /\ status' = [status EXCEPT ![k] = "pending"]
        BY <1>4 DEF Enqueue
  <2>3. Board!Submit(k)
        BY <1>2, <1>3, <2>1, <2>2 DEF Board!Submit
  <2> QED
      BY <2>3 DEF Board!Next
<1>5. CASE Cancel(k)
  <2>1. /\ status[k] \in {"pending", "processing", "cancelled"}
        /\ attempts' = attempts /\ status' = [status EXCEPT ![k] = "cancelled"]
        BY <1>1, <1>5 DEF Cancel, QueueTypeOK, Status, Final
  <2>2. Board!Cancel(k)
        BY <1>2, <1>3, <2>1 DEF Board!Cancel
  <2> QED
      BY <2>2 DEF Board!Next
<1>6. CASE Delete(k)
  <2>1. /\ [j \in Quiet |-> status'[j]]
              = [j \in Quiet |-> IF j \in {k} THEN "absent" ELSE st[j]]
        /\ [j \in Quiet |-> attempts'[j]]
              = [j \in Quiet |-> IF j \in {k} THEN 0 ELSE at[j]]
        BY <1>1, <1>6 DEF Delete, QueueTypeOK, Quiet
  <2>2. Board!Forget({k})
        BY <1>2, <2>1 DEF Board!Forget
  <2> QED
      BY <2>2 DEF Board!Next
<1> QED
    BY <1>4, <1>5, <1>6

LEMMA BoardCleanup ==
    ASSUME NEW J \in SUBSET Jobs, CleanupOldResults(J), UNCHANGED worker
    PROVE  Board!Next
<1> DEFINE K == J \cap Quiet
           st == [j \in Quiet |-> status[j]]
           at == [j \in Quiet |-> attempts[j]]
<1>1. Held' = Held
      BY DEF Held, BusySet, Busy
<1>2. /\ [j \in Quiet |-> status'[j]]
            = [j \in Quiet |-> IF j \in K THEN "absent" ELSE st[j]]
      /\ [j \in Quiet |-> attempts'[j]]
            = [j \in Quiet |-> IF j \in K THEN 0 ELSE at[j]]
      BY DEF CleanupOldResults, Quiet
<1>3. Board!Forget(K)
      BY <1>1, <1>2 DEF Board!Forget
<1> QED
    BY <1>3 DEF Board!Next

LEMMA BoardSteps ==
    ASSUME SoundInv, BoardInv, [StreamNext]_allVars
    PROVE  BoardMove
<1>1. TypeOK /\ QueueTypeOK /\ StreamTypeOK /\ StreamJobs
      BY DEF SoundInv, TypeOK
<1>2. ASSUME Board!Next PROVE BoardMove
      BY <1>2 DEF BoardMove
<1>3. ASSUME UNCHANGED jobVars, \A j \in Quiet : Holders(j)' = Holders(j)
      PROVE  BoardMove
      BY <1>3, BoardFrame DEF jobVars
<1>4. ASSUME worker' = worker PROVE \A j \in Quiet : Holders(j)' = Holders(j)
      BY <1>4 DEF Holders, Busy
<1>5. ASSUME NEW w \in Workers, Take(w) PROVE BoardMove
  <2>1. PICK k \in Jobs : Dequeue(k) /\ worker' = [worker EXCEPT ![w] = [pc |-> "running", job |-> k]]
        BY <1>5 DEF Take
  <2>2. worker[w] = Idle
        BY <1>1, <1>5, WorkerStates DEF Take
  <2>3. CASE k \in Quiet
    <3>1. Board!Start(k)
          BY <1>5, <2>1, <2>3, BoardStart
    <3> QED
        BY <1>2, <2>3, <3>1 DEF Board!Next
  <2>4. CASE k \notin Quiet
    <3>1. \A j \in Quiet : Holders(j)' = Holders(j)
          BY <1>1, <2>1, <2>2, <2>4, HoldersTake DEF Quiet
    <3> QED
        BY <1>1, <2>1, <2>4, <3>1, ChatFrame DEF Method
  <2> QED
      BY <2>3, <2>4
<1>6. ASSUME NEW w \in Workers, Skip(w) PROVE BoardMove
  <2>1. PICK k \in Jobs : /\ w \in Holders(k) /\ UNCHANGED queueVars
                          /\ worker' = [worker EXCEPT ![w] = Idle]
        BY <1>6, PoolConstants DEF Skip, Holders, Busy
  <2>2. CASE k \in Quiet
    <3>1. Board!End(k)
          BY <2>1, <2>2, BoardEnd
    <3> QED
        BY <1>2, <2>2, <3>1 DEF Board!Next
  <2>3. CASE k \notin Quiet
    <3>1. ASSUME NEW j \in Quiet PROVE Holders(j)' = Holders(j)
      <4>1. j \in Jobs /\ j # k
            BY <2>3 DEF Quiet
      <4>2. w \notin Holders(j)
            BY <2>1, <4>1 DEF Holders
      <4>3. Holders(j)' = Holders(j) \ {w}
            BY <1>1, <2>1, <4>1, HoldersRelease
      <4> QED
          BY <4>2, <4>3
    <3> QED
        BY <1>3, <2>1, <3>1 DEF queueVars
  <2> QED
      BY <2>2, <2>3
<1>7. ASSUME NEW w \in Workers, Succeed(w) \/ Err(w) PROVE BoardMove
  <2>1. PICK k : /\ k = worker[w].job
                 /\ w \in BusySet /\ worker' = [worker EXCEPT ![w] = Idle]
                 /\ Complete(k) \/ Fail(k) \/ NotFound(k)
        BY <1>7 DEF Succeed, Err, Running, BusySet, Busy
  <2>2. k \in Jobs /\ w \in Holders(k)
        BY <1>1, <2>1, WorkerStates DEF Held, Holders, BusySet
  <2>3. CASE k \in Quiet
    <3>1. Board!End(k)
          BY <2>1, <2>2, <2>3, BoardEnd
    <3> QED
        BY <1>2, <2>3, <3>1 DEF Board!Next
  <2>4. CASE k \notin Quiet
    <3>1. ASSUME NEW j \in Quiet PROVE Holders(j)' = Holders(j)
      <4>1. j \in Jobs
            BY DEF Quiet
      <4>2. w \notin Holders(j)
            BY <2>1, <2>4 DEF Holders
      <4> QED
          BY <1>1, <2>1, <4>1, <4>2, HoldersRelease
    <3> QED
        BY <1>1, <2>1, <2>2, <2>4, <3>1, ChatFrame DEF Method
  <2> QED
      BY <2>3, <2>4
<1>8. ASSUME NEW w \in Workers, Step(w) \/ ReportPlan(w) \/ Leave(w) PROVE BoardMove
  <2>1. UNCHANGED jobVars
        BY <1>8 DEF Step, ReportPlan, Leave, queueVars
  <2> QED
      BY <1>1, <1>3, <1>8, <2>1, HoldersSame DEF Quiet
<1>9. ASSUME (\E k \in Jobs : Forward(k)) \/ Stop \/ WaitDone \/ CloseQueue \/ UNCHANGED allVars
      PROVE  BoardMove
  <2>1. UNCHANGED jobVars /\ worker' = worker
        BY <1>9 DEF Forward, ReportProgress, Stop, WaitDone, CloseQueue, Close, poolVars,
                    queueVars, allVars, vars
  <2> QED
      BY <1>3, <1>4, <2>1
<1>10. ASSUME Cleanup PROVE BoardMove
       BY <1>2, <1>10, BoardCleanup DEF Cleanup, poolVars
<1>11. ASSUME Client PROVE BoardMove
  <2>1. PICK k \in Jobs : Enqueue(k) \/ Cancel(k) \/ Delete(k)
        BY <1>11 DEF Client
  <2>2. worker' = worker
        BY <1>11 DEF Client, poolVars
  <2>3. CASE k \in Quiet
        BY <1>2, <2>1, <2>2, <2>3, BoardClient
  <2>4. CASE k \notin Quiet
        BY <1>1, <1>4, <2>1, <2>2, <2>4, ChatFrame DEF Method
  <2> QED
      BY <2>3, <2>4
<1>12. ASSUME NEW s \in Streams, StreamStep(s) PROVE BoardMove
  <2>1. worker' = worker
        BY <1>1, <1>12, StreamActs DEF poolVars
  <2>2. CASE UNCHANGED jobVars
        BY <1>3, <1>4, <2>1, <2>2
  <2>3. ASSUME NEW k \in Jobs \ Quiet, Complete(k) \/ Fail(k) \/ NotFound(k) PROVE BoardMove
        BY <1>1, <1>4, <2>1, <2>3, ChatFrame DEF Method
  <2> QED
      BY <1>1, <1>12, <2>2, <2>3, StreamActs
<1> QED
    BY <1>5, <1>6, <1>7, <1>8, <1>9, <1>10, <1>11, <1>12 DEF StreamNext, PoolStep

\* A chat stream ends whatever job it is opened for, at any time; the other jobs do not
\* notice: pool, queue and requests together still implement the abstract job board for
\* them, with the order in which the workers take them (pool.go, queue.go, ai/handler.go).
THEOREM BoardRefined == StreamSpec => RefinesBoard
<1>1. StreamInit => BoardInv /\ Board!Init
  <2> SUFFICES ASSUME StreamInit PROVE BoardInv /\ Board!Init
      OBVIOUS
  <2>1. BoardInv
        BY DEF StreamInit, Init, QueueInit, BoardInv, Sorted, Quiet
  <2>2. Board!Init
        BY DEF StreamInit, Init, QueueInit, Board!Init, Held, BusySet, Busy, Idle, Quiet
  <2> QED
      BY <2>1, <2>2
<1>2. SoundInv /\ BoardInv /\ [StreamNext]_allVars => BoardInv' /\ [Board!Next]_(Board!vars)
      BY BoardInvStep, BoardSteps DEF BoardMove
<1> QED
    BY <1>1, <1>2, StreamInvariance, PTL DEF StreamSpec, RefinesBoard, Board!Spec

-------------------------------------------------------------------------------
(* Places: how often a job is listed and held *)

\* Where the slice s lists j.
At(s, j) == {i \in DOMAIN s : s[i] = j}

LEMMA CountNat ==
    ASSUME NEW s \in Seq(Jobs), NEW j
    PROVE  IsFiniteSet(At(s, j)) /\ Cardinality(At(s, j)) \in Nat
<1>1. DOMAIN s = 1 .. Len(s) /\ Len(s) \in Nat
      OBVIOUS
<1>2. IsFiniteSet(1 .. Len(s))
      BY <1>1, FS_Interval
<1>3. At(s, j) \in SUBSET (1 .. Len(s))
      BY <1>1 DEF At
<1>4. IsFiniteSet(At(s, j))
      BY <1>2, <1>3, FS_Subset
<1> QED
    BY <1>4, FS_CardinalityType

\* If f leads the places of j in t to different places in A, there are no more of them.
LEMMA CountInto ==
    ASSUME NEW t, NEW j, NEW A, IsFiniteSet(A), NEW f,
           \A i \in At(t, j) : f[i] \in A,
           \A i, k \in At(t, j) : f[i] = f[k] => i = k
    PROVE  Cardinality(At(t, j)) <= Cardinality(A)
<1> DEFINE T == At(t, j)
           g == [i \in T |-> f[i]]
<1>1. g \in Injection(T, A)
      BY DEF Injection, IsInjective
<1> QED
    BY <1>1, FS_Injection

LEMMA CountSort ==
    ASSUME NEW s \in Seq(Jobs), NEW t \in SortPending(s), NEW j
    PROVE  Cardinality(At(t, j)) <= Cardinality(At(s, j))
<1>1. PICK p \in Bijection(DOMAIN s, DOMAIN s) : t = [i \in DOMAIN s |-> s[p[i]]]
      BY DEF SortPending
<1>2. /\ p \in [DOMAIN s -> DOMAIN s]
      /\ \A i, k \in DOMAIN s : p[i] = p[k] => i = k
      BY <1>1 DEF Bijection, Injection, IsInjective
<1>3. DOMAIN t = DOMAIN s /\ \A i \in DOMAIN s : t[i] = s[p[i]]
      BY <1>1
<1>4. /\ \A i \in At(t, j) : p[i] \in At(s, j)
      /\ \A i, k \in At(t, j) : p[i] = p[k] => i = k
      BY <1>2, <1>3 DEF At
<1> QED
    BY <1>4, CountNat, CountInto

\* Requeue of k.
LEMMA CountRequeue ==
    ASSUME NEW s \in Seq(Jobs), NEW k \in Jobs, NEW t \in SortPending(Append(s, k)), NEW j \in Jobs
    PROVE  Cardinality(At(t, j)) <= Cardinality(At(s, j)) + (IF j = k THEN 1 ELSE 0)
<1> DEFINE a == Append(s, k)
<1>1. /\ a \in Seq(Jobs) /\ Len(s) \in Nat
      /\ DOMAIN s = 1 .. Len(s) /\ DOMAIN a = 1 .. Len(s) + 1
      /\ \A i \in 1 .. Len(s) : a[i] = s[i]
      /\ a[Len(s) + 1] = k
      OBVIOUS
<1>2. t \in SortPending(a)
      OBVIOUS
<1> HIDE DEF a
<1>3. Cardinality(At(t, j)) <= Cardinality(At(a, j))
      BY <1>1, <1>2, CountSort
<1>4. /\ IsFiniteSet(At(s, j)) /\ Cardinality(At(s, j)) \in Nat
      /\ Cardinality(At(a, j)) \in Nat
      BY <1>1, CountNat
<1>5. IsFiniteSet(At(t, j)) /\ Cardinality(At(t, j)) \in Nat
  <2>1. t \in Seq(Jobs)
        BY RequeueSlice
  <2> QED
      BY <2>1, CountNat
<1>6. CASE j = k
  <2>1. At(a, j) = At(s, j) \cup {Len(s) + 1}
        BY <1>1, <1>6 DEF At
  <2>2. Cardinality(At(s, j) \cup {Len(s) + 1})
           \in {Cardinality(At(s, j)), Cardinality(At(s, j)) + 1}
        BY <1>4, FS_AddElement, Zenon
  <2> QED
      BY <1>3, <1>4, <1>5, <1>6, <2>1, <2>2
<1>7. CASE j # k
  <2>1. At(a, j) = At(s, j)
        BY <1>1, <1>7 DEF At
  <2> QED
      BY <1>3, <1>7, <2>1, <1>4
<1> QED
    BY <1>6, <1>7

\* The head leaves.
LEMMA CountTail ==
    ASSUME NEW s \in Seq(Jobs), s # <<>>, NEW j \in Jobs
    PROVE  /\ Cardinality(At(Tail(s), j)) <= Cardinality(At(s, j))
           /\ j = Head(s) => Cardinality(At(Tail(s), j)) <= Cardinality(At(s, j)) - 1
<1> DEFINE t == Tail(s)
           f == [i \in DOMAIN t |-> i + 1]
<1>1. /\ Len(s) \in Nat \ {0} /\ DOMAIN s = 1 .. Len(s)
      /\ Head(s) = s[1]
      /\ t \in Seq(Jobs) /\ Len(t) = Len(s) - 1
      /\ \A i \in 1 .. Len(s) - 1 : t[i] = s[i + 1]
      BY HeadTailProperties
<1>2. DOMAIN t = 1 .. Len(s) - 1
      BY <1>1
<1> HIDE DEF t
<1>3. \A i \in At(t, j) : f[i] = i + 1 /\ i \in Nat /\ i + 1 \in At(s, j) /\ i + 1 # 1
      BY <1>1, <1>2 DEF At
<1> HIDE DEF f
<1>4. IsFiniteSet(At(s, j)) /\ Cardinality(At(s, j)) \in Nat
      BY CountNat
<1>5. IsFiniteSet(At(s, j) \ {1})
      BY <1>4, FS_RemoveElement
<1>6. Cardinality(At(t, j)) <= Cardinality(At(s, j))
      BY <1>3, <1>4, CountInto
<1>7. Cardinality(At(t, j)) <= Cardinality(At(s, j) \ {1})
      BY <1>3, <1>5, CountInto
<1>8. ASSUME j = Head(s) PROVE Cardinality(At(s, j) \ {1}) = Cardinality(At(s, j)) - 1
  <2>1. 1 \in At(s, j)
        BY <1>1, <1>8 DEF At
  <2> QED
      BY <1>4, <2>1, FS_RemoveElement
<1> QED
    BY <1>6, <1>7, <1>8 DEF t

\* The removal loop lists no job more often than before.
LEMMA CountWithout ==
    ASSUME NEW s \in Seq(Jobs), NEW k \in Jobs, NEW j \in Jobs
    PROVE  Cardinality(At(Without(s, k), j)) <= Cardinality(At(s, j))
<1> DEFINE at == {i \in DOMAIN s : s[i] = k}
           t == Without(s, k)
<1>1. DOMAIN s = 1 .. Len(s) /\ Len(s) \in Nat
      OBVIOUS
<1>2. CASE at = {}
  <2>1. t = s
        BY <1>2 DEF Without
  <2> QED
      BY <2>1, CountNat
<1>3. CASE at # {}
  <2> DEFINE first == CHOOSE i \in at : \A m \in at : i <= m
             from == [i \in DOMAIN t |-> IF i < first THEN i ELSE i + 1]
  <2>1. first \in DOMAIN s
    <3>1. at \subseteq Nat /\ at # {}
          BY <1>1, <1>3
    <3>2. \E i \in at : \A m \in at : i <= m
          BY <3>1, Smallest
    <3>3. first \in at
          BY <3>2
    <3> HIDE DEF first
    <3> QED
        BY <3>3
  <2>2. t = [i \in 1 .. Len(s) - 1 |-> IF i < first THEN s[i] ELSE s[i + 1]]
        BY <1>3 DEF Without
  <2> HIDE DEF first, at
  <2>3. DOMAIN t = 1 .. Len(s) - 1
        BY <2>2
  <2>4. \A i \in DOMAIN t : from[i] \in DOMAIN s /\ t[i] = s[from[i]]
        BY <1>1, <2>1, <2>2, <2>3
  <2>5. \A i, m \in DOMAIN t : from[i] = from[m] => i = m
        BY <1>1, <2>1, <2>3
  <2> HIDE DEF from, t
  <2>6. /\ \A i \in At(t, j) : from[i] \in At(s, j)
        /\ \A i, m \in At(t, j) : from[i] = from[m] => i = m
        BY <2>4, <2>5 DEF At
  <2>7. Cardinality(At(t, j)) <= Cardinality(At(s, j))
        BY <2>6, CountNat, CountInto
  <2> QED
      BY <2>7 DEF t
<1> QED
    BY <1>2, <1>3

\* What a method makes of the places and the runs of a job.
LEMMA MethodPlaces ==
    ASSUME QueueTypeOK, NEW k \in Jobs, Method(k), NEW j \in Jobs
    PROVE  /\ Cardinality(Entries(j)') <= Cardinality(Entries(j)) + 1
           /\ j # k \/ ~(Enqueue(k) \/ Retry(k)) =>
                  Cardinality(Entries(j)') <= Cardinality(Entries(j))
           /\ j = k /\ Dequeue(k) => Cardinality(Entries(j)') <= Cardinality(Entries(j)) - 1
           /\ j = k /\ Dequeue(k) => attempts'[j] <= attempts[j] + 1
           /\ j # k \/ ~Dequeue(k) => attempts'[j] <= attempts[j]
           /\ j \in issued' <=> j \in issued \/ (j = k /\ Enqueue(k))
<1>1. pending \in Seq(Jobs) /\ attempts \in [Jobs -> Nat] /\ status \in [Jobs -> Status]
      BY DEF QueueTypeOK
<1>2. Entries(j) = At(pending, j) /\ Entries(j)' = At(pending', j)
      BY DEF Entries, At
<1>3. Cardinality(Entries(j)) \in Nat /\ Cardinality(Entries(j)') \in Nat
  <2>1. QueueTypeOK'
        BY QueueOpType DEF Method
  <2>2. pending' \in Seq(Jobs)
        BY <2>1 DEF QueueTypeOK
  <2> QED
      BY <1>1, <1>2, <2>2, CountNat
<1>4. /\ j = k /\ Dequeue(k) => attempts'[j] <= attempts[j] + 1
      /\ j # k \/ ~Dequeue(k) => attempts'[j] <= attempts[j]
      /\ j \in issued' <=> j \in issued \/ (j = k /\ Enqueue(k))
      BY <1>1 DEF Method, Enqueue, Dequeue, Complete, Fail, Retry, FailForGood, Cancel, Delete,
                  NotFound, queueVars, jobVars
<1>5. CASE Dequeue(k)
  <2>1. pending # <<>> /\ k = Head(pending) /\ pending' = Tail(pending)
        BY <1>5 DEF Dequeue
  <2>2. /\ Cardinality(Entries(j)') <= Cardinality(Entries(j))
        /\ j = k => Cardinality(Entries(j)') <= Cardinality(Entries(j)) - 1
        BY <1>1, <1>2, <2>1, CountTail
  <2> QED
      BY <1>3, <1>4, <2>2
<1>6. CASE ~Dequeue(k) /\ (Enqueue(k) \/ Retry(k))
  <2>1. pending' \in SortPending(Append(pending, k))
        BY <1>6 DEF Enqueue, Retry, Requeue
  <2>2. Cardinality(Entries(j)') <= Cardinality(Entries(j)) + (IF j = k THEN 1 ELSE 0)
        BY <1>1, <1>2, <2>1, CountRequeue
  <2> QED
      BY <1>3, <1>4, <1>6, <2>2
<1>7. CASE ~Dequeue(k) /\ (Complete(k) \/ FailForGood(k) \/ Cancel(k) \/ Delete(k) \/ NotFound(k))
  <2>1. pending' = pending \/ pending' = Without(pending, k)
        BY <1>7 DEF Complete, FailForGood, Cancel, Delete, NotFound, queueVars, jobVars
  <2>2. Cardinality(Entries(j)') <= Cardinality(Entries(j))
        BY <1>1, <1>2, <1>3, <2>1, CountWithout
  <2> QED
      BY <1>3, <1>4, <1>7, <2>2
<1> QED
    BY <1>5, <1>6, <1>7 DEF Method, Fail

\* The counts are numbers.
LEMMA PlacesNat ==
    ASSUME TypeOK, TypeOK', NEW j \in Jobs, IsFiniteSet(Chats(j)), IsFiniteSet(Chats(j)')
    PROVE  /\ Cardinality(Entries(j)) \in Nat /\ Cardinality(Entries(j)') \in Nat
           /\ Cardinality(Holders(j)) \in Nat /\ Cardinality(Holders(j)') \in Nat
           /\ IsFiniteSet(Holders(j))
           /\ ChatFails(j) \in Nat /\ ChatFails(j)' \in Nat
           /\ attempts[j] \in Nat /\ attempts'[j] \in Nat
           /\ MaxRetries \in Nat \ {0}
<1>1. pending \in Seq(Jobs) /\ pending' \in Seq(Jobs)
      BY DEF TypeOK, QueueTypeOK
<1>2. Entries(j) = At(pending, j) /\ Entries(j)' = At(pending', j)
      BY DEF Entries, At
<1>3. /\ IsFiniteSet(Holders(j)) /\ Cardinality(Holders(j)) \in Nat
      /\ Cardinality(Holders(j)') \in Nat
  <2>1. Holders(j) \in SUBSET Workers /\ Holders(j)' \in SUBSET Workers
        BY DEF Holders
  <2>2. IsFiniteSet(Holders(j)) /\ IsFiniteSet(Holders(j)')
        BY <2>1, PoolConstants, FS_Subset
  <2> QED
      BY <2>2, FS_CardinalityType
<1>4. /\ AgentFailed(j) \in SUBSET Chats(j) /\ LoopFailed(j) \in SUBSET Chats(j)
      /\ AgentFailed(j)' \in SUBSET Chats(j)' /\ LoopFailed(j)' \in SUBSET Chats(j)'
      BY DEF AgentFailed, LoopFailed
<1>5. /\ Cardinality(AgentFailed(j)) \in Nat /\ Cardinality(LoopFailed(j)) \in Nat
      /\ Cardinality(AgentFailed(j)') \in Nat /\ Cardinality(LoopFailed(j)') \in Nat
      BY <1>4, FS_Subset, FS_CardinalityType
<1>6. ChatFails(j) \in Nat /\ ChatFails(j)' \in Nat
      BY <1>5 DEF ChatFails
<1>7. attempts[j] \in Nat /\ attempts'[j] \in Nat
      BY DEF TypeOK, QueueTypeOK
<1> QED
    BY <1>1, <1>2, <1>3, <1>6, <1>7, CountNat, QueueConstants, PoolConstants

\* A larger set with one more member.
LEMMA OneMore ==
    ASSUME NEW S, NEW T, IsFiniteSet(T), S \subseteq T
    PROVE  /\ Cardinality(S) \in Nat /\ Cardinality(T) \in Nat /\ Cardinality(S) <= Cardinality(T)
           /\ \A x \in T \ S : Cardinality(S) + 1 <= Cardinality(T)
<1>1. /\ IsFiniteSet(S) /\ Cardinality(S) <= Cardinality(T)
      /\ Cardinality(S) = Cardinality(T) => S = T
      BY FS_Subset
<1>2. Cardinality(S) \in Nat /\ Cardinality(T) \in Nat
      BY <1>1, FS_CardinalityType
<1> QED
    BY <1>1, <1>2

\* The requests that are over stay so, and the others have told nothing.
LEMMA ToldOnce ==
    ASSUME SoundInv, NEW s \in Streams, StreamStep(s)
    PROVE  /\ stream'[s].pc = "over" \/ stream'[s].told = "nothing" \/ UNCHANGED stream
           /\ stream[s].pc = "over" => UNCHANGED stream
           /\ agent[s] = "failed" => agent'[s] = "failed"
<1>1. CASE \E j \in Jobs : OpenStream(s, j)
  <2>1. stream[s].pc = "unopened" /\ agent[s] = "none"
        BY <1>1 DEF OpenStream, SoundInv, StreamJobs
  <2>2. stream'[s].told = "nothing"
        BY <1>1, <2>1, RequestStep DEF SoundInv
  <2> QED
      BY <2>1, <2>2
<1>2. CASE ShowProgress(s) \/ AgentEnds(s) \/ AgentFails(s)
      BY <1>2 DEF ShowProgress, Pop, AgentEnds, AgentFails, SoundInv, StreamTypeOK
<1>3. CASE ShowOutcome(s) \/ SeeClosed(s) \/ Timeout(s) \/ Disconnect(s) \/ ChatComplete(s) \/ ChatError(s)
  <2>1. stream[s].pc = "open" /\ UNCHANGED agent
        BY <1>3 DEF ShowOutcome, Pop, SeeClosed, Timeout, Disconnect, ChatComplete, ChatError, Open
  <2>2. PICK told : EndStream(s, told)
        BY <1>3 DEF ShowOutcome, SeeClosed, Timeout, Disconnect, ChatComplete, ChatError
  <2>3. stream \in [Streams -> Request]
        BY DEF SoundInv, StreamTypeOK, Request
  <2>4. stream'[s].pc = "over"
        BY <2>2, <2>3 DEF EndStream, Request
  <2> QED
      BY <2>1, <2>4
<1> QED
    BY <1>1, <1>2, <1>3 DEF StreamStep

\* What a request that acts adds to the failures by chat streams of a job: nothing, or one
\* when it calls Fail.
LEMMA ChatFailsGrow ==
    ASSUME SoundInv, PlacesInv, NEW s \in Streams, StreamStep(s), NEW j \in Jobs
    PROVE  /\ IsFiniteSet(Chats(j)')
           /\ ChatFails(j) <= ChatFails(j)'
           /\ JobOf(s) = j /\ (AgentFails(s) \/ ChatError(s)) => ChatFails(j) + 1 <= ChatFails(j)'
<1>1. \A r \in Streams : r # s => stream'[r] = stream[r] /\ agent'[r] = agent[r]
      BY RequestStep DEF SoundInv
<1>2. stream[s].pc = "unopened" \/ stream'[s].job = stream[s].job
      BY RequestStep DEF SoundInv
<1>3. IsFiniteSet(Chats(j)') /\ Chats(j) \subseteq Chats(j)'
  <2>1. IsFiniteSet(Chats(j)) /\ NoJob # j
        BY QueueConstants DEF PlacesInv
  <2>2. Chats(j)' \in SUBSET (Chats(j) \cup {s})
        BY <1>1 DEF Chats, JobOf
  <2>3. stream[s].pc = "unopened" => s \notin Chats(j)
        BY <2>1 DEF SoundInv, StreamJobs, Unopened, Chats, JobOf
  <2>4. IsFiniteSet(Chats(j) \cup {s})
        BY <2>1, FS_AddElement
  <2>5. IsFiniteSet(Chats(j)')
        BY <2>2, <2>4, FS_Subset
  <2>6. Chats(j) \subseteq Chats(j)'
        BY <1>1, <1>2, <2>3 DEF Chats, JobOf
  <2> QED
      BY <2>5, <2>6
<1>4. AgentFailed(j) \subseteq AgentFailed(j)'
  <2>1. \A r \in Chats(j) : r # s => agent'[r] = agent[r]
        BY <1>1 DEF Chats
  <2>2. agent[s] = "failed" => agent'[s] = "failed"
        BY ToldOnce
  <2> QED
      BY <1>3, <2>1, <2>2 DEF AgentFailed
<1>5. LoopFailed(j) \subseteq LoopFailed(j)'
  <2>1. \A r \in Chats(j) : r # s => stream'[r] = stream[r]
        BY <1>1 DEF Chats
  <2>2. ASSUME s \in LoopFailed(j) PROVE stream'[s].told = "failed"
    <3>1. stream[s].told = "failed"
          BY <2>2 DEF LoopFailed
    <3>2. stream[s].pc # "open"
          BY <3>1 DEF PlacesInv, Open
    <3>3. stream[s].pc # "unopened"
          BY <3>1 DEF SoundInv, StreamJobs, Unopened
    <3>4. stream[s].pc = "over"
          BY <3>2, <3>3 DEF SoundInv, StreamTypeOK
    <3> QED
        BY <3>1, <3>4, ToldOnce
  <2> QED
      BY <1>3, <2>1, <2>2 DEF LoopFailed
<1>6. AgentFailed(j)' \in SUBSET Chats(j)' /\ LoopFailed(j)' \in SUBSET Chats(j)'
      BY DEF AgentFailed, LoopFailed
<1>7. IsFiniteSet(AgentFailed(j)') /\ IsFiniteSet(LoopFailed(j)')
      BY <1>3, <1>6, FS_Subset
<1>8. /\ Cardinality(AgentFailed(j)) \in Nat /\ Cardinality(AgentFailed(j)') \in Nat
      /\ Cardinality(AgentFailed(j)) <= Cardinality(AgentFailed(j)')
      /\ \A x \in AgentFailed(j)' \ AgentFailed(j) :
            Cardinality(AgentFailed(j)) + 1 <= Cardinality(AgentFailed(j)')
      BY <1>4, <1>7, OneMore
<1>9. /\ Cardinality(LoopFailed(j)) \in Nat /\ Cardinality(LoopFailed(j)') \in Nat
      /\ Cardinality(LoopFailed(j)) <= Cardinality(LoopFailed(j)')
      /\ \A x \in LoopFailed(j)' \ LoopFailed(j) :
            Cardinality(LoopFailed(j)) + 1 <= Cardinality(LoopFailed(j)')
      BY <1>5, <1>7, OneMore
<1>10. ASSUME JobOf(s) = j, AgentFails(s) PROVE s \in AgentFailed(j)' \ AgentFailed(j)
  <2>1. agent[s] = "failing" /\ agent'[s] = "failed" /\ s \in Chats(j)
        BY <1>10 DEF AgentFails, SoundInv, StreamTypeOK, StreamJobs, Chats
  <2> QED
      BY <1>3, <2>1 DEF AgentFailed
<1>11. ASSUME JobOf(s) = j, ChatError(s) PROVE s \in LoopFailed(j)' \ LoopFailed(j)
  <2>1. agent[s] # "none" /\ stream[s].told = "nothing" /\ EndStream(s, "failed")
        BY <1>11 DEF ChatError, PlacesInv
  <2>2. stream'[s].told = "failed"
        BY <2>1, EndsRequest DEF SoundInv, Told
  <2>3. s \in Chats(j)
        BY <1>11, <2>1 DEF SoundInv, StreamJobs, Chats
  <2> QED
      BY <1>3, <2>1, <2>2, <2>3 DEF LoopFailed
<1>12. /\ ChatFails(j) = Cardinality(AgentFailed(j)) + Cardinality(LoopFailed(j))
       /\ ChatFails(j)' = Cardinality(AgentFailed(j)') + Cardinality(LoopFailed(j)')
       BY DEF ChatFails
<1>13. ChatFails(j) <= ChatFails(j)'
       BY <1>8, <1>9, <1>12
<1>14. ASSUME JobOf(s) = j, AgentFails(s) \/ ChatError(s)
       PROVE  ChatFails(j) + 1 <= ChatFails(j)'
       BY <1>8, <1>9, <1>10, <1>11, <1>12, <1>14
<1> QED
    BY <1>3, <1>13, <1>14

\* Places and runs of a job that grow no more than the failures by its chat streams.
LEMMA PlacesKeep ==
    ASSUME TypeOK, TypeOK', PlacesInv, NEW j \in Jobs, IsFiniteSet(Chats(j)'),
           Cardinality(Entries(j)') + Cardinality(Holders(j)') + ChatFails(j)
              <= Cardinality(Entries(j)) + Cardinality(Holders(j)) + ChatFails(j)',
           attempts'[j] + Cardinality(Entries(j)') + ChatFails(j)
              <= attempts[j] + Cardinality(Entries(j)) + ChatFails(j)',
           j \notin issued' => /\ j \notin issued
                               /\ Cardinality(Entries(j)') <= Cardinality(Entries(j))
                               /\ Cardinality(Holders(j)') <= Cardinality(Holders(j))
                               /\ attempts'[j] <= attempts[j]
    PROVE  PlacesOf(j)'
<1>1. IsFiniteSet(Chats(j)) /\ PlacesOf(j)
      BY DEF PlacesInv, PlacesOf
<1>2. /\ Places(j) = Cardinality(Entries(j)) + Cardinality(Holders(j))
      /\ Places(j)' = Cardinality(Entries(j)') + Cardinality(Holders(j)')
      BY DEF Places
<1>3. Places(j)' <= 1 + ChatFails(j)'
      BY <1>1, <1>2, PlacesNat DEF PlacesOf
<1>4. attempts'[j] + Cardinality(Entries(j)') <= MaxRetries + ChatFails(j)'
      BY <1>1, PlacesNat DEF PlacesOf
<1>5. j \notin issued' => Places(j)' = 0 /\ attempts'[j] = 0
      BY <1>1, <1>2, PlacesNat DEF PlacesOf
<1> QED
    BY <1>3, <1>4, <1>5 DEF PlacesOf

\* A method that no chat stream calls, for a job other than j, or for j where it adds none.
LEMMA PlacesMethod ==
    ASSUME TypeOK, TypeOK', PlacesInv, NEW j \in Jobs, NEW k \in Jobs, Method(k),
           UNCHANGED streamVars, Holders(j)' \subseteq Holders(j),
           j # k \/ ~(Enqueue(k) \/ Dequeue(k) \/ Retry(k))
    PROVE  PlacesOf(j)'
<1>1. IsFiniteSet(Chats(j)) /\ Chats(j)' = Chats(j) /\ ChatFails(j)' = ChatFails(j)
      BY DEF PlacesInv, streamVars, Chats, ChatFails, AgentFailed, LoopFailed, JobOf
<1>2. /\ Cardinality(Entries(j)') <= Cardinality(Entries(j))
      /\ attempts'[j] <= attempts[j]
      /\ j \in issued' <=> j \in issued
      BY MethodPlaces DEF TypeOK
<1>3. Cardinality(Holders(j)') <= Cardinality(Holders(j))
      BY <1>1, PlacesNat, OneMore
<1> QED
    BY <1>1, <1>2, <1>3, PlacesNat, PlacesKeep

\* Steps that move no job.
LEMMA PlacesFrame ==
    ASSUME TypeOK, TypeOK', PlacesInv, NEW j \in Jobs, UNCHANGED streamVars,
           UNCHANGED <<issued, pending>>, attempts'[j] <= attempts[j],
           Holders(j)' \subseteq Holders(j)
    PROVE  PlacesOf(j)'
<1>1. IsFiniteSet(Chats(j)) /\ Chats(j)' = Chats(j) /\ ChatFails(j)' = ChatFails(j)
      BY DEF PlacesInv, streamVars, Chats, ChatFails, AgentFailed, LoopFailed, JobOf
<1>2. Entries(j)' = Entries(j)
      BY DEF Entries
<1>3. Cardinality(Holders(j)') <= Cardinality(Holders(j))
      BY <1>1, PlacesNat, OneMore
<1> QED
    BY <1>1, <1>2, <1>3, PlacesNat, PlacesKeep

\* A worker takes a job: a place in the slice becomes one in its hands.
LEMMA PlacesTake ==
    ASSUME TypeOK, TypeOK', PlacesInv, UNCHANGED streamVars, NEW j \in Jobs,
           NEW w \in Workers, Take(w)
    PROVE  PlacesOf(j)'
<1>1. PICK k \in Jobs : Dequeue(k) /\ worker' = [worker EXCEPT ![w] = [pc |-> "running", job |-> k]]
      BY DEF Take
<1>2. worker[w] = Idle
      BY WorkerStates DEF Take
<1>3. Holders(j)' = IF j = k THEN Holders(j) \cup {w} ELSE Holders(j)
      BY <1>1, <1>2, HoldersTake
<1>4. CASE j # k
      BY <1>1, <1>3, <1>4, PlacesMethod DEF Method
<1>5. CASE j = k
  <2>1. IsFiniteSet(Chats(j)) /\ Chats(j)' = Chats(j) /\ ChatFails(j)' = ChatFails(j)
        BY DEF PlacesInv, streamVars, Chats, ChatFails, AgentFailed, LoopFailed, JobOf
  <2>2. /\ Cardinality(Entries(j)') <= Cardinality(Entries(j)) - 1
        /\ attempts'[j] <= attempts[j] + 1
    <3>1. Method(k)
          BY <1>1 DEF Method
    <3> QED
        BY <1>1, <1>5, <3>1, MethodPlaces DEF TypeOK
  <2>3. Cardinality(Holders(j)') <= Cardinality(Holders(j)) + 1
    <3>1. IsFiniteSet(Holders(j))
          BY <2>1, PlacesNat
    <3>2. Cardinality(Holders(j) \cup {w}) \in {Cardinality(Holders(j)), Cardinality(Holders(j)) + 1}
          BY <3>1, FS_AddElement, Zenon
    <3> QED
        BY <1>3, <1>5, <2>1, <3>2, PlacesNat
  <2>4. j \in issued
    <3>1. Places(j) = Cardinality(Entries(j)) + Cardinality(Holders(j)) /\ PlacesOf(j)
          BY DEF Places, PlacesInv
    <3>2. Places(j) # 0
          BY <2>1, <2>2, <3>1, PlacesNat
    <3> QED
        BY <3>1, <3>2 DEF PlacesOf
  <2>5. issued' = issued
        BY <1>1 DEF Dequeue
  <2> QED
      BY <2>1, <2>2, <2>3, <2>4, <2>5, PlacesNat, PlacesKeep
<1> QED
    BY <1>4, <1>5

\* A worker's run ends: when it is to be tried again, its place moves back to the slice.
LEMMA PlacesEnd ==
    ASSUME TypeOK, TypeOK', PlacesInv, UNCHANGED streamVars, NEW j \in Jobs,
           NEW w \in Workers, Succeed(w) \/ Err(w)
    PROVE  PlacesOf(j)'
<1>1. PICK k : /\ k = worker[w].job
               /\ w \in BusySet /\ worker' = [worker EXCEPT ![w] = Idle]
               /\ Complete(k) \/ Fail(k) \/ NotFound(k)
      BY DEF Succeed, Err, Running, BusySet, Busy
<1>2. k \in Jobs /\ w \in Holders(k) /\ Method(k)
      BY <1>1, WorkerStates DEF Held, Holders, BusySet, Method
<1>3. Holders(j)' = Holders(j) \ {w}
      BY <1>1, HoldersRelease
<1>4. CASE j # k \/ ~(Enqueue(k) \/ Dequeue(k) \/ Retry(k))
      BY <1>2, <1>3, <1>4, PlacesMethod
<1>5. CASE j = k /\ Retry(k)
  <2>1. IsFiniteSet(Chats(j)) /\ Chats(j)' = Chats(j) /\ ChatFails(j)' = ChatFails(j) /\ PlacesOf(j)
        BY DEF PlacesInv, streamVars, Chats, ChatFails, AgentFailed, LoopFailed, JobOf
  <2>2. Cardinality(Entries(j)') <= Cardinality(Entries(j)) + 1
        BY <1>2, MethodPlaces DEF TypeOK
  <2>3. attempts' = attempts /\ attempts[j] < MaxRetries /\ issued' = issued
        BY <1>5 DEF Retry
  <2>4. Cardinality(Holders(j)') = Cardinality(Holders(j)) - 1
    <3>1. IsFiniteSet(Holders(j))
          BY <2>1, PlacesNat
    <3>2. w \in Holders(j)
          BY <1>2, <1>5
    <3> QED
        BY <1>3, <3>1, <3>2, FS_RemoveElement
  <2>5. /\ Places(j) = Cardinality(Entries(j)) + Cardinality(Holders(j))
        /\ Places(j)' = Cardinality(Entries(j)') + Cardinality(Holders(j)')
        BY DEF Places
  <2>6. Places(j) <= 1 + ChatFails(j) /\ (j \notin issued => Places(j) = 0)
        BY <2>1 DEF PlacesOf
  <2>7. /\ Places(j)' <= 1 + ChatFails(j)'
        /\ attempts'[j] + Cardinality(Entries(j)') <= MaxRetries + ChatFails(j)'
        /\ j \in issued'
        BY <2>1, <2>2, <2>3, <2>4, <2>5, <2>6, PlacesNat
  <2> QED
      BY <2>7 DEF PlacesOf
<1>6. ~(Enqueue(k) \/ Dequeue(k)) \/ Retry(k)
      BY <1>1 DEF Complete, Fail, FailForGood, NotFound, Enqueue, Dequeue, queueVars, jobVars,
                  TypeOK, QueueTypeOK
<1> QED
    BY <1>4, <1>5, <1>6


\* A job that is accepted has one place, in the slice.
LEMMA PlacesEnqueue ==
    ASSUME TypeOK, TypeOK', PlacesInv, UNCHANGED streamVars, UNCHANGED poolVars,
           NEW j \in Jobs, Enqueue(j)
    PROVE  PlacesOf(j)'
<1>1. IsFiniteSet(Chats(j)) /\ Chats(j)' = Chats(j) /\ PlacesOf(j)
      BY DEF PlacesInv, streamVars, Chats, JobOf
<1>2. j \notin issued /\ j \in issued' /\ attempts' = attempts
      BY DEF Enqueue
<1>3. Holders(j)' = Holders(j)
      BY DEF poolVars, Holders, Busy
<1>4. Cardinality(Entries(j)') <= Cardinality(Entries(j)) + 1
  <2>1. Method(j)
        BY DEF Method
  <2> QED
      BY <2>1, MethodPlaces DEF TypeOK
<1>5. /\ Places(j) = Cardinality(Entries(j)) + Cardinality(Holders(j))
      /\ Places(j)' = Cardinality(Entries(j)') + Cardinality(Holders(j)')
      BY DEF Places
<1>6. Places(j) = 0 /\ attempts[j] = 0
      BY <1>1, <1>2 DEF PlacesOf
<1>7. /\ Places(j)' <= 1 + ChatFails(j)'
      /\ attempts'[j] + Cardinality(Entries(j)') <= MaxRetries + ChatFails(j)'
      BY <1>1, <1>2, <1>3, <1>4, <1>5, <1>6, PlacesNat
<1> QED
    BY <1>2, <1>7 DEF PlacesOf

\* Any step of the pool and its clients.
LEMMA PlacesPool ==
    ASSUME TypeOK, TypeOK', PlacesInv, UNCHANGED streamVars, PoolStep \/ Client, NEW j \in Jobs
    PROVE  PlacesOf(j)'
<1>1. attempts \in [Jobs -> Nat] /\ attempts[j] <= attempts[j]
      BY DEF TypeOK, QueueTypeOK
<1>2. ASSUME worker' = worker PROVE Holders(j)' = Holders(j)
      BY <1>2 DEF Holders, Busy
<1>3. ASSUME NEW w \in Workers, Take(w) PROVE PlacesOf(j)'
      BY <1>3, PlacesTake
<1>4. ASSUME NEW w \in Workers, Succeed(w) \/ Err(w) PROVE PlacesOf(j)'
      BY <1>4, PlacesEnd
<1>5. ASSUME NEW w \in Workers, Skip(w) PROVE PlacesOf(j)'
  <2>1. Holders(j)' = Holders(j) \ {w}
        BY <1>5, HoldersRelease DEF Skip
  <2> QED
      BY <1>1, <1>5, <2>1, PlacesFrame DEF Skip, queueVars, jobVars
<1>6. ASSUME NEW w \in Workers, Step(w) \/ ReportPlan(w) \/ Leave(w) PROVE PlacesOf(j)'
  <2>1. UNCHANGED <<issued, pending, attempts>>
        BY <1>6 DEF Step, ReportPlan, Leave, queueVars, jobVars
  <2>2. Holders(j)' = Holders(j)
        BY <1>6, HoldersSame
  <2> QED
      BY <1>1, <2>1, <2>2, PlacesFrame
<1>7. ASSUME (\E k \in Jobs : Forward(k)) \/ Stop \/ WaitDone \/ CloseQueue PROVE PlacesOf(j)'
  <2>1. UNCHANGED <<issued, pending, attempts>> /\ worker' = worker
        BY <1>7 DEF Forward, ReportProgress, Stop, WaitDone, CloseQueue, Close, poolVars, queueVars,
                    jobVars
  <2> QED
      BY <1>1, <1>2, <2>1, PlacesFrame
<1>8. ASSUME Cleanup PROVE PlacesOf(j)'
  <2>1. PICK J \in SUBSET Jobs : CleanupOldResults(J)
        BY <1>8 DEF Cleanup
  <2>2. UNCHANGED <<issued, pending>> /\ attempts'[j] <= attempts[j] /\ worker' = worker
        BY <1>1, <1>8, <2>1 DEF CleanupOldResults, Cleanup, poolVars
  <2> QED
      BY <1>2, <2>2, PlacesFrame
<1>9. ASSUME Client PROVE PlacesOf(j)'
  <2>1. PICK k \in Jobs : Enqueue(k) \/ Cancel(k) \/ Delete(k)
        BY <1>9 DEF Client
  <2>2. UNCHANGED poolVars /\ Holders(j)' = Holders(j)
        BY <1>2, <1>9 DEF Client, poolVars
  <2>3. CASE k = j /\ Enqueue(k)
        BY <2>2, <2>3, PlacesEnqueue
  <2>4. CASE ~(k = j /\ Enqueue(k))
    <3>1. Method(k)
          BY <2>1 DEF Method
    <3>2. j # k \/ ~(Enqueue(k) \/ Dequeue(k) \/ Retry(k))
          BY <1>1, <2>1, <2>4 DEF Cancel, Delete, Dequeue, Retry, TypeOK, QueueTypeOK
    <3> QED
        BY <2>2, <3>1, <3>2, PlacesMethod
  <2> QED
      BY <2>3, <2>4
<1> QED
    BY <1>3, <1>4, <1>5, <1>6, <1>7, <1>8, <1>9 DEF PoolStep

\* Only the two calls of Fail put a job back.
LEMMA RetryByChat ==
    ASSUME TypeOK, StreamTypeOK, StreamJobs, NEW s \in Streams, StreamStep(s),
           ~UNCHANGED jobVars, JobOf(s) \in Jobs, status'[JobOf(s)] = "pending"
    PROVE  AgentFails(s) \/ ChatError(s)
<1>1. ~(\E j \in Jobs : OpenStream(s, j)) /\ ~ShowProgress(s) /\ ~ShowOutcome(s)
      BY DEF OpenStream, Subscribe, ShowProgress, ShowOutcome, Pop
<1>2. ~SeeClosed(s) /\ ~Timeout(s) /\ ~Disconnect(s) /\ ~AgentEnds(s)
      BY DEF SeeClosed, Timeout, Disconnect, AgentEnds, vars, queueVars
<1>3. ~ChatComplete(s)
      BY DEF ChatComplete, Complete, NotFound, queueVars, TypeOK, QueueTypeOK
<1> QED
    BY <1>1, <1>2, <1>3 DEF StreamStep

\* A request that acts: each Fail that adds a place is one more failure by a chat stream.
LEMMA PlacesStream ==
    ASSUME SoundInv, TypeOK', PlacesInv, NEW s \in Streams, StreamStep(s), NEW j \in Jobs
    PROVE  PlacesOf(j)' /\ IsFiniteSet(Chats(j)')
<1>1. TypeOK /\ StreamTypeOK /\ StreamJobs /\ IsFiniteSet(Chats(j))
      BY DEF SoundInv, PlacesInv
<1>2. /\ IsFiniteSet(Chats(j)')
      /\ ChatFails(j) <= ChatFails(j)'
      /\ JobOf(s) = j /\ (AgentFails(s) \/ ChatError(s)) => ChatFails(j) + 1 <= ChatFails(j)'
      BY ChatFailsGrow
<1>3. Holders(j)' = Holders(j)
  <2>1. UNCHANGED poolVars
        BY <1>1, StreamActs
  <2> QED
      BY <2>1 DEF poolVars, Holders, Busy
<1>4. CASE UNCHANGED jobVars
  <2>1. Entries(j)' = Entries(j) /\ attempts' = attempts /\ issued' = issued
        BY <1>4 DEF jobVars, Entries
  <2> QED
      BY <1>1, <1>2, <1>3, <2>1, PlacesNat, PlacesKeep
<1>5. CASE /\ ~UNCHANGED jobVars
           /\ \E k \in Jobs \ Quiet : JobOf(s) = k /\ (Complete(k) \/ Fail(k) \/ NotFound(k))
  <2>1. PICK k \in Jobs : JobOf(s) = k /\ (Complete(k) \/ Fail(k) \/ NotFound(k))
        BY <1>5
  <2>2. Method(k) /\ ~Enqueue(k) /\ ~Dequeue(k)
        BY <1>1, <2>1 DEF Method, Enqueue, Dequeue, Complete, Fail, Retry, FailForGood, NotFound,
                          queueVars, jobVars, TypeOK, QueueTypeOK
  <2>3. /\ Cardinality(Entries(j)') <= Cardinality(Entries(j)) + 1
        /\ j # k \/ ~Retry(k) => Cardinality(Entries(j)') <= Cardinality(Entries(j))
        /\ attempts'[j] <= attempts[j]
        /\ j \in issued' <=> j \in issued
        BY <1>1, <2>2, MethodPlaces DEF TypeOK
  <2>4. CASE j # k \/ ~Retry(k)
        BY <1>1, <1>2, <1>3, <2>3, <2>4, PlacesNat, PlacesKeep
  <2>5. CASE j = k /\ Retry(k)
    <3>1. j \in issued
      <4>1. stream[s].pc # "unopened"
            BY <2>1, QueueConstants DEF SoundInv, StreamJobs, Unopened, JobOf
      <4> QED
          BY <1>1, <2>1, <2>5, <4>1 DEF StreamJobs
    <3>2. AgentFails(s) \/ ChatError(s)
      <4>1. status'[k] = "pending"
            BY <1>1, <2>5 DEF Retry, TypeOK, QueueTypeOK
      <4> QED
          BY <1>1, <1>5, <2>1, <4>1, RetryByChat
    <3> QED
        BY <1>1, <1>2, <1>3, <2>1, <2>3, <2>5, <3>1, <3>2, PlacesNat, PlacesKeep
  <2> QED
      BY <2>4, <2>5
<1> QED
    BY <1>1, <1>2, <1>4, <1>5, StreamActs

LEMMA PlacesInit == StreamInit => PlacesInv
<1> SUFFICES ASSUME StreamInit PROVE PlacesInv
    OBVIOUS
<1>1. \A s \in Streams : ~Open(s) /\ stream[s].told = "nothing" /\ JobOf(s) = NoJob /\ agent[s] = "none"
      BY DEF StreamInit, Unopened, Open, JobOf
<1>2. ASSUME NEW j \in Jobs PROVE PlacesOf(j) /\ IsFiniteSet(Chats(j))
  <2>1. NoJob # j
        BY QueueConstants
  <2>2. Chats(j) = {} /\ AgentFailed(j) = {} /\ LoopFailed(j) = {}
        BY <1>1, <2>1 DEF Chats, AgentFailed, LoopFailed
  <2>3. Entries(j) = {} /\ Holders(j) = {} /\ attempts[j] = 0
        BY DEF StreamInit, Init, QueueInit, Entries, Holders, Busy, Idle
  <2>4. Cardinality({}) = 0 /\ IsFiniteSet({})
        BY FS_EmptySet
  <2>5. ChatFails(j) = 0 /\ Places(j) = 0
        BY <2>2, <2>3, <2>4 DEF ChatFails, Places
  <2>6. MaxRetries \in Nat
        BY QueueConstants
  <2> QED
      BY <2>2, <2>3, <2>4, <2>5, <2>6 DEF PlacesOf
<1> QED
    BY <1>1, <1>2 DEF PlacesInv

LEMMA PlacesStep == SoundInv /\ PlacesInv /\ [StreamNext]_allVars => PlacesInv'
<1> SUFFICES ASSUME SoundInv, PlacesInv, [StreamNext]_allVars PROVE PlacesInv'
    OBVIOUS
<1>1. TypeOK /\ TypeOK'
      BY StreamTypes DEF SoundInv
<1>2. ASSUME UNCHANGED streamVars
      PROVE  /\ \A j \in Jobs : IsFiniteSet(Chats(j)')
             /\ \A s \in Streams : stream'[s].pc = "open" => stream'[s].told = "nothing"
      BY <1>2 DEF streamVars, PlacesInv, Chats, JobOf, Open
<1>3. CASE (PoolStep \/ Client) /\ UNCHANGED streamVars
  <2>1. ASSUME NEW j \in Jobs PROVE PlacesOf(j)'
        BY <1>1, <1>3, PlacesPool
  <2> QED
      BY <1>2, <1>3, <2>1 DEF PlacesInv, Open
<1>4. ASSUME NEW s \in Streams, StreamStep(s) PROVE PlacesInv'
  <2>1. ASSUME NEW j \in Jobs PROVE PlacesOf(j)' /\ IsFiniteSet(Chats(j)')
        BY <1>1, <1>4, PlacesStream
  <2>2. ASSUME NEW r \in Streams, stream'[r].pc = "open" PROVE stream'[r].told = "nothing"
    <3>1. CASE stream'[r] = stream[r]
          BY <2>2, <3>1 DEF PlacesInv, Open
    <3>2. CASE r = s
          BY <1>4, <2>2, <3>1, <3>2, ToldOnce
    <3>3. CASE r # s
          BY <1>4, <3>1, <3>3, RequestStep DEF SoundInv
    <3> QED
        BY <3>2, <3>3
  <2> QED
      BY <2>1, <2>2 DEF PlacesInv, Open
<1>5. CASE UNCHANGED allVars
  <2>1. UNCHANGED streamVars /\ UNCHANGED <<issued, pending, attempts, worker>>
        BY <1>5 DEF allVars, vars, queueVars, jobVars, poolVars
  <2>2. ASSUME NEW j \in Jobs PROVE PlacesOf(j)'
    <3>1. Holders(j)' = Holders(j)
          BY <2>1 DEF Holders, Busy
    <3>2. attempts'[j] <= attempts[j]
          BY <1>1, <2>1 DEF TypeOK, QueueTypeOK
    <3> QED
        BY <1>1, <2>1, <3>1, <3>2, PlacesFrame
  <2> QED
      BY <1>2, <2>1, <2>2 DEF PlacesInv, Open
<1> QED
    BY <1>3, <1>4, <1>5 DEF StreamNext

\* However chat requests of one job overlap, and whoever runs the job beside them, it has one
\* place in the slice and with the workers, and one more for each time a chat stream
\* failed it, and its runs are bounded likewise: reconnecting and leaving cost nothing
\* (StreamEvaluationChat of ai/handler.go, Complete and Fail of queue.go).
THEOREM ReconnectsAccountedHolds == StreamSpec => []ReconnectsAccounted
<1>1. SoundInv /\ PlacesInv => ReconnectsAccounted
  <2> SUFFICES ASSUME SoundInv, PlacesInv, NEW j \in Jobs
               PROVE  Places(j) <= 1 + ChatFails(j) /\ attempts[j] <= MaxRetries + ChatFails(j)
      BY DEF ReconnectsAccounted
  <2>1. PlacesOf(j)
        BY DEF PlacesInv
  <2>2. attempts[j] \in Nat /\ MaxRetries \in Nat /\ ChatFails(j) \in Nat /\ Cardinality(Entries(j)) \in Nat
    <3>1. pending \in Seq(Jobs) /\ attempts[j] \in Nat
          BY DEF SoundInv, TypeOK, QueueTypeOK
    <3>2. Entries(j) = At(pending, j)
          BY DEF Entries, At
    <3>3. /\ AgentFailed(j) \in SUBSET Chats(j) /\ LoopFailed(j) \in SUBSET Chats(j)
          /\ IsFiniteSet(Chats(j))
          BY DEF PlacesInv, AgentFailed, LoopFailed
    <3>4. Cardinality(AgentFailed(j)) \in Nat /\ Cardinality(LoopFailed(j)) \in Nat
          BY <3>3, FS_Subset, FS_CardinalityType
    <3> QED
        BY <3>1, <3>2, <3>4, CountNat, QueueConstants DEF ChatFails
  <2> QED
      BY <2>1, <2>2 DEF PlacesOf
<1> QED
    BY <1>1, PlacesInit, PlacesStep, StreamInvariance, PTL DEF StreamSpec
===============================================================================

--------------------------- MODULE WorkerPoolProofs ---------------------------
(***************************************************************************)
(* Proofs about the queue and its workers (JobQueue.tla, WorkerPool.tla),  *)
(* for every set of jobs, every finite set of workers and every capacity:  *)
(* lemmas about the pending slice, type correctness, the inductive         *)
(* invariant and the safety properties that follow from it, and the steps  *)
(* of the abstract job board (JobLifecycle.tla) with the action properties *)
(* that are read off them.                                                 *)
(***************************************************************************)
EXTENDS WorkerPool, SequenceTheorems, FiniteSetTheorems, TLAPS

-------------------------------------------------------------------------------
(* The pending slice: what sorting, appending and removing do to the jobs it
   lists, to its order and to its length *)

\* A permutation of a slice of jobs is a slice of jobs of the same length.
LEMMA SortPendingType ==
    ASSUME NEW s \in Seq(Jobs), NEW t \in SortPending(s)
    PROVE  t \in Seq(Jobs) /\ Len(t) = Len(s) /\ DOMAIN t = DOMAIN s /\ Sorted(t)
<1>1. PICK p \in Bijection(DOMAIN s, DOMAIN s) : t = [i \in DOMAIN s |-> s[p[i]]]
      BY DEF SortPending
<1>2. p \in [DOMAIN s -> DOMAIN s]
      BY DEF Bijection, Injection
<1>3. DOMAIN s = 1 .. Len(s) /\ Len(s) \in Nat
      OBVIOUS
<1>4. \A i \in 1 .. Len(s) : s[p[i]] \in Jobs
      BY <1>2, <1>3
<1>5. t \in Seq(Jobs) /\ Len(t) = Len(s)
      BY <1>1, <1>3, <1>4
<1>6. Sorted(t)
      BY DEF SortPending
<1> QED
    BY <1>5, <1>6

\* Sorting changes neither which jobs are listed nor how often.
LEMMA SortPendingElems ==
    ASSUME NEW s \in Seq(Jobs), NEW t \in SortPending(s)
    PROVE  Elems(t) = Elems(s) /\ (Distinct(s) => Distinct(t))
<1>1. PICK p \in Bijection(DOMAIN s, DOMAIN s) : t = [i \in DOMAIN s |-> s[p[i]]]
      BY DEF SortPending
<1>2. /\ p \in [DOMAIN s -> DOMAIN s]
      /\ \A i, k \in DOMAIN s : p[i] = p[k] => i = k
      /\ \A k \in DOMAIN s : \E i \in DOMAIN s : p[i] = k
      BY DEF Bijection, Injection, Surjection, IsInjective
<1>3. DOMAIN t = DOMAIN s /\ \A i \in DOMAIN s : t[i] = s[p[i]]
      BY <1>1
<1>4. Elems(t) = Elems(s)
  <2>1. ASSUME NEW x \in Elems(t) PROVE x \in Elems(s)
        BY <1>2, <1>3 DEF Elems
  <2>2. ASSUME NEW x \in Elems(s) PROVE x \in Elems(t)
    <3>1. PICK k \in DOMAIN s : x = s[k]
          BY DEF Elems
    <3>2. PICK i \in DOMAIN s : p[i] = k
          BY <1>2
    <3> QED
        BY <1>3, <3>1, <3>2 DEF Elems
  <2> QED
      BY <2>1, <2>2
<1>5. ASSUME Distinct(s) PROVE Distinct(t)
      BY <1>2, <1>3, <1>5 DEF Distinct
<1> QED
    BY <1>4, <1>5

\* Requeue: the job is added to those that wait, and the slice is sorted.
LEMMA RequeueSlice ==
    ASSUME NEW s \in Seq(Jobs), NEW j \in Jobs, NEW t \in SortPending(Append(s, j))
    PROVE  /\ t \in Seq(Jobs)
           /\ Len(t) = Len(s) + 1
           /\ Sorted(t)
           /\ Elems(t) = Elems(s) \cup {j}
           /\ Distinct(s) /\ j \notin Elems(s) => Distinct(t)
<1> DEFINE a == Append(s, j)
<1>1. /\ a \in Seq(Jobs) /\ Len(a) = Len(s) + 1
      /\ \A i \in 1 .. Len(s) : a[i] = s[i]
      /\ a[Len(s) + 1] = j
      OBVIOUS
<1>2. DOMAIN a = 1 .. Len(s) + 1 /\ DOMAIN s = 1 .. Len(s) /\ Len(s) \in Nat
      BY <1>1
<1>3. Elems(a) = Elems(s) \cup {j}
  <2>1. ASSUME NEW x \in Elems(a) PROVE x \in Elems(s) \cup {j}
        BY <1>1, <1>2 DEF Elems
  <2>2. ASSUME NEW x \in Elems(s) PROVE x \in Elems(a)
        BY <1>1, <1>2 DEF Elems
  <2>3. j \in Elems(a)
        BY <1>1, <1>2 DEF Elems
  <2> QED
      BY <2>1, <2>2, <2>3
<1>4. ASSUME Distinct(s), j \notin Elems(s) PROVE Distinct(a)
      BY <1>1, <1>2, <1>4 DEF Distinct, Elems
<1> HIDE DEF a
<1>5. t \in SortPending(a)
      BY DEF a
<1> QED
    BY <1>1, <1>3, <1>4, <1>5, SortPendingType, SortPendingElems

\* Dequeue: the head leaves, the rest keeps its order.
LEMMA TailSlice ==
    ASSUME NEW s \in Seq(Jobs), s # <<>>
    PROVE  /\ Head(s) \in Jobs /\ Head(s) \in Elems(s)
           /\ Tail(s) \in Seq(Jobs)
           /\ Len(Tail(s)) = Len(s) - 1
           /\ Sorted(s) => Sorted(Tail(s))
           /\ Distinct(s) => Distinct(Tail(s))
           /\ Distinct(s) => Elems(Tail(s)) = Elems(s) \ {Head(s)}
<1> DEFINE t == Tail(s)
<1>1. /\ Len(s) \in Nat \ {0} /\ DOMAIN s = 1 .. Len(s)
      /\ Head(s) = s[1] /\ s[1] \in Jobs
      /\ t \in Seq(Jobs) /\ Len(t) = Len(s) - 1
      /\ \A i \in 1 .. Len(s) - 1 : t[i] = s[i + 1]
      BY HeadTailProperties
<1>2. DOMAIN t = 1 .. Len(s) - 1
      BY <1>1
<1> HIDE DEF t
<1>7. \A i \in DOMAIN t : i \in Nat /\ i + 1 \in DOMAIN s /\ t[i] = s[i + 1]
      BY <1>1, <1>2
<1>3. ASSUME Sorted(s), NEW i \in DOMAIN t, NEW k \in DOMAIN t, i < k
      PROVE  ~Before(t[k], t[i])
  <2>1. i + 1 < k + 1
        BY <1>3, <1>7
  <2> QED
      BY <1>3, <1>7, <2>1 DEF Sorted
<1>4. ASSUME Distinct(s), NEW i \in DOMAIN t, NEW k \in DOMAIN t, t[i] = t[k]
      PROVE  i = k
  <2>1. i + 1 = k + 1
        BY <1>4, <1>7 DEF Distinct
  <2> QED
      BY <1>7, <2>1
<1>5. ASSUME Distinct(s) PROVE Elems(t) = Elems(s) \ {Head(s)}
  <2>1. ASSUME NEW x \in Elems(t) PROVE x \in Elems(s) \ {Head(s)}
    <3>1. PICK i \in 1 .. Len(s) - 1 : x = s[i + 1]
          BY <1>1, <1>2 DEF Elems
    <3>2. i + 1 \in DOMAIN s /\ i + 1 # 1 /\ 1 \in DOMAIN s
          BY <1>1
    <3>3. s[i + 1] # s[1]
          BY <1>5, <3>2 DEF Distinct
    <3> QED
        BY <1>1, <3>1, <3>2, <3>3 DEF Elems
  <2>2. ASSUME NEW x \in Elems(s) \ {Head(s)} PROVE x \in Elems(t)
    <3>1. PICK i \in 1 .. Len(s) : x = s[i]
          BY <1>1 DEF Elems
    <3>2. i # 1 /\ i - 1 \in 1 .. Len(s) - 1 /\ (i - 1) + 1 = i
          BY <1>1, <3>1
    <3> QED
        BY <1>1, <1>2, <3>1, <3>2 DEF Elems
  <2> QED
      BY <2>1, <2>2
<1>6. Head(s) \in Elems(s)
      BY <1>1 DEF Elems
<1> QED
    BY <1>1, <1>3, <1>4, <1>5, <1>6 DEF t, Sorted, Distinct

\* Cancel and Delete: what is left is a slice of jobs, no longer than before.
LEMMA WithoutType ==
    ASSUME NEW s \in Seq(Jobs), NEW j \in Jobs
    PROVE  Without(s, j) \in Seq(Jobs) /\ Len(Without(s, j)) <= Len(s)
<1> DEFINE at == {i \in DOMAIN s : s[i] = j}
           first == CHOOSE i \in at : \A k \in at : i <= k
           t == [i \in 1 .. Len(s) - 1 |-> IF i < first THEN s[i] ELSE s[i + 1]]
<1>1. DOMAIN s = 1 .. Len(s) /\ Len(s) \in Nat /\ \A i \in DOMAIN s : s[i] \in Jobs
      OBVIOUS
<1>2. CASE at = {}
      BY <1>1, <1>2 DEF Without
<1>3. CASE at # {}
  <2>1. Without(s, j) = t
        BY <1>3 DEF Without
  <2>2. Len(s) - 1 \in Nat
        BY <1>1, <1>3
  <2> HIDE DEF first
  <2>3. \A i \in 1 .. Len(s) - 1 : s[i] \in Jobs /\ s[i + 1] \in Jobs
        BY <1>1
  <2>4. \A i \in 1 .. Len(s) - 1 : (IF i < first THEN s[i] ELSE s[i + 1]) \in Jobs
        BY <2>3
  <2> DEFINE n == Len(s) - 1
  <2>5. t \in [1 .. n -> Jobs]
        BY <2>4
  <2>6. n \in Nat
        BY <2>2
  <2> HIDE DEF n, t
  <2>7. t \in Seq(Jobs) /\ Len(t) = n
        BY <2>5, <2>6
  <2> QED
      BY <1>1, <2>1, <2>7 DEF n
<1> QED
    BY <1>2, <1>3

\* Cancel and Delete: of a slice that lists no job twice exactly the job leaves, and
\* the rest keeps its order.
LEMMA WithoutSlice ==
    ASSUME NEW s \in Seq(Jobs), NEW j \in Jobs, Distinct(s)
    PROVE  /\ Sorted(s) => Sorted(Without(s, j))
           /\ Distinct(Without(s, j))
           /\ Elems(Without(s, j)) = Elems(s) \ {j}
<1> DEFINE at == {i \in DOMAIN s : s[i] = j}
           t == Without(s, j)
<1>1. DOMAIN s = 1 .. Len(s) /\ Len(s) \in Nat /\ \A i \in DOMAIN s : s[i] \in Jobs
      OBVIOUS
<1>2. CASE at = {}
  <2>1. t = s
        BY <1>2 DEF Without
  <2>2. j \notin Elems(s)
        BY <1>2 DEF Elems
  <2> QED
      BY <2>1, <2>2
<1>3. CASE at # {}
  <2> DEFINE first == CHOOSE i \in at : \A k \in at : i <= k
             from(i) == IF i < first THEN i ELSE i + 1
  <2>1. first \in 1 .. Len(s) /\ s[first] = j
    <3>1. PICK i \in at : TRUE
          BY <1>3
    <3>2. i \in Nat /\ \A k \in at : k = i
          BY <1>1, <3>1 DEF Distinct
    <3>3. \E m \in at : \A k \in at : m <= k
          BY <3>1, <3>2
    <3>4. first \in at
          BY <3>3
    <3> HIDE DEF first
    <3> QED
        BY <1>1, <3>4
  <2>2. t = [i \in 1 .. Len(s) - 1 |-> IF i < first THEN s[i] ELSE s[i + 1]]
        BY <1>3 DEF Without
  <2> HIDE DEF first, at
  <2>3. DOMAIN t = 1 .. Len(s) - 1 /\ \A i \in DOMAIN t : t[i] = s[from(i)]
        BY <2>2
  <2> HIDE DEF t
  <2>4. \A i \in DOMAIN t : i \in Nat /\ from(i) \in DOMAIN s /\ from(i) # first
        BY <1>1, <2>1, <2>3
  <2>5. \A i, k \in DOMAIN t : i < k => from(i) < from(k)
        BY <2>1, <2>3
  <2>6. ASSUME NEW m \in DOMAIN s, m # first
        PROVE  \E i \in DOMAIN t : from(i) = m
    <3>1. CASE m < first
      <4>1. m \in DOMAIN t /\ from(m) = m
            BY <1>1, <2>1, <2>3, <3>1
      <4> QED
          BY <4>1
    <3>2. CASE m > first
      <4>1. m - 1 \in DOMAIN t /\ from(m - 1) = m
            BY <1>1, <2>1, <2>3, <3>2
      <4> QED
          BY <4>1
    <3> QED
        BY <1>1, <2>1, <2>6, <3>1, <3>2
  <2>7. ASSUME NEW i \in DOMAIN t, NEW k \in DOMAIN t, from(i) = from(k)
        PROVE  i = k
        BY <2>1, <2>4, <2>7
  <2> HIDE DEF from
  <2>8. ASSUME Sorted(s) PROVE Sorted(t)
        BY <2>3, <2>4, <2>5, <2>8 DEF Sorted
  <2>9. Distinct(t)
        BY <2>3, <2>4, <2>7 DEF Distinct
  <2>10. ASSUME NEW x \in Elems(t) PROVE x \in Elems(s) \ {j}
    <3>1. PICK i \in DOMAIN t : x = s[from(i)]
          BY <2>3 DEF Elems
    <3>2. from(i) \in DOMAIN s /\ s[from(i)] # s[first]
          BY <1>1, <2>1, <2>4 DEF Distinct
    <3> QED
        BY <2>1, <3>1, <3>2 DEF Elems
  <2>11. ASSUME NEW x \in Elems(s) \ {j} PROVE x \in Elems(t)
    <3>1. PICK m \in DOMAIN s : x = s[m]
          BY DEF Elems
    <3>2. PICK i \in DOMAIN t : from(i) = m
          BY <2>1, <2>6, <3>1
    <3> QED
        BY <2>3, <3>1, <3>2 DEF Elems
  <2> QED
      BY <2>8, <2>9, <2>10, <2>11 DEF t
<1> QED
    BY <1>2, <1>3

-------------------------------------------------------------------------------
(* Type correctness *)

ChanType == [closed : BOOLEAN, buf : Seq(Event)]

\* What the two ways to tell the subscribers leave of the channels' types.
LEMMA NotifyType ==
    ASSUME QueueTypeOK, NEW j \in Jobs, NEW e \in Event,
           Notify(j, e) \/ NotifyAndClose(j, e)
    PROVE  /\ subscribers' \in [Jobs -> SUBSET Channels]
           /\ chan' \in [Channels -> ChanType]
<1>1. \A c \in Channels : chan[c] \in ChanType
      BY DEF QueueTypeOK, ChanType
<1>2. \A c \in Channels : Send(chan[c], e) \in ChanType
  <2> SUFFICES ASSUME NEW c \in Channels PROVE Send(chan[c], e) \in ChanType
      OBVIOUS
  <2>1. Append(chan[c].buf, e) \in Seq(Event)
        BY <1>1 DEF ChanType
  <2> QED
      BY <1>1, <2>1 DEF Send, ChanType
<1>3. \A c \in Channels : [Send(chan[c], e) EXCEPT !.closed = TRUE] \in ChanType
      BY <1>2 DEF ChanType
<1>4. CASE Notify(j, e)
      BY <1>1, <1>2, <1>4 DEF Notify, QueueTypeOK
<1>5. CASE NotifyAndClose(j, e)
      BY <1>1, <1>3, <1>5 DEF NotifyAndClose, QueueTypeOK
<1> QED
    BY <1>4, <1>5

LEMMA CloseSubscribersType ==
    ASSUME QueueTypeOK, NEW J \in SUBSET Jobs, CloseSubscribers(J)
    PROVE  /\ subscribers' \in [Jobs -> SUBSET Channels]
           /\ chan' \in [Channels -> ChanType]
<1>1. \A c \in Channels : chan[c] \in ChanType /\ [chan[c] EXCEPT !.closed = TRUE] \in ChanType
      BY DEF QueueTypeOK, ChanType
<1> QED
    BY <1>1 DEF CloseSubscribers, QueueTypeOK

LEMMA EventTypes ==
    /\ \A s \in Stage : Progress(s) \in Event
    /\ [stage |-> "completed", data |-> TRUE] \in Event
BY DEF Event, Stage, Progress

\* The pending slice stays a slice of jobs.
LEMMA PendingType ==
    ASSUME QueueTypeOK, NEW j \in Jobs,
           \/ UNCHANGED pending
           \/ Requeue(j)
           \/ pending' = Without(pending, j)
           \/ pending # <<>> /\ pending' = Tail(pending)
    PROVE  pending' \in Seq(Jobs)
<1>1. pending \in Seq(Jobs)
      BY DEF QueueTypeOK
<1>2. CASE Requeue(j)
      BY <1>1, <1>2, RequeueSlice DEF Requeue
<1>3. CASE pending' = Without(pending, j)
      BY <1>1, <1>3, WithoutType
<1>4. CASE pending # <<>> /\ pending' = Tail(pending)
      BY <1>1, <1>4, HeadTailProperties
<1> QED
    BY <1>1, <1>2, <1>3, <1>4

\* Every method of the queue keeps its types.
LEMMA QueueOpType ==
    ASSUME QueueTypeOK, NEW j \in Jobs,
           \/ Enqueue(j) \/ Dequeue(j) \/ Complete(j) \/ Fail(j) \/ Cancel(j) \/ Delete(j)
           \/ NotFound(j)
    PROVE  QueueTypeOK'
<1> USE DEF QueueTypeOK, jobVars, chanVars, queueVars, Status, Final
<1>1. CASE Enqueue(j)
  <2>1. pending' \in Seq(Jobs)
        BY <1>1, PendingType DEF Enqueue
  <2> QED
      BY <1>1, <2>1 DEF Enqueue
<1>2. CASE Dequeue(j)
  <2>1. pending' \in Seq(Jobs)
        BY <1>2, PendingType DEF Dequeue
  <2>2. status' \in [Jobs -> Status] /\ attempts' \in [Jobs -> Nat]
        BY <1>2 DEF Dequeue
  <2> QED
      BY <1>2, <2>1, <2>2 DEF Dequeue
<1>3. CASE Complete(j)
  <2>1. subscribers' \in [Jobs -> SUBSET Channels] /\ chan' \in [Channels -> ChanType]
        BY <1>3, NotifyType, EventTypes DEF Complete
  <2> QED
      BY <1>3, <2>1 DEF Complete, ChanType
<1>4. CASE Retry(j)
  <2>1. pending' \in Seq(Jobs)
        BY <1>4, PendingType DEF Retry
  <2> QED
      BY <1>4, <2>1 DEF Retry
<1>5. CASE FailForGood(j)
  <2>1. Progress("failed") \in Event
        BY EventTypes DEF Stage
  <2>2. subscribers' \in [Jobs -> SUBSET Channels] /\ chan' \in [Channels -> ChanType]
        BY <1>5, <2>1, NotifyType DEF FailForGood
  <2> QED
      BY <1>5, <2>2 DEF FailForGood, ChanType
<1>6. CASE Cancel(j)
  <2>1. Progress("cancelled") \in Event
        BY EventTypes DEF Stage
  <2>2. subscribers' \in [Jobs -> SUBSET Channels] /\ chan' \in [Channels -> ChanType]
        BY <1>6, <2>1, NotifyType DEF Cancel
  <2>3. pending' \in Seq(Jobs)
        BY <1>6, PendingType DEF Cancel
  <2> QED
      BY <1>6, <2>2, <2>3 DEF Cancel, ChanType
<1>7. CASE Delete(j)
  <2>1. subscribers' \in [Jobs -> SUBSET Channels] /\ chan' \in [Channels -> ChanType]
        BY <1>7, CloseSubscribersType DEF Delete
  <2>2. pending' \in Seq(Jobs)
        BY <1>7, PendingType DEF Delete
  <2> QED
      BY <1>7, <2>1, <2>2 DEF Delete, ChanType
<1>8. CASE NotFound(j)
      BY <1>8 DEF NotFound
<1> QED
    BY <1>1, <1>2, <1>3, <1>4, <1>5, <1>6, <1>7, <1>8 DEF Fail

WorkerType == {Idle, Gone} \cup [pc : {"running", "finishing"}, job : Jobs]

LEMMA TypeInit == Init => TypeOK
<1> SUFFICES ASSUME Init PROVE TypeOK
    OBVIOUS
<1>1. QueueTypeOK
  <2>1. [closed |-> FALSE, buf |-> <<>>] \in ChanType
        BY EmptySeq DEF ChanType
  <2>2. chan \in [Channels -> ChanType]
        BY <2>1 DEF Init, QueueInit
  <2>3. pending \in Seq(Jobs)
        BY EmptySeq DEF Init, QueueInit
  <2> QED
      BY <2>2, <2>3 DEF Init, QueueInit, QueueTypeOK, Status, ChanType
<1>2. worker \in [Workers -> {Idle, Gone}] /\ fwd \in [Jobs -> Seq(Stage)]
      BY DEF Init
<1> QED
    BY <1>1, <1>2 DEF Init, TypeOK

LEMMA TypeStep == TypeOK /\ [Next]_vars => TypeOK'
<1> SUFFICES ASSUME TypeOK, [Next]_vars PROVE TypeOK'
    OBVIOUS
<1> USE DEF TypeOK
<1>1. ASSUME NEW w \in Workers, Busy(w)
      PROVE  worker[w].job \in Jobs /\ worker[w] \in [pc : {"running", "finishing"}, job : Jobs]
      BY <1>1 DEF Busy, Idle, Gone
<1>2. ASSUME NEW w \in Workers, NEW stage \in Stage, Busy(w), Emit(w, stage)
      PROVE  fwd' \in [Jobs -> Seq(Stage)]
  <2>1. worker[w].job \in Jobs
        BY <1>1, <1>2
  <2>2. Append(fwd[worker[w].job], stage) \in Seq(Stage)
        BY <2>1
  <2> QED
      BY <1>2, <2>1, <2>2 DEF Emit
<1>3. ASSUME NEW w \in Workers, Take(w) PROVE TypeOK'
  <2>1. PICK j \in Jobs : Dequeue(j) /\ worker' = [worker EXCEPT ![w] = [pc |-> "running", job |-> j]]
        BY <1>3 DEF Take
  <2>2. QueueTypeOK'
        BY <2>1, QueueOpType
  <2> QED
      BY <1>3, <2>1, <2>2 DEF Take
<1>4. ASSUME NEW w \in Workers, Skip(w) PROVE TypeOK'
      BY <1>4 DEF Skip, QueueTypeOK, queueVars, jobVars, chanVars
<1>5. ASSUME NEW w \in Workers, Step(w) PROVE TypeOK'
  <2>1. fwd' \in [Jobs -> Seq(Stage)]
        BY <1>2, <1>5 DEF Step, Running, Busy, Stage
  <2> QED
      BY <1>5, <2>1 DEF Step, QueueTypeOK, queueVars, jobVars, chanVars
<1>6. ASSUME NEW w \in Workers, ReportPlan(w) PROVE TypeOK'
  <2>1. fwd' \in [Jobs -> Seq(Stage)]
        BY <1>2, <1>6 DEF ReportPlan, Running, Busy, Stage
  <2>2. [worker[w] EXCEPT !.pc = "finishing"] \in [pc : {"running", "finishing"}, job : Jobs]
        BY <1>1, <1>6 DEF ReportPlan, Running, Busy
  <2> QED
      BY <1>6, <2>1, <2>2 DEF ReportPlan, QueueTypeOK, queueVars, jobVars, chanVars
<1>7. ASSUME NEW w \in Workers, Succeed(w) PROVE TypeOK'
  <2>1. worker[w].job \in Jobs
        BY <1>1, <1>7 DEF Succeed, Running, Busy
  <2>2. QueueTypeOK'
        BY <1>7, <2>1, QueueOpType DEF Succeed
  <2> QED
      BY <1>7, <2>2 DEF Succeed
<1>8. ASSUME NEW w \in Workers, Err(w) PROVE TypeOK'
  <2>1. worker[w].job \in Jobs
        BY <1>1, <1>8 DEF Err, Running, Busy
  <2>2. QueueTypeOK'
        BY <1>8, <2>1, QueueOpType DEF Err
  <2> QED
      BY <1>8, <2>2 DEF Err
<1>9. ASSUME NEW w \in Workers, Leave(w) PROVE TypeOK'
      BY <1>9 DEF Leave, QueueTypeOK, queueVars, jobVars, chanVars
<1>10. ASSUME NEW j \in Jobs, Forward(j) PROVE TypeOK'
  <2>1. fwd[j] \in Seq(Stage) /\ fwd[j] # <<>>
        BY <1>10 DEF Forward
  <2>2. Head(fwd[j]) \in Stage /\ Tail(fwd[j]) \in Seq(Stage)
        BY <2>1, HeadTailProperties
  <2>3. Progress(Head(fwd[j])) \in Event
        BY <2>2, EventTypes
  <2>4. subscribers' \in [Jobs -> SUBSET Channels] /\ chan' \in [Channels -> ChanType]
        BY <1>10, <2>3, NotifyType DEF Forward, ReportProgress
  <2>5. QueueTypeOK'
        BY <1>10, <2>4 DEF Forward, ReportProgress, QueueTypeOK, jobVars, ChanType
  <2> QED
      BY <1>10, <2>2, <2>5 DEF Forward
<1>11. CASE Stop \/ WaitDone
       BY <1>11 DEF Stop, WaitDone, QueueTypeOK, queueVars, jobVars, chanVars
<1>12. CASE CloseQueue
  <2>1. subscribers' \in [Jobs -> SUBSET Channels] /\ chan' \in [Channels -> ChanType]
        BY <1>12, CloseSubscribersType DEF CloseQueue, Close
  <2> QED
      BY <1>12, <2>1 DEF CloseQueue, Close, QueueTypeOK, jobVars, ChanType, poolVars
<1>13. CASE Cleanup
  <2>1. PICK J \in SUBSET Jobs : CleanupOldResults(J)
        BY <1>13 DEF Cleanup
  <2> QED
      BY <1>13, <2>1 DEF Cleanup, CleanupOldResults, QueueTypeOK, chanVars, poolVars, Status
<1>14. CASE Client
  <2>1. QueueTypeOK'
        BY <1>14, QueueOpType DEF Client
  <2> QED
      BY <1>14, <2>1 DEF Client, poolVars
<1>15. CASE Listen
  <2>1. PICK j \in Jobs, c \in Channels : Subscribe(j, c)
        BY <1>15 DEF Listen
  <2> QED
      BY <1>15, <2>1 DEF Listen, Subscribe, QueueTypeOK, jobVars, poolVars
<1>16. CASE UNCHANGED vars
       BY <1>16 DEF vars, poolVars, queueVars, jobVars, chanVars, QueueTypeOK
<1> QED
    BY <1>3, <1>4, <1>5, <1>6, <1>7, <1>8, <1>9, <1>10, <1>11, <1>12, <1>13, <1>14,
       <1>15, <1>16 DEF Next, PoolStep

\* Every variable keeps its type: what the queue hands to workers and handlers is
\* always a job, a status, a result or an event of the kinds types.go declares.
THEOREM TypeCorrect == Spec => []TypeOK
BY TypeInit, TypeStep, PTL DEF Spec

-------------------------------------------------------------------------------
(* The inductive invariant *)

\* Only a busy worker has a job, and an idle one is in the state Idle.
LEMMA WorkerStates ==
    ASSUME TypeOK
    PROVE  /\ Held \subseteq Jobs
           /\ \A w \in Workers : worker[w].pc = "idle" => worker[w] = Idle
           /\ \A w \in Workers : worker[w].pc = "stopped" => worker[w] = Gone
           /\ \A w \in BusySet : worker[w] \in [pc : {"running", "finishing"}, job : Jobs]
<1>1. ASSUME NEW w \in Workers
      PROVE  \/ worker[w] = Idle
             \/ worker[w] = Gone
             \/ /\ worker[w].pc \in {"running", "finishing"} /\ worker[w].job \in Jobs
                /\ worker[w] \in [pc : {"running", "finishing"}, job : Jobs]
  <2> DEFINE R == [pc : {"running", "finishing"}, job : Jobs]
  <2>1. worker[w] \in {Idle, Gone} \cup R
        BY DEF TypeOK
  <2>2. ASSUME worker[w] \in R
        PROVE  worker[w].pc \in {"running", "finishing"} /\ worker[w].job \in Jobs
        BY <2>2
  <2>3. R = [pc : {"running", "finishing"}, job : Jobs]
        OBVIOUS
  <2> HIDE DEF R
  <2>4. worker[w] \in R \/ worker[w] = Idle \/ worker[w] = Gone
        BY <2>1
  <2> QED
      BY <2>2, <2>3, <2>4
<1>2. Gone.pc = "stopped" /\ Idle.pc = "idle"
      BY DEF Gone, Idle
<1> DEFINE R == [pc : {"running", "finishing"}, job : Jobs]
<1>3. \A w \in Workers : \/ worker[w] = Idle
                         \/ worker[w] = Gone
                         \/ /\ worker[w].pc \in {"running", "finishing"}
                            /\ worker[w].job \in Jobs /\ worker[w] \in R
      BY <1>1
<1> HIDE DEF R
<1>4. /\ Held \subseteq Jobs
      /\ \A w \in Workers : worker[w].pc = "idle" => worker[w] = Idle
      /\ \A w \in Workers : worker[w].pc = "stopped" => worker[w] = Gone
      /\ \A w \in BusySet : worker[w] \in R
      BY <1>2, <1>3 DEF Held, BusySet, Busy
<1> QED
    BY <1>4 DEF R

\* A worker without a job takes one.
LEMMA HeldTake ==
    ASSUME TypeOK, NEW w \in Workers, NEW j \in Jobs, worker[w] = Idle,
           worker' = [worker EXCEPT ![w] = [pc |-> "running", job |-> j]]
    PROVE  w \notin BusySet /\ BusySet' = BusySet \cup {w} /\ Held' = Held \cup {j}
<1>1. w \notin BusySet
      BY DEF BusySet, Busy, Idle
<1>2. /\ worker'[w].pc = "running" /\ worker'[w].job = j
      /\ \A v \in Workers \ {w} : worker'[v] = worker[v]
      BY DEF TypeOK
<1>3. BusySet' = BusySet \cup {w}
      BY <1>2 DEF BusySet, Busy
<1>4. Held' = Held \cup {j}
      BY <1>1, <1>2, <1>3 DEF Held, BusySet
<1> QED
    BY <1>1, <1>3, <1>4

\* A busy worker lets go of its job.
LEMMA HeldRelease ==
    ASSUME TypeOK, NEW w \in BusySet, worker' = [worker EXCEPT ![w] = Idle],
           \A u, v \in BusySet : worker[u].job = worker[v].job => u = v
    PROVE  BusySet' = BusySet \ {w} /\ Held' = Held \ {worker[w].job}
<1>1. w \in Workers
      BY DEF BusySet
<1>2. worker'[w].pc = "idle" /\ \A v \in Workers \ {w} : worker'[v] = worker[v]
      BY <1>1 DEF TypeOK, Idle
<1>3. BusySet' = BusySet \ {w}
      BY <1>2 DEF BusySet, Busy
<1>4. Held' = Held \ {worker[w].job}
      BY <1>2, <1>3 DEF Held, BusySet
<1> QED
    BY <1>3, <1>4

\* Nobody takes a job or lets go of one.
LEMMA HeldSame ==
    ASSUME TypeOK,
           \A w \in Workers : Busy(w)' = Busy(w) /\ (Busy(w) => worker'[w].job = worker[w].job)
    PROVE  BusySet' = BusySet /\ Held' = Held
<1>1. BusySet' = BusySet
      BY DEF BusySet
<1> QED
    BY <1>1 DEF Held, BusySet

\* What a step may do to the pending slice.
LEMMA SliceStep ==
    ASSUME IInv, NEW j \in Jobs
    PROVE  /\ Requeue(j) /\ j \notin Elems(pending) =>
                  /\ Distinct(pending') /\ Sorted(pending')
                  /\ Elems(pending') = Elems(pending) \cup {j}
                  /\ Len(pending') = Len(pending) + 1
           /\ pending' = Without(pending, j) =>
                  /\ Distinct(pending') /\ Sorted(pending')
                  /\ Elems(pending') = Elems(pending) \ {j}
                  /\ Len(pending') <= Len(pending)
           /\ pending # <<>> /\ j = Head(pending) /\ pending' = Tail(pending) =>
                  /\ Distinct(pending') /\ Sorted(pending')
                  /\ j \in Elems(pending)
                  /\ Elems(pending') = Elems(pending) \ {j}
                  /\ Len(pending') = Len(pending) - 1
<1>1. pending \in Seq(Jobs) /\ Distinct(pending) /\ Sorted(pending)
      BY DEF IInv, TypeOK, QueueTypeOK, NoDoubleProcessing
<1>2. ASSUME Requeue(j), j \notin Elems(pending)
      PROVE  /\ Distinct(pending') /\ Sorted(pending')
             /\ Elems(pending') = Elems(pending) \cup {j}
             /\ Len(pending') = Len(pending) + 1
      BY <1>1, <1>2, RequeueSlice DEF Requeue
<1>3. ASSUME pending' = Without(pending, j)
      PROVE  /\ Distinct(pending') /\ Sorted(pending')
             /\ Elems(pending') = Elems(pending) \ {j}
             /\ Len(pending') <= Len(pending)
      BY <1>1, <1>3, WithoutSlice, WithoutType
<1>4. ASSUME pending # <<>>, j = Head(pending), pending' = Tail(pending)
      PROVE  /\ Distinct(pending') /\ Sorted(pending')
             /\ j \in Elems(pending)
             /\ Elems(pending') = Elems(pending) \ {j}
             /\ Len(pending') = Len(pending) - 1
      BY <1>1, <1>4, TailSlice
<1> QED
    BY <1>2, <1>3, <1>4

\* The numbers BacklogBounded adds up.
LEMMA Counts ==
    ASSUME TypeOK
    PROVE  /\ IsFiniteSet(BusySet)
           /\ Cardinality(BusySet) \in Nat
           /\ Cardinality(BusySet) <= Cardinality(Workers)
           /\ Cardinality(Workers) \in Nat
           /\ Capacity \in Nat
           /\ Len(pending) \in Nat
           /\ \A w \in Workers \ BusySet :
                  /\ Cardinality(BusySet \cup {w}) = Cardinality(BusySet) + 1
                  /\ Cardinality(BusySet) < Cardinality(Workers)
           /\ \A w \in BusySet : Cardinality(BusySet \ {w}) = Cardinality(BusySet) - 1
<1>1. BusySet \subseteq Workers /\ IsFiniteSet(Workers)
      BY PoolConstants DEF BusySet
<1>2. /\ IsFiniteSet(BusySet)
      /\ Cardinality(BusySet) <= Cardinality(Workers)
      /\ Cardinality(BusySet) \in Nat /\ Cardinality(Workers) \in Nat
      BY <1>1, FS_Subset, FS_CardinalityType
<1>3. ASSUME NEW w \in Workers \ BusySet
      PROVE  /\ Cardinality(BusySet \cup {w}) = Cardinality(BusySet) + 1
             /\ Cardinality(BusySet) < Cardinality(Workers)
  <2>1. Cardinality(BusySet \cup {w}) = Cardinality(BusySet) + 1
        BY <1>2, FS_AddElement
  <2>2. BusySet \cup {w} \subseteq Workers
        BY <1>1
  <2>3. Cardinality(BusySet \cup {w}) <= Cardinality(Workers)
        BY <1>1, <2>2, FS_Subset
  <2> QED
      BY <1>2, <2>1, <2>3
<1>4. ASSUME NEW w \in BusySet
      PROVE  Cardinality(BusySet \ {w}) = Cardinality(BusySet) - 1
      BY <1>2, FS_RemoveElement
<1>5. Capacity \in Nat /\ Len(pending) \in Nat
      BY QueueConstants DEF TypeOK, QueueTypeOK
<1> QED
    BY <1>2, <1>3, <1>4, <1>5

LEMMA InvInit == Init => IInv
<1> SUFFICES ASSUME Init PROVE IInv
    OBVIOUS
<1>1. TypeOK
      BY TypeInit
<1>2. BusySet = {} /\ Held = {}
      BY DEF Init, BusySet, Busy, Idle, Held
<1>3. Elems(pending) = {} /\ Distinct(pending) /\ Sorted(pending) /\ Len(pending) = 0
      BY DEF Init, QueueInit, Elems, Distinct, Sorted
<1>4. NoDoubleProcessing /\ HeldStatus
      BY <1>2, <1>3 DEF NoDoubleProcessing, HeldStatus, Init, QueueInit
<1>5. AttemptsBounded /\ ResultMatchesStatus /\ IssuedFirst /\ ProcessingIsHeld
      BY QueueConstants, PoolConstants
      DEF AttemptsBounded, ResultMatchesStatus, IssuedFirst, ProcessingIsHeld, HandledJobs,
          Final, Init, QueueInit
<1>6. StopOrder
      BY DEF StopOrder, Init, QueueInit
<1>7. BacklogBounded
  <2>1. Cardinality(BusySet) = 0
        BY <1>2, FS_EmptySet
  <2> QED
      BY <1>1, <1>3, <2>1, Counts DEF BacklogBounded
<1> QED
    BY <1>1, <1>3, <1>4, <1>5, <1>6, <1>7 DEF IInv

\* The parts of the invariant that a step which leaves slice, statuses, results and
\* workers' jobs alone cannot disturb.
LEMMA InvFrame ==
    ASSUME IInv, TypeOK', UNCHANGED <<jobVars>>, BusySet' = BusySet, Held' = Held,
           \A w \in BusySet : worker'[w].job = worker[w].job, StopOrder'
    PROVE  IInv'
<1>1. NoDoubleProcessing' /\ Sorted(pending)'
      BY DEF IInv, NoDoubleProcessing, jobVars, Elems, Distinct, Sorted, Before
<1>2. AttemptsBounded' /\ ResultMatchesStatus' /\ BacklogBounded'
      BY DEF IInv, AttemptsBounded, ResultMatchesStatus, BacklogBounded, jobVars
<1>3. HeldStatus' /\ IssuedFirst' /\ ProcessingIsHeld'
      BY DEF IInv, HeldStatus, IssuedFirst, ProcessingIsHeld, jobVars
<1> QED
    BY <1>1, <1>2, <1>3 DEF IInv

LEMMA InvEnqueue ==
    ASSUME IInv, TypeOK', NEW j \in Jobs, Enqueue(j), UNCHANGED poolVars
    PROVE  IInv'
<1> USE DEF Enqueue, poolVars
<1>1. BusySet' = BusySet /\ Held' = Held /\ worker' = worker
      BY DEF BusySet, Busy, Held
<1>2. j \notin issued /\ status[j] = "absent" /\ attempts[j] = 0 /\ results[j] = "none"
      BY DEF IInv, IssuedFirst, ResultMatchesStatus, Final
<1>3. j \notin Held /\ j \notin Elems(pending)
      BY <1>2 DEF IInv, HeldStatus, NoDoubleProcessing
<1>4. /\ Distinct(pending)' /\ Sorted(pending)'
      /\ Elems(pending') = Elems(pending) \cup {j}
      /\ Len(pending') = Len(pending) + 1
      BY <1>3, SliceStep
<1>5. \A k \in Jobs : status'[k] = IF k = j THEN "pending" ELSE status[k]
      BY DEF IInv, TypeOK, QueueTypeOK
<1>6. NoDoubleProcessing'
      BY <1>1, <1>3, <1>4, <1>5 DEF IInv, NoDoubleProcessing
<1>7. AttemptsBounded' /\ ResultMatchesStatus'
      BY <1>2, <1>5, QueueConstants, PoolConstants
      DEF IInv, AttemptsBounded, ResultMatchesStatus, Final
<1>8. HeldStatus' /\ IssuedFirst' /\ ProcessingIsHeld' /\ StopOrder'
      BY <1>1, <1>3, <1>5
      DEF IInv, HeldStatus, IssuedFirst, ProcessingIsHeld, StopOrder, HandledJobs, Idle, Gone
<1>9. BacklogBounded'
  <2>1. Len(pending) < Capacity
        OBVIOUS
  <2> QED
      BY <1>1, <1>4, <2>1, Counts DEF IInv, BacklogBounded
<1> QED
    BY <1>4, <1>6, <1>7, <1>8, <1>9 DEF IInv

\* Cancel and Delete.
LEMMA InvLeaves ==
    ASSUME IInv, TypeOK', NEW j \in Jobs, Cancel(j) \/ Delete(j), UNCHANGED poolVars
    PROVE  IInv'
<1> USE DEF Cancel, Delete, poolVars
<1>1. BusySet' = BusySet /\ Held' = Held /\ worker' = worker
      BY DEF BusySet, Busy, Held
<1>2. /\ Distinct(pending)' /\ Sorted(pending)'
      /\ Elems(pending') = Elems(pending) \ {j}
      /\ Len(pending') <= Len(pending)
      BY SliceStep
<1>3. /\ status[j] # "absent" /\ issued' = issued /\ closed' = closed /\ pool' = pool
      /\ status'[j] \in {"cancelled", "absent"}
      /\ attempts'[j] = attempts[j] \/ attempts'[j] = 0
      /\ results'[j] = "none"
      /\ \A k \in Jobs : k # j => /\ status'[k] = status[k]
                                  /\ attempts'[k] = attempts[k]
                                  /\ results'[k] = results[k]
      BY DEF IInv, TypeOK, QueueTypeOK, ResultMatchesStatus
<1>4. NoDoubleProcessing'
      BY <1>1, <1>2, <1>3, WorkerStates DEF IInv, NoDoubleProcessing
<1>5. AttemptsBounded' /\ ResultMatchesStatus'
      BY <1>3, PoolConstants, QueueConstants
      DEF IInv, AttemptsBounded, ResultMatchesStatus, Final
<1>6. HeldStatus' /\ IssuedFirst' /\ ProcessingIsHeld' /\ StopOrder'
      BY <1>1, <1>3, WorkerStates
      DEF IInv, HeldStatus, IssuedFirst, ProcessingIsHeld, StopOrder, HandledJobs
<1>7. BacklogBounded'
  <2>1. Len(pending') \in Nat
        BY DEF TypeOK, QueueTypeOK
  <2> QED
      BY <1>1, <1>2, <2>1, Counts DEF IInv, BacklogBounded
<1> QED
    BY <1>2, <1>4, <1>5, <1>6, <1>7 DEF IInv

LEMMA InvTake ==
    ASSUME IInv, TypeOK', NEW w \in Workers, Take(w)
    PROVE  IInv'
<1>1. PICK j \in Jobs : Dequeue(j) /\ worker' = [worker EXCEPT ![w] = [pc |-> "running", job |-> j]]
      BY DEF Take
<1> USE DEF Take
<1>2. worker[w] = Idle
      BY WorkerStates DEF IInv
<1>3. w \notin BusySet /\ BusySet' = BusySet \cup {w} /\ Held' = Held \cup {j}
      BY <1>1, <1>2, HeldTake DEF IInv
<1>4. /\ Distinct(pending)' /\ Sorted(pending)'
      /\ j \in Elems(pending)
      /\ Elems(pending') = Elems(pending) \ {j}
      /\ Len(pending') = Len(pending) - 1
      BY <1>1, SliceStep DEF Dequeue
<1>5. status[j] = "pending" /\ j \notin Held /\ j \in issued
      BY <1>4 DEF IInv, NoDoubleProcessing, IssuedFirst
<1>6. /\ status' = [status EXCEPT ![j] = "processing"]
      /\ attempts' = [attempts EXCEPT ![j] = @ + 1]
      /\ UNCHANGED <<issued, results, closed, pool>> /\ ~closed
      BY <1>1, <1>5 DEF Dequeue
<1>7. \A k \in Jobs : status'[k] = IF k = j THEN "processing" ELSE status[k]
      BY <1>6 DEF IInv, TypeOK, QueueTypeOK
<1>8. /\ worker'[w].job = j
      /\ \A v \in BusySet : worker'[v] = worker[v] /\ worker[v].job \in Held
      BY <1>1, <1>3 DEF IInv, TypeOK, BusySet, Held
<1>9. NoDoubleProcessing'
  <2>1. \A u, v \in BusySet' : worker'[u].job = worker'[v].job => u = v
        BY <1>3, <1>5, <1>8 DEF IInv, NoDoubleProcessing
  <2> QED
      BY <1>3, <1>4, <1>7, <2>1, WorkerStates DEF IInv, NoDoubleProcessing
<1>10. AttemptsBounded'
  <2>1. attempts[j] < MaxRetries /\ attempts[j] \in Nat /\ MaxRetries \in Nat
        BY <1>5, QueueConstants DEF IInv, AttemptsBounded, TypeOK, QueueTypeOK
  <2>2. attempts'[j] = attempts[j] + 1 /\ \A k \in Jobs : k # j => attempts'[k] = attempts[k]
        BY <1>6 DEF IInv, TypeOK, QueueTypeOK
  <2> QED
      BY <1>7, <2>1, <2>2 DEF IInv, AttemptsBounded
<1>11. ResultMatchesStatus'
       BY <1>5, <1>6, <1>7 DEF IInv, ResultMatchesStatus, Final
<1>12. HeldStatus' /\ ProcessingIsHeld'
       BY <1>3, <1>5, <1>6, <1>7 DEF IInv, HeldStatus, ProcessingIsHeld, HandledJobs
<1>13. IssuedFirst'
       BY <1>5, <1>6, <1>7 DEF IInv, IssuedFirst, TypeOK, QueueTypeOK
<1>14. StopOrder'
       BY <1>2, <1>6 DEF IInv, StopOrder, Idle, Gone
<1>15. BacklogBounded'
       BY <1>3, <1>4, Counts DEF IInv, BacklogBounded
<1> QED
    BY <1>4, <1>9, <1>10, <1>11, <1>12, <1>13, <1>14, <1>15 DEF IInv

\* A worker finds no handler for its job.
LEMMA InvSkip ==
    ASSUME IInv, TypeOK', NEW w \in Workers, Skip(w)
    PROVE  IInv'
<1> DEFINE j == worker[w].job
<1> USE DEF Skip, queueVars, jobVars
<1>1. w \in BusySet /\ j \in Held /\ j \notin HandledJobs
      BY DEF BusySet, Busy, Held, HandledJobs
<1>2. BusySet' = BusySet \ {w} /\ Held' = Held \ {j}
      BY <1>1, HeldRelease DEF IInv, NoDoubleProcessing
<1>3. \A v \in BusySet' : worker'[v] = worker[v]
      BY <1>2 DEF IInv, TypeOK, BusySet
<1>4. NoDoubleProcessing' /\ Sorted(pending)'
      BY <1>2, <1>3 DEF IInv, NoDoubleProcessing, Elems, Distinct, Sorted, Before
<1>5. AttemptsBounded' /\ ResultMatchesStatus' /\ HeldStatus' /\ IssuedFirst'
      BY <1>2 DEF IInv, AttemptsBounded, ResultMatchesStatus, HeldStatus, IssuedFirst
<1>6. ProcessingIsHeld'
      BY <1>1, <1>2 DEF IInv, ProcessingIsHeld
<1>7. StopOrder'
      BY DEF IInv, StopOrder, Gone
<1>8. BacklogBounded'
      BY <1>1, <1>2, Counts DEF IInv, BacklogBounded
<1> QED
    BY <1>4, <1>5, <1>6, <1>7, <1>8 DEF IInv

\* The end of a run: Complete, Fail, or neither when the job was deleted.
LEMMA InvEnds ==
    ASSUME IInv, TypeOK', NEW w \in BusySet, NEW j, j = worker[w].job,
           Complete(j) \/ Fail(j) \/ NotFound(j),
           worker' = [worker EXCEPT ![w] = Idle], UNCHANGED <<fwd, pool>>
    PROVE  IInv'
<1>1. w \in Workers /\ j \in Jobs /\ j \in Held /\ j \in issued
      BY DEF BusySet, Busy, Held, IInv, TypeOK, HeldStatus, Idle, Gone
<1>2. BusySet' = BusySet \ {w} /\ Held' = Held \ {j}
      BY HeldRelease DEF IInv, NoDoubleProcessing
<1>3. \A v \in BusySet' : worker'[v] = worker[v]
      BY <1>2 DEF IInv, TypeOK, BusySet
<1>4. \A v \in BusySet' : worker[v].job # j
      BY <1>2 DEF IInv, NoDoubleProcessing
<1>5. j \notin Elems(pending) /\ status[j] \in {"processing", "cancelled", "absent"}
      BY <1>1 DEF IInv, NoDoubleProcessing, HeldStatus
<1>6. /\ UNCHANGED <<issued, attempts, closed, pool>>
      /\ \A k \in Jobs : k # j => status'[k] = status[k] /\ results'[k] = results[k]
      /\ \/ status[j] = "absent" /\ status'[j] = "absent" /\ UNCHANGED <<pending, results>>
         \/ /\ status[j] # "absent" /\ status'[j] \in Final /\ UNCHANGED pending
            /\ results'[j] = status'[j]
         \/ /\ status[j] # "absent" /\ attempts[j] < MaxRetries /\ status'[j] = "pending"
            /\ Requeue(j) /\ UNCHANGED results
      BY <1>1
      DEF Complete, Fail, Retry, FailForGood, NotFound, queueVars, jobVars, Final,
          IInv, TypeOK, QueueTypeOK
<1>7. /\ Distinct(pending)' /\ Sorted(pending)'
      /\ Elems(pending') = IF status'[j] = "pending" THEN Elems(pending) \cup {j}
                           ELSE Elems(pending)
      /\ Len(pending') <= Len(pending) + 1
  <2>1. CASE UNCHANGED pending /\ status'[j] # "pending"
    <3>1. Len(pending) \in Nat
          BY DEF IInv, TypeOK, QueueTypeOK
    <3> QED
        BY <2>1, <3>1 DEF IInv, NoDoubleProcessing, Elems, Distinct, Sorted, Before
  <2>2. CASE Requeue(j) /\ status'[j] = "pending"
    <3>1. Len(pending) \in Nat
          BY DEF IInv, TypeOK, QueueTypeOK
    <3> QED
        BY <1>1, <1>5, <2>2, <3>1, SliceStep
  <2> QED
      BY <1>6, <2>1, <2>2 DEF Final
<1>8. NoDoubleProcessing'
  <2>1. \A k \in Jobs : status'[k] = "pending" <=> k \in Elems(pending')
        BY <1>5, <1>6, <1>7 DEF IInv, NoDoubleProcessing, Final
  <2>2. \A u, v \in BusySet' : worker'[u].job = worker'[v].job => u = v
        BY <1>2, <1>3 DEF IInv, NoDoubleProcessing
  <2>3. \A k \in Held' : k \in Jobs /\ status'[k] # "pending"
    <3>1. \A k \in Held : k \in Jobs
          BY WorkerStates DEF IInv
    <3> QED
        BY <1>2, <1>6, <3>1 DEF IInv, NoDoubleProcessing
  <2> QED
      BY <1>7, <2>1, <2>2, <2>3 DEF NoDoubleProcessing
<1>9. AttemptsBounded'
      BY <1>6 DEF IInv, AttemptsBounded, Final
<1>10. ResultMatchesStatus'
       BY <1>5, <1>6 DEF IInv, ResultMatchesStatus, Final
<1>11. HeldStatus' /\ IssuedFirst' /\ ProcessingIsHeld'
  <2>1. \A k \in Held : k \in Jobs
        BY WorkerStates DEF IInv
  <2> QED
      BY <1>1, <1>2, <1>6, <2>1
      DEF IInv, HeldStatus, IssuedFirst, ProcessingIsHeld, HandledJobs, Final
<1>12. StopOrder'
       BY <1>1, <1>6 DEF IInv, StopOrder, Gone, BusySet, Busy
<1>13. BacklogBounded'
  <2>1. Len(pending') \in Nat
        BY DEF TypeOK, QueueTypeOK
  <2> QED
      BY <1>2, <1>7, <2>1, Counts DEF IInv, BacklogBounded
<1> QED
    BY <1>7, <1>8, <1>9, <1>10, <1>11, <1>12, <1>13 DEF IInv

LEMMA InvStep == IInv /\ [Next]_vars => IInv'
<1> SUFFICES ASSUME IInv, [Next]_vars PROVE IInv'
    OBVIOUS
<1>1. TypeOK /\ TypeOK'
      BY TypeStep DEF IInv
<1>2. ASSUME NEW w \in Workers, Step(w) \/ ReportPlan(w) PROVE IInv'
  <2>0. w \in BusySet /\ worker[w].pc = "running"
        BY <1>2 DEF Step, ReportPlan, Running, BusySet, Busy
  <2>1. worker' = worker \/ worker' = [worker EXCEPT ![w].pc = "finishing"]
        BY <1>2 DEF Step, ReportPlan
  <2>2. \A v \in Workers : Busy(v)' = Busy(v) /\ worker'[v].job = worker[v].job
    <3> SUFFICES ASSUME NEW v \in Workers
                 PROVE  Busy(v)' = Busy(v) /\ worker'[v].job = worker[v].job
        OBVIOUS
    <3>1. CASE worker' = worker
          BY <3>1 DEF Busy
    <3>2. CASE worker' = [worker EXCEPT ![w].pc = "finishing"]
      <4>1. CASE v # w
            BY <1>1, <3>2, <4>1 DEF TypeOK, Busy
      <4>2. CASE v = w
        <5>1. Busy(w)
              BY <2>0 DEF Busy
        <5>2. worker[w] \in [pc : {"running", "finishing"}, job : Jobs]
              BY <1>1, <2>0, WorkerStates, Zenon
        <5>3. worker'[w] = [worker[w] EXCEPT !.pc = "finishing"]
              BY <1>1, <3>2 DEF TypeOK
        <5> QED
            BY <4>2, <5>1, <5>2, <5>3 DEF Busy
      <4> QED
          BY <4>1, <4>2
    <3> QED
        BY <2>1, <3>1, <3>2
  <2>3. BusySet' = BusySet /\ Held' = Held
        BY <1>1, <2>2, HeldSame
  <2>4. StopOrder'
    <3>1. worker[w] # Gone
          BY <2>0 DEF Gone
    <3>2. closed' = closed /\ pool' = pool
          BY <1>2 DEF Step, ReportPlan, queueVars
    <3> QED
        BY <3>1, <3>2 DEF IInv, StopOrder
  <2> QED
      BY <1>1, <1>2, <2>0, <2>2, <2>3, <2>4, InvFrame
      DEF Step, ReportPlan, queueVars, BusySet
<1>3. ASSUME NEW w \in Workers, Succeed(w) \/ Err(w) PROVE IInv'
  <2>1. w \in BusySet
        BY <1>3 DEF Succeed, Err, Running, BusySet, Busy
  <2> QED
      BY <1>1, <1>3, <2>1, InvEnds DEF Succeed, Err
<1>4. ASSUME NEW w \in Workers, Leave(w) PROVE IInv'
  <2>1. /\ worker'[w] = Gone /\ worker[w] = Idle
        /\ \A v \in Workers : v # w => worker'[v] = worker[v]
        BY <1>1, <1>4, WorkerStates DEF Leave, TypeOK
  <2>2. \A v \in Workers : Busy(v)' = Busy(v) /\ (Busy(v) => worker'[v].job = worker[v].job)
        BY <2>1 DEF Busy, Idle, Gone
  <2>3. BusySet' = BusySet /\ Held' = Held
        BY <1>1, <2>2, HeldSame
  <2>4. StopOrder'
        BY <1>4, <2>1 DEF Leave, IInv, StopOrder, queueVars
  <2> QED
      BY <1>1, <1>4, <2>2, <2>3, <2>4, InvFrame DEF Leave, queueVars, BusySet
<1>5. ASSUME \/ \E j \in Jobs : Forward(j)
             \/ Stop \/ WaitDone \/ CloseQueue \/ Listen
             \/ UNCHANGED vars
      PROVE  IInv'
  <2>1. UNCHANGED <<jobVars, worker>>
        BY <1>5 DEF Forward, ReportProgress, Stop, WaitDone, CloseQueue, Close, Listen, Subscribe,
                    vars, queueVars, poolVars
  <2>2. BusySet' = BusySet /\ Held' = Held
        BY <2>1 DEF BusySet, Held, Busy
  <2>3. StopOrder'
    <3>1. CASE WaitDone
          BY <1>1, <2>1, <3>1, WorkerStates DEF WaitDone, IInv, StopOrder, queueVars
    <3>2. CASE Stop
          BY <2>1, <3>2 DEF Stop, IInv, StopOrder, queueVars
    <3>3. CASE CloseQueue
          BY <2>1, <3>3 DEF CloseQueue, IInv, StopOrder, poolVars
    <3>4. CASE \/ \E j \in Jobs : Forward(j)
               \/ Listen
               \/ UNCHANGED vars
          BY <2>1, <3>4
          DEF Forward, ReportProgress, Listen, Subscribe, vars, queueVars, poolVars,
              IInv, StopOrder
    <3> QED
        BY <1>5, <3>1, <3>2, <3>3, <3>4
  <2> QED
      BY <1>1, <2>1, <2>2, <2>3, InvFrame
<1>6. ASSUME Cleanup PROVE IInv'
  <2>1. PICK J \in SUBSET Jobs : CleanupOldResults(J)
        BY <1>6 DEF Cleanup
  <2>2. BusySet' = BusySet /\ Held' = Held /\ worker' = worker
        BY <1>6 DEF Cleanup, poolVars, BusySet, Busy, Held
  <2>3. /\ UNCHANGED <<issued, pending, closed, pool>>
        /\ \A j \in J : status[j] \in Final
        /\ \A j \in Jobs : status'[j] = IF j \in J THEN "absent" ELSE status[j]
        /\ \A j \in Jobs : attempts'[j] = IF j \in J THEN 0 ELSE attempts[j]
        /\ \A j \in Jobs : results'[j] = IF j \in J THEN "none" ELSE results[j]
        BY <1>6, <2>1
        DEF Cleanup, CleanupOldResults, poolVars, IInv, ResultMatchesStatus
  <2>4. NoDoubleProcessing' /\ Sorted(pending)'
        BY <1>1, <2>2, <2>3, WorkerStates
        DEF IInv, NoDoubleProcessing, Final, Elems, Distinct, Sorted, Before
  <2>5. AttemptsBounded' /\ ResultMatchesStatus'
        BY <2>3, QueueConstants, PoolConstants DEF IInv, AttemptsBounded, ResultMatchesStatus, Final
  <2>6. HeldStatus' /\ IssuedFirst' /\ ProcessingIsHeld' /\ StopOrder'
        BY <1>1, <2>2, <2>3, WorkerStates
        DEF IInv, HeldStatus, IssuedFirst, ProcessingIsHeld, StopOrder, HandledJobs, Final
  <2>7. BacklogBounded'
        BY <2>2, <2>3 DEF IInv, BacklogBounded
  <2> QED
      BY <1>1, <2>4, <2>5, <2>6, <2>7 DEF IInv
<1>7. ASSUME Client PROVE IInv'
      BY <1>1, <1>7, InvEnqueue, InvLeaves DEF Client
<1> QED
    BY <1>1, <1>2, <1>3, <1>4, <1>5, <1>6, <1>7, InvTake, InvSkip DEF Next, PoolStep

\* The inductive invariant holds of every behaviour of queue, pool and clients.
THEOREM Invariance == Spec => []IInv
BY InvInit, InvStep, PTL DEF Spec

\* No job is queued or run twice: slice, statuses and workers agree about who has it.
THEOREM NeverTwice == Spec => []NoDoubleProcessing
<1>1. IInv => NoDoubleProcessing
      BY DEF IInv
<1> QED
    BY <1>1, Invariance, PTL

\* No handler is started more than MaxRetries times for one job.
THEOREM RetriesEnd == Spec => []AttemptsBounded
<1>1. IInv => AttemptsBounded
      BY DEF IInv
<1> QED
    BY <1>1, Invariance, PTL

\* Retries let the slice outgrow its capacity by at most one job per worker.
THEOREM BacklogLimit == Spec => []BacklogBounded
<1>1. IInv => BacklogBounded
      BY DEF IInv
<1> QED
    BY <1>1, Invariance, PTL

\* Results and statuses never contradict each other.
THEOREM ResultsAgree == Spec => []ResultMatchesStatus
<1>1. IInv => ResultMatchesStatus
      BY DEF IInv
<1> QED
    BY <1>1, Invariance, PTL

\* A closed queue has no handler running and leaves no handled job "processing".
THEOREM CleanShutdown == Spec => []ShutdownQuiesced
<1>1. IInv => ShutdownQuiesced
  <2> SUFFICES ASSUME IInv, closed PROVE BusySet = {} /\ \A j \in HandledJobs : status[j] # "processing"
      BY DEF ShutdownQuiesced
  <2>1. \A w \in Workers : worker[w] = Gone
        BY DEF IInv, StopOrder
  <2>2. BusySet = {}
        BY <2>1 DEF BusySet, Busy, Gone
  <2>3. Held = {}
        BY <2>2 DEF Held
  <2> QED
      BY <2>2, <2>3 DEF IInv, ProcessingIsHeld
<1> QED
    BY <1>1, Invariance, PTL

-------------------------------------------------------------------------------
(* Channels of the streams *)

\* Sending leaves a channel open, and whoever is told stays registered.
LEMMA OpenNotify ==
    ASSUME QueueTypeOK, RegisteredOpen, NEW j \in Jobs, NEW e \in Event, Notify(j, e)
    PROVE  RegisteredOpen'
<1>1. ASSUME NEW c \in Channels PROVE Send(chan[c], e).closed = chan[c].closed
      BY DEF Send, QueueTypeOK
<1>2. \A c \in Channels : chan'[c].closed = chan[c].closed
      BY <1>1 DEF Notify
<1> QED
    BY <1>2 DEF Notify, RegisteredOpen, QueueTypeOK

\* The channels of a job are closed and forgotten in one step; the others belong to
\* other jobs and stay open.
LEMMA OpenClose ==
    ASSUME QueueTypeOK, RegisteredOpen, NEW J \in SUBSET Jobs,
           \A k \in Jobs : subscribers'[k] = IF k \in J THEN {} ELSE subscribers[k],
           \A c \in Channels : (\A j \in J : c \notin subscribers[j]) => chan'[c] = chan[c]
    PROVE  RegisteredOpen'
<1> SUFFICES ASSUME NEW k \in Jobs, NEW c \in subscribers'[k]
             PROVE  ~chan'[c].closed /\ \A i \in Jobs : c \in subscribers'[i] => i = k
    BY DEF RegisteredOpen
<1>1. k \notin J /\ c \in subscribers[k] /\ c \in Channels
      BY DEF QueueTypeOK
<1>2. \A i \in Jobs : c \in subscribers[i] => i = k
      BY <1>1 DEF RegisteredOpen
<1>3. chan'[c] = chan[c]
      BY <1>1, <1>2
<1> QED
    BY <1>1, <1>2, <1>3 DEF RegisteredOpen

LEMMA OpenEnds ==
    ASSUME QueueTypeOK, RegisteredOpen, NEW j \in Jobs, NEW e \in Event, NotifyAndClose(j, e)
    PROVE  RegisteredOpen'
<1>1. \A k \in Jobs : subscribers'[k] = IF k \in {j} THEN {} ELSE subscribers[k]
      BY DEF NotifyAndClose, QueueTypeOK
<1>2. \A c \in Channels : (\A k \in {j} : c \notin subscribers[k]) => chan'[c] = chan[c]
      BY DEF NotifyAndClose
<1> QED
    BY <1>1, <1>2, OpenClose

LEMMA OpenDropped ==
    ASSUME QueueTypeOK, RegisteredOpen, NEW J \in SUBSET Jobs, CloseSubscribers(J)
    PROVE  RegisteredOpen'
<1>1. \A k \in Jobs : subscribers'[k] = IF k \in J THEN {} ELSE subscribers[k]
      BY DEF CloseSubscribers
<1>2. \A c \in Channels : (\A k \in J : c \notin subscribers[k]) => chan'[c] = chan[c]
      BY DEF CloseSubscribers
<1> QED
    BY <1>1, <1>2, OpenClose

\* Subscribe registers a channel it has just made.
LEMMA OpenSubscribe ==
    ASSUME QueueTypeOK, RegisteredOpen, NEW j \in Jobs, NEW c \in Channels, Subscribe(j, c)
    PROVE  RegisteredOpen'
<1>1. chan' = chan /\ ~chan[c].closed /\ \A k \in Jobs : c \notin subscribers[k]
      BY DEF Subscribe, Fresh
<1>2. \A k \in Jobs : subscribers'[k] = IF k = j THEN subscribers[k] \cup {c} ELSE subscribers[k]
      BY DEF Subscribe, QueueTypeOK
<1> SUFFICES ASSUME NEW k \in Jobs, NEW d \in subscribers'[k]
             PROVE  ~chan'[d].closed /\ \A i \in Jobs : d \in subscribers'[i] => i = k
    BY DEF RegisteredOpen
<1>3. CASE d = c
      BY <1>1, <1>2, <1>3
<1>4. CASE d # c
  <2>1. d \in subscribers[k]
        BY <1>2, <1>4
  <2> QED
      BY <1>1, <1>2, <1>4, <2>1 DEF RegisteredOpen
<1> QED
    BY <1>3, <1>4

\* The methods of the queue.
LEMMA OpenMethods ==
    ASSUME QueueTypeOK, RegisteredOpen, NEW j \in Jobs,
           \/ Enqueue(j) \/ Dequeue(j) \/ Complete(j) \/ Fail(j) \/ Cancel(j) \/ Delete(j)
           \/ NotFound(j)
    PROVE  RegisteredOpen'
<1>1. CASE UNCHANGED chanVars
      BY <1>1 DEF chanVars, RegisteredOpen
<1>2. /\ Progress("failed") \in Event
      /\ Progress("cancelled") \in Event
      /\ [stage |-> "completed", data |-> TRUE] \in Event
      BY EventTypes DEF Stage
<1>3. CASE Complete(j) \/ FailForGood(j) \/ Cancel(j)
      BY <1>2, <1>3, OpenEnds DEF Complete, FailForGood, Cancel
<1>4. CASE Delete(j)
      BY <1>4, OpenDropped DEF Delete
<1>5. CASE Enqueue(j) \/ Dequeue(j) \/ Retry(j) \/ NotFound(j)
  <2>1. UNCHANGED chanVars
        BY <1>5 DEF Enqueue, Dequeue, Retry, NotFound, queueVars
  <2> QED
      BY <1>1, <2>1
<1> QED
    BY <1>3, <1>4, <1>5 DEF Fail

LEMMA OpenInit == Init => RegisteredOpen
BY DEF Init, QueueInit, RegisteredOpen

LEMMA OpenStep == TypeOK /\ RegisteredOpen /\ [Next]_vars => RegisteredOpen'
<1> SUFFICES ASSUME TypeOK, RegisteredOpen, [Next]_vars PROVE RegisteredOpen'
    OBVIOUS
<1>1. QueueTypeOK
      BY DEF TypeOK
<1>2. CASE UNCHANGED chanVars
      BY <1>2 DEF chanVars, RegisteredOpen
<1>3. ASSUME NEW w \in Workers, Take(w) PROVE RegisteredOpen'
      BY <1>1, <1>3, OpenMethods DEF Take
<1>4. ASSUME NEW w \in Workers, Skip(w) \/ Step(w) \/ ReportPlan(w) \/ Leave(w)
      PROVE  RegisteredOpen'
      BY <1>2, <1>4 DEF Skip, Step, ReportPlan, Leave, queueVars
<1>5. ASSUME NEW w \in Workers, Succeed(w) \/ Err(w) PROVE RegisteredOpen'
  <2>1. w \in BusySet
        BY <1>5 DEF Succeed, Err, Running, BusySet, Busy
  <2>2. worker[w].job \in Jobs
        BY <2>1, WorkerStates DEF Held
  <2> QED
      BY <1>1, <1>5, <2>2, OpenMethods DEF Succeed, Err
<1>6. ASSUME NEW j \in Jobs, Forward(j) PROVE RegisteredOpen'
  <2>1. Head(fwd[j]) \in Stage
        BY <1>6, HeadTailProperties DEF Forward, TypeOK
  <2> QED
      BY <1>1, <1>6, <2>1, EventTypes, OpenNotify DEF Forward, ReportProgress
<1>7. CASE Stop \/ WaitDone \/ UNCHANGED vars
      BY <1>2, <1>7 DEF Stop, WaitDone, vars, queueVars
<1>8. CASE CloseQueue
      BY <1>1, <1>8, OpenDropped DEF CloseQueue, Close
<1>9. CASE Cleanup
      BY <1>2, <1>9 DEF Cleanup, CleanupOldResults
<1>10. CASE Client
       BY <1>1, <1>10, OpenMethods DEF Client
<1>11. CASE Listen
       BY <1>1, <1>11, OpenSubscribe DEF Listen
<1> QED
    BY <1>3, <1>4, <1>5, <1>6, <1>7, <1>8, <1>9, <1>10, <1>11 DEF Next, PoolStep

\* A registered channel is open and has one owner: no method of the queue sends on or
\* closes a closed channel, however often a job ends.
THEOREM SubscribedAreOpen == Spec => []RegisteredOpen
BY OpenInit, OpenStep, TypeInit, TypeStep, PTL DEF Spec

-------------------------------------------------------------------------------
(* Every step of the pool over the queue is a step of the abstract job board, or
   none that it sees *)

BoardStep == [Lifecycle!Next]_(Lifecycle!vars)

\* The jobs in the workers' hands are at most as many as the workers that hold one.
LEMMA SlotFree ==
    ASSUME TypeOK, NEW w \in Workers \ BusySet
    PROVE  Cardinality(Held) < Cardinality(Workers)
<1> DEFINE f == [v \in BusySet |-> worker[v].job]
<1>1. f \in Surjection(BusySet, Held)
      BY DEF Held, Surjection
<1>2. Cardinality(Held) <= Cardinality(BusySet) /\ Cardinality(Held) \in Nat
      BY <1>1, Counts, FS_Surjection, FS_CardinalityType
<1>3. /\ Cardinality(BusySet) < Cardinality(Workers)
      /\ Cardinality(BusySet) \in Nat /\ Cardinality(Workers) \in Nat
      BY Counts
<1> QED
    BY <1>2, <1>3

\* Nobody waits who comes before the head of the sorted slice.
LEMMA HeadFirst ==
    ASSUME IInv, NEW j \in Jobs, pending # <<>>, j = Head(pending)
    PROVE  \A k \in Jobs : status[k] = "pending" => ~Before(k, j)
<1> SUFFICES ASSUME NEW k \in Jobs, status[k] = "pending" PROVE ~Before(k, j)
    OBVIOUS
<1>1. pending \in Seq(Jobs) /\ Sorted(pending) /\ k \in Elems(pending)
      BY DEF IInv, TypeOK, QueueTypeOK, NoDoubleProcessing
<1>2. PICK i \in DOMAIN pending : k = pending[i]
      BY <1>1 DEF Elems
<1>3. i \in 1 .. Len(pending) /\ 1 \in DOMAIN pending /\ j = pending[1]
      BY <1>1, <1>2
<1>4. CASE i = 1
      BY <1>2, <1>3, <1>4, QueueConstants DEF Before
<1>5. CASE i # 1
      BY <1>1, <1>2, <1>3, <1>5 DEF Sorted
<1> QED
    BY <1>4, <1>5

LEMMA TakeStarts ==
    ASSUME IInv, NEW w \in Workers, Take(w)
    PROVE  \E j \in Jobs : Lifecycle!Start(j)
<1>1. PICK j \in Jobs : Dequeue(j) /\ worker' = [worker EXCEPT ![w] = [pc |-> "running", job |-> j]]
      BY DEF Take
<1>2. worker[w] = Idle
      BY WorkerStates DEF IInv, Take
<1>3. w \notin BusySet /\ Held' = Held \cup {j}
      BY <1>1, <1>2, HeldTake DEF IInv
<1>4. pending # <<>> /\ j = Head(pending) /\ j \in Elems(pending)
      BY <1>1, SliceStep DEF Dequeue
<1>5. status[j] = "pending" /\ j \notin Held /\ attempts[j] < MaxRetries
      BY <1>4 DEF IInv, NoDoubleProcessing, AttemptsBounded
<1>6. /\ status' = [status EXCEPT ![j] = "processing"]
      /\ attempts' = [attempts EXCEPT ![j] = @ + 1]
      BY <1>1, <1>5 DEF Dequeue
<1>7. \A k \in Lifecycle!Waiting : ~Lifecycle!MoreUrgent(k, j)
      BY <1>4, HeadFirst DEF Lifecycle!Waiting, Lifecycle!MoreUrgent, Before
<1>8. Cardinality(Held) < Cardinality(Workers)
      BY <1>3, SlotFree DEF IInv
<1>9. Lifecycle!Cardinality(Held) = Cardinality(Held)
      BY DEF Cardinality, Lifecycle!Cardinality
<1> QED
    BY <1>3, <1>5, <1>6, <1>7, <1>8, <1>9 DEF Lifecycle!Start, Lifecycle!Waiting

\* A worker that lets go of its job ends the job's run.
LEMMA ReleaseEnds ==
    ASSUME IInv, NEW w \in Workers, Skip(w) \/ Succeed(w) \/ Err(w)
    PROVE  \E j \in Jobs : Lifecycle!End(j)
<1> DEFINE j == worker[w].job
<1>1. w \in BusySet /\ worker' = [worker EXCEPT ![w] = Idle]
      BY DEF Skip, Succeed, Err, Running, BusySet, Busy
<1>2. Held' = Held \ {j} /\ j \in Held /\ j \in Jobs
      BY <1>1, HeldRelease, WorkerStates DEF IInv, NoDoubleProcessing, Held
<1>3. status[j] \in {"processing", "cancelled", "absent"}
      BY <1>2 DEF IInv, HeldStatus
<1>4. /\ UNCHANGED attempts
      /\ \/ status[j] # "absent" /\ status' = [status EXCEPT ![j] = "completed"]
         \/ /\ status[j] # "absent"
            /\ status' = [status EXCEPT
                            ![j] = IF attempts[j] < MaxRetries THEN "pending" ELSE "failed"]
         \/ UNCHANGED status
  <2>1. attempts[j] \in Nat /\ MaxRetries \in Nat
        BY <1>2, QueueConstants DEF IInv, TypeOK, QueueTypeOK
  <2> QED
      BY <2>1 DEF Skip, Succeed, Err, Complete, Fail, Retry, FailForGood, NotFound, queueVars,
                  jobVars
<1> QED
    BY <1>2, <1>3, <1>4 DEF Lifecycle!End

LEMMA ClientActs ==
    ASSUME IInv, NEW j \in Jobs, Enqueue(j) \/ Cancel(j) \/ Delete(j), UNCHANGED poolVars
    PROVE  Lifecycle!Next
<1>1. Held' = Held
      BY DEF poolVars, Held, BusySet, Busy
<1>2. CASE Enqueue(j)
  <2>1. status[j] = "absent" /\ j \notin Held
        BY <1>2 DEF Enqueue, IInv, IssuedFirst, HeldStatus
  <2>2. Lifecycle!Submit(j)
        BY <1>1, <1>2, <2>1 DEF Enqueue, Lifecycle!Submit
  <2> QED
      BY <2>2 DEF Lifecycle!Next
<1>3. CASE Cancel(j)
  <2>1. Lifecycle!Cancel(j)
        BY <1>1, <1>3
        DEF Cancel, Lifecycle!Cancel, IInv, TypeOK, QueueTypeOK, Status, Final
  <2> QED
      BY <2>1 DEF Lifecycle!Next
<1>4. CASE Delete(j)
  <2>1. Lifecycle!Forget({j})
        BY <1>1, <1>4 DEF Delete, Lifecycle!Forget, IInv, TypeOK, QueueTypeOK
  <2> QED
      BY <2>1 DEF Lifecycle!Next
<1> QED
    BY <1>2, <1>3, <1>4

\* What the board does not see.
LEMMA Stutters ==
    ASSUME IInv,
           \/ \E w \in Workers : Step(w) \/ ReportPlan(w) \/ Leave(w)
           \/ \E j \in Jobs : Forward(j)
           \/ Stop \/ WaitDone \/ CloseQueue \/ Listen \/ UNCHANGED vars
    PROVE  UNCHANGED <<status, attempts, Held>>
<1>1. UNCHANGED <<status, attempts>>
      BY DEF Step, ReportPlan, Leave, Forward, ReportProgress, Stop, WaitDone, CloseQueue, Close,
             Listen, Subscribe, vars, queueVars, jobVars, poolVars
<1>2. ASSUME NEW w \in Workers, ReportPlan(w) PROVE Held' = Held
  <2>1. /\ w \in BusySet
        /\ worker' = [worker EXCEPT ![w] = [worker[w] EXCEPT !.pc = "finishing"]]
        BY <1>2 DEF ReportPlan, Running, BusySet, Busy
  <2>2. worker[w] \in [pc : {"running", "finishing"}, job : Jobs]
        BY <2>1, WorkerStates, Zenon DEF IInv
  <2>3. worker'[w].job = worker[w].job /\ worker'[w].pc = "finishing"
        BY <2>1, <2>2 DEF IInv, TypeOK
  <2>4. \A v \in Workers \ {w} : worker'[v] = worker[v]
        BY <2>1 DEF IInv, TypeOK
  <2>5. \A v \in Workers : Busy(v)' = Busy(v) /\ (Busy(v) => worker'[v].job = worker[v].job)
    <3>1. worker[w].pc \in {"running", "finishing"}
          BY <1>2 DEF ReportPlan, Running
    <3> SUFFICES ASSUME NEW v \in Workers
                 PROVE  Busy(v)' = Busy(v) /\ worker'[v].job = worker[v].job
        OBVIOUS
    <3>2. CASE v = w
          BY <2>3, <3>1, <3>2 DEF Busy
    <3>3. CASE v # w
          BY <2>4, <3>3 DEF Busy
    <3> QED
        BY <3>2, <3>3
  <2> QED
      BY <2>5, HeldSame DEF IInv
<1>3. ASSUME NEW w \in Workers, Leave(w) PROVE Held' = Held
  <2>1. worker[w] = Idle /\ worker' = [worker EXCEPT ![w] = Gone]
        BY <1>3, WorkerStates DEF Leave, IInv
  <2>2. worker'[w] = Gone /\ \A v \in Workers \ {w} : worker'[v] = worker[v]
        BY <2>1 DEF IInv, TypeOK
  <2>3. \A v \in Workers : Busy(v)' = Busy(v) /\ (Busy(v) => worker'[v].job = worker[v].job)
        BY <2>1, <2>2 DEF Busy, Idle, Gone
  <2> QED
      BY <2>3, HeldSame DEF IInv
<1>4. ASSUME worker' = worker PROVE Held' = Held
      BY <1>4 DEF Held, BusySet, Busy
<1>5. \/ worker' = worker
      \/ \E w \in Workers : ReportPlan(w) \/ Leave(w)
      BY DEF Step, Forward, Stop, WaitDone, CloseQueue, Listen, vars, poolVars
<1> QED
    BY <1>1, <1>2, <1>3, <1>4, <1>5

LEMMA CleanupForgets ==
    ASSUME Cleanup
    PROVE  Lifecycle!Next
<1>1. PICK J \in SUBSET Jobs : CleanupOldResults(J)
      BY DEF Cleanup
<1>2. Held' = Held
      BY DEF Cleanup, poolVars, Held, BusySet, Busy
<1>3. Lifecycle!Forget(J)
      BY <1>1, <1>2 DEF CleanupOldResults, Lifecycle!Forget
<1> QED
    BY <1>1, <1>3 DEF Lifecycle!Next

LEMMA StepMaps == IInv /\ [Next]_vars => BoardStep
<1> SUFFICES ASSUME IInv, [Next]_vars PROVE BoardStep
    OBVIOUS
<1> USE DEF BoardStep, Lifecycle!vars
<1>1. ASSUME NEW w \in Workers, Take(w) PROVE BoardStep
      BY <1>1, TakeStarts DEF Lifecycle!Next
<1>2. ASSUME NEW w \in Workers, Skip(w) \/ Succeed(w) \/ Err(w) PROVE BoardStep
      BY <1>2, ReleaseEnds DEF Lifecycle!Next
<1>3. ASSUME \/ \E w \in Workers : Step(w) \/ ReportPlan(w) \/ Leave(w)
             \/ \E j \in Jobs : Forward(j)
             \/ Stop \/ WaitDone \/ CloseQueue \/ Listen \/ UNCHANGED vars
      PROVE  BoardStep
      BY <1>3, Stutters
<1>4. ASSUME Client PROVE BoardStep
      BY <1>4, ClientActs DEF Client
<1>5. ASSUME Cleanup PROVE BoardStep
      BY <1>5, CleanupForgets
<1> QED
    BY <1>1, <1>2, <1>3, <1>4, <1>5 DEF Next, PoolStep

LEMMA InitMaps == Init => Lifecycle!Init
BY DEF Init, QueueInit, Lifecycle!Init, Held, BusySet, Busy, Idle

\* The pool over the queue implements the job board, for any jobs, workers, clients,
\* capacity and retry limit.
THEOREM Refinement == Spec => RefinesLifecycle
<1>1. IInv /\ [Next]_vars => [Lifecycle!Next]_(Lifecycle!vars)
      BY StepMaps DEF BoardStep
<1> QED
    BY <1>1, InitMaps, Invariance, PTL DEF Spec, RefinesLifecycle, Lifecycle!Spec

-------------------------------------------------------------------------------
(* Action properties *)

\* The status of one job, as the board's steps change it.
LEMMA StatusStep ==
    ASSUME IInv, BoardStep, NEW j \in Jobs
    PROVE  \/ status'[j] \in {status[j], "absent"}
           \/ status[j] = "absent" /\ j \notin Held /\ status'[j] = "pending"
           \/ /\ status[j] = "pending" /\ status'[j] = "processing"
              /\ \A k \in Jobs : status[k] = "pending" => ~Before(k, j)
           \/ j \in Held /\ status[j] \in {"processing", "cancelled"}
           \/ status[j] \in {"pending", "processing"} /\ status'[j] = "cancelled"
<1> USE DEF IInv, TypeOK, QueueTypeOK
<1>1. CASE UNCHANGED <<status, attempts, Held>>
      BY <1>1
<1>2. ASSUME NEW k \in Jobs, Lifecycle!Submit(k) PROVE status'[j] = status[j] \/ (j = k /\ status[j] = "absent" /\ j \notin Held /\ status'[j] = "pending")
      BY <1>2 DEF Lifecycle!Submit
<1>3. ASSUME NEW k \in Jobs, Lifecycle!Start(k)
      PROVE  \/ status'[j] = status[j]
             \/ /\ status[j] = "pending" /\ status'[j] = "processing"
                /\ \A i \in Jobs : status[i] = "pending" => ~Before(i, j)
      BY <1>3 DEF Lifecycle!Start, Lifecycle!Waiting, Lifecycle!MoreUrgent, Before
<1>4. ASSUME NEW k \in Jobs, Lifecycle!End(k)
      PROVE  status'[j] = status[j] \/ (j \in Held /\ status[j] \in {"processing", "cancelled"})
      BY <1>4 DEF Lifecycle!End, HeldStatus
<1>5. ASSUME NEW k \in Jobs, Lifecycle!Cancel(k)
      PROVE  \/ status'[j] = status[j]
             \/ status[j] \in {"pending", "processing"} /\ status'[j] = "cancelled"
      BY <1>5 DEF Lifecycle!Cancel
<1>6. ASSUME NEW J \in SUBSET Jobs, Lifecycle!Forget(J)
      PROVE  status'[j] \in {status[j], "absent"}
      BY <1>6 DEF Lifecycle!Forget
<1> QED
    BY <1>1, <1>2, <1>3, <1>4, <1>5, <1>6 DEF BoardStep, Lifecycle!Next, Lifecycle!vars

\* A completed or failed job stays so until it is deleted.
THEOREM FinalIsFinal == Spec => FinalStays
<1>1. IInv /\ [Next]_vars =>
          \A j \in Jobs : status[j] \in Final => status'[j] \in {status[j], "absent"}
      BY StepMaps, StatusStep DEF Final
<1> QED
    BY <1>1, Invariance, PTL DEF Spec, FinalStays

\* A job cancelled while nobody runs it is never run again.
THEOREM IdleCancelHolds == Spec => IdleCancelSticks
<1>1. IInv /\ [Next]_vars =>
          \A j \in Jobs : status[j] = "cancelled" /\ j \notin Held
                            => status'[j] \in {"cancelled", "absent"}
      BY StepMaps, StatusStep
<1> QED
    BY <1>1, Invariance, PTL DEF Spec, IdleCancelSticks

\* The job a worker takes is one that no waiting job comes before.
THEOREM UrgentFirst == Spec => MostUrgentFirst
<1>1. IInv /\ [Next]_vars =>
          \A j \in Jobs : status[j] = "pending" /\ status'[j] = "processing"
                            => \A k \in Jobs : status[k] = "pending" => ~Before(k, j)
      BY StepMaps, StatusStep
<1> QED
    BY <1>1, Invariance, PTL DEF Spec, MostUrgentFirst

\* Only Enqueue brings a job into being, and it never gives an id out twice.
LEMMA OnlyEnqueueCreates ==
    ASSUME IInv, [Next]_vars, NEW j \in issued, status[j] = "absent"
    PROVE  status'[j] = "absent"
<1> USE DEF IInv, TypeOK, QueueTypeOK
<1>1. ASSUME NEW w \in Workers, Take(w) PROVE status'[j] = "absent"
  <2>1. PICK k \in Jobs : Lifecycle!Start(k)
        BY <1>1, TakeStarts
  <2> QED
      BY <2>1 DEF Lifecycle!Start, Lifecycle!Waiting
<1>2. ASSUME NEW w \in Workers, Skip(w) \/ Succeed(w) \/ Err(w) PROVE status'[j] = "absent"
  <2>1. PICK k \in Jobs : Lifecycle!End(k)
        BY <1>2, ReleaseEnds
  <2> QED
      BY <2>1 DEF Lifecycle!End
<1>3. ASSUME NEW k \in Jobs, Enqueue(k) \/ Cancel(k) \/ Delete(k) PROVE status'[j] = "absent"
      BY <1>3 DEF Enqueue, Cancel, Delete
<1>4. ASSUME Cleanup PROVE status'[j] = "absent"
      BY <1>4 DEF Cleanup, CleanupOldResults
<1>5. ASSUME \/ \E w \in Workers : Step(w) \/ ReportPlan(w) \/ Leave(w)
             \/ \E k \in Jobs : Forward(k)
             \/ Stop \/ WaitDone \/ CloseQueue \/ Listen \/ UNCHANGED vars
      PROVE  status'[j] = "absent"
      BY <1>5, Stutters
<1> QED
    BY <1>1, <1>2, <1>3, <1>4, <1>5 DEF Next, PoolStep, Client

\* A run that outlives its job does not bring it back.
THEOREM DeletedStaysDeleted == Spec => GoneStaysGone
<1>1. IInv /\ [Next]_vars => \A j \in issued : status[j] = "absent" => status'[j] = "absent"
      BY OnlyEnqueueCreates
<1> QED
    BY <1>1, Invariance, PTL DEF Spec, GoneStaysGone
===============================================================================

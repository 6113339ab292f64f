---------------------------- MODULE JobBackupProofs ----------------------------
(***************************************************************************)
(* Proofs about JobBackup.tla, for every set of jobs, any number of        *)
(* backup goroutines and any number of restarts.                           *)
(***************************************************************************)
EXTENDS JobBackup, FiniteSetTheorems, TLAPS

-------------------------------------------------------------------------------
(* The bag of goroutines *)

\* One more goroutine.
LEMMA OneMore ==
    ASSUME NEW B, IsABag(B), NEW t
    PROVE  /\ IsABag(B (+) SetToBag({t}))
           /\ BagToSet(B (+) SetToBag({t})) = BagToSet(B) \cup {t}
<1> DEFINE U == B (+) SetToBag({t})
<1>1. /\ DOMAIN U = DOMAIN B \cup {t}
      /\ \A e \in DOMAIN B \cup {t} :
            U[e] = (IF e \in DOMAIN B THEN B[e] ELSE 0) + (IF e = t THEN 1 ELSE 0)
      /\ U = [e \in DOMAIN U |-> U[e]]
      BY DEF (+), SetToBag
<1>2. \A e \in DOMAIN B : B[e] \in Nat /\ B[e] > 0
      BY DEF IsABag
<1>3. \A e \in DOMAIN U : U[e] \in Nat /\ U[e] > 0
      BY <1>1, <1>2
<1> QED
    BY <1>1, <1>3 DEF IsABag, BagToSet

\* One goroutine fewer: no other is lost.
LEMMA OneFewer ==
    ASSUME NEW B, IsABag(B), NEW t
    PROVE  /\ IsABag(B (-) SetToBag({t}))
           /\ BagToSet(B (-) SetToBag({t})) \subseteq BagToSet(B)
           /\ BagToSet(B) \ {t} \subseteq BagToSet(B (-) SetToBag({t}))
<1> DEFINE L == [e \in DOMAIN B |-> IF e \in {t} THEN B[e] - 1 ELSE B[e]]
           U == B (-) SetToBag({t})
<1>1. /\ \A e \in {t} : SetToBag({t})[e] = 1
      /\ DOMAIN SetToBag({t}) = {t}
      BY DEF SetToBag
<1>2. L = [e \in DOMAIN B |-> IF e \in DOMAIN SetToBag({t}) THEN B[e] - SetToBag({t})[e]
                              ELSE B[e]]
      BY <1>1
<1>3. U = [e \in {d \in DOMAIN L : L[d] > 0} |-> L[e]]
      BY <1>2 DEF (-)
<1>4. \A e \in DOMAIN B : B[e] \in Nat /\ B[e] > 0
      BY DEF IsABag
<1>5. \A e \in DOMAIN U : U[e] \in Nat /\ U[e] > 0
  <2> SUFFICES ASSUME NEW e \in DOMAIN U PROVE U[e] \in Nat /\ U[e] > 0
      OBVIOUS
  <2>1. e \in DOMAIN B /\ L[e] > 0 /\ U[e] = L[e]
        BY <1>3
  <2>2. L[e] = IF e = t THEN B[e] - 1 ELSE B[e]
        BY <2>1
  <2> QED
      BY <1>4, <2>1, <2>2
<1>6. \A e \in DOMAIN B \ {t} : L[e] > 0
      BY <1>4
<1> QED
    BY <1>3, <1>5, <1>6 DEF IsABag, BagToSet

LEMMA GoAdds ==
    ASSUME IsABag(tasks), NEW t, Go(t)
    PROVE  IsABag(tasks') /\ BagToSet(tasks') = BagToSet(tasks) \cup {t}
BY OneMore DEF Go

LEMMA DoneDrops ==
    ASSUME IsABag(tasks), NEW t, tasks' = Done(t)
    PROVE  /\ IsABag(tasks') /\ BagToSet(tasks') \subseteq BagToSet(tasks)
           /\ BagToSet(tasks) \ {t} \subseteq BagToSet(tasks')
BY OneFewer DEF Done

\* The goroutine that Marshal leaves behind.
Marshalled(t) ==
    IF t.do = "read" THEN CountTask(t.copy, job[t.copy])
    ELSE WriteTask(t.copy, [job[t.copy] EXCEPT !.status = t.snap.status])

LEMMA MarshalMoves ==
    ASSUME IsABag(tasks), NEW t, Marshal(t)
    PROVE  /\ IsABag(tasks') /\ Marshalled(t) \in BagToSet(tasks')
           /\ BagToSet(tasks') \subseteq BagToSet(tasks) \cup {Marshalled(t)}
           /\ BagToSet(tasks) \ {t} \subseteq BagToSet(tasks')
<1>1. tasks' = Done(t) (+) SetToBag({Marshalled(t)})
      BY DEF Marshal, Marshalled
<1>2. /\ IsABag(Done(t)) /\ BagToSet(Done(t)) \subseteq BagToSet(tasks)
      /\ BagToSet(tasks) \ {t} \subseteq BagToSet(Done(t))
      BY OneFewer DEF Done
<1>3. IsABag(tasks') /\ BagToSet(tasks') = BagToSet(Done(t)) \cup {Marshalled(t)}
      BY <1>1, <1>2, OneMore
<1> QED
    BY <1>2, <1>3

\* No goroutine.
LEMMA NoTasks == IsABag(EmptyBag) /\ BagToSet(EmptyBag) = {}
BY DEF EmptyBag, SetToBag, IsABag, BagToSet

-------------------------------------------------------------------------------
(* Types, and what snapshots hold *)

Typed == BackupTypeOK /\ SnapshotsTrue

LEMMA SnapshotWith ==
    ASSUME NEW s \in Snapshot \cup {None}, NEW x \in Status
    PROVE  /\ [s EXCEPT !.status = x] \in Snapshot
           /\ [s EXCEPT !.status = x].status = x
           /\ [s EXCEPT !.status = x].attempts = s.attempts
BY DEF Snapshot, None

LEMMA SnapshotParts ==
    /\ \A s \in Snapshot : s.status \in Status /\ s.attempts \in Nat /\ s # None
    /\ None.status \notin Status /\ None.attempts = 0
BY DEF Snapshot, None, Status, Final

\* The goroutines are backup goroutines.
LEMMA TaskParts ==
    ASSUME NEW o \in Copies
    PROVE  /\ ReadTask(o) \in Task /\ ReadTask(o).copy = o /\ ReadTask(o).do = "read"
           /\ \A s \in Snapshot :
                 /\ CountTask(o, s) \in Task /\ WriteTask(o, s) \in Task
                 /\ CountTask(o, s).copy = o /\ WriteTask(o, s).copy = o
                 /\ CountTask(o, s).do = "count" /\ WriteTask(o, s).do = "write"
                 /\ CountTask(o, s).snap = s /\ WriteTask(o, s).snap = s
BY DEF ReadTask, CountTask, WriteTask, Task

LEMMA DeleteParts ==
    ASSUME NEW j \in Jobs
    PROVE  /\ DeleteTask(j) \in Task /\ DeleteTask(j).do = "delete"
           /\ DeleteTask(j).copy = <<j, "own">>
BY DEF DeleteTask, Task, Copies

LEMMA TypedInit == BackupInit => Typed
<1> SUFFICES ASSUME BackupInit PROVE Typed
    OBVIOUS
<1>1. MaxLives \in Nat \ {0}
      BY BackupConstants
<1> QED
    BY <1>1, NoTasks DEF BackupInit, Typed, BackupTypeOK, SnapshotsTrue, EmptyMemory, ToList

\* A job copy that is overwritten by a snapshot leaves every other copy as it was.
LEMMA CopySet ==
    ASSUME Typed, NEW o \in Copies, NEW s \in Snapshot, job' = [job EXCEPT ![o] = s]
    PROVE  /\ job' \in [Copies -> Snapshot \cup {None}]
           /\ job'[o] = s
           /\ \A p \in Copies : p # o => job'[p] = job[p]
           /\ \A p \in Copies : job[p] \in Snapshot => job'[p] \in Snapshot
BY DEF Typed, BackupTypeOK

\* A method that sets a copy to a snapshot, and starts its backup or none.
LEMMA TypedMethod ==
    ASSUME Typed, NEW o \in Copies, NEW s \in Snapshot, job' = [job EXCEPT ![o] = s],
           \/ Go(ReadTask(o))
           \/ tasks' = tasks,
           UNCHANGED restore
    PROVE  /\ job' \in [Copies -> Snapshot \cup {None}]
           /\ IsABag(tasks') /\ BagToSet(tasks') \subseteq Task
           /\ SnapshotsTrue'
<1>1. /\ job' \in [Copies -> Snapshot \cup {None}] /\ job'[o] = s
      /\ \A p \in Copies : job[p] \in Snapshot => job'[p] \in Snapshot
      BY CopySet
<1>2. /\ IsABag(tasks')
      /\ BagToSet(tasks') \subseteq BagToSet(tasks) \cup {ReadTask(o)}
      BY GoAdds DEF Typed, BackupTypeOK
<1>3. \A t \in BagToSet(tasks) : t \in Task /\ t.copy \in Copies
      BY DEF Typed, BackupTypeOK, Task
<1>4. /\ ReadTask(o) \in Task /\ ReadTask(o).copy = o /\ ReadTask(o).do = "read"
      BY TaskParts
<1> QED
    BY <1>1, <1>2, <1>3, <1>4 DEF Typed, BackupTypeOK, SnapshotsTrue

LEMMA CopyIsOne ==
    ASSUME Typed, NEW j \in Jobs
    PROVE  /\ <<j, "own">> \in Copies /\ Again(j) \in Copies /\ <<j, "own">> # Again(j)
           /\ Known(j) => Copy(j) \in Copies /\ Copy(j)[1] = j
BY DEF Typed, BackupTypeOK, Copies, Again, Known, Copy

LEMMA CopyParts ==
    ASSUME NEW o \in Copies
    PROVE  o[1] \in Jobs /\ (o = <<o[1], "own">> \/ o = Again(o[1]))
BY DEF Copies, Again

LEMMA TypedEnqueue ==
    ASSUME Typed, NEW j \in Jobs, Enqueue(j)
    PROVE  Typed'
<1> DEFINE s == [status |-> "pending", attempts |-> 0]
<1>1. s \in Snapshot
      BY DEF Snapshot, Status
<1>2. <<j, "own">> \in Copies
      BY CopyIsOne
<1>3. job' = [job EXCEPT ![<<j, "own">>] = s]
      BY DEF Enqueue
<1>4. /\ job' \in [Copies -> Snapshot \cup {None}]
      /\ IsABag(tasks') /\ BagToSet(tasks') \subseteq Task
      /\ SnapshotsTrue'
      BY <1>1, <1>2, <1>3, TypedMethod DEF Enqueue
<1>5. lives \in 0 .. MaxLives
      BY DEF Typed, BackupTypeOK
<1> QED
    BY <1>2, <1>4, <1>5 DEF Typed, BackupTypeOK, Enqueue, era, chats

LEMMA TypedDequeue ==
    ASSUME Typed, NEW o \in Copies, Dequeue(o)
    PROVE  Typed'
<1> DEFINE s == [status |-> "processing", attempts |-> job[o].attempts + 1]
<1>1. s \in Snapshot
      BY SnapshotParts DEF Typed, BackupTypeOK, Snapshot, Status
<1>2. job' = [job EXCEPT ![o] = s]
      BY DEF Dequeue
<1>3. /\ job' \in [Copies -> Snapshot \cup {None}]
      /\ IsABag(tasks') /\ BagToSet(tasks') \subseteq Task
      /\ SnapshotsTrue'
      BY <1>1, <1>2, TypedMethod DEF Dequeue
<1>4. waiting[o] \in Nat /\ waiting[o] > 0 /\ o[1] \in Jobs
      BY CopyParts DEF Typed, BackupTypeOK, Dequeue
<1> QED
    BY <1>3, <1>4 DEF Typed, BackupTypeOK, Dequeue, era, chats

\* A method that changes the status of the copy in the map.
LEMMA StatusSet ==
    ASSUME Typed, NEW o \in Copies, NEW x \in Status,
           job' = [job EXCEPT ![o].status = x]
    PROVE  \E s \in Snapshot : /\ job' = [job EXCEPT ![o] = s]
                               /\ s.status = x /\ s.attempts = job[o].attempts
<1>1. job[o] \in Snapshot \cup {None}
      BY DEF Typed, BackupTypeOK
<1>2. job' = [job EXCEPT ![o] = [job[o] EXCEPT !.status = x]]
      OBVIOUS
<1> QED
    BY <1>1, <1>2, SnapshotWith

\* A worker or a chat stream is done with a job.
EndsBy(k) == RunEnds(k) \/ ChatEnds(k)

LEMMA EndsParts ==
    ASSUME Typed, NEW k \in Jobs, EndsBy(k)
    PROVE  /\ UNCHANGED <<current, store, restore, era, started, born, deleted, lapsed>>
           /\ \A i \in Jobs \ {k} : /\ running'[i] = running[i] /\ failed'[i] = failed[i]
                                    /\ i \in touched' <=> i \in touched
           /\ \/ /\ running[k] > 0 /\ running'[k] = running[k] - 1
                 /\ UNCHANGED <<failed, touched>>
                 /\ Complete(k) \/ Fail(k) \/ Leave(k)
              \/ /\ running' = running /\ k \in touched'
                 /\ \/ Complete(k) /\ failed' = failed
                    \/ Fail(k) /\ failed'[k] = failed[k] + 1
           /\ running' \in [Jobs -> Nat] /\ failed' \in [Jobs -> Nat] /\ touched' \subseteq Jobs
           /\ Known(k) \/ UNCHANGED <<job, waiting, tasks>>
<1>1. CASE RunEnds(k)
      BY <1>1 DEF RunEnds, Complete, Fail, Leave, history, Typed, BackupTypeOK
<1>2. CASE ChatEnds(k)
      BY <1>2 DEF ChatEnds, Complete, Fail, Typed, BackupTypeOK
<1> QED
    BY <1>1, <1>2 DEF EndsBy

\* What either does to the job.
LEMMA EndsJob ==
    ASSUME Typed, NEW k \in Jobs, Complete(k) \/ Fail(k)
    PROVE  /\ Known(k) /\ Copy(k) \in Copies /\ Go(ReadTask(Copy(k)))
           /\ \E s \in Snapshot : /\ job' = [job EXCEPT ![Copy(k)] = s]
                                  /\ s.attempts = job[Copy(k)].attempts
           /\ waiting' = waiting \/ waiting' = [waiting EXCEPT ![Copy(k)] = @ + 1]
<1>1. Known(k) /\ Copy(k) \in Copies /\ Go(ReadTask(Copy(k)))
      BY CopyIsOne DEF Complete, Fail
<1>2. \E x \in Status : job' = [job EXCEPT ![Copy(k)].status = x]
      BY DEF Complete, Fail, Status, Final
<1>3. \E s \in Snapshot : /\ job' = [job EXCEPT ![Copy(k)] = s]
                          /\ s.attempts = job[Copy(k)].attempts
      BY <1>1, <1>2, StatusSet
<1>4. waiting' = waiting \/ waiting' = [waiting EXCEPT ![Copy(k)] = @ + 1]
      BY DEF Complete, Fail
<1> QED
    BY <1>1, <1>3, <1>4

LEMMA TypedEnds ==
    ASSUME Typed, NEW j \in Jobs, EndsBy(j)
    PROVE  Typed'
<1>1. /\ UNCHANGED <<current, store, restore, era, started, born, deleted, lapsed>>
      /\ running' \in [Jobs -> Nat] /\ failed' \in [Jobs -> Nat] /\ touched' \subseteq Jobs
      /\ Complete(j) \/ Fail(j) \/ Leave(j)
      BY EndsParts
<1>2. CASE Leave(j)
      BY <1>1, <1>2 DEF Leave, Typed, BackupTypeOK, SnapshotsTrue, era
<1>3. CASE Complete(j) \/ Fail(j)
  <2>1. Copy(j) \in Copies /\ Go(ReadTask(Copy(j)))
        BY <1>3, EndsJob
  <2>2. PICK s \in Snapshot : job' = [job EXCEPT ![Copy(j)] = s]
        BY <1>3, EndsJob
  <2>3. /\ job' \in [Copies -> Snapshot \cup {None}]
        /\ IsABag(tasks') /\ BagToSet(tasks') \subseteq Task
        /\ SnapshotsTrue'
        BY <1>1, <2>1, <2>2, TypedMethod
  <2>4. waiting' = waiting \/ waiting' = [waiting EXCEPT ![Copy(j)] = @ + 1]
        BY <1>3, EndsJob
  <2>5. waiting' \in [Copies -> Nat]
        BY <2>1, <2>4 DEF Typed, BackupTypeOK
  <2> QED
      BY <1>1, <2>3, <2>5 DEF Typed, BackupTypeOK, era
<1> QED
    BY <1>1, <1>2, <1>3

\* DropEntry takes one entry of the job, if there is one.
LEMMA DropEntryTyped ==
    ASSUME Typed, NEW j \in Jobs, DropEntry(j)
    PROVE  /\ waiting' \in [Copies -> Nat]
           /\ \A o \in Copies : waiting'[o] <= waiting[o]
           /\ \A o \in Copies : o[1] # j => waiting'[o] = waiting[o]
           /\ waiting[<<j, "own">>] = 0 /\ waiting[Again(j)] <= 1 => waiting'[Again(j)] = 0
<1>1. waiting \in [Copies -> Nat]
      BY DEF Typed, BackupTypeOK
<1>2. CASE Entries(j) = {} /\ UNCHANGED waiting
      BY <1>1, <1>2, CopyIsOne DEF Entries, Again
<1>3. ASSUME NEW o \in Entries(j), waiting' = [waiting EXCEPT ![o] = @ - 1]
      PROVE  /\ waiting' \in [Copies -> Nat]
             /\ \A p \in Copies : waiting'[p] <= waiting[p]
             /\ \A p \in Copies : p[1] # j => waiting'[p] = waiting[p]
             /\ waiting[<<j, "own">>] = 0 /\ waiting[Again(j)] <= 1
                   => waiting'[Again(j)] = 0
  <2>1. o \in Copies /\ o[1] = j /\ waiting[o] > 0 /\ waiting[o] \in Nat
        BY <1>1 DEF Entries
  <2>2. o = <<j, "own">> \/ o = Again(j)
        BY <2>1, CopyParts
  <2> QED
      BY <1>1, <1>3, <2>1, <2>2
<1> QED
    BY <1>2, <1>3 DEF DropEntry

LEMMA TypedCancel ==
    ASSUME Typed, NEW j \in Jobs, Cancel(j)
    PROVE  Typed'
<1>1. Copy(j) \in Copies
      BY CopyIsOne DEF Cancel
<1>2. "cancelled" \in Status /\ job' = [job EXCEPT ![Copy(j)].status = "cancelled"]
      BY DEF Cancel, Status
<1>3. PICK s \in Snapshot : job' = [job EXCEPT ![Copy(j)] = s]
      BY <1>1, <1>2, StatusSet
<1>4. /\ job' \in [Copies -> Snapshot \cup {None}]
      /\ IsABag(tasks') /\ BagToSet(tasks') \subseteq Task
      /\ SnapshotsTrue'
      BY <1>1, <1>3, TypedMethod DEF Cancel
<1>5. waiting' \in [Copies -> Nat]
      BY DropEntryTyped DEF Cancel
<1> QED
    BY <1>4, <1>5 DEF Typed, BackupTypeOK, Cancel, era, history

LEMMA TypedDelete ==
    ASSUME Typed, NEW j \in Jobs, Delete(j)
    PROVE  Typed'
<1>1. waiting' \in [Copies -> Nat]
      BY DropEntryTyped DEF Delete
<1>2. Go(DeleteTask(j)) /\ UNCHANGED <<job, running, store, restore, era, started, born>>
      BY DEF Delete
<1>3. /\ DeleteTask(j) \in Task /\ DeleteTask(j).do = "delete"
      BY DeleteParts
<1>4. IsABag(tasks') /\ BagToSet(tasks') = BagToSet(tasks) \cup {DeleteTask(j)}
      BY <1>2, GoAdds DEF Typed, BackupTypeOK
<1>5. SnapshotsTrue'
      BY <1>2, <1>3, <1>4 DEF Typed, SnapshotsTrue
<1>6. /\ current' \in [Jobs -> {"none", "own", "restored"}] /\ deleted' \subseteq Jobs
      /\ UNCHANGED <<failed, touched, lapsed>>
      BY DEF Typed, BackupTypeOK, Delete, chats
<1> QED
    BY <1>1, <1>2, <1>3, <1>4, <1>5, <1>6 DEF Typed, BackupTypeOK, era, chats

\* What Marshal leaves behind is a goroutine of the same copy, with a snapshot.
LEMMA MarshalledParts ==
    ASSUME Typed, NEW t \in BagToSet(tasks), Marshal(t)
    PROVE  /\ t.copy \in Copies /\ t.do \in {"read", "count"}
           /\ Marshalled(t) \in Task /\ Marshalled(t).copy = t.copy
           /\ Marshalled(t).do \in {"count", "write"} /\ Marshalled(t).snap \in Snapshot
<1>1. t \in Task /\ t.copy \in Copies /\ t.do \in {"read", "count"}
      BY DEF Typed, BackupTypeOK, Task, Marshal
<1>2. job[t.copy] \in Snapshot
      BY <1>1 DEF Typed, SnapshotsTrue
<1>3. CASE t.do = "read"
      BY <1>1, <1>2, <1>3, TaskParts DEF Marshalled
<1>4. CASE t.do = "count"
  <2>1. t.snap \in Snapshot
        BY <1>4 DEF Typed, SnapshotsTrue
  <2>2. [job[t.copy] EXCEPT !.status = t.snap.status] \in Snapshot
        BY <1>2, <2>1, SnapshotWith, SnapshotParts
  <2>3. Marshalled(t) = WriteTask(t.copy, [job[t.copy] EXCEPT !.status = t.snap.status])
        BY <1>4 DEF Marshalled
  <2> QED
      BY <1>1, <2>2, <2>3, TaskParts
<1> QED
    BY <1>1, <1>3, <1>4

LEMMA TypedTask ==
    ASSUME Typed, NEW t \in BagToSet(tasks), TaskStep(t)
    PROVE  Typed'
<1>1. t \in Task /\ t.copy \in Copies /\ t.copy[1] \in Jobs
      BY CopyParts DEF Typed, BackupTypeOK, Task
<1>2. /\ UNCHANGED <<memory, restore, era, started, born, deleted, chats>>
      /\ lapsed' \subseteq lapsed
      BY DEF TaskStep, Marshal, Write, Erase, CallFails, history, chats
<1>3. CASE Marshal(t)
  <2>1. /\ IsABag(tasks')
        /\ BagToSet(tasks') \subseteq BagToSet(tasks) \cup {Marshalled(t)}
        BY <1>3, MarshalMoves DEF Typed, BackupTypeOK
  <2>2. /\ Marshalled(t) \in Task /\ Marshalled(t).copy = t.copy
        /\ Marshalled(t).do # "delete" /\ Marshalled(t).snap \in Snapshot
        BY <1>3, MarshalledParts
  <2>3. job[t.copy] \in Snapshot
        BY <1>3 DEF Typed, SnapshotsTrue, Marshal
  <2>4. SnapshotsTrue'
        BY <1>2, <2>1, <2>2, <2>3 DEF Typed, SnapshotsTrue, memory
  <2> QED
      BY <1>2, <1>3, <2>1, <2>2, <2>4
      DEF Typed, BackupTypeOK, Marshal, memory, era, chats
<1>4. CASE Write(t) \/ Erase(t) \/ CallFails(t)
  <2>1. tasks' = Done(t)
        BY <1>4 DEF Write, Erase, CallFails
  <2>2. IsABag(tasks') /\ BagToSet(tasks') \subseteq BagToSet(tasks)
        BY <2>1, DoneDrops DEF Typed, BackupTypeOK
  <2>3. SnapshotsTrue'
        BY <1>2, <2>2 DEF Typed, SnapshotsTrue, memory
  <2>4. t.snap \in Snapshot \cup {None}
        BY <1>1 DEF Task
  <2>5. store' \in [Jobs -> Snapshot \cup {None}]
        BY <1>1, <1>4, <2>4 DEF Write, Erase, CallFails, Typed, BackupTypeOK
  <2> QED
      BY <1>2, <2>2, <2>3, <2>5 DEF Typed, BackupTypeOK, memory, era, chats
<1> QED
    BY <1>3, <1>4 DEF TaskStep

LEMMA TypedExpire ==
    ASSUME Typed, NEW j \in Jobs, Expire(j)
    PROVE  Typed'
BY DEF Typed, BackupTypeOK, SnapshotsTrue, Expire, memory, era, chats

LEMMA TypedCrash ==
    ASSUME Typed, Crash
    PROVE  Typed'
<1>1. lives' \in 1 .. MaxLives
      BY BackupConstants DEF Crash, Typed, BackupTypeOK
<1> QED
    BY <1>1, NoTasks DEF Crash, Typed, BackupTypeOK, SnapshotsTrue, EmptyMemory, ToList

RestoreType ==
    [phase : {"list", "get", "put", "done"}, keys : SUBSET Jobs,
     id : Jobs \cup {"none"}, snap : Snapshot \cup {None}]

LEMMA RestoreParts ==
    ASSUME Typed
    PROVE  restore \in RestoreType
BY DEF Typed, BackupTypeOK, RestoreType

\* What each step of the restore does to its phase, its keys and the snapshot in hand.
LEMMA RestoreMoves ==
    ASSUME Typed
    PROVE  /\ ListKeys => /\ restore'.phase = "get"
                          /\ restore'.keys = {j \in Jobs : store[j] # None}
           /\ ListFails => restore'.phase = "done"
           /\ Restored => restore'.phase = "done"
           /\ \A j \in Jobs : Get(j) =>
                 \/ /\ store[j] # None /\ restore'.phase = "put"
                    /\ restore'.keys = restore.keys \ {j}
                    /\ restore'.id = j /\ restore'.snap = store[j]
                 \/ /\ store[j] = None \/ faulty
                    /\ restore'.phase = "get" /\ restore'.keys = restore.keys \ {j}
           /\ Put => restore'.phase = "get" /\ restore'.keys = restore.keys
           /\ Restoring => restore' \in RestoreType
<1> USE RestoreParts DEF RestoreType
<1>1. ListKeys => /\ restore' \in RestoreType /\ restore'.phase = "get"
                  /\ restore'.keys = {j \in Jobs : store[j] # None}
      BY DEF ListKeys
<1>2. ListFails => restore' \in RestoreType /\ restore'.phase = "done"
      BY DEF ListFails
<1>3. Restored => restore' \in RestoreType /\ restore'.phase = "done"
      BY DEF Restored
<1>4. ASSUME NEW j \in Jobs, Get(j)
      PROVE  /\ restore' \in RestoreType
             /\ \/ /\ store[j] # None /\ restore'.phase = "put"
                   /\ restore'.keys = restore.keys \ {j}
                   /\ restore'.id = j /\ restore'.snap = store[j]
                \/ /\ store[j] = None \/ faulty
                   /\ restore'.phase = "get" /\ restore'.keys = restore.keys \ {j}
  <2>1. store[j] \in Snapshot \cup {None}
        BY DEF Typed, BackupTypeOK
  <2> QED
      BY <1>4, <2>1 DEF Get
<1>5. Put => /\ restore' \in RestoreType /\ restore'.phase = "get"
             /\ restore'.keys = restore.keys
      BY DEF Put
<1> QED
    BY <1>1, <1>2, <1>3, <1>4, <1>5 DEF Restoring

LEMMA TypedRestoring ==
    ASSUME Typed, Restoring
    PROVE  Typed'
<1>1. restore' \in RestoreType
      BY RestoreMoves
<1>2. CASE ListKeys \/ ListFails \/ Restored \/ \E j \in Jobs : Get(j)
  <2>1. UNCHANGED <<memory, tasks, store, era, history>>
        BY <1>2 DEF ListKeys, ListFails, Restored, Get
  <2>2. restore'.phase = "put" =>
           restore'.id \in Jobs \ restore'.keys /\ restore'.snap \in Snapshot
    <3>1. CASE ListKeys \/ ListFails \/ Restored
          BY <3>1, RestoreMoves
    <3>2. ASSUME NEW j \in Jobs, Get(j), restore'.phase = "put"
          PROVE  restore'.id \in Jobs \ restore'.keys /\ restore'.snap \in Snapshot
          BY <3>2, RestoreMoves DEF Typed, BackupTypeOK
    <3> QED
        BY <1>2, <3>1, <3>2
  <2>3. SnapshotsTrue'
        BY <2>1, <2>2 DEF Typed, SnapshotsTrue, memory
  <2> QED
      BY <1>1, <2>1, <2>3 DEF Typed, BackupTypeOK, RestoreType, memory, era, history
<1>3. CASE Put
  <2> DEFINE j == restore.id  o == <<j, "restored">>
  <2>1. /\ j \in Jobs /\ restore.snap \in Snapshot
        BY <1>3 DEF Put, Typed, SnapshotsTrue
  <2>2. o \in Copies
        BY <2>1 DEF Copies
  <2>3. /\ job' = [job EXCEPT ![o] = restore.snap] /\ current' = [current EXCEPT ![j] = "restored"]
        /\ waiting' = waiting \/ waiting' = [waiting EXCEPT ![o] = @ + 1]
        /\ UNCHANGED <<running, tasks, store, era, history>>
        BY <1>3 DEF Put
  <2> HIDE DEF j, o
  <2>4. /\ job' \in [Copies -> Snapshot \cup {None}]
        /\ \A p \in Copies : job[p] \in Snapshot => job'[p] \in Snapshot
        BY <2>1, <2>2, <2>3, CopySet
  <2>5. waiting' \in [Copies -> Nat]
        BY <2>2, <2>3 DEF Typed, BackupTypeOK
  <2>6. current' \in [Jobs -> {"none", "own", "restored"}]
        BY <2>1, <2>3 DEF Typed, BackupTypeOK
  <2>7. \A t \in BagToSet(tasks) : t.copy \in Copies
        BY DEF Typed, BackupTypeOK, Task
  <2>8. restore'.phase = "get"
        BY <1>3, RestoreMoves
  <2>9. SnapshotsTrue'
        BY <2>3, <2>4, <2>7, <2>8 DEF Typed, SnapshotsTrue
  <2> QED
      BY <1>1, <2>3, <2>4, <2>5, <2>6, <2>9
      DEF Typed, BackupTypeOK, RestoreType, era, history
<1> QED
    BY <1>2, <1>3 DEF Restoring

LEMMA TypedStep ==
    ASSUME Typed, [BackupNext]_backupVars
    PROVE  Typed'
<1>1. CASE Client
      BY <1>1, TypedEnqueue, TypedCancel, TypedDelete, TypedEnds DEF Client, EndsBy
<1>2. CASE Worker
      BY <1>2, TypedDequeue, TypedEnds DEF Worker, EndsBy
<1>3. CASE Restoring
      BY <1>3, TypedRestoring
<1>4. CASE \E t \in BagToSet(tasks) : TaskStep(t)
      BY <1>4, TypedTask
<1>5. CASE \E j \in Jobs : Expire(j)
      BY <1>5, TypedExpire
<1>6. CASE Crash
      BY <1>6, TypedCrash
<1>7. CASE UNCHANGED backupVars
      BY <1>7 DEF Typed, BackupTypeOK, SnapshotsTrue, backupVars, memory, era, history
<1> QED
    BY <1>1, <1>2, <1>3, <1>4, <1>5, <1>6, <1>7 DEF BackupNext

-------------------------------------------------------------------------------
(* Old jobs *)

\* What the definitions speak of, with its type.
LEMMA OldTypes ==
    ASSUME Typed, NEW j \in Jobs
    PROVE  /\ waiting[<<j, "own">>] \in Nat /\ waiting[Again(j)] \in Nat
           /\ running[j] \in Nat /\ started[j] \in Nat /\ failed[j] \in Nat
           /\ current[j] \in {"none", "own", "restored"}
           /\ job[Again(j)].attempts \in Nat
           /\ job[Again(j)] \in Snapshot \cup {None}
           /\ MaxRetries \in Nat /\ MaxRetries > 0
<1>1. job[Again(j)] \in Snapshot \cup {None}
      BY CopyIsOne DEF Typed, BackupTypeOK
<1> QED
    BY <1>1, CopyIsOne, SnapshotParts, BackupConstants DEF Typed, BackupTypeOK

\* A step that leaves the job, its copies and its decision alone.
LEMMA OldFrame ==
    ASSUME NEW j \in Jobs, OldSound(j),
           current'[j] = current[j], running'[j] = running[j], started'[j] = started[j],
           waiting'[<<j, "own">>] = waiting[<<j, "own">>],
           waiting'[Again(j)] = waiting[Again(j)], job'[Again(j)] = job[Again(j)],
           failed'[j] = failed[j], j \in touched' <=> j \in touched,
           Undecided(j)' => Undecided(j)
    PROVE  OldSound(j)'
BY DEF OldSound, Again

\* A method of the queue that is about another job.
LEMMA OldElsewhere ==
    ASSUME Typed, NEW j \in Jobs, OldSound(j), NEW k \in Jobs, k # j,
           \A i \in Jobs \ {k} : current'[i] = current[i] /\ running'[i] = running[i]
                                    /\ started'[i] = started[i] /\ failed'[i] = failed[i]
                                    /\ (i \in touched' <=> i \in touched),
           \A o \in Copies : o[1] # k => waiting'[o] = waiting[o] /\ job'[o] = job[o],
           Undecided(j)' => Undecided(j)
    PROVE  OldSound(j)'
<1>1. /\ <<j, "own">> \in Copies /\ Again(j) \in Copies
      /\ <<j, "own">>[1] # k /\ Again(j)[1] # k
      BY CopyIsOne DEF Again
<1> QED
    BY <1>1, OldFrame

\* Only the copy the restore made is in the map.
LEMMA OldCopy ==
    ASSUME Typed, NEW j \in Jobs, OldSound(j), Known(j)
    PROVE  Copy(j) = Again(j) /\ current[j] = "restored" /\ ~Undecided(j)
BY OldTypes DEF OldSound, Known, Copy, Again

LEMMA OldEnqueue ==
    ASSUME Typed, NEW j \in Jobs, OldSound(j), Old(j), NEW k \in Jobs, Enqueue(k)
    PROVE  OldSound(j)'
<1>1. born[j] # 0 /\ born[k] = 0
      BY DEF Old, Enqueue, Typed, BackupTypeOK
<1>2. /\ \A i \in Jobs \ {k} : current'[i] = current[i] /\ running'[i] = running[i]
                                  /\ started'[i] = started[i]
      /\ \A o \in Copies : o[1] # k => waiting'[o] = waiting[o] /\ job'[o] = job[o]
      /\ restore' = restore /\ failed' = failed /\ touched' = touched
      BY DEF Enqueue, chats, Typed, BackupTypeOK
<1> QED
    BY <1>1, <1>2, OldElsewhere DEF Undecided

LEMMA OldDequeue ==
    ASSUME Typed, NEW j \in Jobs, OldSound(j), NEW o \in Copies, Dequeue(o)
    PROVE  OldSound(j)'
<1>1. /\ UNCHANGED <<restore, current, failed, touched>> /\ o[1] \in Jobs
      BY CopyParts DEF Dequeue, chats
<1>2. CASE o[1] # j
  <2>1. /\ \A i \in Jobs \ {o[1]} : current'[i] = current[i] /\ running'[i] = running[i]
                                       /\ started'[i] = started[i]
        /\ \A p \in Copies : p[1] # o[1] => waiting'[p] = waiting[p] /\ job'[p] = job[p]
        BY DEF Dequeue, Typed, BackupTypeOK
  <2> QED
      BY <1>1, <1>2, <2>1, OldElsewhere DEF Undecided
<1>3. CASE o[1] = j
  <2>1. waiting[o] > 0 /\ o = Again(j)
        BY <1>3, CopyParts, OldTypes DEF Dequeue, OldSound
  <2>2. /\ waiting[Again(j)] > 0 /\ ~Undecided(j) /\ current[j] # "own"
        /\ waiting[Again(j)] + running[j] <= 1 + failed[j]
        /\ started[j] + waiting[Again(j)] <= MaxRetries + failed[j]
        /\ started[j] <= job[Again(j)].attempts /\ waiting[<<j, "own">>] = 0
        /\ j \notin touched => failed[j] = 0 /\ waiting[Again(j)] <= 1
        BY <2>1, OldTypes DEF OldSound
  <2>3. /\ waiting'[Again(j)] = waiting[Again(j)] - 1 /\ waiting'[<<j, "own">>] = 0
        /\ running'[j] = running[j] + 1 /\ started'[j] = started[j] + 1
        /\ job'[Again(j)].status = "processing"
        /\ job'[Again(j)].attempts = job[Again(j)].attempts + 1
        BY <1>3, <2>1, <2>2, CopyIsOne DEF Dequeue, Typed, BackupTypeOK
  <2>4. ~Undecided(j)'
        BY <1>1, <2>2 DEF Undecided
  <2>5. /\ started'[j] <= job'[Again(j)].attempts
        /\ waiting'[Again(j)] + running'[j] <= 1 + failed'[j]
        /\ started'[j] + waiting'[Again(j)] <= MaxRetries + failed'[j]
        /\ j \notin touched => waiting'[Again(j)] = 0
        BY <1>1, <2>2, <2>3, OldTypes
  <2> QED
      BY <1>1, <2>2, <2>3, <2>4, <2>5 DEF OldSound, Final
<1> QED
    BY <1>2, <1>3

\* What the status and the attempts of the copy are after a method set its status.
LEMMA StatusOf ==
    ASSUME Typed, NEW j \in Jobs, NEW x \in Status, job' = [job EXCEPT ![Again(j)].status = x]
    PROVE  job'[Again(j)].status = x /\ job'[Again(j)].attempts = job[Again(j)].attempts
<1>1. job \in [Copies -> Snapshot \cup {None}] /\ Again(j) \in Copies
      BY CopyIsOne DEF Typed, BackupTypeOK
<1>2. job' = [job EXCEPT ![Again(j)] = [job[Again(j)] EXCEPT !.status = x]]
      OBVIOUS
<1>3. job'[Again(j)] = [job[Again(j)] EXCEPT !.status = x]
      BY <1>1, <1>2
<1> QED
    BY <1>1, <1>3, SnapshotWith

\* A worker or a chat stream ends an old job: a worker that requeues it had it, so that
\* it has no more places than before; a chat stream that requeues it counts as one more.
LEMMA OldEndsHere ==
    ASSUME Typed, NEW j \in Jobs, OldSound(j), EndsBy(j)
    PROVE  OldSound(j)'
<1>1. /\ UNCHANGED <<restore, current, started>>
      /\ \/ /\ running[j] > 0 /\ running'[j] = running[j] - 1
            /\ failed' = failed /\ touched' = touched
            /\ Complete(j) \/ Fail(j) \/ Leave(j)
         \/ /\ running' = running /\ j \in touched'
            /\ \/ Complete(j) /\ failed' = failed
               \/ Fail(j) /\ failed'[j] = failed[j] + 1
      BY EndsParts
<1>2. /\ waiting[Again(j)] + running[j] <= 1 + failed[j]
      /\ started[j] + waiting[Again(j)] <= MaxRetries + failed[j]
      /\ started[j] <= job[Again(j)].attempts /\ waiting[<<j, "own">>] = 0
      /\ j \notin touched => failed[j] = 0
      BY DEF OldSound
<1>5. /\ waiting[<<j, "own">>] \in Nat /\ waiting[Again(j)] \in Nat
      /\ running[j] \in Nat /\ started[j] \in Nat /\ failed[j] \in Nat
      /\ job[Again(j)].attempts \in Nat /\ MaxRetries \in Nat
      BY OldTypes
<1>6. failed'[j] >= failed[j] /\ failed'[j] \in Nat /\ running'[j] <= running[j]
  <2>1. failed'[j] = failed[j] \/ failed'[j] = failed[j] + 1
        BY <1>1
  <2>2. running'[j] = running[j] \/ running'[j] = running[j] - 1
        BY <1>1
  <2> QED
      BY <1>5, <2>1, <2>2
<1>3. CASE Leave(j)
  <2>1. UNCHANGED <<job, waiting>> /\ (Complete(j) \/ Fail(j) => Known(j))
        BY <1>3 DEF Leave, Complete, Fail
  <2>2. CASE /\ running[j] > 0 /\ running'[j] = running[j] - 1
             /\ failed' = failed /\ touched' = touched
    <3>1. running'[j] <= running[j] /\ running'[j] \in Nat
          BY <2>2, <1>5
    <3>2. ~Undecided(j) /\ ~Undecided(j)'
          BY <1>1, <2>2, <1>5 DEF OldSound, Undecided
    <3>3. job[Again(j)].status \in Final /\ j \notin touched => FALSE
          BY <2>2 DEF OldSound
    <3> QED
        BY <1>1, <1>2, <2>1, <2>2, <3>1, <3>2, <3>3, <1>5 DEF OldSound, Again
  <2>3. CASE /\ running' = running /\ j \in touched'
             /\ \/ Complete(j) /\ failed' = failed
                \/ Fail(j) /\ failed'[j] = failed[j] + 1
    <3>1. ~Undecided(j) /\ ~Undecided(j)'
          BY <1>1, <2>1, <2>3, OldCopy DEF Undecided
    <3>2. failed'[j] >= failed[j] /\ failed'[j] \in Nat
          BY <2>3, <1>5
    <3> QED
        BY <1>1, <1>2, <2>1, <2>3, <3>1, <3>2, <1>5 DEF OldSound, Again
  <2> QED
      BY <1>1, <2>2, <2>3
<1>4. CASE Complete(j) \/ Fail(j)
  <2>1. Known(j) /\ Copy(j) = Again(j) /\ ~Undecided(j) /\ current[j] = "restored"
        BY <1>4, OldCopy DEF Complete, Fail
  <2>2. ~Undecided(j)' /\ current'[j] # "own"
        BY <1>1, <2>1 DEF Undecided
  <2>3. /\ Again(j) \in Copies /\ <<j, "own">> # Again(j) /\ waiting \in [Copies -> Nat]
        BY CopyIsOne DEF Typed, BackupTypeOK
  <2>4. CASE Complete(j)
    <3>1. waiting' = waiting /\ job' = [job EXCEPT ![Again(j)].status = "completed"]
          BY <2>1, <2>4 DEF Complete
    <3>2. job'[Again(j)].attempts = job[Again(j)].attempts
          BY <3>1, StatusOf DEF Status, Final
    <3>3. failed'[j] >= failed[j] /\ failed'[j] \in Nat /\ running'[j] <= running[j]
          BY <1>6
    <3>4. /\ waiting'[Again(j)] + running'[j] <= 1 + failed'[j]
          /\ started'[j] + waiting'[Again(j)] <= MaxRetries + failed'[j]
          BY <1>1, <1>2, <3>1, <3>3, EndsParts, <1>5
    <3>5. ASSUME j \notin touched'
          PROVE  failed'[j] = 0 /\ waiting'[Again(j)] = 0 /\ running'[j] = 0
      <4>1. /\ running[j] > 0 /\ running'[j] = running[j] - 1
            /\ failed' = failed /\ j \notin touched
            BY <1>1, <3>5
      <4>2. waiting[Again(j)] + running[j] <= 1
            BY <1>2, <1>5, <4>1
      <4> QED
          BY <1>2, <1>5, <3>1, <4>1, <4>2
    <3> QED
        BY <1>1, <1>2, <2>2, <3>1, <3>2, <3>4, <3>5 DEF OldSound, Again
  <2>5. CASE Fail(j) /\ job[Copy(j)].attempts < MaxRetries
    <3>1. /\ waiting' = [waiting EXCEPT ![Again(j)] = @ + 1]
          /\ job' = [job EXCEPT ![Again(j)].status = "pending"]
          BY <2>1, <2>5 DEF Fail
    <3>2. /\ job'[Again(j)].attempts = job[Again(j)].attempts
          /\ job'[Again(j)].status = "pending"
          BY <3>1, StatusOf DEF Status, Final
    <3>3. /\ waiting'[Again(j)] = waiting[Again(j)] + 1
          /\ waiting'[<<j, "own">>] = waiting[<<j, "own">>]
          BY <2>3, <3>1, CopyIsOne
    <3>4. job[Again(j)].attempts < MaxRetries
          BY <2>1, <2>5
    <3>5. CASE /\ running[j] > 0 /\ running'[j] = running[j] - 1
               /\ failed' = failed /\ touched' = touched
      <4>1. /\ waiting'[Again(j)] + running'[j] <= 1 + failed'[j]
            /\ started'[j] + waiting'[Again(j)] <= MaxRetries + failed'[j]
            BY <1>1, <1>2, <3>3, <3>4, <3>5, <1>5
      <4> QED
          BY <1>1, <1>2, <2>2, <3>2, <3>3, <3>5, <4>1 DEF OldSound, Again, Final
    <3>6. CASE running' = running /\ j \in touched' /\ failed'[j] = failed[j] + 1
      <4>1. /\ waiting'[Again(j)] + running'[j] <= 1 + failed'[j]
            /\ started'[j] + waiting'[Again(j)] <= MaxRetries + failed'[j]
            BY <1>1, <1>2, <3>3, <3>6, <1>5
      <4> QED
          BY <1>1, <1>2, <2>2, <3>2, <3>3, <3>6, <4>1 DEF OldSound, Again, Final
    <3>7. ~Complete(j)
          BY <2>5, <3>3, <1>5 DEF Complete
    <3> QED
        BY <1>1, <3>5, <3>6, <3>7
  <2>6. CASE Fail(j) /\ ~(job[Copy(j)].attempts < MaxRetries)
    <3>1. waiting' = waiting /\ job' = [job EXCEPT ![Again(j)].status = "failed"]
          BY <2>1, <2>6 DEF Fail
    <3>2. job'[Again(j)].attempts = job[Again(j)].attempts
          BY <3>1, StatusOf DEF Status, Final
    <3>3. failed'[j] >= failed[j] /\ failed'[j] \in Nat /\ running'[j] <= running[j]
          BY <1>6
    <3>4. /\ waiting'[Again(j)] + running'[j] <= 1 + failed'[j]
          /\ started'[j] + waiting'[Again(j)] <= MaxRetries + failed'[j]
          BY <1>1, <1>2, <3>1, <3>3, EndsParts, <1>5
    <3>5. ASSUME j \notin touched'
          PROVE  failed'[j] = 0 /\ waiting'[Again(j)] = 0 /\ running'[j] = 0
      <4>1. /\ running[j] > 0 /\ running'[j] = running[j] - 1
            /\ failed' = failed /\ j \notin touched
            BY <1>1, <3>5
      <4>2. waiting[Again(j)] + running[j] <= 1
            BY <1>2, <1>5, <4>1
      <4> QED
          BY <1>2, <1>5, <3>1, <4>1, <4>2
    <3> QED
        BY <1>1, <1>2, <2>2, <3>1, <3>2, <3>4, <3>5 DEF OldSound, Again
  <2> QED
      BY <1>4, <2>4, <2>5, <2>6
<1> QED
    BY <1>1, <1>3, <1>4

LEMMA OldEnds ==
    ASSUME Typed, NEW j \in Jobs, OldSound(j), NEW k \in Jobs, EndsBy(k)
    PROVE  OldSound(j)'
<1>1. CASE k # j
  <2>1. /\ UNCHANGED <<current, restore, started>>
        /\ \A i \in Jobs \ {k} : /\ running'[i] = running[i] /\ failed'[i] = failed[i]
                                 /\ i \in touched' <=> i \in touched
        BY EndsParts
  <2>2. \A o \in Copies : o[1] # k => waiting'[o] = waiting[o] /\ job'[o] = job[o]
    <3>1. CASE UNCHANGED <<job, waiting, tasks>>
          BY <3>1
    <3>2. CASE Complete(k) \/ Fail(k)
      <4>1. Copy(k) \in Copies /\ Copy(k)[1] = k
            BY <3>2, CopyIsOne DEF Complete, Fail
      <4> QED
          BY <3>2, <4>1 DEF Complete, Fail, Typed, BackupTypeOK
    <3> QED
        BY <3>1, <3>2, EndsParts DEF Leave
  <2> QED
      BY <1>1, <2>1, <2>2, OldElsewhere DEF Undecided
<1> QED
    BY <1>1, OldEndsHere

LEMMA OldCancel ==
    ASSUME Typed, NEW j \in Jobs, OldSound(j), NEW k \in Jobs, Cancel(k)
    PROVE  OldSound(j)'
<1>1. /\ UNCHANGED <<current, running, restore, started, failed, touched>>
      /\ Known(k) /\ Copy(k) \in Copies /\ Copy(k)[1] = k
      BY CopyIsOne DEF Cancel, history
<1>2. /\ \A o \in Copies : o[1] # k => waiting'[o] = waiting[o]
      /\ \A o \in Copies : waiting'[o] <= waiting[o]
      /\ waiting' \in [Copies -> Nat]
      /\ waiting[<<k, "own">>] = 0 /\ waiting[Again(k)] <= 1 => waiting'[Again(k)] = 0
      BY DropEntryTyped DEF Cancel
<1>5. /\ waiting[<<j, "own">>] \in Nat /\ waiting[Again(j)] \in Nat
      /\ running[j] \in Nat /\ started[j] \in Nat /\ failed[j] \in Nat
      /\ job[Again(j)].attempts \in Nat /\ MaxRetries \in Nat
      BY OldTypes
<1>3. CASE k # j
  <2>1. \A o \in Copies : o[1] # k => job'[o] = job[o]
        BY <1>1 DEF Cancel, Typed, BackupTypeOK
  <2> QED
      BY <1>1, <1>2, <1>3, <2>1, OldElsewhere DEF Undecided
<1>4. CASE k = j
  <2>1. Copy(j) = Again(j) /\ current[j] = "restored" /\ ~Undecided(j)
        BY <1>1, <1>4, OldCopy
  <2>2. ~Undecided(j)'
        BY <1>1, <2>1 DEF Undecided
  <2>3. /\ waiting[<<j, "own">>] = 0 /\ waiting[Again(j)] + running[j] <= 1 + failed[j]
        /\ started[j] + waiting[Again(j)] <= MaxRetries + failed[j]
        /\ started[j] <= job[Again(j)].attempts
        /\ j \notin touched => failed[j] = 0 /\ waiting[Again(j)] <= 1
        BY OldTypes DEF OldSound
  <2>4. /\ waiting'[Again(j)] <= waiting[Again(j)] /\ waiting'[Again(j)] \in Nat
        /\ waiting'[<<j, "own">>] = 0
        /\ j \notin touched => waiting'[Again(j)] = 0
        BY <1>2, <1>4, <2>3, CopyIsOne, OldTypes
  <2>5. job' = [job EXCEPT ![Again(j)].status = "cancelled"]
        BY <1>4, <2>1 DEF Cancel
  <2>6. /\ job'[Again(j)].status = "cancelled"
        /\ job'[Again(j)].attempts = job[Again(j)].attempts
        BY <2>5, StatusOf DEF Status
  <2>7. /\ waiting'[Again(j)] + running[j] <= 1 + failed[j]
        /\ started[j] + waiting'[Again(j)] <= MaxRetries + failed[j]
        BY <1>5, <2>3, <2>4
  <2> QED
    <3>1. UNCHANGED <<running, started, failed, touched>> /\ current'[j] # "own"
          BY <1>1, <2>1
    <3> QED
        BY <2>2, <2>3, <2>4, <2>6, <2>7, <3>1 DEF OldSound, Again, Final
<1> QED
    BY <1>3, <1>4

LEMMA OldDelete ==
    ASSUME Typed, NEW j \in Jobs, OldSound(j), NEW k \in Jobs, Delete(k)
    PROVE  OldSound(j)'
<1>1. /\ UNCHANGED <<job, running, restore, started, failed, touched>>
      /\ current' = [current EXCEPT ![k] = "none"] /\ Known(k)
      BY DEF Delete, chats
<1>2. /\ \A o \in Copies : o[1] # k => waiting'[o] = waiting[o]
      /\ \A o \in Copies : waiting'[o] <= waiting[o]
      /\ waiting' \in [Copies -> Nat]
      /\ waiting[<<k, "own">>] = 0 /\ waiting[Again(k)] <= 1 => waiting'[Again(k)] = 0
      BY DropEntryTyped DEF Delete
<1>3. CASE k # j
  <2>1. \A i \in Jobs \ {k} : current'[i] = current[i]
        BY <1>1 DEF Typed, BackupTypeOK
  <2> QED
      BY <1>1, <1>2, <1>3, <2>1, OldElsewhere DEF Undecided
<1>4. CASE k = j
  <2>1. ~Undecided(j)
        BY <1>1, <1>4, OldCopy
  <2>2. ~Undecided(j)'
        BY <1>1, <2>1 DEF Undecided
  <2>3. waiting[<<j, "own">>] = 0
        BY DEF OldSound
  <2>4. /\ waiting'[Again(j)] <= waiting[Again(j)] /\ waiting'[Again(j)] \in Nat
        /\ waiting'[<<j, "own">>] = 0
        BY <1>2, <1>4, <2>3, CopyIsOne, OldTypes
  <2>5. current'[j] = "none"
        BY <1>1, <1>4 DEF Typed, BackupTypeOK
  <2>6. /\ waiting'[Again(j)] + running[j] <= 1 + failed[j]
        /\ started[j] + waiting'[Again(j)] <= MaxRetries + failed[j]
        BY <2>4, OldTypes DEF OldSound
  <2>7. /\ waiting'[Again(j)] > 0 => waiting[Again(j)] > 0
        /\ waiting[Again(j)] = 0 => waiting'[Again(j)] = 0
        BY <2>4, OldTypes
  <2> QED
      BY <1>1, <2>2, <2>4, <2>5, <2>6, <2>7 DEF OldSound, Again, Final
<1> QED
    BY <1>3, <1>4

\* The restore: it decides about one job at a time, and once.
LEMMA OldRestoring ==
    ASSUME Typed, NEW j \in Jobs, OldSound(j), Restoring
    PROVE  OldSound(j)'
<1>1. CASE ListKeys \/ ListFails \/ Restored \/ \E k \in Jobs : Get(k)
  <2>1. UNCHANGED <<current, job, waiting, running, started, failed, touched>>
        BY <1>1 DEF ListKeys, ListFails, Restored, Get, memory, history
  <2>2. Undecided(j)' => Undecided(j)
    <3>1. CASE ListKeys
          BY <3>1 DEF ListKeys, Undecided
    <3>2. CASE ListFails \/ Restored
          BY <3>2, RestoreMoves DEF Undecided
    <3>3. ASSUME NEW k \in Jobs, Get(k)
          PROVE  Undecided(j)' => Undecided(j)
      <4>1. restore.phase = "get" /\ k \in restore.keys
            BY <3>3 DEF Get
      <4>2. \/ restore'.phase = "put" /\ restore'.keys = restore.keys \ {k} /\ restore'.id = k
            \/ restore'.phase = "get" /\ restore'.keys = restore.keys \ {k}
            BY <3>3, RestoreMoves
      <4> QED
          BY <4>1, <4>2 DEF Undecided
    <3> QED
        BY <1>1, <3>1, <3>2, <3>3
  <2> QED
      BY <2>1, <2>2, OldFrame
<1>2. CASE Put
  <2> DEFINE k == restore.id
  <2>1. /\ k \in Jobs \ restore.keys /\ restore.snap \in Snapshot /\ restore.phase = "put"
        BY <1>2 DEF Put, Typed, SnapshotsTrue
  <2>2. /\ job' = [job EXCEPT ![Again(k)] = restore.snap]
        /\ current' = [current EXCEPT ![k] = "restored"]
        /\ waiting' = IF restore.snap.status = "pending"
                      THEN [waiting EXCEPT ![Again(k)] = @ + 1] ELSE waiting
        /\ UNCHANGED <<running, started, failed, touched>>
        BY <1>2 DEF Put, history, Again
  <2>3. restore'.phase = "get" /\ restore'.keys = restore.keys
        BY <1>2, RestoreMoves
  <2>4. CASE k # j
    <3>1. Undecided(j)' => Undecided(j)
          BY <2>1, <2>3 DEF Undecided
    <3>2. Again(k) \in Copies /\ Again(k)[1] = k
          BY <2>1, CopyIsOne DEF Again
    <3>3. /\ \A i \in Jobs \ {k} : current'[i] = current[i]
          /\ \A o \in Copies : o[1] # k => waiting'[o] = waiting[o] /\ job'[o] = job[o]
          BY <2>2, <3>2 DEF Typed, BackupTypeOK
    <3> QED
        BY <2>1, <2>2, <2>4, <3>1, <3>3, OldElsewhere
  <2>5. CASE k = j
    <3>1. /\ Undecided(j) /\ ~Undecided(j)'
          BY <2>1, <2>3, <2>5 DEF Undecided
    <3>2. /\ waiting[Again(j)] = 0 /\ waiting[<<j, "own">>] = 0
          /\ running[j] = 0 /\ started[j] = 0 /\ failed[j] = 0 /\ j \notin touched
          BY <3>1 DEF OldSound
    <3>3. /\ Again(j) \in Copies /\ <<j, "own">> # Again(j) /\ <<j, "own">> \in Copies
          BY CopyIsOne
    <3>4. job'[Again(j)] = restore.snap /\ restore.snap.attempts \in Nat
          BY <2>1, <2>2, <2>5, <3>3, SnapshotParts DEF Typed, BackupTypeOK
    <3>5. current'[j] = "restored"
          BY <2>2, <2>5 DEF Typed, BackupTypeOK
    <3>6. /\ waiting'[<<j, "own">>] = 0
          /\ restore.snap.status = "pending" => waiting'[Again(j)] = 1
          /\ restore.snap.status # "pending" => waiting'[Again(j)] = 0
          BY <2>2, <2>5, <3>2, <3>3 DEF Typed, BackupTypeOK
    <3>7. running'[j] = 0 /\ started'[j] = 0 /\ failed'[j] = 0 /\ j \notin touched'
          BY <2>2, <3>2
    <3> HIDE DEF k
    <3>8. waiting'[Again(j)] \in {0, 1}
          BY <3>6
    <3> QED
        BY <3>1, <3>4, <3>5, <3>6, <3>7, <3>8, OldTypes DEF OldSound, Again, Final
  <2> QED
      BY <2>4, <2>5
<1> QED
    BY <1>1, <1>2 DEF Restoring

\* After a crash nothing has happened to any job.
LEMMA OldCrash ==
    ASSUME Typed, Crash, NEW j \in Jobs
    PROVE  OldSound(j)'
<1>1. /\ current'[j] = "none" /\ running'[j] = 0 /\ started'[j] = 0
      /\ failed'[j] = 0 /\ j \notin touched'
      BY DEF Crash, EmptyMemory
<1>2. /\ waiting'[<<j, "own">>] = 0 /\ waiting'[Again(j)] = 0 /\ job'[Again(j)] = None
      BY CopyIsOne DEF Crash, EmptyMemory
<1> QED
    BY <1>1, <1>2, OldTypes DEF OldSound, Again, None, Final

LEMMA BackupStep ==
    ASSUME BackupInv, [BackupNext]_backupVars
    PROVE  BackupInv'
<1>1. Typed
      BY DEF BackupInv, Typed
<1>2. Typed'
      BY <1>1, TypedStep
<1>3. SUFFICES ASSUME NEW j \in Jobs, Old(j)'
               PROVE  OldSound(j)'
      BY <1>2 DEF BackupInv, Typed
<1>4. CASE Crash
      BY <1>1, <1>4, OldCrash
<1>5. CASE \E k \in Jobs : Enqueue(k)
  <2>1. PICK k \in Jobs : Enqueue(k)
        BY <1>5
  <2>2. lives' = lives /\ born' = [born EXCEPT ![k] = lives] /\ lives \in 1 .. MaxLives
        BY <1>1, <2>1 DEF Enqueue, era, Typed, BackupTypeOK
  <2>3. born'[j] \in 1 .. lives - 1
        BY <1>3, <2>2 DEF Old
  <2>4. k # j
        BY <1>1, <2>2, <2>3, BackupConstants DEF Typed, BackupTypeOK
  <2>5. Old(j)
        BY <1>1, <2>2, <2>3, <2>4 DEF Old, Typed, BackupTypeOK
  <2> QED
      BY <1>1, <2>1, <2>5, OldEnqueue DEF BackupInv
<1>6. CASE ~Crash /\ ~\E k \in Jobs : Enqueue(k)
  <2>1. lives' = lives /\ born' = born
        BY <1>6 DEF BackupNext, Client, Worker, Restoring, TaskStep, Cancel, Delete, Dequeue,
           Complete, Fail, Leave, RunEnds, ChatEnds, ListKeys, ListFails, Get, Put, Restored,
           Marshal, Write, Erase, CallFails, Expire, backupVars, history, era
  <2>2. Old(j) /\ OldSound(j)
        BY <1>3, <2>1 DEF Old, BackupInv
  <2>3. CASE Worker
        BY <1>1, <2>2, <2>3, OldDequeue, OldEnds DEF Worker, EndsBy
  <2>4. CASE \E k \in Jobs : Cancel(k) \/ Delete(k) \/ ChatEnds(k)
        BY <1>1, <2>2, <2>4, OldCancel, OldDelete, OldEnds DEF EndsBy
  <2>5. CASE Restoring
        BY <1>1, <2>2, <2>5, OldRestoring
  <2>6. CASE \/ \E t \in BagToSet(tasks) : TaskStep(t)
             \/ \E k \in Jobs : Expire(k)
             \/ UNCHANGED backupVars
    <3>1. UNCHANGED <<memory, restore, started, failed, touched>>
          BY <2>6 DEF TaskStep, Marshal, Write, Erase, CallFails, Expire, backupVars, history,
                      chats
    <3> QED
        BY <2>2, <3>1, OldFrame DEF memory, Undecided
  <2> QED
      BY <1>6, <2>3, <2>4, <2>5, <2>6 DEF BackupNext, Client
<1> QED
    BY <1>4, <1>5, <1>6

LEMMA BackupBegins == BackupInit => BackupInv
<1> SUFFICES ASSUME BackupInit PROVE BackupInv
    OBVIOUS
<1>1. \A j \in Jobs : ~Old(j)
      BY DEF BackupInit, Old
<1> QED
    BY <1>1, TypedInit DEF BackupInv, Typed

\* The inductive invariant holds however often the server stops and starts.
THEOREM BackupInvariance == BackupSpec => []BackupInv
BY BackupBegins, BackupStep, PTL DEF BackupSpec

\* A restart gives no old job a second worker or a second place in the slice
\* (restoreFromRedis, Dequeue, and the removal loops): only a chat stream's Fail does.
THEOREM RestoredHolds == BackupSpec => []RestoredSound
<1>1. BackupInv => RestoredSound
  <2> SUFFICES ASSUME BackupInv PROVE RestoredSound
      OBVIOUS
  <2>1. Typed
        BY DEF BackupInv, Typed
  <2>2. ASSUME NEW j \in Jobs, Old(j)
        PROVE  /\ Places(j) + running[j] <= 1 + failed[j]
               /\ j \notin touched => \A o \in Entries(j) : job[o].status = "pending"
    <3>1. OldSound(j)
          BY <2>2 DEF BackupInv
    <3>2. \A o \in Entries(j) : o = Again(j) /\ waiting[Again(j)] > 0
          BY <3>1, CopyParts DEF Entries, OldSound
    <3>3. Places(j) = waiting[Again(j)]
          BY <2>1, <3>1, OldTypes DEF Places, OldSound, Again
    <3> QED
        BY <3>1, <3>2, <3>3 DEF OldSound
  <2> QED
      BY <2>1, <2>2 DEF RestoredSound, RestoredOnce, Typed
<1> QED
    BY <1>1, BackupInvariance, PTL

\* After a restart no worker starts a job more often than the retries allow (Dequeue,
\* Fail) and chat streams failed it, whatever attempts the snapshot had.
THEOREM RetryBudgetHolds == BackupSpec => []RetryBudget
<1>1. BackupInv => RetryBudget
  <2> SUFFICES ASSUME BackupInv, NEW j \in Jobs, Old(j)
               PROVE  started[j] <= MaxRetries + failed[j]
      BY DEF RetryBudget
  <2>1. Typed /\ started[j] + waiting[Again(j)] <= MaxRetries + failed[j]
        BY DEF BackupInv, Typed, OldSound
  <2>2. started[j] \in Nat /\ waiting[Again(j)] \in Nat /\ failed[j] \in Nat /\ MaxRetries \in Nat
        BY <2>1, OldTypes
  <2> QED
      BY <2>1, <2>2
<1> QED
    BY <1>1, BackupInvariance, PTL

\* Nobody has a hand on an old job that has ended, except Delete: no worker runs it,
\* no entry of the slice bears it, and the restore is done with it; or a chat stream.
LEMMA EndedLeftAlone ==
    ASSUME BackupInv, [BackupNext]_backupVars, NEW j \in Jobs, Old(j), Known(j),
           job[Copy(j)].status \in Final, lives' = lives, current'[j] # "none",
           j \notin touched'
    PROVE  job'[<<j, current'[j]>>] = job[Copy(j)]
<1>1. Typed /\ OldSound(j)
      BY DEF BackupInv, Typed
<1>2. Copy(j) = Again(j) /\ ~Undecided(j) /\ current[j] = "restored"
      BY <1>1, OldCopy
<1> touched \subseteq touched'
  <2>1. lives' = lives + 1 => lives' # lives
        BY <1>1 DEF Typed, BackupTypeOK
  <2> QED
      BY <2>1 DEF BackupNext, Client, Worker, Restoring, TaskStep, Enqueue, Cancel, Delete,
         Dequeue, RunEnds, ChatEnds, ListKeys, ListFails, Get, Put, Restored, Marshal, Write,
         Erase, CallFails, Expire, Crash, backupVars, history, chats
<1>3. waiting[Again(j)] = 0 /\ waiting[<<j, "own">>] = 0 /\ running[j] = 0
      BY <1>1, <1>2 DEF OldSound
<1>4. Again(j) \in Copies /\ Again(j)[1] = j
      BY <1>1, CopyIsOne DEF Again
<1>5. SUFFICES current'[j] = current[j] /\ job'[Again(j)] = job[Again(j)]
      BY <1>2 DEF Again
<1>11. ASSUME NEW k \in Jobs, k # j, EndsBy(k)
       PROVE  current' = current /\ job'[Again(j)] = job[Again(j)]
  <2>1. current' = current /\ (Known(k) \/ job' = job)
        BY <1>1, <1>11, EndsParts
  <2>2. CASE Complete(k) \/ Fail(k)
    <3>1. Copy(k) # Again(j)
          BY <1>1, <1>4, <1>11, <2>2, CopyIsOne DEF Complete, Fail
    <3> QED
        BY <1>1, <1>4, <2>1, <2>2, <3>1 DEF Complete, Fail, Typed, BackupTypeOK
  <2> QED
      BY <1>1, <1>11, <2>1, <2>2, EndsParts DEF Leave
<1>6. CASE Worker
  <2>1. ASSUME NEW o \in Copies, Dequeue(o)
        PROVE  current' = current /\ job'[Again(j)] = job[Again(j)]
    <3>1. o # Again(j)
          BY <1>3, <2>1 DEF Dequeue
    <3> QED
        BY <1>1, <1>4, <2>1, <3>1 DEF Dequeue, Typed, BackupTypeOK
  <2>2. \A k \in Jobs : RunEnds(k) => k # j
        BY <1>3 DEF RunEnds
  <2> QED
      BY <1>6, <1>11, <2>1, <2>2 DEF Worker, EndsBy
<1>7. CASE Client
  <2>1. ASSUME NEW k \in Jobs, Enqueue(k)
        PROVE  current'[j] = current[j] /\ job'[Again(j)] = job[Again(j)]
    <3>1. k # j
          BY <1>1, <2>1 DEF Enqueue, Old, Typed, BackupTypeOK
    <3> QED
        BY <1>1, <1>4, <2>1, <3>1 DEF Enqueue, Typed, BackupTypeOK
  <2>2. ASSUME NEW k \in Jobs, Cancel(k)
        PROVE  current' = current /\ job'[Again(j)] = job[Again(j)]
    <3>1. k # j
          BY <2>2 DEF Cancel
    <3>2. Copy(k) # Again(j)
          BY <1>1, <1>4, <2>2, <3>1, CopyIsOne DEF Cancel
    <3> QED
        BY <1>1, <1>4, <2>2, <3>2 DEF Cancel, Typed, BackupTypeOK
  <2>3. ASSUME NEW k \in Jobs, Delete(k)
        PROVE  current'[j] = current[j] /\ job'[Again(j)] = job[Again(j)]
        BY <1>1, <2>3 DEF Delete, Typed, BackupTypeOK
  <2>4. \A k \in Jobs : ChatEnds(k) => k # j
        BY DEF ChatEnds
  <2> QED
      BY <1>7, <1>11, <2>1, <2>2, <2>3, <2>4 DEF Client, EndsBy
<1>8. CASE Restoring
  <2>1. CASE Put
    <3>1. restore.id # j /\ restore.id \in Jobs
          BY <1>1, <1>2, <2>1 DEF Put, Undecided, Typed, SnapshotsTrue
    <3> QED
        BY <1>1, <1>4, <2>1, <3>1 DEF Put, Again, Typed, BackupTypeOK
  <2>2. CASE ListKeys \/ ListFails \/ Restored \/ \E k \in Jobs : Get(k)
        BY <2>2 DEF ListKeys, ListFails, Restored, Get, memory
  <2> QED
      BY <1>8, <2>1, <2>2 DEF Restoring
<1>9. CASE \/ \E t \in BagToSet(tasks) : TaskStep(t)
           \/ \E k \in Jobs : Expire(k)
           \/ UNCHANGED backupVars
      BY <1>9 DEF TaskStep, Marshal, Write, Erase, CallFails, Expire, backupVars, memory
<1>10. ~Crash
       BY <1>1 DEF Crash, Typed, BackupTypeOK
<1> QED
    BY <1>6, <1>7, <1>8, <1>9, <1>10 DEF BackupNext

\* What Complete or Fail ended after a restart stays ended: neither the restore nor a
\* late worker brings the job back (restoreFromRedis, Complete, Fail), only a chat stream.
THEOREM EndedHolds == BackupSpec => EndedStaysEnded
<1>1. BackupInv /\ [BackupNext]_backupVars =>
         [\A j \in Jobs :
             Old(j) /\ Known(j) /\ job[Copy(j)].status \in Final /\ lives' = lives
                /\ current'[j] # "none" /\ j \notin touched'
                => (job[Copy(j)].status)' = job[Copy(j)].status]_backupVars
      BY EndedLeftAlone DEF Copy
<1> QED
    BY <1>1, BackupInvariance, PTL DEF BackupSpec, EndedStaysEnded

-------------------------------------------------------------------------------
(* The keys of Redis *)

\* A sound Redis stays sound, and the retention the code was given stays what it is.
LEMMA NothingFails ==
    ASSUME [BackupNext]_backupVars
    PROVE  faulty' = faulty
BY DEF BackupNext, Client, Worker, Restoring, TaskStep, Enqueue, Cancel, Delete, Dequeue,
   Complete, Fail, Leave, RunEnds, ChatEnds, ListKeys, ListFails, Get, Put, Restored,
   Marshal, Write, Erase, CallFails, Expire, Crash, backupVars, era

\* The goroutines that a method leaves behind, and those it found.
LEMMA MethodTasks ==
    ASSUME Typed, NEW j \in Jobs, Enqueue(j) \/ Cancel(j) \/ EndsBy(j)
    PROVE  /\ BagToSet(tasks) \subseteq BagToSet(tasks')
           /\ \A t \in BagToSet(tasks') : t \in BagToSet(tasks) \/ t.do # "delete"
           /\ \A t \in BagToSet(tasks') :
                 t \in BagToSet(tasks) \/ (t.copy[1] = j /\ (Enqueue(j) \/ Known(j)))
           /\ Enqueue(j) => \E t \in BagToSet(tasks') : t.do # "delete" /\ t.copy[1] = j
           /\ UNCHANGED <<store, deleted, lapsed, restore>>
<1> DEFINE o == IF Enqueue(j) THEN <<j, "own">> ELSE Copy(j)
<1>1. UNCHANGED <<store, deleted, lapsed, restore>>
      BY EndsParts DEF Enqueue, Cancel, history
<1>2. CASE tasks' = tasks /\ ~Enqueue(j)
      BY <1>1, <1>2
<1>3. CASE Go(ReadTask(o)) /\ (Enqueue(j) \/ Known(j))
  <2>1. o \in Copies /\ o[1] = j
        BY <1>3, CopyIsOne
  <2>2. ReadTask(o).do = "read" /\ ReadTask(o).copy[1] = j
        BY <2>1, TaskParts
  <2>3. BagToSet(tasks') = BagToSet(tasks) \cup {ReadTask(o)}
        BY <1>3, GoAdds DEF Typed, BackupTypeOK
  <2> HIDE DEF o
  <2> QED
      BY <1>1, <1>3, <2>2, <2>3
<1>4. EndsBy(j) => ~Enqueue(j)
  <2>1. EndsBy(j) => born' = born
        BY EndsParts
  <2>2. Enqueue(j) => born'[j] # born[j]
        BY DEF Enqueue, Typed, BackupTypeOK
  <2> QED
      BY <2>1, <2>2
<1>5. Complete(j) \/ Fail(j) => Go(ReadTask(Copy(j))) /\ Known(j)
      BY DEF Complete, Fail
<1> QED
    BY <1>2, <1>3, <1>4, <1>5, EndsParts DEF Enqueue, Cancel, Leave

\* A goroutine of a sound Redis writes the key of its job, erases it, or lives on as one
\* that will write it.
LEMMA TaskEffects ==
    ASSUME Typed, ~faulty, NEW t \in BagToSet(tasks), TaskStep(t)
    PROVE  /\ UNCHANGED <<memory, restore, era, started, born, deleted, chats>>
           /\ \A u \in BagToSet(tasks') :
                 u \in BagToSet(tasks) \/ (u.copy = t.copy /\ u.do # "delete")
           /\ \A u \in BagToSet(tasks) : u.do # "delete" =>
                 \/ store'[u.copy[1]] # None
                 \/ \E v \in BagToSet(tasks') : v.do # "delete" /\ v.copy = u.copy
           /\ \A j \in Jobs : j \in lapsed => j \in lapsed' \/ store'[j] # None
           /\ \A j \in Jobs : \/ store'[j] = store[j]
                              \/ store'[j] # None /\ t.copy[1] = j
                              \/ store'[j] = None /\ t.copy[1] = j /\ t.do = "delete"
<1>1. /\ UNCHANGED <<memory, restore, era, started, born, deleted, chats>>
      /\ Marshal(t) \/ Write(t) \/ Erase(t)
      /\ lapsed' = lapsed \/ (Write(t) /\ lapsed' = lapsed \ {t.copy[1]})
      BY DEF TaskStep, Marshal, Write, Erase, CallFails, history, chats
<1>2. CASE Marshal(t)
  <2>1. /\ Marshalled(t) \in BagToSet(tasks')
        /\ BagToSet(tasks') \subseteq BagToSet(tasks) \cup {Marshalled(t)}
        /\ BagToSet(tasks) \ {t} \subseteq BagToSet(tasks')
        BY <1>2, MarshalMoves DEF Typed, BackupTypeOK
  <2>2. Marshalled(t).copy = t.copy /\ Marshalled(t).do # "delete"
        BY <1>2, MarshalledParts
  <2>3. store' = store /\ lapsed' = lapsed
        BY <1>2 DEF Marshal, history
  <2> QED
      BY <1>1, <2>1, <2>2, <2>3
<1>3. CASE Write(t)
  <2>1. /\ BagToSet(tasks') \subseteq BagToSet(tasks)
        /\ BagToSet(tasks) \ {t} \subseteq BagToSet(tasks')
        BY <1>3, DoneDrops DEF Typed, BackupTypeOK, Write
  <2>2. t.snap # None
        BY <1>3, SnapshotParts DEF Typed, SnapshotsTrue, Write
  <2>3. t.copy \in Copies /\ t.copy[1] \in Jobs
        BY CopyParts DEF Typed, BackupTypeOK, Task
  <2>4. /\ store'[t.copy[1]] = t.snap
        /\ \A j \in Jobs : j # t.copy[1] => store'[j] = store[j]
        BY <1>3, <2>3 DEF Write, Typed, BackupTypeOK
  <2> QED
      BY <1>1, <2>1, <2>2, <2>4
<1>4. CASE Erase(t)
  <2>1. /\ BagToSet(tasks') \subseteq BagToSet(tasks)
        /\ BagToSet(tasks) \ {t} \subseteq BagToSet(tasks')
        BY <1>4, DoneDrops DEF Typed, BackupTypeOK, Erase
  <2>2. t.copy \in Copies /\ t.copy[1] \in Jobs /\ t.do = "delete"
        BY <1>4, CopyParts DEF Typed, BackupTypeOK, Task, Erase
  <2>3. /\ store'[t.copy[1]] = None
        /\ \A j \in Jobs : j # t.copy[1] => store'[j] = store[j]
        /\ lapsed' = lapsed
        BY <1>4, <2>2 DEF Erase, history, Typed, BackupTypeOK
  <2> QED
      BY <1>1, <2>1, <2>2, <2>3
<1> QED
    BY <1>1, <1>2, <1>3, <1>4

\* Which jobs a method of the queue adds to the map.
LEMMA MethodMap ==
    ASSUME Typed, NEW k \in Jobs, Enqueue(k) \/ Cancel(k) \/ EndsBy(k)
    PROVE  \A j \in Jobs : (Known(j)' => Known(j) \/ (j = k /\ Enqueue(k)))
                             /\ (Known(j) \/ (j = k /\ Enqueue(k)) => Known(j)')
BY EndsParts DEF Typed, BackupTypeOK, Known, Enqueue, Cancel

\* What Dequeue and Delete add to the goroutines.
LEMMA DequeueTasks ==
    ASSUME Typed, NEW o \in Copies, Dequeue(o)
    PROVE  /\ BagToSet(tasks') = BagToSet(tasks) \cup {ReadTask(o)}
           /\ ReadTask(o).do = "read" /\ ReadTask(o).copy = o
BY GoAdds, TaskParts DEF Typed, BackupTypeOK, Dequeue

LEMMA DeleteTasks ==
    ASSUME Typed, NEW k \in Jobs, Delete(k)
    PROVE  /\ BagToSet(tasks') = BagToSet(tasks) \cup {DeleteTask(k)}
           /\ DeleteTask(k).do = "delete" /\ DeleteTask(k).copy[1] = k
           /\ \A j \in Jobs : Known(j)' <=> Known(j) /\ j # k
           /\ deleted' = deleted \cup {k} /\ UNCHANGED <<store, restore, lapsed>>
<1>1. DeleteTask(k).do = "delete" /\ DeleteTask(k).copy[1] = k
      BY DeleteParts
<1> QED
    BY <1>1, GoAdds DEF Typed, BackupTypeOK, Delete, Known

\* What each step of the restore of a sound Redis has in hand afterwards.
LEMMA RestoringMap ==
    ASSUME Typed, ~faulty, Restoring
    PROVE  /\ UNCHANGED <<tasks, store, faulty, lives, history>>
           /\ \A j \in Jobs : Known(j)' <=>
                 Known(j) \/ (restore.phase = "put" /\ restore.id = j /\ Put)
           /\ \A j \in Jobs : restore'.phase = "put" /\ restore'.id = j =>
                 store[j] # None
<1>1. CASE Put
  <2>1. restore.id \in Jobs /\ restore.phase = "put"
        BY <1>1 DEF Put, Typed, SnapshotsTrue
  <2>2. restore'.phase = "get"
        BY <1>1, RestoreMoves
  <2> QED
      BY <1>1, <2>1, <2>2 DEF Put, Known, Typed, BackupTypeOK, era
<1>2. CASE (ListKeys \/ ListFails \/ Restored \/ \E k \in Jobs : Get(k)) /\ ~Put
  <2>1. UNCHANGED <<memory, tasks, store, era, history>>
        BY <1>2 DEF ListKeys, ListFails, Restored, Get
  <2>2. \A j \in Jobs : restore'.phase = "put" /\ restore'.id = j => store[j] # None
    <3>1. CASE ListKeys \/ ListFails \/ Restored
          BY <3>1, RestoreMoves
    <3>2. ASSUME NEW k \in Jobs, Get(k)
          PROVE  \A j \in Jobs : restore'.phase = "put" /\ restore'.id = j => store[j] # None
          BY <3>2, RestoreMoves
    <3> QED
        BY <1>2, <3>1, <3>2
  <2> QED
      BY <1>2, <2>1, <2>2 DEF memory, era, Known
<1> QED
    BY <1>1, <1>2 DEF Restoring

LEMMA CrashEmpties ==
    ASSUME Crash
    PROVE  /\ BagToSet(tasks') = {} /\ \A j \in Jobs : ~Known(j)'
           /\ restore'.phase = "list"
           /\ \A o \in Copies : waiting'[o] = 0
BY NoTasks DEF Crash, EmptyMemory, Known, ToList

LEMMA KeptStep ==
    ASSUME Typed, ~faulty, KeptInv, [BackupNext]_backupVars
    PROVE  KeptInv'
<1>1. Deletions /\ \A j \in Jobs : KeyKept(j)
      BY DEF KeptInv
<1>2. SUFFICES Deletions' /\ \A j \in Jobs : KeyKept(j)'
      BY DEF KeptInv
<1>3. ASSUME NEW k \in Jobs,
             Enqueue(k) \/ Cancel(k) \/ EndsBy(k)
      PROVE  Deletions' /\ \A j \in Jobs : KeyKept(j)'
      BY <1>1, <1>3, MethodTasks, MethodMap DEF Deletions, KeyKept
<1>4. ASSUME NEW o \in Copies, Dequeue(o)
      PROVE  Deletions' /\ \A j \in Jobs : KeyKept(j)'
  <2>1. UNCHANGED <<current, store, restore, deleted, lapsed>>
        BY <1>4 DEF Dequeue
  <2> QED
      BY <1>1, <1>4, <2>1, DequeueTasks DEF Deletions, KeyKept, Known
<1>5. ASSUME NEW k \in Jobs, Delete(k)
      PROVE  Deletions' /\ \A j \in Jobs : KeyKept(j)'
      BY <1>1, <1>5, DeleteTasks DEF Deletions, KeyKept
<1>6. ASSUME NEW t \in BagToSet(tasks), TaskStep(t)
      PROVE  Deletions' /\ \A j \in Jobs : KeyKept(j)'
  <2>1. /\ UNCHANGED <<current, restore, deleted>>
        /\ \A u \in BagToSet(tasks') :
              u \in BagToSet(tasks) \/ (u.copy = t.copy /\ u.do # "delete")
        /\ \A u \in BagToSet(tasks) : u.do # "delete" =>
              \/ store'[u.copy[1]] # None
              \/ \E v \in BagToSet(tasks') : v.do # "delete" /\ v.copy = u.copy
        /\ \A j \in Jobs : \/ store'[j] = store[j]
                           \/ store'[j] # None /\ t.copy[1] = j
                           \/ store'[j] = None /\ t.copy[1] = j /\ t.do = "delete"
        /\ \A j \in Jobs : j \in lapsed => j \in lapsed' \/ store'[j] # None
        BY <1>6, TaskEffects DEF memory
  <2>2. Deletions'
        BY <1>1, <2>1 DEF Deletions
  <2>3. \A j \in Jobs : store[j] # None \/ j \in deleted \cup lapsed
                          => store'[j] # None \/ j \in deleted' \cup lapsed'
        BY <1>1, <2>1 DEF Deletions
  <2>4. ASSUME NEW j \in Jobs
        PROVE  KeyKept(j)'
    <3>1. Known(j)' => Known(j)
          BY <2>1 DEF Known
    <3> QED
        BY <1>1, <2>1, <2>3, <3>1 DEF KeyKept
  <2> QED
      BY <2>2, <2>4
<1>7. CASE Restoring
      BY <1>1, <1>7, RestoringMap DEF Deletions, KeyKept, history
<1>8. CASE Crash
      BY <1>8, CrashEmpties DEF Deletions, KeyKept
<1>9. CASE UNCHANGED backupVars
      BY <1>1, <1>9 DEF Deletions, KeyKept, Known, backupVars, memory, history
<1>10. ASSUME NEW k \in Jobs, Expire(k)
       PROVE  Deletions' /\ \A j \in Jobs : KeyKept(j)'
  <2>1. UNCHANGED <<current, tasks, restore, deleted>> /\ lapsed' = lapsed \cup {k}
        BY <1>10 DEF Expire, memory
  <2>2. \A j \in Jobs : store'[j] = store[j] \/ j \in lapsed'
        BY <1>10, <2>1 DEF Expire, Typed, BackupTypeOK
  <2> QED
      BY <1>1, <2>1, <2>2 DEF Deletions, KeyKept, Known
<1> QED
    BY <1>3, <1>4, <1>5, <1>6, <1>7, <1>8, <1>9, <1>10 DEF BackupNext, Client, Worker, EndsBy

\* A job in q.jobs is in Redis once its goroutines are done (backupJobToRedis,
\* deleteFromRedis), until the key expires: for every expiration the queue may be given.
THEOREM BackedUpHolds == BackupSpec => []BackedUp
<1>1. BackupInit => KeptInv
      BY NoTasks DEF BackupInit, KeptInv, Deletions, KeyKept, Known, EmptyMemory, ToList
<1>2. BackupInv /\ KeptInv /\ [BackupNext]_backupVars => KeptInv'
  <2> SUFFICES ASSUME BackupInv, KeptInv, [BackupNext]_backupVars PROVE KeptInv'
      OBVIOUS
  <2>1. Typed
        BY DEF BackupInv, Typed
  <2>2. CASE faulty
        BY <2>2, NothingFails DEF KeptInv
  <2>3. CASE ~faulty
        BY <2>1, <2>3, KeptStep
  <2> QED
      BY <2>2, <2>3
<1>3. KeptInv => BackedUp
  <2> SUFFICES ASSUME KeptInv, NEW j \in Jobs, ~faulty, Known(j),
                      \A t \in BagToSet(tasks) : t.copy[1] # j
               PROVE  store[j] # None \/ j \in deleted \cup lapsed
      BY DEF BackedUp
  <2> QED
      BY DEF KeptInv, KeyKept
<1> QED
    BY <1>1, <1>2, <1>3, BackupInvariance, PTL DEF BackupSpec

LEMMA FoundStep ==
    ASSUME Typed, ~faulty, FoundInv, [BackupNext]_backupVars
    PROVE  FoundInv'
<1> DEFINE TasksOK == \A t \in BagToSet(tasks) : Remembered(t.copy[1])
           WaitingOK == \A o \in Copies : waiting[o] > 0 => Remembered(o[1])
           KeysOK == \A j \in Jobs : Old(j) /\ store[j] # None => Remembered(j) \/ Undecided(j)
<1>1. TasksOK /\ WaitingOK /\ KeysOK
      BY DEF FoundInv
<1>2. SUFFICES TasksOK' /\ WaitingOK' /\ KeysOK'
      BY DEF FoundInv
<1>3. \A t \in BagToSet(tasks) : t.copy \in Copies /\ t.copy[1] \in Jobs
      BY CopyParts DEF Typed, BackupTypeOK, Task
<1>4. ASSUME NEW k \in Jobs,
             Enqueue(k) \/ Cancel(k) \/ EndsBy(k)
      PROVE  TasksOK' /\ WaitingOK' /\ KeysOK'
  <2>1. \A j \in Jobs : Remembered(j) => Remembered(j)'
        BY <1>4, MethodTasks, MethodMap DEF Remembered
  <2>2. Enqueue(k) \/ Known(k) => Remembered(k)'
        BY <1>4, MethodTasks, MethodMap DEF Remembered
  <2>3. TasksOK'
        BY <1>1, <1>3, <1>4, <2>1, <2>2, MethodTasks
  <2>4. \A o \in Copies : waiting'[o] > 0 => waiting[o] > 0 \/ (o[1] = k /\ (Enqueue(k) \/ Known(k)))
    <3>1. CASE Cancel(k)
          BY <3>1, DropEntryTyped DEF Cancel, Typed, BackupTypeOK
    <3>2. CASE Enqueue(k)
          BY <3>2, CopyIsOne DEF Enqueue, Typed, BackupTypeOK
    <3>3. CASE EndsBy(k)
      <4>1. CASE Complete(k) \/ Fail(k)
            BY <4>1, EndsJob, CopyIsOne DEF Typed, BackupTypeOK
      <4>2. CASE Leave(k)
            BY <4>2 DEF Leave
      <4> QED
          BY <3>3, <4>1, <4>2, EndsParts
    <3> QED
        BY <1>4, <3>1, <3>2, <3>3
  <2>5. WaitingOK'
        BY <1>1, <2>1, <2>2, <2>4, CopyParts
  <2>6. \A j \in Jobs : Old(j)' => Old(j)
        BY <1>4, EndsParts DEF Enqueue, Cancel, Old, era, history, Typed, BackupTypeOK
  <2>7. KeysOK'
        BY <1>1, <1>4, <2>1, <2>6, MethodTasks DEF Undecided
  <2> QED
      BY <2>3, <2>5, <2>7
<1>5. ASSUME NEW o \in Copies, Dequeue(o)
      PROVE  TasksOK' /\ WaitingOK' /\ KeysOK'
  <2>1. UNCHANGED <<current, store, restore, deleted, born, lives>> /\ waiting[o] > 0
        BY <1>5 DEF Dequeue, era
  <2>2. \A p \in Copies : waiting'[p] > 0 => waiting[p] > 0
        BY <1>5 DEF Dequeue, Typed, BackupTypeOK
  <2>3. \A j \in Jobs : Remembered(j)' <=> Remembered(j)
        BY <2>1 DEF Remembered, Known
  <2>4. Remembered(o[1])'
        BY <1>1, <2>1, <2>3, CopyParts
  <2>5. TasksOK'
        BY <1>1, <1>3, <1>5, <2>3, <2>4, DequeueTasks
  <2>6. WaitingOK'
        BY <1>1, <2>2, <2>3, CopyParts
  <2>7. KeysOK'
        BY <1>1, <2>1, <2>3 DEF Old, Undecided
  <2> QED
      BY <2>5, <2>6, <2>7
<1>6. ASSUME NEW k \in Jobs, Delete(k)
      PROVE  TasksOK' /\ WaitingOK' /\ KeysOK'
  <2>1. \A j \in Jobs : (Remembered(j) => Remembered(j)') /\ Remembered(k)'
        BY <1>6, DeleteTasks DEF Remembered
  <2>2. \A o \in Copies : waiting'[o] > 0 => waiting[o] > 0
    <3>1. DropEntry(k)
          BY <1>6 DEF Delete
    <3>2. waiting' \in [Copies -> Nat] /\ \A o \in Copies : waiting'[o] <= waiting[o]
          BY <3>1, DropEntryTyped
    <3>3. waiting \in [Copies -> Nat]
          BY DEF Typed, BackupTypeOK
    <3> QED
        BY <3>2, <3>3
  <2>3. UNCHANGED <<store, restore, born, lives>>
        BY <1>6 DEF Delete, era
  <2>4. TasksOK'
        BY <1>1, <1>3, <1>6, <2>1, DeleteTasks
  <2>5. WaitingOK'
        BY <1>1, <2>1, <2>2, CopyParts
  <2>6. KeysOK'
        BY <1>1, <2>1, <2>3 DEF Old, Undecided
  <2> QED
      BY <2>4, <2>5, <2>6
<1>7. ASSUME NEW t \in BagToSet(tasks), TaskStep(t)
      PROVE  TasksOK' /\ WaitingOK' /\ KeysOK'
  <2>1. /\ UNCHANGED <<current, waiting, restore, deleted, born, lives>>
        /\ \A u \in BagToSet(tasks') : u \in BagToSet(tasks) \/ u.copy = t.copy
        /\ \A j \in Jobs : store'[j] # None => store[j] # None \/ t.copy[1] = j
        BY <1>7, TaskEffects DEF memory, era
  <2>2. \A j \in Jobs : Remembered(j)' <=> Remembered(j)
        BY <2>1 DEF Remembered, Known
  <2>3. TasksOK'
        BY <1>1, <1>3, <2>1, <2>2
  <2>4. WaitingOK'
        BY <1>1, <2>1, <2>2, CopyParts
  <2>5. KeysOK'
        BY <1>1, <2>1, <2>2 DEF Old, Undecided
  <2> QED
      BY <2>3, <2>4, <2>5
<1>8. CASE Restoring
  <2>1. /\ UNCHANGED <<tasks, store, lives, born, deleted>>
        /\ \A j \in Jobs : Remembered(j) => Remembered(j)'
        BY <1>8, RestoringMap DEF history, Remembered
  <2>2. TasksOK'
        BY <1>1, <1>3, <2>1
  <2>3. \A o \in Copies : waiting'[o] > 0 => waiting[o] > 0 \/ Known(o[1])'
    <3>1. CASE Put
      <4>1. restore.id \in Jobs
            BY <3>1 DEF Put, Typed, SnapshotsTrue
      <4> QED
          BY <3>1, <4>1 DEF Put, Known, Typed, BackupTypeOK
    <3>2. CASE ListKeys \/ ListFails \/ Restored \/ \E k \in Jobs : Get(k)
          BY <3>2 DEF ListKeys, ListFails, Restored, Get, memory
    <3> QED
        BY <1>8, <3>1, <3>2 DEF Restoring
  <2>4. WaitingOK'
        BY <1>1, <2>1, <2>3, CopyParts DEF Remembered
  <2>5. ASSUME NEW j \in Jobs, store[j] # None, Undecided(j)
        PROVE  Undecided(j)' \/ Known(j)'
    <3>1. CASE ListKeys
          BY <2>5, <3>1, RestoreMoves DEF Undecided
    <3>2. ~ListFails
          BY DEF ListFails
    <3>3. CASE Restored
      <4>1. ~Undecided(j)
            BY <3>3 DEF Restored, Undecided
      <4> QED
          BY <2>5, <4>1
    <3>4. ASSUME NEW k \in Jobs, Get(k)
          PROVE  Undecided(j)'
      <4>1. restore.phase = "get" /\ j \in restore.keys
            BY <2>5, <3>4 DEF Get, Undecided
      <4>2. CASE k = j
            BY <2>5, <3>4, <4>2, RestoreMoves DEF Undecided
      <4>3. CASE k # j
            BY <3>4, <4>1, <4>3, RestoreMoves DEF Undecided
      <4> QED
          BY <4>2, <4>3
    <3>5. CASE Put
      <4>1. restore.phase = "put" /\ restore.id \in Jobs
            BY <3>5 DEF Put, Typed, SnapshotsTrue
      <4>2. CASE restore.id = j
            BY <1>8, <3>5, <4>1, <4>2, RestoringMap
      <4>3. CASE restore.id # j
            BY <2>5, <3>5, <4>1, <4>3, RestoreMoves DEF Undecided
      <4> QED
          BY <4>2, <4>3
    <3> QED
        BY <1>8, <3>1, <3>2, <3>3, <3>4, <3>5 DEF Restoring
  <2>6. KeysOK'
        BY <1>1, <2>1, <2>5 DEF Old, Remembered
  <2> QED
      BY <2>2, <2>4, <2>6
<1>9. CASE Crash
      BY <1>9, CrashEmpties DEF Undecided
<1>10. CASE (\E j \in Jobs : Expire(j)) \/ UNCHANGED backupVars
  <2>1. UNCHANGED <<current, waiting, tasks, restore, deleted, born, lives>>
        BY <1>10 DEF Expire, backupVars, memory, history, era
  <2>2. \A j \in Jobs : store'[j] # None => store[j] # None
        BY <1>10 DEF Expire, backupVars, Typed, BackupTypeOK
  <2>3. \A j \in Jobs : Remembered(j)' <=> Remembered(j)
        BY <2>1 DEF Remembered, Known
  <2> QED
      BY <1>1, <1>3, <2>1, <2>2, <2>3, CopyParts DEF Old, Undecided
<1> QED
    BY <1>4, <1>5, <1>6, <1>7, <1>8, <1>9, <1>10 DEF BackupNext, Client, Worker, EndsBy

\* A restart brings back every job whose snapshot is in Redis, unless Delete took it out
\* (restoreFromRedis): also one that a late backup wrote just before the crash.
THEOREM RestoresHolds == BackupSpec => []RestartRestores
<1>1. BackupInit => FoundInv
  <2> SUFFICES ASSUME BackupInit PROVE FoundInv
      OBVIOUS
  <2>1. \A j \in Jobs : ~Old(j)
        BY DEF BackupInit, Old
  <2> QED
      BY <2>1, NoTasks DEF BackupInit, FoundInv, EmptyMemory
<1>2. BackupInv /\ FoundInv /\ [BackupNext]_backupVars => FoundInv'
  <2> SUFFICES ASSUME BackupInv, FoundInv, [BackupNext]_backupVars PROVE FoundInv'
      OBVIOUS
  <2>1. Typed
        BY DEF BackupInv, Typed
  <2>2. CASE faulty
        BY <2>2, NothingFails DEF FoundInv
  <2>3. CASE ~faulty
        BY <2>1, <2>3, FoundStep
  <2> QED
      BY <2>2, <2>3
<1>3. FoundInv => RestartRestores
      BY DEF FoundInv, RestartRestores, Remembered, Undecided
<1> QED
    BY <1>1, <1>2, <1>3, BackupInvariance, PTL DEF BackupSpec

===============================================================================

---------------------------- MODULE EnrichmentProofs ---------------------------
(***************************************************************************)
(* The safety theorems of Enrichment, for any number of properties and     *)
(* streams, any width of the semaphore and any capacity of the channels.   *)
(* The books rest on sets: a goroutine is tallied before it is processed,  *)
(* and processed before it may save a count.                               *)
(***************************************************************************)
EXTENDS Enrichment, FiniteSetTheorems, SequenceTheorems, TLAPS

Places == {"none", "acquire", "fetch", "broadcast", "send", "check", "read", "save", "done"}
Talls  == Outcomes \cup {"none", "late"}
Arrays == Seq(Seq(Streams \cup {"none"}))
Slice  == [array : Nat, len : Nat, at : Nat \ {0}]
Cells  == [status : Statuses \cup {"none"}, completed : Nat, enriched : Nat, failed : Nat,
           noData : Nat, updates : SUBSET Properties]
Channel == [state : {"none", "open", "closed"}, queued : 0 .. Buffer]

-------------------------------------------------------------------------------
(* Counting *)

LEMMA Subsets ==
    ASSUME NEW S \in SUBSET Properties
    PROVE  /\ IsFiniteSet(S) /\ Cardinality(S) \in Nat /\ N \in Nat /\ Cardinality(S) <= N
           /\ Cardinality(S) = N => S = Properties
           /\ S = {} => Cardinality(S) = 0
<1>1. IsFiniteSet(S) /\ Cardinality(S) <= N /\ (Cardinality(S) = N => S = Properties)
      BY EnrichmentConstants, FS_Subset DEF N
<1>2. Cardinality(S) \in Nat /\ N \in Nat
      BY <1>1, EnrichmentConstants, FS_CardinalityType DEF N
<1>3. S = {} => Cardinality(S) = 0
      BY FS_EmptySet
<1> QED
    BY <1>1, <1>2, <1>3

LEMMA Fewer ==
    ASSUME NEW S \in SUBSET Properties, NEW T \in SUBSET S
    PROVE  Cardinality(T) <= Cardinality(S)
BY Subsets, FS_Subset

LEMMA OneMore ==
    ASSUME NEW S \in SUBSET Properties, NEW p \in Properties, p \notin S
    PROVE  Cardinality(S \cup {p}) = Cardinality(S) + 1
BY Subsets, FS_AddElement

LEMMA Disjoint ==
    ASSUME NEW S \in SUBSET Properties, NEW T \in SUBSET Properties, S \cap T = {}
    PROVE  Cardinality(S \cup T) = Cardinality(S) + Cardinality(T)
<1>1. Cardinality(S \cup T) = Cardinality(S) + Cardinality(T) - Cardinality(S \cap T)
      BY Subsets, FS_Union
<1>2. Cardinality(S \cap T) = 0
      BY Subsets
<1> QED
    BY <1>1, <1>2, Subsets

Tallied(o) == {p \in Properties : tally[p] = o}

\* What was tallied is the disjoint union of what is counted under each outcome.
LEMMA Sum ==
    /\ \A o : Counted(o) = Cardinality(Tallied(o)) /\ Counted(o) \in Nat
    /\ Counted("enriched") + Counted("failed") + Counted("noData")
          = Cardinality({p \in Properties : tally[p] \in Outcomes})
    /\ Counted("enriched") + Counted("failed") + Counted("late") + Counted("noData")
          = Cardinality({p \in Properties : tally[p] \in Outcomes \cup {"late"}})
<1> DEFINE E == Tallied("enriched")
           F == Tallied("failed")
           D == Tallied("noData")
           L == Tallied("late")
<1>1. E \subseteq Properties /\ F \subseteq Properties /\ D \subseteq Properties /\ L \subseteq Properties
      BY DEF Tallied
<1>2. \A o : Counted(o) = Cardinality(Tallied(o)) /\ Tallied(o) \subseteq Properties
      BY DEF Counted, Tallied
<1>3. \A o : Counted(o) \in Nat
      BY <1>2, Subsets
<1>4. Cardinality(E \cup F) = Cardinality(E) + Cardinality(F)
  <2>1. E \cap F = {}
        BY DEF Tallied
  <2> QED
      BY <1>1, <2>1, Disjoint
<1>5. Cardinality((E \cup F) \cup D) = Cardinality(E \cup F) + Cardinality(D)
  <2>1. (E \cup F) \cap D = {} /\ E \cup F \subseteq Properties
        BY <1>1 DEF Tallied
  <2> QED
      BY <1>1, <2>1, Disjoint
<1>6. Cardinality(((E \cup F) \cup D) \cup L) = Cardinality((E \cup F) \cup D) + Cardinality(L)
  <2>1. ((E \cup F) \cup D) \cap L = {} /\ (E \cup F) \cup D \subseteq Properties
        BY <1>1 DEF Tallied
  <2> QED
      BY <1>1, <2>1, Disjoint
<1>7. (E \cup F) \cup D = {p \in Properties : tally[p] \in Outcomes}
      BY DEF Tallied, Outcomes
<1>8. ((E \cup F) \cup D) \cup L = {p \in Properties : tally[p] \in Outcomes \cup {"late"}}
      BY DEF Tallied, Outcomes
<1>9. /\ Counted("enriched") = Cardinality(E) /\ Counted("failed") = Cardinality(F)
      /\ Counted("noData") = Cardinality(D) /\ Counted("late") = Cardinality(L)
      /\ Cardinality(E) \in Nat /\ Cardinality(F) \in Nat /\ Cardinality(D) \in Nat /\ Cardinality(L) \in Nat
      BY <1>2, <1>3
<1>10. /\ Cardinality(E \cup F \cup D) = Cardinality(E) + Cardinality(F) + Cardinality(D)
       /\ Cardinality(E \cup F \cup D \cup L) = Cardinality(E) + Cardinality(F) + Cardinality(L) + Cardinality(D)
  <2> HIDE DEF E, F, D, L
  <2> QED
      BY <1>4, <1>5, <1>6, <1>9
<1>11. Counted("enriched") + Counted("failed") + Counted("noData") = Cardinality(E \cup F \cup D)
  <2> HIDE DEF E, F, D, L
  <2> QED
      BY <1>9, <1>10
<1>12. Counted("enriched") + Counted("failed") + Counted("late") + Counted("noData")
          = Cardinality(E \cup F \cup D \cup L)
  <2> HIDE DEF E, F, D, L
  <2> QED
      BY <1>9, <1>10
<1> QED
    BY <1>2, <1>3, <1>7, <1>8, <1>11, <1>12

-------------------------------------------------------------------------------
(* The subscribers' arrays *)

\* Appending a channel, in place or to a new array, spoils no slice taken before.
LEMMA SubscribeSound ==
    ASSUME EnrichTypeOK, Slices, NEW s \in Streams, Subscribe(s)
    PROVE  /\ arrays' \in Arrays
           /\ subs' \in [array : Nat, len : Nat]
           /\ \A a, l \in Nat : Sound(a, l) => Sound(a, l)'
           /\ Sound(subs.array, subs.len)'
<1> DEFINE old   == IF subs.array = 0 THEN <<>> ELSE arrays[subs.array]
           width == IF subs.len = 0 THEN 1 ELSE 2 * subs.len
           wider == [i \in 1 .. width |->
                       IF i <= subs.len THEN old[i] ELSE IF i = subs.len + 1 THEN s ELSE "none"]
<1>1. /\ arrays \in Arrays /\ subs \in [array : Nat, len : Nat]
      /\ Sound(subs.array, subs.len)
      BY DEF EnrichTypeOK, Slices, Arrays
<1>2. subs.array \in Nat /\ subs.len \in Nat /\ Len(arrays) \in Nat
      BY <1>1 DEF Arrays
<1>3. \A a \in 1 .. Len(arrays) : arrays[a] \in Seq(Streams \cup {"none"})
      BY <1>1 DEF Arrays
<1>4. CASE subs.len < Len(old)
  <2>1. subs.array \in 1 .. Len(arrays) /\ old = arrays[subs.array]
        BY <1>1, <1>2, <1>4 DEF Sound
  <2>2. /\ arrays' = [arrays EXCEPT ![subs.array][subs.len + 1] = s]
        /\ subs' = [subs EXCEPT !.len = @ + 1]
        BY <1>4 DEF Subscribe
  <2>3. subs.len + 1 \in 1 .. Len(arrays[subs.array])
        BY <1>2, <1>3, <1>4, <2>1
  <2> DEFINE new == [arrays[subs.array] EXCEPT ![subs.len + 1] = s]
  <2>4. /\ new \in Seq(Streams \cup {"none"}) /\ Len(new) = Len(arrays[subs.array])
        /\ \A i \in 1 .. Len(new) : new[i] = IF i = subs.len + 1 THEN s ELSE arrays[subs.array][i]
        BY <1>3, <2>1, <2>3, ExceptSeq
  <2>5. arrays' = [arrays EXCEPT ![subs.array] = new]
        BY <1>1, <2>1, <2>2 DEF Arrays
  <2>6. /\ arrays' \in Arrays /\ Len(arrays') = Len(arrays)
        /\ \A a \in 1 .. Len(arrays) : arrays'[a] = IF a = subs.array THEN new ELSE arrays[a]
    <3> HIDE DEF new
    <3> QED
        BY <1>1, <2>1, <2>4, <2>5, ExceptSeq DEF Arrays
  <2>7. ASSUME NEW a \in Nat, NEW l \in Nat, Sound(a, l)
        PROVE  Sound(a, l)'
    <3>1. CASE a = 0
          BY <2>7, <3>1 DEF Sound
    <3>2. CASE a > 0
      <4>1. a \in 1 .. Len(arrays) /\ l <= Len(arrays[a]) /\ \A i \in 1 .. l : arrays[a][i] \in Streams
            BY <2>7, <3>2, <1>2 DEF Sound
      <4>2. CASE a = subs.array
        <5>1. arrays'[a] = new
              BY <4>1, <4>2, <2>6
        <5>2. \A i \in 1 .. l : new[i] \in Streams
          <6> HIDE DEF new
          <6> QED
              BY <4>1, <4>2, <2>4, <1>3
        <5> HIDE DEF new
        <5> QED
            BY <3>2, <4>1, <4>2, <5>1, <5>2, <2>4, <2>6 DEF Sound
      <4>3. CASE a # subs.array
            BY <3>2, <4>1, <4>3, <2>6 DEF Sound
      <4> QED
          BY <4>2, <4>3
    <3> QED
        BY <3>1, <3>2
  <2>8. Sound(subs.array, subs.len)'
    <3>1. subs'.array = subs.array /\ subs'.len = subs.len + 1
          BY <1>1, <2>2
    <3>2. arrays'[subs.array] = new
          BY <2>1, <2>6
    <3>3. \A i \in 1 .. subs.len : arrays[subs.array][i] \in Streams
          BY <1>1, <2>1 DEF Sound
    <3>4. \A i \in 1 .. subs.len + 1 : new[i] \in Streams
      <4> HIDE DEF new
      <4> QED
          BY <3>3, <2>3, <2>4, <1>2
    <3> HIDE DEF new
    <3> QED
        BY <3>1, <3>2, <3>4, <2>1, <2>3, <2>4, <2>6 DEF Sound
  <2>9. subs' \in [array : Nat, len : Nat]
        BY <1>1, <2>2
  <2> QED
      BY <2>6, <2>7, <2>8, <2>9
<1>5. CASE ~(subs.len < Len(old))
  <2>1. /\ arrays' = Append(arrays, wider)
        /\ subs' = [array |-> Len(arrays) + 1, len |-> subs.len + 1]
        BY <1>5 DEF Subscribe
  <2>2. \A i \in 1 .. subs.len : old[i] \in Streams
        BY <1>1, <1>2 DEF Sound
  <2>3. width \in Nat /\ subs.len + 1 <= width
        BY <1>2
  <2>4. /\ wider \in Seq(Streams \cup {"none"}) /\ Len(wider) = width
        /\ \A i \in 1 .. subs.len + 1 : wider[i] \in Streams
    <3>1. \A i \in 1 .. width : wider[i] = IF i <= subs.len THEN old[i] ELSE IF i = subs.len + 1 THEN s ELSE "none"
          OBVIOUS
    <3>2. \A i \in 1 .. width : wider[i] \in Streams \cup {"none"}
      <4> HIDE DEF old, width, wider
      <4> QED
          BY <1>2, <2>2, <2>3, <3>1
    <3>3. wider \in [1 .. width -> Streams \cup {"none"}]
          BY <3>2
    <3>4. \A i \in 1 .. subs.len + 1 : wider[i] \in Streams
      <4> HIDE DEF old, width, wider
      <4> QED
          BY <1>2, <2>2, <2>3, <3>1
    <3>5. wider \in Seq(Streams \cup {"none"}) /\ Len(wider) = width
      <4> HIDE DEF old, width, wider
      <4> QED
          BY <2>3, <3>3, SeqDef, LenProperties
    <3> QED
        BY <3>4, <3>5
  <2> HIDE DEF old, wider, width
  <2>5. /\ arrays' \in Arrays /\ Len(arrays') = Len(arrays) + 1
        /\ \A a \in 1 .. Len(arrays) : arrays'[a] = arrays[a]
        /\ arrays'[Len(arrays) + 1] = wider
        BY <1>1, <2>1, <2>4, AppendProperties DEF Arrays
  <2>6. \A a, l \in Nat : Sound(a, l) => Sound(a, l)'
        BY <1>2, <2>5 DEF Sound
  <2>7. Sound(subs.array, subs.len)'
    <3>1. subs'.array = Len(arrays) + 1 /\ subs'.len = subs.len + 1
          BY <2>1
    <3> QED
        BY <1>2, <2>3, <2>4, <2>5, <3>1 DEF Sound
  <2>8. subs' \in [array : Nat, len : Nat]
        BY <1>2, <2>1
  <2> QED
      BY <2>5, <2>6, <2>7, <2>8
<1> QED
    BY <1>4, <1>5

\* Shifting the rest of the list down in place spoils none either.
LEMMA UnsubscribeSound ==
    ASSUME EnrichTypeOK, Slices, NEW s \in Streams, Unsubscribe(s)
    PROVE  /\ arrays' \in Arrays
           /\ subs' \in [array : Nat, len : Nat]
           /\ \A a, l \in Nat : Sound(a, l) => Sound(a, l)'
           /\ Sound(subs.array, subs.len)'
<1>1. /\ arrays \in Arrays /\ subs \in [array : Nat, len : Nat]
      /\ Sound(subs.array, subs.len)
      BY DEF EnrichTypeOK, Slices, Arrays
<1>2. subs.array \in Nat /\ subs.len \in Nat /\ Len(arrays) \in Nat
      BY <1>1 DEF Arrays
<1>3. CASE UNCHANGED listVars
      BY <1>1, <1>3 DEF listVars, Sound
<1>4. ASSUME NEW i \in 1 .. subs.len,
             arrays' = [arrays EXCEPT ![subs.array] =
                          [k \in DOMAIN @ |-> IF k \in i .. subs.len - 1 THEN @[k + 1] ELSE @[k]]],
             subs' = [subs EXCEPT !.len = @ - 1]
      PROVE  /\ arrays' \in Arrays
             /\ subs' \in [array : Nat, len : Nat]
             /\ \A a, l \in Nat : Sound(a, l) => Sound(a, l)'
             /\ Sound(subs.array, subs.len)'
  <2> DEFINE old == arrays[subs.array]
             new == [k \in DOMAIN old |-> IF k \in i .. subs.len - 1 THEN old[k + 1] ELSE old[k]]
  <2>1. /\ subs.array \in 1 .. Len(arrays) /\ subs.len <= Len(old) /\ subs.len >= 1
        /\ \A k \in 1 .. subs.len : old[k] \in Streams
        BY <1>1, <1>2 DEF Sound
  <2>2. old \in Seq(Streams \cup {"none"}) /\ DOMAIN old = 1 .. Len(old) /\ Len(old) \in Nat
    <3>1. old \in Seq(Streams \cup {"none"})
          BY <1>1, <2>1 DEF Arrays
    <3> QED
        BY <3>1, LenProperties
  <2>3. /\ \A k \in 1 .. Len(old) : old[k] \in Streams \cup {"none"}
        /\ \A k \in 1 .. Len(old) : new[k] = IF k \in i .. subs.len - 1 THEN old[k + 1] ELSE old[k]
    <3> HIDE DEF old
    <3> QED
        BY <2>2
  <2>4. /\ \A k \in 1 .. Len(old) : new[k] \in Streams \cup {"none"}
        /\ \A k \in 1 .. Len(old) : old[k] \in Streams => new[k] \in Streams
    <3> HIDE DEF old, new
    <3> QED
        BY <1>2, <2>1, <2>2, <2>3
  <2>5. new \in Seq(Streams \cup {"none"}) /\ Len(new) = Len(old)
    <3>1. new \in [1 .. Len(old) -> Streams \cup {"none"}]
      <4> HIDE DEF old
      <4> QED
          BY <2>2, <2>4
    <3> HIDE DEF old, new
    <3> QED
        BY <2>2, <3>1, SeqDef, LenProperties
  <2>6. arrays' = [arrays EXCEPT ![subs.array] = new]
        BY <1>4
  <2> HIDE DEF new
  <2>7. /\ arrays' \in Arrays /\ Len(arrays') = Len(arrays)
        /\ \A a \in 1 .. Len(arrays) : arrays'[a] = IF a = subs.array THEN new ELSE arrays[a]
        BY <1>1, <2>1, <2>5, <2>6, ExceptSeq DEF Arrays
  <2>8. ASSUME NEW a \in Nat, NEW l \in Nat, Sound(a, l)
        PROVE  Sound(a, l)'
    <3>1. CASE a = 0
          BY <2>8, <3>1 DEF Sound
    <3>2. CASE a > 0
      <4>1. a \in 1 .. Len(arrays) /\ l <= Len(arrays[a]) /\ \A k \in 1 .. l : arrays[a][k] \in Streams
            BY <2>8, <3>2, <1>2 DEF Sound
      <4>2. CASE a = subs.array
        <5>1. arrays'[a] = new /\ arrays[a] = old
              BY <4>1, <4>2, <2>7
        <5>2. \A k \in 1 .. l : new[k] \in Streams
          <6> HIDE DEF old
          <6> QED
              BY <4>1, <5>1, <2>2, <2>4
        <5> HIDE DEF old
        <5> QED
            BY <3>2, <4>1, <5>1, <5>2, <2>5, <2>7 DEF Sound
      <4>3. CASE a # subs.array
            BY <3>2, <4>1, <4>3, <2>7 DEF Sound
      <4> QED
          BY <4>2, <4>3
    <3> QED
        BY <3>1, <3>2
  <2>9. subs' \in [array : Nat, len : Nat] /\ subs'.array = subs.array /\ subs'.len = subs.len - 1
        BY <1>1, <1>2, <1>4, <2>1
  <2>10. Sound(subs.array, subs.len)'
    <3>1. \A k \in 1 .. subs.len - 1 : new[k] \in Streams
      <4> HIDE DEF old
      <4> QED
          BY <1>2, <2>1, <2>2, <2>4
    <3>2. arrays'[subs.array] = new
          BY <2>1, <2>7
    <3> HIDE DEF old
    <3> QED
        BY <1>2, <2>1, <2>5, <2>7, <2>9, <3>1, <3>2 DEF Sound
  <2> QED
      BY <2>7, <2>8, <2>9, <2>10
<1> QED
    BY <1>3, <1>4 DEF Unsubscribe

LEMMA NextCases ==
    ASSUME EnrichNext
    PROVE  /\ ~crashed
           /\ \/ NothingToDo \/ Start \/ Begin \/ NoProvider \/ Spawn \/ Finish \/ NotifyComplete \/ TimeUp
              \/ \E p \in Properties : \/ Acquire(p) \/ GiveUp(p) \/ Fetch(p) \/ Broadcast(p) \/ Send(p)
                                       \/ Count(p) \/ Check(p) \/ ReadCompleted(p) \/ SaveProgress(p)
              \/ \E s \in Streams : \/ CheckStatus(s) \/ Subscribe(s) \/ Receive(s) \/ JobEnds(s)
                                    \/ Unsubscribe(s) \/ ClientLeaves(s)
BY DEF EnrichNext, Runner, Goroutine, Handler

LEMMA SlicesStep ==
    ASSUME EnrichTypeOK, Slices, EnrichNext
    PROVE  /\ Slices' /\ arrays' \in Arrays /\ subs' \in [array : Nat, len : Nat]
           /\ send' \in [Properties -> Slice]
<1>1. /\ arrays \in Arrays /\ subs \in [array : Nat, len : Nat] /\ send \in [Properties -> Slice]
      /\ \A p \in Properties : send[p].array \in Nat /\ send[p].len \in Nat /\ send[p].at \in Nat \ {0}
      /\ subs.array \in Nat /\ subs.len \in Nat
      BY DEF EnrichTypeOK, Arrays, Slice
<1>2. CASE UNCHANGED <<listVars, send>>
  <2>1. arrays' = arrays /\ subs' = subs /\ send' = send
        BY <1>2 DEF listVars
  <2> QED
      BY <1>1, <2>1 DEF Slices, Sound
<1>3. CASE NotifyComplete
  <2>1. subs' = NilSlice /\ arrays' = Reachable /\ send' = send
        BY <1>3 DEF NotifyComplete, workVars
  <2>2. CASE \A p \in Properties : send[p] = Idle
    <3>1. arrays' = <<>>
          BY <2>1, <2>2 DEF Reachable
    <3>2. \A p \in Properties : send[p].array = 0 /\ send[p].len = 0
          BY <2>2 DEF Idle
    <3> QED
        BY <1>1, <2>1, <3>1, <3>2 DEF Slices, Sound, NilSlice, Arrays
  <2>3. CASE ~ \A p \in Properties : send[p] = Idle
    <3>1. arrays' = arrays
          BY <2>1, <2>3 DEF Reachable
    <3> QED
        BY <1>1, <2>1, <3>1 DEF Slices, Sound, NilSlice
  <2> QED
      BY <2>2, <2>3
<1>4. CASE \E p \in Properties : Broadcast(p) \/ Send(p) \/ Count(p)
  <2>1. PICK p \in Properties : Broadcast(p) \/ Send(p) \/ Count(p)
        BY <1>4
  <2>2. arrays' = arrays /\ subs' = subs
        BY <2>1 DEF Broadcast, Send, Count, listVars
  <2>3. CASE send' = [send EXCEPT ![p] = [array |-> subs.array, len |-> subs.len, at |-> 1]]
        BY <1>1, <2>2, <2>3 DEF Slices, Sound, Slice
  <2>4. CASE send' = [send EXCEPT ![p].at = @ + 1]
        BY <1>1, <2>2, <2>4 DEF Slices, Sound, Slice
  <2>5. CASE send' = [send EXCEPT ![p] = Idle]
        BY <1>1, <2>2, <2>5 DEF Slices, Sound, Slice, Idle
  <2> QED
      BY <2>1, <2>3, <2>4, <2>5 DEF Broadcast, Send, Count
<1>5. CASE \E s \in Streams : Subscribe(s) \/ Unsubscribe(s)
  <2>1. PICK s \in Streams : Subscribe(s) \/ Unsubscribe(s)
        BY <1>5
  <2>2. send' = send
        BY <2>1 DEF Subscribe, Unsubscribe, workVars
  <2>3. /\ arrays' \in Arrays /\ subs' \in [array : Nat, len : Nat]
        /\ \A a, l \in Nat : Sound(a, l) => Sound(a, l)'
        /\ Sound(subs.array, subs.len)'
        BY <2>1, SubscribeSound, UnsubscribeSound
  <2>4. \A p \in Properties : Sound(send[p].array, send[p].len)'
    <3> TAKE p \in Properties
    <3>1. Sound(send[p].array, send[p].len)
          BY DEF Slices
    <3>2. /\ send[p].array \in Nat /\ send[p].len \in Nat
          /\ send[p].array = send'[p].array /\ send[p].len = send'[p].len
          BY <1>1, <2>2
    <3> QED
        BY <2>3, <3>1, <3>2 DEF Sound
  <2> QED
      BY <1>1, <2>2, <2>3, <2>4 DEF Slices
<1>6. \/ UNCHANGED <<listVars, send>>
      \/ NotifyComplete
      \/ \E p \in Properties : Broadcast(p) \/ Send(p) \/ Count(p)
      \/ \E s \in Streams : Subscribe(s) \/ Unsubscribe(s)
      BY NextCases DEF NothingToDo, Start, Begin, NoProvider, Spawn, Finish, TimeUp, Acquire, GiveUp,
         Fetch, Check, ReadCompleted, SaveProgress, CheckStatus, Receive, JobEnds, ClientLeaves,
         workVars, listVars
<1> QED
    BY <1>2, <1>3, <1>4, <1>5, <1>6

\* The channel a send is about to use is a stream's.
LEMMA SendTarget ==
    ASSUME EnrichTypeOK, Slices, NEW p \in Properties, send[p].at <= send[p].len
    PROVE  arrays[send[p].array][send[p].at] \in Streams
<1>1. send[p].array \in Nat /\ send[p].len \in Nat /\ send[p].at \in Nat \ {0}
      BY DEF EnrichTypeOK
<1>2. send[p].at \in 1 .. send[p].len
      BY <1>1
<1>3. Sound(send[p].array, send[p].len)
      BY DEF Slices
<1> QED
    BY <1>1, <1>2, <1>3 DEF Sound

-------------------------------------------------------------------------------
(* Where the job and its goroutines stand *)

\* What a save leaves: the status, or the mark that a final one was lost.
LEMMA Saved ==
    ASSUME NEW status, Save(status)
    PROVE  /\ cell' \in {status, cell} /\ (lost \in BOOLEAN => lost' \in BOOLEAN)
           /\ status.status \notin FinalCells /\ lost = FALSE => lost' = FALSE
           /\ status.status \in FinalCells => cell' = status \/ lost' = TRUE
<1>1. CASE cell' = status /\ UNCHANGED lost
      BY <1>1
<1>2. CASE lost' = (status.status \in FinalCells) /\ UNCHANGED cell
  <2>1. CASE status.status \in FinalCells
    <3>1. lost' = TRUE
          BY <1>2, <2>1
    <3> QED
        BY <1>2, <2>1, <3>1
  <2>2. CASE status.status \notin FinalCells
    <3>1. (status.status \in FinalCells) = FALSE
          BY <2>2
    <3>2. lost' = FALSE
          BY <1>2, <3>1
    <3> QED
        BY <1>2, <2>2, <3>2
  <2> QED
      BY <2>1, <2>2
<1> QED
    BY <1>1, <1>2 DEF Save

LEMMA PhasesStep ==
    ASSUME EnrichTypeOK, Phases, EnrichNext
    PROVE  /\ Phases'
           /\ phase' \in {"none", "started", "ready", "running", "notify", "over"}
           /\ pc' \in [Properties -> Places]
           /\ lost' \in BOOLEAN /\ late' \in BOOLEAN
<1>1. /\ phase \in {"none", "started", "ready", "running", "notify", "over"}
      /\ pc \in [Properties -> Places] /\ lost \in BOOLEAN /\ late \in BOOLEAN
      BY DEF EnrichTypeOK, Places
<1>2. CASE UNCHANGED <<phase, pc, cellVars>> /\ late' \in BOOLEAN
      BY <1>1, <1>2 DEF Phases, cellVars
<1>3. CASE NothingToDo
  <2>1. /\ phase = "none" /\ phase' = "over" /\ pc' = pc /\ late' = late /\ Save(Fresh("COMPLETED"))
        BY <1>3 DEF NothingToDo, workVars
  <2>2. Fresh("COMPLETED").status \in FinalCells
        BY DEF Fresh, Status, FinalCells
  <2>3. (cell'.status \in FinalCells \/ lost' = TRUE) /\ lost' \in BOOLEAN
        BY <1>1, <2>1, <2>2, Saved
  <2> QED
      BY <1>1, <2>1, <2>3 DEF Phases
<1>4. CASE Start \/ Begin
      BY <1>1, <1>4 DEF Start, Begin, Phases, Save, Fresh, Status, FinalCells, workVars
<1>5. CASE NoProvider
  <2>1. /\ phase = "ready" /\ phase' = "notify" /\ pc' = pc /\ late' = late /\ Save(Fresh("FAILED"))
        BY <1>5 DEF NoProvider, workVars
  <2>2. Fresh("FAILED").status \in FinalCells
        BY DEF Fresh, Status, FinalCells
  <2>3. (cell'.status \in FinalCells \/ lost' = TRUE) /\ lost' \in BOOLEAN
        BY <1>1, <2>1, <2>2, Saved
  <2> QED
      BY <1>1, <2>1, <2>3 DEF Phases
<1>6. CASE Spawn
      BY <1>1, <1>6 DEF Spawn, Phases, Places, cellVars
<1>7. CASE Finish
  <2> DEFINE final == Progress("COMPLETED", completed, {p \in Properties : tally[p] = "enriched"})
  <2>1. /\ phase = "running" /\ phase' = "notify" /\ pc' = pc /\ late' = late /\ Save(final)
        /\ \A p \in Properties : pc[p] = "done"
        BY <1>7 DEF Finish, workVars
  <2>2. final.status \in FinalCells
        BY DEF Progress, Status, FinalCells
  <2> HIDE DEF final
  <2>3. (cell'.status \in FinalCells \/ lost' = TRUE) /\ lost' \in BOOLEAN
        BY <1>1, <2>1, <2>2, Saved
  <2> QED
      BY <1>1, <2>1, <2>3 DEF Phases
<1>8. CASE NotifyComplete
      BY <1>1, <1>8 DEF NotifyComplete, Phases, cellVars, workVars
<1>9. ASSUME NEW p \in Properties, SaveProgress(p)
      PROVE  Phases' /\ phase' = phase /\ pc' \in [Properties -> Places] /\ lost' \in BOOLEAN /\ late' \in BOOLEAN
  <2>1. phase = "running" /\ phase' = phase /\ late' = late /\ pc' = [pc EXCEPT ![p] = "done"]
        BY <1>1, <1>9 DEF SaveProgress, Phases, Goto, jobVars
  <2>2. cell.status \notin FinalCells /\ ~lost
        BY <2>1 DEF Phases
  <2>3. cell'.status \notin FinalCells /\ lost' = FALSE
    <3> DEFINE new == Progress("PROCESSING", seen[p], {})
    <3>1. Save(new) /\ lost = FALSE
          BY <1>1, <1>9, <2>2 DEF SaveProgress
    <3>2. new.status \notin FinalCells
          BY DEF Progress, Status, FinalCells
    <3> HIDE DEF new
    <3> QED
        BY <2>2, <3>1, <3>2, Saved
  <2> QED
      BY <1>1, <2>1, <2>3 DEF Phases, Places
<1>10. ASSUME NEW p \in Properties,
              \/ Acquire(p) \/ GiveUp(p) \/ Fetch(p) \/ Broadcast(p) \/ Count(p) \/ Check(p) \/ ReadCompleted(p)
       PROVE  Phases' /\ phase' = phase /\ pc' \in [Properties -> Places] /\ lost' \in BOOLEAN /\ late' \in BOOLEAN
  <2>1. /\ pc[p] \notin {"none", "done"} /\ UNCHANGED <<phase, late, cell, lost>>
        /\ \E place \in Places : pc' = [pc EXCEPT ![p] = place]
        BY <1>10 DEF Acquire, GiveUp, Fetch, Broadcast, Count, Check, ReadCompleted, Goto, Places,
           jobVars, cellVars
  <2>2. phase = "running"
        BY <2>1 DEF Phases
  <2> QED
      BY <1>1, <2>1, <2>2 DEF Phases
<1>11. \/ UNCHANGED <<phase, pc, cellVars>> /\ late' \in BOOLEAN
       \/ NothingToDo \/ Start \/ Begin \/ NoProvider \/ Spawn \/ Finish \/ NotifyComplete
       \/ \E p \in Properties : \/ Acquire(p) \/ GiveUp(p) \/ Fetch(p) \/ Broadcast(p)
                                \/ Count(p) \/ Check(p) \/ ReadCompleted(p) \/ SaveProgress(p)
       BY <1>1, NextCases DEF TimeUp, Send, CheckStatus, Subscribe, Receive, JobEnds, Unsubscribe,
          ClientLeaves, jobVars, workVars
<1> QED
    BY <1>1, <1>2, <1>3, <1>4, <1>5, <1>6, <1>7, <1>8, <1>9, <1>10, <1>11

\* A save other than the job's own happens while the job runs.
LEMMA Running ==
    ASSUME Phases, NEW p \in Properties, pc[p] \notin {"none", "done"}
    PROVE  phase = "running" /\ cell.status \notin FinalCells /\ ~lost
BY DEF Phases

-------------------------------------------------------------------------------
(* What is tallied and what is counted *)

LEMMA TalliesStep ==
    ASSUME EnrichTypeOK, Phases, Tallies, EnrichNext
    PROVE  /\ Tallies' /\ tally' \in [Properties -> Talls] /\ seen' \in [Properties -> 0 .. N]
           /\ completed' \in 0 .. N
<1>1. /\ pc \in [Properties -> Places] /\ tally \in [Properties -> Talls]
      /\ seen \in [Properties -> 0 .. N] /\ completed \in 0 .. N /\ N \in Nat
      BY Subsets DEF EnrichTypeOK, Places, Talls
<1>2. /\ completed = Cardinality(Processed)
      /\ \A q \in Properties : /\ tally[q] = "none" <=> pc[q] \in {"none", "acquire", "fetch"}
                               /\ tally[q] = "late" => pc[q] = "done"
                               /\ seen[q] <= completed
      BY DEF Tallies
<1>0. \A q \in Properties : seen[q] <= completed
      BY DEF Tallies
<1>3. CASE UNCHANGED <<pc, tally, seen, completed>>
      BY <1>1, <1>3 DEF Tallies, Processed
<1>4. CASE Spawn
  <2>1. /\ (\A q \in Properties : pc[q] = "none") /\ pc' = [q \in Properties |-> "acquire"]
        /\ tally' = tally /\ seen' = seen /\ completed' = completed
        BY <1>4 DEF Spawn, Phases
  <2>2. Processed' = Processed
        BY <2>1 DEF Processed
  <2> QED
      BY <1>1, <1>2, <2>1, <2>2 DEF Tallies
<1>5. ASSUME NEW p \in Properties, Acquire(p) \/ GiveUp(p) \/ Fetch(p) \/ Broadcast(p)
      PROVE  Tallies' /\ tally' \in [Properties -> Talls] /\ seen' = seen /\ completed' = completed
  <2>1. /\ seen' = seen /\ completed' = completed
        /\ \/ pc[p] = "acquire" /\ pc' = [pc EXCEPT ![p] = "fetch"] /\ tally' = tally
           \/ pc[p] = "acquire" /\ pc' = [pc EXCEPT ![p] = "done"] /\ tally' = [tally EXCEPT ![p] = "late"]
           \/ /\ pc[p] = "fetch" /\ pc' = [pc EXCEPT ![p] = "broadcast"]
              /\ \E o \in Outcomes : tally' = [tally EXCEPT ![p] = o]
           \/ pc[p] = "broadcast" /\ pc' = [pc EXCEPT ![p] = "send"] /\ tally' = tally
        BY <1>5 DEF Acquire, GiveUp, Fetch, Broadcast, Goto
  <2>2. Processed' = Processed
        BY <1>1, <2>1 DEF Processed, Outcomes
  <2>3. tally' \in [Properties -> Talls]
        BY <1>1, <2>1 DEF Talls
  <2>4. \A q \in Properties : /\ tally'[q] = "none" <=> pc'[q] \in {"none", "acquire", "fetch"}
                              /\ tally'[q] = "late" => pc'[q] = "done"
        BY <1>1, <1>2, <2>1 DEF Outcomes
  <2>5. \A q \in Properties : seen'[q] <= completed'
    <3>1. seen' = seen /\ completed' = completed
          BY <2>1
    <3> QED
        BY <1>0, <3>1
  <2>6. completed' = Cardinality(Processed')
        BY <1>2, <2>1, <2>2
  <2>7. Tallies'
    <3>1. \A q \in Properties : /\ tally'[q] = "none" <=> pc'[q] \in {"none", "acquire", "fetch"}
                                /\ tally'[q] = "late" => pc'[q] = "done"
                                /\ seen'[q] <= completed'
          BY <2>4, <2>5
    <3> QED
        BY <2>6, <3>1 DEF Tallies
  <2> QED
      BY <2>1, <2>3, <2>7
<1>6. ASSUME NEW p \in Properties, Count(p)
      PROVE  Tallies' /\ tally' = tally /\ seen' = seen /\ completed' \in 0 .. N
  <2>1. /\ pc[p] = "send" /\ completed' = completed + 1 /\ tally' = tally /\ seen' = seen
        /\ \E place \in {"check", "done"} : pc' = [pc EXCEPT ![p] = place]
        BY <1>6 DEF Count, Goto
  <2>2. Processed' = Processed \cup {p} /\ p \notin Processed
        BY <1>1, <1>2, <2>1 DEF Processed
  <2>3. Processed \subseteq Properties /\ Processed' \subseteq Properties
        BY <2>2 DEF Processed
  <2>4. completed' = Cardinality(Processed') /\ Cardinality(Processed') <= N
        BY <1>2, <2>1, <2>2, <2>3, OneMore, Subsets
  <2>5. \A q \in Properties : /\ tally'[q] = "none" <=> pc'[q] \in {"none", "acquire", "fetch"}
                              /\ tally'[q] = "late" => pc'[q] = "done"
                              /\ seen'[q] <= completed'
        BY <1>1, <1>2, <2>1
  <2> QED
      BY <1>1, <2>1, <2>4, <2>5 DEF Tallies
<1>7. ASSUME NEW p \in Properties, Check(p) \/ ReadCompleted(p) \/ SaveProgress(p)
      PROVE  Tallies' /\ tally' = tally /\ seen' \in [Properties -> 0 .. N] /\ completed' = completed
  <2>1. /\ pc[p] \in {"check", "read", "save"} /\ completed' = completed /\ tally' = tally
        /\ \E place \in {"read", "save", "done"} : pc' = [pc EXCEPT ![p] = place]
        /\ \E n \in {seen[p], completed, 0} : seen' = [seen EXCEPT ![p] = n]
        BY <1>1, <1>7 DEF Check, ReadCompleted, SaveProgress, Goto
  <2>2. Processed' = Processed
        BY <1>1, <2>1 DEF Processed
  <2>3. /\ seen' \in [Properties -> 0 .. N]
        /\ \A q \in Properties : seen'[q] <= completed
    <3>1. PICK n \in {seen[p], completed, 0} : seen' = [seen EXCEPT ![p] = n]
          BY <2>1
    <3>2. seen[p] \in 0 .. N /\ seen[p] <= completed
          BY <1>0, <1>1
    <3>3. n \in 0 .. N /\ n <= completed
          BY <1>1, <3>1, <3>2
    <3>4. seen' \in [Properties -> 0 .. N]
          BY <1>1, <3>1, <3>3
    <3>5. \A q \in Properties : seen'[q] <= completed
      <4> TAKE q \in Properties
      <4>1. seen[q] <= completed /\ seen'[q] = IF q = p THEN n ELSE seen[q]
            BY <1>0, <1>1, <3>1
      <4> QED
          BY <3>3, <4>1
    <3> QED
        BY <3>4, <3>5
  <2>4. \A q \in Properties : /\ tally'[q] = "none" <=> pc'[q] \in {"none", "acquire", "fetch"}
                              /\ tally'[q] = "late" => pc'[q] = "done"
        BY <1>1, <1>2, <2>1
  <2>5. completed' = Cardinality(Processed')
        BY <1>2, <2>1, <2>2
  <2> QED
      BY <2>1, <2>3, <2>4, <2>5 DEF Tallies
<1>8. \/ UNCHANGED <<pc, tally, seen, completed>>
      \/ Spawn
      \/ \E p \in Properties : \/ Acquire(p) \/ GiveUp(p) \/ Fetch(p) \/ Broadcast(p)
                               \/ Count(p) \/ Check(p) \/ ReadCompleted(p) \/ SaveProgress(p)
      BY NextCases DEF NothingToDo, Start, Begin, NoProvider, Finish, NotifyComplete, TimeUp, Send,
         CheckStatus, Subscribe, Receive, JobEnds, Unsubscribe, ClientLeaves, workVars
<1> QED
    BY <1>1, <1>3, <1>4, <1>5, <1>6, <1>7, <1>8

-------------------------------------------------------------------------------
(* What is saved *)

\* Every save, and the phase it happens in.
LEMMA Saves ==
    ASSUME EnrichTypeOK, Phases, EnrichNext
    PROVE  \/ UNCHANGED cellVars
           \/ /\ phase \notin {"notify", "over"} /\ cell.status \notin FinalCells /\ ~lost
              /\ UNCHANGED <<tally, completed, channel, stream, told, hasty, crashed>>
              /\ \/ phase # "running" /\ UNCHANGED pc /\ \E s \in Statuses : Save(Fresh(s))
                 \/ \E p \in Properties : pc[p] = "save" /\ Save(Progress("PROCESSING", seen[p], {}))
                 \/ /\ UNCHANGED pc /\ \A p \in Properties : pc[p] = "done"
                    /\ Save(Progress("COMPLETED", completed, {p \in Properties : tally[p] = "enriched"}))
<1>1. CASE NothingToDo \/ Start \/ Begin \/ NoProvider
      BY <1>1 DEF NothingToDo, Start, Begin, NoProvider, Phases, Statuses, FinalCells, workVars, streamVars
<1>2. CASE Finish
      BY <1>2 DEF Finish, Phases, workVars, streamVars
<1>3. ASSUME NEW p \in Properties, SaveProgress(p)
      PROVE  /\ phase \notin {"notify", "over"} /\ cell.status \notin FinalCells /\ ~lost
             /\ UNCHANGED <<tally, completed, channel, stream, told, hasty, crashed>>
             /\ pc[p] = "save" /\ Save(Progress("PROCESSING", seen[p], {}))
      BY <1>3, Running DEF SaveProgress, streamVars
<1>4. \/ UNCHANGED cellVars
      \/ NothingToDo \/ Start \/ Begin \/ NoProvider \/ Finish
      \/ \E p \in Properties : SaveProgress(p)
      BY NextCases DEF Spawn, NotifyComplete, TimeUp, Acquire, GiveUp, Fetch, Broadcast, Send, Count,
         Check, ReadCompleted, CheckStatus, Subscribe, Receive, JobEnds, Unsubscribe, ClientLeaves
<1> QED
    BY <1>1, <1>2, <1>3, <1>4

\* What was processed was tallied before, so a saved count is accounted for.
LEMMA Accounts ==
    ASSUME EnrichTypeOK, Tallies
    PROVE  /\ Processed \subseteq Properties
           /\ completed <= Counted("enriched") + (Counted("failed") + Counted("late")) + Counted("noData")
           /\ Counted("enriched") + (Counted("failed") + Counted("late")) + Counted("noData") <= N
<1> DEFINE T == {p \in Properties : tally[p] \in Outcomes \cup {"late"}}
<1>1. Processed \subseteq T /\ T \subseteq Properties
      BY DEF Processed, Tallies, EnrichTypeOK
<1>2. completed = Cardinality(Processed) /\ Cardinality(T) <= N
      BY <1>1, Subsets DEF Tallies
<1>3. Cardinality(Processed) <= Cardinality(T)
      BY <1>1, Fewer
<1>4. Counted("enriched") + Counted("failed") + Counted("late") + Counted("noData") = Cardinality(T)
      BY Sum
<1>5. \A o : Counted(o) \in Nat
      BY Sum
<1>6. /\ Counted("enriched") \in Nat /\ Counted("failed") \in Nat /\ Counted("late") \in Nat
      /\ Counted("noData") \in Nat /\ Cardinality(T) \in Nat /\ Cardinality(Processed) \in Nat
      BY <1>1, <1>5, Subsets
<1> HIDE DEF T
<1> QED
    BY <1>1, <1>2, <1>3, <1>4, <1>6

\* Once every goroutine is done, all were tallied and only the late ones not processed.
LEMMA AllDone ==
    ASSUME EnrichTypeOK, Tallies, \A p \in Properties : pc[p] = "done"
    PROVE  /\ Counted("enriched") + (Counted("failed") + Counted("late")) + Counted("noData") = N
           /\ completed = N - Counted("late")
<1>1. {p \in Properties : tally[p] \in Outcomes \cup {"late"}} = Properties
  <2>1. \A p \in Properties : pc[p] = "done" /\ (tally[p] = "none" <=> pc[p] \in {"none", "acquire", "fetch"})
        BY DEF Tallies
  <2>2. \A p \in Properties : tally[p] # "none" /\ tally[p] \in Outcomes \cup {"none", "late"}
        BY <2>1 DEF EnrichTypeOK
  <2> QED
      BY <2>2
<1>2. \A o : Counted(o) = Cardinality(Tallied(o)) /\ Counted(o) \in Nat
      BY Sum
<1>3. Counted("enriched") + Counted("failed") + Counted("late") + Counted("noData") = N
      BY <1>1, Sum DEF N
<1>4. Counted("enriched") + (Counted("failed") + Counted("late")) + Counted("noData") = N
  <2>1. /\ Counted("enriched") \in Nat /\ Counted("failed") \in Nat /\ Counted("late") \in Nat
        /\ Counted("noData") \in Nat
        BY <1>2
  <2> QED
      BY <1>3, <2>1
<1>5. /\ Processed \cup Tallied("late") = Properties /\ Processed \cap Tallied("late") = {}
      /\ Processed \subseteq Properties /\ Tallied("late") \subseteq Properties
      BY DEF Processed, Tallied
<1>6. N = Cardinality(Processed) + Cardinality(Tallied("late"))
      BY <1>5, Disjoint DEF N
<1>7. completed = Cardinality(Processed) /\ Cardinality(Processed) \in Nat /\ Cardinality(Tallied("late")) \in Nat
      BY <1>5, Subsets DEF Tallies
<1>8. Counted("late") = Cardinality(Tallied("late"))
      BY <1>2
<1> QED
    BY <1>4, <1>6, <1>7, <1>8

LEMMA BooksStep ==
    ASSUME EnrichTypeOK, Phases, Tallies, ProgressAccounted, FinalBooks, EnrichNext
    PROVE  cell' \in Cells /\ ProgressAccounted' /\ FinalBooks'
<1>1. cell \in Cells /\ completed \in Nat /\ seen \in [Properties -> Nat] /\ N \in Nat
  <2>1. N \in Nat
        BY Subsets
  <2>2. cell \in Cells /\ completed \in 0 .. N /\ seen \in [Properties -> 0 .. N]
        BY DEF EnrichTypeOK, Cells
  <2> QED
      BY <2>1, <2>2
<1>2. \A o : Counted(o) \in Nat /\ Counted(o) = Cardinality(Tallied(o))
      BY Sum
<1>3. CASE UNCHANGED cellVars
  <2>1. cell' = cell
        BY <1>3 DEF cellVars
  <2>2. cell.status = "COMPLETED" => UNCHANGED <<pc, tally>>
    <3> HAVE cell.status = "COMPLETED"
    <3>1. phase \in {"notify", "over"} /\ \A p \in Properties : pc[p] \in {"none", "done"}
          BY DEF Phases, FinalCells
    <3> QED
        BY <3>1, NextCases DEF NothingToDo, Start, Begin, NoProvider, Spawn, Finish, NotifyComplete, TimeUp,
           Acquire, GiveUp, Fetch, Broadcast, Send, Count, Check, ReadCompleted, SaveProgress,
           CheckStatus, Subscribe, Receive, JobEnds, Unsubscribe, ClientLeaves, workVars
  <2>3. cell.status = "COMPLETED" => Counted("late")' = Counted("late")
        BY <2>2 DEF Counted
  <2>4. cell.status = "COMPLETED" => pc' = pc
        BY <2>2
  <2> QED
      BY <1>1, <2>1, <2>3, <2>4 DEF ProgressAccounted, FinalBooks
<1>4. ASSUME NEW s \in Statuses, phase # "running", phase \notin {"notify", "over"},
             cell.status \notin FinalCells, Save(Fresh(s)), UNCHANGED pc
      PROVE  cell' \in Cells /\ ProgressAccounted' /\ FinalBooks'
  <2>1. cell' \in {Fresh(s), cell}
        BY <1>4, Saved
  <2>2. /\ Fresh(s) \in Cells /\ Fresh(s).completed = 0 /\ Fresh(s).enriched = 0
        /\ Fresh(s).failed = 0 /\ Fresh(s).noData = 0
        BY DEF Fresh, Status, Cells
  <2>3. cell' \in Cells /\ ProgressAccounted'
        BY <1>1, <2>1, <2>2 DEF ProgressAccounted
  <2>4. PICK p \in Properties : TRUE
        BY EnrichmentConstants
  <2>5. pc'[p] # "done"
        BY <1>4, <2>4 DEF EnrichTypeOK, Phases
  <2> QED
      BY <2>3, <2>4, <2>5 DEF FinalBooks
<1>5. ASSUME NEW p \in Properties, cell.status \notin FinalCells, Save(Progress("PROCESSING", seen[p], {}))
      PROVE  cell' \in Cells /\ ProgressAccounted' /\ FinalBooks'
  <2> DEFINE new == Progress("PROCESSING", seen[p], {})
  <2>1. cell' \in {new, cell}
        BY <1>5, Saved
  <2>2. /\ new.completed = seen[p] /\ new.enriched = Counted("enriched") /\ new.noData = Counted("noData")
        /\ new.failed = Counted("failed") + Counted("late") /\ new.status = "PROCESSING"
        BY DEF Progress, Status
  <2>3. new \in Cells
    <3>1. /\ Counted("enriched") \in Nat /\ Counted("noData") \in Nat
          /\ Counted("failed") + Counted("late") \in Nat /\ seen[p] \in Nat
      <4>1. Counted("failed") \in Nat /\ Counted("late") \in Nat
            BY <1>2
      <4> QED
          BY <1>1, <1>2, <4>1
    <3> QED
        BY <3>1 DEF Progress, Status, Cells, Statuses
  <2> HIDE DEF new
  <2>4. /\ new.completed <= new.enriched + new.failed + new.noData
        /\ new.enriched + new.failed + new.noData <= N
    <3>1. seen[p] <= completed
          BY DEF Tallies
    <3>2. /\ new.enriched \in Nat /\ new.failed \in Nat /\ new.noData \in Nat /\ new.completed \in Nat
          BY <2>3 DEF Cells
    <3>3. completed <= new.enriched + new.failed + new.noData /\ new.enriched + new.failed + new.noData <= N
          BY <2>2, Accounts
    <3> QED
        BY <1>1, <2>2, <3>1, <3>2, <3>3
  <2>5. cell'.status # "COMPLETED"
        BY <1>5, <2>1, <2>2 DEF FinalCells
  <2> QED
      BY <1>1, <2>1, <2>3, <2>4, <2>5 DEF ProgressAccounted, FinalBooks
<1>6. ASSUME \A p \in Properties : pc[p] = "done", cell.status \notin FinalCells, UNCHANGED <<pc, tally>>,
             Save(Progress("COMPLETED", completed, {p \in Properties : tally[p] = "enriched"}))
      PROVE  cell' \in Cells /\ ProgressAccounted' /\ FinalBooks'
  <2> DEFINE new == Progress("COMPLETED", completed, {p \in Properties : tally[p] = "enriched"})
  <2>1. cell' \in {new, cell}
        BY <1>6, Saved
  <2>2. /\ new.completed = completed /\ new.enriched = Counted("enriched") /\ new.noData = Counted("noData")
        /\ new.failed = Counted("failed") + Counted("late")
        /\ new.updates = {p \in Properties : tally[p] = "enriched"}
        BY DEF Progress, Status
  <2>3. new \in Cells
    <3>1. /\ Counted("enriched") \in Nat /\ Counted("noData") \in Nat
          /\ Counted("failed") + Counted("late") \in Nat
      <4>1. Counted("failed") \in Nat /\ Counted("late") \in Nat
            BY <1>2
      <4> QED
          BY <1>2, <4>1
    <3> QED
        BY <1>1, <3>1 DEF Progress, Status, Cells, Statuses, FinalCells
  <2>4. Cardinality(new.updates) = new.enriched
        BY <2>2 DEF Counted
  <2> HIDE DEF new
  <2>5. /\ new.completed <= new.enriched + new.failed + new.noData
        /\ new.enriched + new.failed + new.noData <= N
        BY <2>2, Accounts
  <2>6. /\ new.enriched + new.failed + new.noData = N
        /\ new.completed = N - Counted("late")
        BY <1>6, <2>2, AllDone
  <2>7. Counted("late")' = Counted("late")
        BY <1>6 DEF Counted
  <2>8. CASE cell' = new
        BY <2>3, <2>4, <2>5, <2>6, <2>7, <2>8 DEF ProgressAccounted, FinalBooks
  <2>9. CASE cell' = cell
        BY <1>1, <1>6, <2>9 DEF ProgressAccounted, FinalBooks, FinalCells
  <2> QED
      BY <2>1, <2>8, <2>9
<1> QED
    BY <1>3, <1>4, <1>5, <1>6, Saves

-------------------------------------------------------------------------------
(* Channels and streams *)

LEMMA NotifyCrash ==
    ASSUME EnrichTypeOK, Slices, NotifyComplete
    PROVE  /\ crashed' \in BOOLEAN
           /\ crashed' = TRUE => \E s \in Streams : channel[s].state = "closed"
<1> DEFINE listed == {arrays[subs.array][i] : i \in 1 .. subs.len}
<1>1. listed \subseteq Streams
  <2>1. subs.array \in Nat /\ subs.len \in Nat /\ Sound(subs.array, subs.len)
        BY DEF EnrichTypeOK, Slices
  <2> QED
      BY <2>1 DEF Sound
<1>2. crashed' = (\E s \in listed : channel[s].state = "closed")
      BY DEF NotifyComplete
<1> HIDE DEF listed
<1>3. CASE \E s \in listed : channel[s].state = "closed"
  <2>1. (\E s \in listed : channel[s].state = "closed") = TRUE
        BY <1>3
  <2> QED
      BY <1>1, <1>2, <1>3, <2>1
<1>4. CASE ~ \E s \in listed : channel[s].state = "closed"
  <2>1. (\E s \in listed : channel[s].state = "closed") = FALSE
        BY <1>4
  <2>2. crashed' = FALSE
        BY <1>2, <2>1
  <2> QED
      BY <2>2
<1> QED
    BY <1>3, <1>4

LEMMA SendCrash ==
    ASSUME EnrichTypeOK, Slices, NEW p \in Properties, Send(p)
    PROVE  /\ crashed' \in BOOLEAN
           /\ crashed' = TRUE => \E s \in Streams : channel[s].state = "closed"
<1> DEFINE s == arrays[send[p].array][send[p].at]
<1>1. s \in Streams
      BY SendTarget DEF Send
<1>2. crashed' = (channel[s].state = "closed")
      BY DEF Send
<1> HIDE DEF s
<1>3. CASE channel[s].state = "closed"
  <2>1. (channel[s].state = "closed") = TRUE
        BY <1>3
  <2> QED
      BY <1>1, <1>2, <1>3, <2>1
<1>4. CASE channel[s].state # "closed"
  <2>1. (channel[s].state = "closed") = FALSE
        BY <1>4
  <2>2. crashed' = FALSE
        BY <1>2, <2>1
  <2> QED
      BY <2>2
<1> QED
    BY <1>3, <1>4

StreamPlaces == {"new", "checked", "listening", "ended", "leaving", "gone", "aborted"}

LEMMA StreamTypes ==
    ASSUME EnrichTypeOK, Slices, EnrichNext
    PROVE  /\ channel' \in [Streams -> Channel]
           /\ stream' \in [Streams -> StreamPlaces]
           /\ told' \in [Streams -> Statuses \cup {"none"}]
           /\ hasty' \subseteq Streams /\ crashed' \in BOOLEAN
<1>1. /\ channel \in [Streams -> Channel] /\ stream \in [Streams -> StreamPlaces]
      /\ told \in [Streams -> Statuses \cup {"none"}] /\ hasty \subseteq Streams /\ crashed \in BOOLEAN
      /\ cell.status \in Statuses \cup {"none"} /\ Buffer \in Nat
      BY EnrichmentConstants DEF EnrichTypeOK, Channel, StreamPlaces
<1>2. CASE UNCHANGED <<channel, streamVars, crashed>>
      BY <1>1, <1>2 DEF streamVars
<1>3. ASSUME NEW p \in Properties, Send(p)
      PROVE  channel' \in [Streams -> Channel] /\ UNCHANGED streamVars /\ crashed' \in BOOLEAN
  <2>1. crashed' \in BOOLEAN /\ UNCHANGED streamVars
        BY <1>3, SendCrash DEF Send
  <2> DEFINE s == arrays[send[p].array][send[p].at]
  <2>2. s \in Streams /\ channel' = IF channel[s].state = "open" /\ channel[s].queued < Buffer
                                   THEN [channel EXCEPT ![s].queued = @ + 1] ELSE channel
        BY <1>3, SendTarget DEF Send
  <2> HIDE DEF s
  <2>3. channel' \in [Streams -> Channel]
        BY <1>1, <2>2 DEF Channel
  <2> QED
      BY <2>1, <2>3
<1>4. CASE NotifyComplete
  <2>1. crashed' \in BOOLEAN /\ UNCHANGED streamVars
        BY <1>4, NotifyCrash DEF NotifyComplete
  <2>2. \E listed : channel' = [s \in Streams |-> IF s \in listed THEN [channel[s] EXCEPT !.state = "closed"]
                                               ELSE channel[s]]
        BY <1>4 DEF NotifyComplete
  <2>3. channel' \in [Streams -> Channel]
        BY <1>1, <2>2 DEF Channel
  <2> QED
      BY <1>1, <2>1, <2>3 DEF streamVars
<1>5. ASSUME NEW s \in Streams, CheckStatus(s) \/ JobEnds(s) \/ ClientLeaves(s)
      PROVE  /\ UNCHANGED <<channel, crashed>> /\ stream' \in [Streams -> StreamPlaces]
             /\ told' \in [Streams -> Statuses \cup {"none"}] /\ hasty' \subseteq Streams
      BY <1>1, <1>5 DEF CheckStatus, JobEnds, ClientLeaves, StreamPlaces
<1>6. ASSUME NEW s \in Streams, Subscribe(s)
      PROVE  /\ channel' \in [Streams -> Channel] /\ UNCHANGED <<told, hasty, crashed>>
             /\ stream' \in [Streams -> StreamPlaces]
  <2>1. /\ channel' = [channel EXCEPT ![s].state = "open"] /\ UNCHANGED <<told, hasty, crashed>>
        /\ stream' = [stream EXCEPT ![s] = "listening"]
        BY <1>6 DEF Subscribe
  <2> QED
      BY <1>1, <2>1 DEF Channel, StreamPlaces
<1>7. ASSUME NEW s \in Streams, Receive(s)
      PROVE  channel' \in [Streams -> Channel] /\ UNCHANGED <<streamVars, crashed>>
      BY <1>1, <1>7 DEF Receive, Channel
<1>8. ASSUME NEW s \in Streams, Unsubscribe(s)
      PROVE  /\ channel' \in [Streams -> Channel] /\ UNCHANGED <<told, hasty, crashed>>
             /\ stream' \in [Streams -> StreamPlaces]
  <2>1. /\ channel' = [channel EXCEPT ![s] = [state |-> "closed", queued |-> 0]]
        /\ UNCHANGED <<told, hasty, crashed>>
        /\ \E place \in {"aborted", "gone"} : stream' = [stream EXCEPT ![s] = place]
        BY <1>8 DEF Unsubscribe
  <2> QED
      BY <1>1, <2>1 DEF Channel, StreamPlaces
<1>9. \/ UNCHANGED <<channel, streamVars, crashed>>
      \/ NotifyComplete \/ (\E p \in Properties : Send(p))
      \/ \E s \in Streams : \/ CheckStatus(s) \/ Subscribe(s) \/ Receive(s) \/ JobEnds(s)
                            \/ Unsubscribe(s) \/ ClientLeaves(s)
      BY NextCases DEF NothingToDo, Start, Begin, NoProvider, Spawn, Finish, TimeUp, Acquire, GiveUp,
         Fetch, Broadcast, Count, Check, ReadCompleted, SaveProgress
<1> QED
    BY <1>1, <1>2, <1>3, <1>4, <1>5, <1>6, <1>7, <1>8, <1>9 DEF streamVars

LEMMA ClosingsStep ==
    ASSUME EnrichTypeOK, Slices, Phases, Closings, EnrichNext
    PROVE  Closings'
<1>1. /\ channel \in [Streams -> Channel] /\ stream \in [Streams -> StreamPlaces] /\ hasty \subseteq Streams
      BY DEF EnrichTypeOK, Channel, StreamPlaces
<1>2. /\ \A s \in Streams : channel[s].state = "closed" => phase = "over" \/ s \in hasty
      /\ \A s \in Streams : stream[s] = "leaving" => s \in hasty
      /\ \A s \in Streams : stream[s] \in {"ended", "aborted"} => channel[s].state = "closed"
      BY DEF Closings
<1>3. phase = "over" => phase' = "over"
      BY NextCases, Running DEF NothingToDo, Start, Begin, NoProvider, Spawn, Finish, NotifyComplete, TimeUp,
         Acquire, GiveUp, Fetch, Broadcast, Send, Count, Check, ReadCompleted, SaveProgress,
         CheckStatus, Subscribe, Receive, JobEnds, Unsubscribe, ClientLeaves, jobVars
<1>4. CASE UNCHANGED <<channel, stream, hasty>>
      BY <1>2, <1>3, <1>4 DEF Closings
<1>5. ASSUME NEW p \in Properties, Send(p)
      PROVE  Closings'
  <2> DEFINE s == arrays[send[p].array][send[p].at]
  <2>1. s \in Streams /\ channel' = IF channel[s].state = "open" /\ channel[s].queued < Buffer
                                   THEN [channel EXCEPT ![s].queued = @ + 1] ELSE channel
        BY <1>5, SendTarget DEF Send
  <2> HIDE DEF s
  <2>2. UNCHANGED <<stream, hasty>>
        BY <1>5 DEF Send, streamVars
  <2>3. \A q \in Streams : channel'[q].state = channel[q].state
        BY <1>1, <2>1 DEF Channel
  <2> QED
      BY <1>2, <1>3, <2>2, <2>3 DEF Closings
<1>6. CASE NotifyComplete
  <2>1. phase' = "over" /\ UNCHANGED <<stream, hasty>>
        BY <1>6 DEF NotifyComplete, streamVars
  <2>2. \E listed : channel' = [s \in Streams |-> IF s \in listed THEN [channel[s] EXCEPT !.state = "closed"]
                                               ELSE channel[s]]
        BY <1>6 DEF NotifyComplete
  <2>3. \A s \in Streams : channel[s].state = "closed" => channel'[s].state = "closed"
        BY <1>1, <2>2 DEF Channel
  <2> QED
      BY <1>2, <2>1, <2>3 DEF Closings
<1>7. ASSUME NEW s \in Streams, CheckStatus(s) \/ JobEnds(s) \/ ClientLeaves(s)
      PROVE  Closings'
  <2>1. /\ channel' = channel
        /\ \/ /\ hasty' = hasty
              /\ \E place \in {"gone", "checked"} : stream' = [stream EXCEPT ![s] = place]
           \/ hasty' = hasty /\ channel[s].state = "closed" /\ stream' = [stream EXCEPT ![s] = "ended"]
           \/ hasty' = hasty \cup {s} /\ stream' = [stream EXCEPT ![s] = "leaving"]
        BY <1>7 DEF CheckStatus, JobEnds, ClientLeaves
  <2> QED
      BY <1>1, <1>2, <1>3, <2>1 DEF Closings
<1>8. ASSUME NEW s \in Streams, Subscribe(s)
      PROVE  Closings'
  <2>1. /\ channel' = [channel EXCEPT ![s].state = "open"] /\ hasty' = hasty
        /\ stream' = [stream EXCEPT ![s] = "listening"]
        BY <1>8 DEF Subscribe
  <2>2. \A q \in Streams : channel'[q].state = IF q = s THEN "open" ELSE channel[q].state
        BY <1>1, <2>1 DEF Channel
  <2> QED
      BY <1>1, <1>2, <1>3, <2>1, <2>2 DEF Closings
<1>9. ASSUME NEW s \in Streams, Receive(s)
      PROVE  Closings'
  <2>1. channel' = [channel EXCEPT ![s].queued = @ - 1] /\ UNCHANGED <<stream, hasty>>
        BY <1>9 DEF Receive, streamVars
  <2>2. \A q \in Streams : channel'[q].state = channel[q].state
        BY <1>1, <2>1 DEF Channel
  <2> QED
      BY <1>2, <1>3, <2>1, <2>2 DEF Closings
<1>10. ASSUME NEW s \in Streams, Unsubscribe(s)
       PROVE  Closings'
  <2>1. /\ channel' = [channel EXCEPT ![s] = [state |-> "closed", queued |-> 0]] /\ hasty' = hasty
        /\ stream[s] \in {"ended", "leaving"}
        /\ \E place \in {"aborted", "gone"} : stream' = [stream EXCEPT ![s] = place]
        BY <1>10 DEF Unsubscribe
  <2>2. \A q \in Streams : channel'[q].state = IF q = s THEN "closed" ELSE channel[q].state
        BY <1>1, <2>1 DEF Channel
  <2>3. phase = "over" \/ s \in hasty
        BY <1>2, <2>1
  <2> QED
      BY <1>1, <1>2, <1>3, <2>1, <2>2, <2>3 DEF Closings
<1>11. \/ UNCHANGED <<channel, stream, hasty>>
       \/ NotifyComplete \/ (\E p \in Properties : Send(p))
       \/ \E s \in Streams : \/ CheckStatus(s) \/ Subscribe(s) \/ Receive(s) \/ JobEnds(s)
                             \/ Unsubscribe(s) \/ ClientLeaves(s)
       BY NextCases DEF NothingToDo, Start, Begin, NoProvider, Spawn, Finish, TimeUp, Acquire, GiveUp,
          Fetch, Broadcast, Count, Check, ReadCompleted, SaveProgress, streamVars
<1> QED
    BY <1>4, <1>5, <1>6, <1>7, <1>8, <1>9, <1>10, <1>11

LEMMA CrashStep ==
    ASSUME EnrichTypeOK, Slices, Phases, Closings, OnlyLeaversCrash, EnrichNext
    PROVE  OnlyLeaversCrash'
<1>1. CASE crashed' = crashed
  <2>1. hasty \subseteq hasty'
        BY NextCases DEF NothingToDo, Start, Begin, NoProvider, Spawn, Finish, NotifyComplete, TimeUp,
           Acquire, GiveUp, Fetch, Broadcast, Send, Count, Check, ReadCompleted, SaveProgress,
           CheckStatus, Subscribe, Receive, JobEnds, Unsubscribe, ClientLeaves, streamVars
  <2> QED
      BY <1>1, <2>1 DEF OnlyLeaversCrash
<1>2. CASE NotifyComplete \/ \E p \in Properties : Send(p)
  <2>1. phase # "over" /\ hasty' = hasty
        BY <1>2, Running DEF NotifyComplete, Send, streamVars
  <2>2. crashed' = TRUE => \E s \in Streams : channel[s].state = "closed"
        BY <1>2, NotifyCrash, SendCrash
  <2>3. crashed' \in BOOLEAN
        BY <1>2, NotifyCrash, SendCrash
  <2> QED
      BY <2>1, <2>2, <2>3 DEF OnlyLeaversCrash, Closings
<1>3. crashed' = crashed \/ NotifyComplete \/ \E p \in Properties : Send(p)
      BY NextCases DEF NothingToDo, Start, Begin, NoProvider, Spawn, Finish, TimeUp, Acquire, GiveUp,
         Fetch, Broadcast, Count, Check, ReadCompleted, SaveProgress,
         CheckStatus, Subscribe, Receive, JobEnds, Unsubscribe, ClientLeaves
<1> QED
    BY <1>1, <1>2, <1>3

LEMMA ToldStep ==
    ASSUME EnrichTypeOK, Phases, Closings, ToldFinal, EnrichNext
    PROVE  ToldFinal'
<1>1. stream \in [Streams -> StreamPlaces] /\ told \in [Streams -> Statuses \cup {"none"}]
      BY DEF EnrichTypeOK, StreamPlaces
<1>2. ~lost' => ~lost
      BY Saves DEF cellVars
<1>3. CASE UNCHANGED <<stream, told, hasty>>
      BY <1>2, <1>3 DEF ToldFinal
<1>4. ASSUME NEW s \in Streams, JobEnds(s)
      PROVE  ToldFinal'
  <2>1. /\ told' = [told EXCEPT ![s] = cell.status] /\ stream' = [stream EXCEPT ![s] = "ended"]
        /\ hasty' = hasty /\ lost' = lost /\ channel[s].state = "closed"
        BY <1>4 DEF JobEnds, cellVars
  <2>2. s \notin hasty /\ ~lost => cell.status \in FinalCells
        BY <2>1 DEF Closings, Phases
  <2> QED
      BY <1>1, <2>1, <2>2 DEF ToldFinal
<1>5. ASSUME NEW s \in Streams, CheckStatus(s) \/ Subscribe(s) \/ ClientLeaves(s) \/ Unsubscribe(s)
      PROVE  ToldFinal'
  <2>1. /\ lost' = lost
        /\ \/ /\ hasty' = hasty /\ told' = [told EXCEPT ![s] = cell.status]
              /\ \E place \in {"gone", "checked"} : stream' = [stream EXCEPT ![s] = place]
           \/ hasty' = hasty /\ told' = told /\ stream' = [stream EXCEPT ![s] = "listening"]
           \/ hasty' = hasty \cup {s} /\ told' = told /\ stream' = [stream EXCEPT ![s] = "leaving"]
           \/ /\ hasty' = hasty /\ told' = told /\ stream[s] \in {"ended", "leaving"}
              /\ \E place \in {"gone", "aborted"} : stream' = [stream EXCEPT ![s] = place]
        BY <1>5 DEF CheckStatus, Subscribe, ClientLeaves, Unsubscribe, cellVars
  <2> QED
      BY <1>1, <2>1 DEF ToldFinal, Closings
<1>6. \/ UNCHANGED <<stream, told, hasty>>
      \/ \E s \in Streams : JobEnds(s) \/ CheckStatus(s) \/ Subscribe(s) \/ ClientLeaves(s) \/ Unsubscribe(s)
      BY NextCases DEF NothingToDo, Start, Begin, NoProvider, Spawn, Finish, NotifyComplete, TimeUp,
         Acquire, GiveUp, Fetch, Broadcast, Send, Count, Check, ReadCompleted, SaveProgress, Receive, streamVars
<1> QED
    BY <1>3, <1>4, <1>5, <1>6

-------------------------------------------------------------------------------
(* The theorems *)

LEMMA InitInv == EnrichInit => EnrichInv
<1> SUFFICES ASSUME EnrichInit PROVE EnrichInv
    OBVIOUS
<1>1. N \in Nat /\ Buffer \in Nat
      BY Subsets, EnrichmentConstants
<1>2. /\ cell \in Cells /\ cell.status = "none" /\ cell.completed = 0 /\ cell.enriched = 0
      /\ cell.failed = 0 /\ cell.noData = 0
      BY DEF EnrichInit, None, Fresh, Status, Cells
<1>3. EnrichTypeOK
  <2>1. arrays \in Seq(Seq(Streams \cup {"none"}))
        BY DEF EnrichInit
  <2>2. subs \in [array : Nat, len : Nat] /\ send \in [Properties -> Slice]
        BY DEF EnrichInit, NilSlice, Idle, Slice
  <2>3. channel \in [Streams -> Channel]
        BY <1>1 DEF EnrichInit, Channel
  <2>4. /\ phase \in {"none", "started", "ready", "running", "notify", "over"}
        /\ lost \in BOOLEAN /\ late \in BOOLEAN /\ crashed \in BOOLEAN /\ hasty \subseteq Streams
        BY DEF EnrichInit
  <2>5. /\ pc \in [Properties -> Places] /\ tally \in [Properties -> Talls]
        /\ seen \in [Properties -> 0 .. N] /\ completed \in 0 .. N
        BY <1>1 DEF EnrichInit, Places, Talls
  <2>6. stream \in [Streams -> StreamPlaces] /\ told \in [Streams -> Statuses \cup {"none"}]
        BY DEF EnrichInit, StreamPlaces
  <2> QED
      BY <1>2, <2>1, <2>2, <2>3, <2>4, <2>5, <2>6
      DEF EnrichTypeOK, Cells, Slice, Channel, Places, Talls, StreamPlaces
<1>4. Slices
  <2>1. subs.array = 0 /\ subs.len = 0 /\ \A p \in Properties : send[p].array = 0 /\ send[p].len = 0
        BY DEF EnrichInit, NilSlice, Idle
  <2> QED
      BY <2>1 DEF Slices, Sound
<1>5. Phases
      BY <1>2 DEF EnrichInit, Phases, FinalCells
<1>6. Tallies
  <2>1. Processed = {}
        BY DEF EnrichInit, Processed
  <2>2. Cardinality(Processed) = 0
        BY <2>1, FS_EmptySet
  <2> QED
      BY <2>2 DEF EnrichInit, Tallies
<1>7. Closings /\ OnlyLeaversCrash /\ ToldFinal
      BY DEF EnrichInit, Closings, OnlyLeaversCrash, ToldFinal
<1>8. ProgressAccounted /\ FinalBooks
      BY <1>1, <1>2 DEF ProgressAccounted, FinalBooks
<1> QED
    BY <1>3, <1>4, <1>5, <1>6, <1>7, <1>8 DEF EnrichInv

LEMMA NextInv == EnrichInv /\ [EnrichNext]_vars => EnrichInv'
<1> SUFFICES ASSUME EnrichInv, [EnrichNext]_vars PROVE EnrichInv'
    OBVIOUS
<1>1. CASE UNCHANGED vars
  <2>1. UNCHANGED <<phase, late, cell, lost, pc, tally, seen, completed, send, arrays, subs, channel,
                    stream, told, hasty, crashed>>
        BY <1>1 DEF vars, jobVars, cellVars, workVars, listVars, streamVars
  <2>2. EnrichTypeOK'
        BY <2>1 DEF EnrichInv, EnrichTypeOK
  <2>3. Slices' /\ Phases' /\ Closings'
        BY <2>1 DEF EnrichInv, Slices, Sound, Phases, Closings
  <2>4. Tallies'
        BY <2>1 DEF EnrichInv, Tallies, Processed
  <2>5. ProgressAccounted' /\ FinalBooks' /\ OnlyLeaversCrash' /\ ToldFinal'
        BY <2>1 DEF EnrichInv, ProgressAccounted, FinalBooks, Counted, OnlyLeaversCrash, ToldFinal
  <2> QED
      BY <2>2, <2>3, <2>4, <2>5 DEF EnrichInv
<1>2. CASE EnrichNext
  <2>1. /\ EnrichTypeOK /\ Slices /\ Phases /\ Tallies /\ Closings
        /\ ProgressAccounted /\ FinalBooks /\ OnlyLeaversCrash /\ ToldFinal
        BY DEF EnrichInv
  <2>2. /\ Slices' /\ arrays' \in Arrays /\ subs' \in [array : Nat, len : Nat]
        /\ send' \in [Properties -> Slice]
        BY <1>2, <2>1, SlicesStep
  <2>3. /\ Phases' /\ phase' \in {"none", "started", "ready", "running", "notify", "over"}
        /\ pc' \in [Properties -> Places] /\ lost' \in BOOLEAN /\ late' \in BOOLEAN
        BY <1>2, <2>1, PhasesStep
  <2>4. /\ Tallies' /\ tally' \in [Properties -> Talls] /\ seen' \in [Properties -> 0 .. N]
        /\ completed' \in 0 .. N
        BY <1>2, <2>1, TalliesStep
  <2>5. cell' \in Cells /\ ProgressAccounted' /\ FinalBooks'
        BY <1>2, <2>1, BooksStep
  <2>6. /\ channel' \in [Streams -> Channel] /\ stream' \in [Streams -> StreamPlaces]
        /\ told' \in [Streams -> Statuses \cup {"none"}]
        /\ hasty' \subseteq Streams /\ crashed' \in BOOLEAN
        BY <1>2, <2>1, StreamTypes
  <2>7. Closings' /\ OnlyLeaversCrash' /\ ToldFinal'
        BY <1>2, <2>1, ClosingsStep, CrashStep, ToldStep
  <2>8. EnrichTypeOK'
        BY <2>2, <2>3, <2>4, <2>5, <2>6 DEF EnrichTypeOK, Arrays, Slice, Places, Talls, Cells, Channel, StreamPlaces
  <2> QED
      BY <2>2, <2>3, <2>4, <2>5, <2>7, <2>8 DEF EnrichInv
<1> QED
    BY <1>1, <1>2

\* Whatever the order of goroutines, streams and clients, each step of the job keeps the types,
\* the slices within their arrays, the counters and the channels in step with the phase.
THEOREM EnrichInvariant == EnrichSpec => []EnrichInv
<1> QED
    BY InitInv, NextInv, PTL DEF EnrichSpec

\* A saved progress accounts for every property it claims processed.
THEOREM ProgressIsAccounted == EnrichSpec => []ProgressAccounted
<1>1. EnrichInv => ProgressAccounted
      BY DEF EnrichInv
<1> QED
    BY <1>1, EnrichInvariant, PTL

\* The final status accounts for all N properties.
THEOREM FinalBooksBalance == EnrichSpec => []FinalBooks
<1>1. EnrichInv => FinalBooks
      BY DEF EnrichInv
<1> QED
    BY <1>1, EnrichInvariant, PTL

\* As long as no client leaves early, no broadcast and no notifyComplete meets a closed channel.
THEOREM NobodyElseCrashes == EnrichSpec => []OnlyLeaversCrash
<1>1. EnrichInv => OnlyLeaversCrash
      BY DEF EnrichInv
<1> QED
    BY <1>1, EnrichInvariant, PTL

\* A stream whose channel was closed by the end of the job reads the final status.
THEOREM StreamsToldFinal == EnrichSpec => []ToldFinal
<1>1. EnrichInv => ToldFinal
      BY DEF EnrichInv
<1> QED
    BY <1>1, EnrichInvariant, PTL

\* No goroutine's late save overwrites the final status.
THEOREM FinalStatusStays == EnrichSpec => FinalStaysFinal
<1>1. EnrichInv /\ [EnrichNext]_vars => [cell.status \in FinalCells => cell' = cell]_vars
  <2> SUFFICES ASSUME EnrichInv, EnrichNext, cell.status \in FinalCells PROVE cell' = cell
      BY DEF vars, cellVars
  <2>1. EnrichTypeOK /\ Phases
        BY DEF EnrichInv
  <2> QED
      BY <2>1, Saves DEF cellVars
<1> QED
    BY <1>1, EnrichInvariant, PTL DEF EnrichSpec, FinalStaysFinal
===============================================================================

----------------------------- MODULE BillingProofs -----------------------------
(***************************************************************************)
(* The safety theorems of Billing, for any number of deliveries, changes,  *)
(* repetitions and restarts.  Provisioned follows from what is owed: while *)
(* a row or the quota is missing, an event that will write it is pending.  *)
(***************************************************************************)
EXTENDS Billing, SequenceTheorems, TLAPS

Events == [type : Types, status : Status, change : 1 .. MaxChanges + 1]
Place  == [at : Statements, saw : BOOLEAN]

-------------------------------------------------------------------------------
(* Types at hand *)

LEMMA Known ==
    ASSUME BillingTypeOK
    PROVE  /\ sent \in Seq(Events) /\ Len(sent) \in Nat /\ DOMAIN sent = 1 .. Len(sent)
           /\ inbox \subseteq 1 .. Len(sent)
           /\ Handled \subseteq 1 .. Len(sent) /\ Handled \cap inbox = {}
           /\ work \in [Handled -> Place]
           /\ Changes \in Nat
<1>1. sent \in Seq(Events)
      BY DEF BillingTypeOK, Events
<1>2. Len(sent) \in Nat /\ DOMAIN sent = 1 .. Len(sent)
      BY <1>1, LenProperties
<1>3. Changes \in Nat
  <2>1. CASE sent = <<>>
        BY <2>1 DEF Changes
  <2>2. CASE sent # <<>>
    <3>1. Len(sent) \in 1 .. Len(sent)
          BY <1>1, <1>2, <2>2, EmptySeq
    <3>2. sent[Len(sent)] \in Events
          BY <1>1, <3>1
    <3>3. sent[Len(sent)].change \in 1 .. MaxChanges + 1
          BY <3>2 DEF Events
    <3> QED
        BY <2>2, <3>3, BillingConstants DEF Changes
  <2> QED
      BY <2>1, <2>2
<1> QED
    BY <1>1, <1>2, <1>3 DEF BillingTypeOK, Handled, Place

LEMMA EventOf ==
    ASSUME BillingTypeOK, NEW i \in 1 .. Len(sent)
    PROVE  /\ sent[i] \in Events /\ sent[i].type \in Types /\ sent[i].status \in Status
           /\ sent[i].change \in Nat /\ sent[i].change >= 1
<1>1. sent[i] \in Events
      BY Known
<1> QED
    BY <1>1, BillingConstants DEF Events

\* A handler goes on to its next statement.
LEMMA GoesOn ==
    ASSUME BillingTypeOK, NEW i \in Handled, NEW s \in Statements, Goto(i, s)
    PROVE  /\ Handled' = Handled /\ work' \in [Handled -> Place]
           /\ work'[i].at = s /\ work'[i].saw = work[i].saw
           /\ \A j \in Handled : j # i => work'[j] = work[j]
<1>1. work \in [Handled -> Place] /\ work' = [work EXCEPT ![i].at = s]
      BY Known DEF Goto
<1> QED
    BY <1>1 DEF Handled, Place

\* A handler is done.
LEMMA Ends ==
    ASSUME BillingTypeOK, NEW i \in Handled, End(i)
    PROVE  /\ Handled' = Handled \ {i} /\ work' \in [Handled' -> Place]
           /\ \A j \in Handled' : work'[j] = work[j]
<1>1. work \in [Handled -> Place] /\ work' = [j \in Handled \ {i} |-> work[j]]
      BY Known DEF End
<1>2. Handled' = Handled \ {i}
      BY <1>1 DEF Handled
<1> QED
    BY <1>1, <1>2

-------------------------------------------------------------------------------
(* Stripe *)

\* What a change emits: one or two events, none of them of the checkout.
Later(e) == e.type \in {"subscription.updated", "subscription.deleted", "payment_failed"}

LEMMA Emits ==
    ASSUME BillingTypeOK, NEW events \in Seq(Events), events # <<>>, Emit(events)
    PROVE  /\ sent' \in Seq(Events) /\ Len(sent') = Len(sent) + Len(events) /\ Len(events) \in Nat
           /\ Len(events) >= 1 /\ sent' # <<>> /\ DOMAIN sent' = 1 .. Len(sent')
           /\ \A i \in 1 .. Len(sent) : sent'[i] = sent[i]
           /\ \A i \in Len(sent) + 1 .. Len(sent') : sent'[i] = events[i - Len(sent)]
           /\ inbox' = inbox \cup (Len(sent) + 1 .. Len(sent'))
           /\ Changes' = events[Len(events)].change
<1>1. sent \in Seq(Events) /\ Len(sent) \in Nat
      BY Known
<1>2. Len(events) \in Nat /\ Len(events) >= 1
      BY EmptySeq, LenProperties
<1>3. sent' = sent \o events /\ inbox' = inbox \cup (Len(sent) + 1 .. Len(sent) + Len(events))
      BY DEF Emit
<1>4. /\ sent' \in Seq(Events) /\ Len(sent') = Len(sent) + Len(events)
      /\ \A i \in 1 .. Len(sent) + Len(events) :
            sent'[i] = IF i <= Len(sent) THEN sent[i] ELSE events[i - Len(sent)]
      BY <1>1, <1>3, ConcatProperties
<1>5. DOMAIN sent' = 1 .. Len(sent') /\ sent' # <<>>
  <2>1. DOMAIN sent' = 1 .. Len(sent')
        BY <1>4, LenProperties
  <2>2. Len(sent') >= 1
        BY <1>1, <1>2, <1>4
  <2> QED
      BY <2>1, <2>2, EmptySeq
<1>6. sent'[Len(sent')] = events[Len(events)]
  <2>1. Len(sent') \in 1 .. Len(sent) + Len(events) /\ ~(Len(sent') <= Len(sent))
        BY <1>1, <1>2, <1>4
  <2>2. Len(sent') - Len(sent) = Len(events)
        BY <1>1, <1>2, <1>4
  <2> QED
      BY <1>4, <2>1, <2>2
<1>7. Changes' = events[Len(events)].change
      BY <1>5, <1>6 DEF Changes
<1>8. /\ \A i \in 1 .. Len(sent) : sent'[i] = sent[i]
      /\ \A i \in Len(sent) + 1 .. Len(sent') : sent'[i] = events[i - Len(sent)]
      BY <1>1, <1>2, <1>4
<1> QED
    BY <1>2, <1>3, <1>4, <1>5, <1>7, <1>8

LEMMA EmitStep ==
    ASSUME BillingInv, NEW events \in Seq(Events), events # <<>>, Emit(events),
           stripe' \in Status, UNCHANGED <<checkout, work, tables, requests, order, bounds, marks>>,
           \A k \in 1 .. Len(events) : events[k].change = events[Len(events)].change,
           events[Len(events)].change = Changes + 1,
           \/ sent # <<>> /\ \A k \in 1 .. Len(events) : Later(events[k])
           \/ /\ sent = <<>> /\ Len(events) = 2
              /\ events[1].type = "checkout.completed" /\ events[2].type = "subscription.created"
    PROVE  BillingInv'
<1>1. BillingTypeOK /\ Feed /\ Stages /\ Owed
      BY DEF BillingInv
<1>2. /\ sent' \in Seq(Events) /\ Len(sent') = Len(sent) + Len(events) /\ Len(events) \in Nat
      /\ Len(events) >= 1 /\ sent' # <<>> /\ DOMAIN sent' = 1 .. Len(sent')
      /\ \A i \in 1 .. Len(sent) : sent'[i] = sent[i]
      /\ \A i \in Len(sent) + 1 .. Len(sent') : sent'[i] = events[i - Len(sent)]
      /\ inbox' = inbox \cup (Len(sent) + 1 .. Len(sent'))
      /\ Changes' = events[Len(events)].change
      BY <1>1, Emits
<1>3. /\ Len(sent) \in Nat /\ DOMAIN sent = 1 .. Len(sent) /\ inbox \subseteq 1 .. Len(sent)
      /\ Handled \subseteq 1 .. Len(sent) /\ Handled \cap inbox = {} /\ Changes \in Nat
      BY <1>1, Known
<1>4. /\ checkout' = checkout /\ work' = work /\ Handled' = Handled /\ user' = user /\ row' = row
      /\ quota' = quota /\ register' = register /\ login' = login /\ admin' = admin
      /\ newest' = newest /\ overtaken' = overtaken /\ again' = again /\ crashes' = crashes
      /\ failed' = failed /\ emptied' = emptied /\ missed' = missed /\ cut' = cut
      BY DEF tables, requests, order, bounds, marks, Handled
<1>5. Changes' = Changes + 1
      BY <1>2
<1>6. BillingTypeOK'
  <2>1. inbox' \subseteq DOMAIN sent'
        BY <1>2, <1>3
  <2>2. Handled' \subseteq DOMAIN sent' \ inbox'
        BY <1>2, <1>3, <1>4
  <2>3. newest' \in 0 .. Changes'
        BY <1>1, <1>3, <1>4, <1>5 DEF BillingTypeOK
  <2>4. work' \in [DOMAIN work' -> [at : Statements, saw : BOOLEAN]]
        BY <1>1, <1>4 DEF BillingTypeOK
  <2>5. /\ checkout' \in {"guest", "member"} /\ user' \in {"none", "registered", "guest"}
        /\ row' \in Status \cup {"none"} /\ quota' \in {"none", "empty", "full"}
        /\ register' \in {"idle", "save"} /\ login' \in {"idle", "sub", "save"}
        /\ admin' \in {"idle", "save"} /\ again' \in 0 .. MaxAgain /\ crashes' \in 0 .. MaxCrashes
        /\ failed' \in BOOLEAN /\ emptied' \in BOOLEAN /\ missed' \in BOOLEAN /\ cut' \in BOOLEAN
        /\ overtaken' \in BOOLEAN
        BY <1>1, <1>4 DEF BillingTypeOK
  <2>6. stripe' \in Status \cup {"none"} /\ DOMAIN work' \subseteq DOMAIN sent' \ inbox'
        BY <2>2 DEF Handled
  <2>7. sent' \in Seq([type : Types, status : Status, change : 1 .. MaxChanges + 1])
        BY <1>2 DEF Events
  <2> QED
      BY <2>1, <2>3, <2>4, <2>5, <2>6, <2>7 DEF BillingTypeOK
<1>7. Feed'
  <2>1. stripe' # "none"
        BY DEF Status
  <2>2. ASSUME NEW i \in 1 .. Len(sent')
        PROVE  /\ i = 1 <=> sent'[i].type = "checkout.completed"
               /\ i = 2 <=> sent'[i].type = "subscription.created"
               /\ sent'[i].change <= Changes'
    <3>1. CASE i \in 1 .. Len(sent)
      <4>1. sent'[i] = sent[i] /\ sent[i].change \in Nat /\ sent[i].change <= Changes
            BY <1>1, <1>2, <1>3, <3>1, EventOf DEF Feed
      <4>2. /\ i = 1 <=> sent[i].type = "checkout.completed"
            /\ i = 2 <=> sent[i].type = "subscription.created"
            BY <1>1, <1>3, <3>1 DEF Feed
      <4> QED
          BY <1>3, <1>5, <4>1, <4>2
    <3>2. CASE i \in Len(sent) + 1 .. Len(sent')
      <4>1. /\ sent'[i] = events[i - Len(sent)] /\ i - Len(sent) \in 1 .. Len(events)
            BY <1>2, <1>3, <3>2
      <4>2. sent'[i].change = Changes'
            BY <1>2, <4>1
      <4>3. sent'[i].change <= Changes'
            BY <1>3, <1>5, <4>2
      <4>4. CASE sent # <<>> /\ \A k \in 1 .. Len(events) : Later(events[k])
        <5>1. Len(sent) >= 2
              BY <1>1, <4>4 DEF Feed
        <5>2. i # 1 /\ i # 2
              BY <1>3, <3>2, <5>1
        <5>3. Later(sent'[i])
              BY <4>1, <4>4
        <5> QED
            BY <4>3, <5>2, <5>3 DEF Later
      <4>5. CASE /\ sent = <<>> /\ Len(events) = 2
                 /\ events[1].type = "checkout.completed" /\ events[2].type = "subscription.created"
        <5>1. Len(sent) = 0
              BY <4>5
        <5>2. sent'[i] = events[i] /\ i \in 1 .. 2
              BY <4>1, <4>5, <5>1, <1>2
        <5> QED
            BY <4>3, <4>5, <5>2
      <4> QED
          BY <4>4, <4>5
    <3> QED
        BY <1>2, <1>3, <3>1, <3>2
  <2>3. Len(sent') >= 2
    <3>1. CASE sent # <<>>
          BY <1>1, <1>2, <1>3, <3>1 DEF Feed
    <3>2. CASE sent = <<>>
          BY <1>2, <1>3, <3>2
    <3> QED
        BY <3>1, <3>2
  <2> QED
      BY <1>1, <1>2, <1>4, <2>1, <2>2, <2>3 DEF Feed
<1>8. Stages'
      BY <1>1, <1>4 DEF Stages
<1>9. Owed'
  <2>1. CASE sent = <<>>
    <3>1. Pending(1)' /\ Pending(2)'
          BY <1>2, <1>3, <2>1 DEF Pending
    <3> QED
        BY <3>1 DEF Owed
  <2>2. CASE sent # <<>>
    <3>1. \A i : Pending(i) => Pending(i)'
          BY <1>2, <1>4 DEF Pending
    <3>2. 1 \in inbox => 1 \in inbox'
          BY <1>2
    <3> QED
        BY <1>1, <1>4, <2>2, <3>1, <3>2 DEF Owed, Paid
  <2> QED
      BY <2>1, <2>2
<1> QED
    BY <1>6, <1>7, <1>8, <1>9 DEF BillingInv

LEMMA PayStep ==
    ASSUME BillingInv, Pay
    PROVE  BillingInv'
<1> DEFINE events == <<Event("checkout.completed", "active", 1), Event("subscription.created", "active", 1)>>
<1>1. events \in Seq(Events) /\ Len(events) = 2 /\ events # <<>>
      BY BillingConstants DEF Events, Event, Types, Status
<1>2. /\ events[1].type = "checkout.completed" /\ events[2].type = "subscription.created"
      /\ events[1].change = 1 /\ events[2].change = 1
      BY DEF Event
<1>3. sent = <<>> /\ Changes = 0
      BY DEF Pay, BillingInv, Feed, Changes
<1>4. /\ Emit(events) /\ stripe' \in Status
      /\ UNCHANGED <<checkout, work, tables, requests, order, bounds, marks>>
      BY DEF Pay, Status
<1> HIDE DEF events
<1>5. \A k \in 1 .. Len(events) : events[k].change = events[Len(events)].change
      BY <1>1, <1>2
<1> QED
    BY <1>1, <1>2, <1>3, <1>4, <1>5, EmitStep

LEMMA LaterStep ==
    ASSUME BillingInv, (\E s \in Status : Change(s)) \/ AdminCancelAtEnd
    PROVE  BillingInv'
<1>1. BillingTypeOK /\ Feed /\ Changes \in Nat
      BY Known DEF BillingInv
<1> DEFINE c == Changes + 1
<1>2. c \in 1 .. MaxChanges + 1 /\ stripe \in Status /\ stripe # "none" /\ sent # <<>>
  <2>1. c <= MaxChanges + 1 /\ stripe \in {"active", "past_due"}
        BY DEF Change, AdminCancelAtEnd
  <2> QED
      BY <1>1, <2>1, BillingConstants DEF Status, Feed
<1>3. /\ UNCHANGED <<checkout, work, tables, requests, order, bounds, marks>> /\ stripe' \in Status
      /\ \/ \E s \in Status : Emit(<<Event("subscription.updated", s, c)>>)
         \/ \E s \in Status : Emit(<<Event("payment_failed", s, c), Event("subscription.updated", s, c)>>)
         \/ \E s \in Status : Emit(<<Event("subscription.deleted", s, c)>>)
      BY <1>2 DEF Change, AdminCancelAtEnd, Status
<1>4. ASSUME NEW s \in Status, NEW t \in {"subscription.updated", "subscription.deleted"},
             Emit(<<Event(t, s, c)>>)
      PROVE  BillingInv'
  <2> DEFINE events == <<Event(t, s, c)>>
  <2>1. events \in Seq(Events) /\ Len(events) = 1 /\ events # <<>> /\ events[1] = Event(t, s, c)
        BY <1>2 DEF Events, Event, Types
  <2>2. Event(t, s, c).change = c /\ Later(Event(t, s, c))
        BY DEF Event, Later
  <2>3. Emit(events)
        BY <1>4
  <2> HIDE DEF events
  <2>4. /\ \A k \in 1 .. Len(events) : events[k].change = events[Len(events)].change /\ Later(events[k])
        /\ events[Len(events)].change = Changes + 1
        BY <2>1, <2>2
  <2> QED
      BY <1>2, <1>3, <2>1, <2>3, <2>4, EmitStep
<1>5. ASSUME NEW s \in Status,
             Emit(<<Event("payment_failed", s, c), Event("subscription.updated", s, c)>>)
      PROVE  BillingInv'
  <2> DEFINE events == <<Event("payment_failed", s, c), Event("subscription.updated", s, c)>>
  <2>1. /\ events \in Seq(Events) /\ Len(events) = 2 /\ events # <<>>
        /\ events[1] = Event("payment_failed", s, c) /\ events[2] = Event("subscription.updated", s, c)
        BY <1>2 DEF Events, Event, Types
  <2>2. /\ Event("payment_failed", s, c).change = c /\ Later(Event("payment_failed", s, c))
        /\ Event("subscription.updated", s, c).change = c /\ Later(Event("subscription.updated", s, c))
        BY DEF Event, Later
  <2>3. Emit(events)
        BY <1>5
  <2> HIDE DEF events
  <2>4. /\ \A k \in 1 .. Len(events) : events[k].change = events[Len(events)].change /\ Later(events[k])
        /\ events[Len(events)].change = Changes + 1
        BY <2>1, <2>2
  <2> QED
      BY <1>2, <1>3, <2>1, <2>3, <2>4, EmitStep
<1> HIDE DEF c
<1> QED
    BY <1>3, <1>4, <1>5

\* A delivery is handed to a handler, at its first statement.
LEMMA DeliverStep ==
    ASSUME BillingInv, NEW i \in inbox, Deliver(i)
    PROVE  BillingInv'
<1>1. BillingTypeOK /\ Feed /\ Stages /\ Owed
      BY DEF BillingInv
<1>2. /\ Len(sent) \in Nat /\ DOMAIN sent = 1 .. Len(sent) /\ inbox \subseteq 1 .. Len(sent)
      /\ Handled \subseteq 1 .. Len(sent) /\ Handled \cap inbox = {}
      /\ work \in [Handled -> Place] /\ Changes \in Nat
      BY <1>1, Known
<1>3. i \in 1 .. Len(sent) /\ i \notin Handled /\ sent # <<>>
      BY <1>2, EmptySeq
<1>4. /\ sent[i].type \in Types /\ sent[i].change \in Nat /\ sent[i].change <= Changes
      /\ i = 1 <=> sent[i].type = "checkout.completed"
      /\ i = 2 <=> sent[i].type = "subscription.created"
      BY <1>1, <1>2, <1>3, EventOf DEF Feed
<1> DEFINE at == First(sent[i].type)
<1>5. /\ i = 1 => at = (IF checkout = "guest" THEN "user" ELSE "sub")
      /\ i = 2 => at = "find"
      /\ i > 2 => at = "byid"
      /\ at \in Statements
      BY <1>3, <1>4, <1>2 DEF First, Types, Statements
<1>6. /\ inbox' = inbox \ {i}
      /\ work' = [j \in Handled \cup {i} |-> IF j = i THEN [at |-> at, saw |-> FALSE] ELSE work[j]]
      BY DEF Deliver
<1> HIDE DEF at
<1>7. /\ Handled' = Handled \cup {i} /\ work' \in [Handled' -> Place]
      /\ work'[i].at = at /\ work'[i].saw = FALSE
      /\ \A j \in Handled : work'[j] = work[j]
  <2>1. Handled' = Handled \cup {i}
        BY <1>6 DEF Handled
  <2>2. [at |-> at, saw |-> FALSE] \in Place
        BY <1>5 DEF Place
  <2> QED
      BY <1>2, <1>3, <1>6, <2>1, <2>2
<1>8. /\ checkout' = checkout /\ stripe' = stripe /\ sent' = sent /\ user' = user /\ row' = row
      /\ quota' = quota /\ register' = register /\ login' = login /\ admin' = admin
      /\ again' = again /\ crashes' = crashes
      /\ failed' = failed /\ emptied' = emptied /\ missed' = missed /\ cut' = cut /\ Changes' = Changes
      BY DEF Deliver, outside, tables, requests, bounds, marks, Changes
<1>9. newest' \in 0 .. Changes /\ overtaken' \in BOOLEAN
  <2>1. newest' = IF sent[i].change > newest THEN sent[i].change ELSE newest
        BY DEF Deliver
  <2>2. overtaken' = (overtaken \/ sent[i].change < newest \/ \E j \in Handled : sent[j].change < sent[i].change)
        BY DEF Deliver
  <2> QED
      BY <1>1, <1>2, <1>4, <2>1, <2>2 DEF BillingTypeOK
<1>10. BillingTypeOK'
  <2>1. /\ inbox' \subseteq DOMAIN sent' /\ DOMAIN work' \subseteq DOMAIN sent' \ inbox'
        /\ work' \in [DOMAIN work' -> [at : Statements, saw : BOOLEAN]]
        BY <1>2, <1>3, <1>6, <1>7, <1>8 DEF Handled, Place
  <2>2. newest' \in 0 .. Changes'
        BY <1>8, <1>9
  <2> QED
      BY <1>1, <1>8, <1>9, <2>1, <2>2 DEF BillingTypeOK
<1>11. Feed'
  <2>1. DOMAIN sent' = DOMAIN sent
        BY <1>8
  <2> QED
      BY <1>1, <1>8, <2>1 DEF Feed
<1>12. Stages'
  <2>1. checkout = "member" => user # "none"
        BY <1>1 DEF Feed
  <2>2. ASSUME NEW j \in Handled
        PROVE  work'[j] = work[j]
        BY <1>7
  <2>3. checkout \in {"guest", "member"}
        BY <1>1 DEF BillingTypeOK
  <2> QED
      BY <1>1, <1>2, <1>3, <1>5, <1>7, <1>8, <2>1, <2>2, <2>3 DEF Stages
<1>13. Owed'
  <2>1. \A k : Pending(k)' <=> Pending(k)
        BY <1>6, <1>7 DEF Pending
  <2>2. Paid' <=> Paid
        BY <1>8 DEF Paid
  <2>3. i = 1 /\ checkout = "guest" => 1 \in Handled' /\ work'[1].at # "save"
        BY <1>5, <1>7
  <2>4. i # 1 => (1 \in inbox => 1 \in inbox')
        BY <1>6
  <2>5. 1 \in Handled => 1 \in Handled' /\ work'[1] = work[1]
        BY <1>7
  <2> QED
      BY <1>1, <1>8, <2>1, <2>2, <2>3, <2>4, <2>5 DEF Owed
<1> QED
    BY <1>10, <1>11, <1>12, <1>13 DEF BillingInv

\* An event comes once more.
LEMMA AgainStep ==
    ASSUME BillingInv, NEW i \in DOMAIN sent, DeliverAgain(i)
    PROVE  BillingInv'
<1>1. BillingTypeOK /\ Feed /\ Stages /\ Owed
      BY DEF BillingInv
<1>2. /\ again < MaxAgain /\ again' = again + 1 /\ inbox' = inbox \cup {i} /\ i \notin Handled
      BY DEF DeliverAgain
<1>3. /\ checkout' = checkout /\ stripe' = stripe /\ sent' = sent /\ work' = work /\ user' = user
      /\ row' = row /\ quota' = quota /\ register' = register /\ login' = login /\ admin' = admin
      /\ newest' = newest /\ overtaken' = overtaken /\ crashes' = crashes
      /\ failed' = failed /\ emptied' = emptied /\ missed' = missed /\ cut' = cut
      /\ Changes' = Changes /\ Handled' = Handled
      BY DEF DeliverAgain, outside, tables, requests, order, marks, Changes, Handled
<1>4. BillingTypeOK'
  <2>1. again' \in 0 .. MaxAgain
        BY <1>1, <1>2, BillingConstants DEF BillingTypeOK
  <2>2. inbox' \subseteq DOMAIN sent' /\ DOMAIN work' \subseteq DOMAIN sent' \ inbox'
        BY <1>1, <1>2, <1>3 DEF BillingTypeOK, Handled
  <2>3. work' \in [DOMAIN work' -> [at : Statements, saw : BOOLEAN]]
        BY <1>1, <1>3 DEF BillingTypeOK
  <2> QED
      BY <1>1, <1>3, <2>1, <2>2, <2>3 DEF BillingTypeOK
<1>5. Feed' /\ Stages'
  <2>1. DOMAIN sent' = DOMAIN sent
        BY <1>3
  <2> QED
      BY <1>1, <1>3, <2>1 DEF Feed, Stages
<1>6. Owed'
  <2>1. (\A k : Pending(k) => Pending(k)') /\ (1 \in inbox => 1 \in inbox')
        BY <1>2, <1>3 DEF Pending
  <2> QED
      BY <1>1, <1>3, <2>1 DEF Owed, Paid
<1> QED
    BY <1>4, <1>5, <1>6 DEF BillingInv

\* A restart gives back what was not answered.
LEMMA CrashStep ==
    ASSUME BillingInv, Crash
    PROVE  BillingInv'
<1>1. BillingTypeOK /\ Feed /\ Stages /\ Owed
      BY DEF BillingInv
<1>2. /\ crashes < MaxCrashes /\ crashes' = crashes + 1 /\ inbox' = inbox \cup Handled
      /\ work' = <<>> /\ register' = "idle" /\ login' = "idle" /\ admin' = "idle"
      BY DEF Crash
<1>3. /\ checkout' = checkout /\ stripe' = stripe /\ sent' = sent /\ user' = user
      /\ row' = row /\ quota' = quota /\ newest' = newest /\ overtaken' = overtaken /\ again' = again
      /\ failed' = failed /\ emptied' = emptied /\ missed' = missed /\ cut' = cut /\ Changes' = Changes
      BY DEF Crash, outside, tables, order, marks, Changes
<1>4. Handled' = {} /\ work' \in [DOMAIN work' -> [at : Statements, saw : BOOLEAN]]
  <2>1. <<>> \in Seq(Place) /\ Len(<<>>) = 0
        BY EmptySeq
  <2>2. <<>> \in [1 .. 0 -> Place]
        BY <2>1, LenProperties
  <2>3. work' \in [1 .. 0 -> Place]
        BY <1>2, <2>2
  <2>4. DOMAIN work' = 1 .. 0
        BY <2>3
  <2>5. 1 .. 0 = {}
        OBVIOUS
  <2> QED
      BY <2>3, <2>4, <2>5 DEF Handled, Place
<1>5. BillingTypeOK'
  <2>1. crashes' \in 0 .. MaxCrashes
        BY <1>1, <1>2, BillingConstants DEF BillingTypeOK
  <2>2. inbox' \subseteq DOMAIN sent' /\ DOMAIN work' \subseteq DOMAIN sent' \ inbox'
        BY <1>1, <1>2, <1>3, <1>4 DEF BillingTypeOK, Handled
  <2> QED
      BY <1>1, <1>2, <1>3, <1>4, <2>1, <2>2 DEF BillingTypeOK
<1>6. Feed'
  <2>1. DOMAIN sent' = DOMAIN sent
        BY <1>3
  <2> QED
      BY <1>1, <1>2, <1>3, <2>1 DEF Feed
<1>7. Stages'
      BY <1>4 DEF Stages
<1>8. Owed'
  <2>1. \A k : Pending(k) => k \in inbox'
        BY <1>2 DEF Pending
  <2>2. \A k : k \in inbox' => Pending(k)'
        BY DEF Pending
  <2>3. 1 \in Handled => 1 \in inbox'
        BY <1>2
  <2>4. 1 \in inbox => 1 \in inbox'
        BY <1>2
  <2> QED
      BY <1>1, <1>3, <2>1, <2>2, <2>3, <2>4 DEF Owed, Paid
<1> QED
    BY <1>5, <1>6, <1>7, <1>8 DEF BillingInv

-------------------------------------------------------------------------------
(* The handlers *)

\* What every statement of a handler has in common: it only moves its own event on or
\* ends it, users and subscriptions stay, and the tables hold what its new stage requires.
LEMMA HandlerKeeps ==
    ASSUME BillingInv, NEW i \in Handled,
           UNCHANGED <<outside, inbox, requests, order, bounds, emptied, cut>>,
           Handled' \in {Handled, Handled \ {i}}, work' \in [Handled' -> Place],
           \A j \in Handled' : j # i => work'[j] = work[j],
           user' = user \/ (user = "none" /\ user' = "guest"),
           row' \in Status \cup {"none"}, row # "none" => row' # "none", row' # "none" => user' # "none",
           quota' \in {quota, "full"}, failed' \in BOOLEAN, failed => failed', missed' \in BOOLEAN,
           i \in Handled' =>
              /\ i = 1 => work'[i].at \in {"user", "insert", "sub", "save", "quota"}
              /\ i = 2 => work'[i].at \in {"find", "sub", "save", "quota"}
              /\ i > 2 => work'[i].at \in {"byid", "status"}
              /\ i = 1 /\ work'[i].at \in {"user", "insert", "quota"} => checkout = "guest"
              /\ work'[i].at \in {"sub", "save", "quota"} => user' # "none"
              /\ work'[i].at = "quota" => failed' \/ row' # "none"
              /\ work'[i].at = "save" /\ work'[i].saw => row' # "none"
              /\ work'[i].at = "status" => row' # "none",
           Owed'
    PROVE  BillingInv'
<1>1. BillingTypeOK /\ Feed /\ Stages
      BY DEF BillingInv
<1>2. /\ Len(sent) \in Nat /\ DOMAIN sent = 1 .. Len(sent) /\ inbox \subseteq 1 .. Len(sent)
      /\ Handled \subseteq 1 .. Len(sent) /\ Handled \cap inbox = {}
      /\ work \in [Handled -> Place]
      BY <1>1, Known
<1>3. /\ checkout' = checkout /\ stripe' = stripe /\ sent' = sent /\ inbox' = inbox
      /\ register' = register /\ login' = login /\ admin' = admin /\ newest' = newest
      /\ overtaken' = overtaken /\ again' = again /\ crashes' = crashes
      /\ emptied' = emptied /\ cut' = cut /\ Changes' = Changes
      BY DEF outside, requests, order, bounds, Changes
<1>4. BillingTypeOK'
  <2>1. DOMAIN work' \subseteq DOMAIN sent' \ inbox'
        BY <1>2, <1>3 DEF Handled
  <2>2. work' \in [DOMAIN work' -> [at : Statements, saw : BOOLEAN]]
        BY DEF Handled, Place
  <2>3. /\ checkout' \in {"guest", "member"} /\ user' \in {"none", "registered", "guest"}
        /\ quota' \in {"none", "empty", "full"} /\ failed' \in BOOLEAN /\ missed' \in BOOLEAN
        BY <1>1, <1>3 DEF BillingTypeOK
  <2> QED
      BY <1>1, <1>3, <2>1, <2>2, <2>3 DEF BillingTypeOK
<1>5. Feed'
  <2>1. sent # <<>> /\ DOMAIN sent' = DOMAIN sent
        BY <1>2, <1>3, EmptySeq
  <2>2. checkout = "member" => user' = user
        BY <1>1 DEF Feed
  <2> QED
      BY <1>1, <1>3, <2>1, <2>2 DEF Feed
<1>6. Stages'
  <2> SUFFICES ASSUME NEW j \in Handled'
               PROVE  /\ j = 1 => work'[j].at \in {"user", "insert", "sub", "save", "quota"}
                      /\ j = 2 => work'[j].at \in {"find", "sub", "save", "quota"}
                      /\ j > 2 => work'[j].at \in {"byid", "status"}
                      /\ j = 1 /\ work'[j].at \in {"user", "insert", "quota"} => checkout' = "guest"
                      /\ work'[j].at \in {"sub", "save", "quota"} => user' # "none"
                      /\ work'[j].at = "quota" => failed' \/ row' # "none"
                      /\ work'[j].at = "save" /\ work'[j].saw => row' # "none"
                      /\ work'[j].at = "status" => row' # "none"
      BY DEF Stages
  <2>1. CASE j = i
        BY <1>3, <2>1
  <2>2. CASE j # i
    <3>1. j \in Handled /\ work'[j] = work[j]
          BY <2>2
    <3> QED
        BY <1>1, <1>3, <3>1 DEF Stages
  <2> QED
      BY <2>1, <2>2
<1> QED
    BY <1>4, <1>5, <1>6 DEF BillingInv

\* Where the handler of an event stands.
LEMMA StageOf ==
    ASSUME BillingInv, NEW i \in Handled
    PROVE  /\ i \in Nat /\ i >= 1 /\ i <= Len(sent) /\ Len(sent) \in Nat
           /\ work[i].at \in Statements /\ work[i].saw \in BOOLEAN
           /\ i = 1 <=> sent[i].type = "checkout.completed"
           /\ i = 2 <=> sent[i].type = "subscription.created"
           /\ sent[i].type \in Types /\ sent[i].status \in Status
           /\ i = 1 => work[i].at \in {"user", "insert", "sub", "save", "quota"}
           /\ i = 2 => work[i].at \in {"find", "sub", "save", "quota"}
           /\ i > 2 => work[i].at \in {"byid", "status"}
           /\ i = 1 /\ work[i].at \in {"user", "insert", "quota"} => checkout = "guest"
           /\ work[i].at \in {"sub", "save", "quota"} => user # "none"
           /\ work[i].at = "quota" => failed \/ row # "none"
           /\ work[i].at = "save" /\ work[i].saw => row # "none"
           /\ work[i].at = "status" => row # "none"
           /\ user \in {"none", "registered", "guest"} /\ row \in Status \cup {"none"}
           /\ checkout \in {"guest", "member"} /\ failed \in BOOLEAN /\ missed \in BOOLEAN
           /\ row # "none" => user # "none"
           /\ sent # <<>>
<1>1. BillingTypeOK /\ Feed /\ Stages
      BY DEF BillingInv
<1>2. /\ Len(sent) \in Nat /\ DOMAIN sent = 1 .. Len(sent) /\ Handled \subseteq 1 .. Len(sent)
      /\ work \in [Handled -> Place]
      BY <1>1, Known
<1>3. i \in 1 .. Len(sent) /\ work[i] \in Place /\ sent # <<>>
      BY <1>2, EmptySeq
<1>4. sent[i].type \in Types /\ sent[i].status \in Status
      BY <1>1, <1>3, EventOf
<1>5. work[i].at \in Statements /\ work[i].saw \in BOOLEAN
      BY <1>3 DEF Place
<1>6. /\ i = 1 <=> sent[i].type = "checkout.completed"
      /\ i = 2 <=> sent[i].type = "subscription.created"
      /\ row # "none" => user # "none"
      BY <1>1, <1>2, <1>3 DEF Feed
<1>7. /\ user \in {"none", "registered", "guest"} /\ row \in Status \cup {"none"}
      /\ checkout \in {"guest", "member"} /\ failed \in BOOLEAN /\ missed \in BOOLEAN
      BY <1>1 DEF BillingTypeOK
<1> QED
    BY <1>1, <1>2, <1>3, <1>4, <1>5, <1>6, <1>7 DEF Stages

\* Owed survives a step that writes nothing away and takes no event from the books except,
\* perhaps, i, which then owes nothing.
LEMMA OwedKeeps ==
    ASSUME BillingInv, NEW i \in Handled,
           UNCHANGED <<outside, inbox, emptied>>,
           Handled' \in {Handled, Handled \ {i}},
           \A j \in Handled' : j # i => work'[j] = work[j],
           row # "none" => row' # "none", quota' \in {quota, "full"}, failed => failed',
           checkout = "member" /\ missed => missed',
           \/ failed'
           \/ i = 1 /\ 1 \notin Handled' /\ row' # "none" /\ (checkout = "guest" => Paid' \/ Pending(2))
           \/ i = 1 /\ 1 \in Handled'
              /\ (checkout = "guest" /\ row' # "none" =>
                     Paid' \/ Pending(2) \/ work'[1].at # "save" \/ work'[1].saw)
           \/ i = 2 /\ 2 \notin Handled' /\ (missed' \/ Paid' \/ checkout = "guest")
              /\ (checkout = "guest" => Paid' \/ (row = "none" /\ row' = "none"))
           \/ i = 2 /\ 2 \in Handled'
           \/ i > 2 /\ (row' = "none" <=> row = "none")
    PROVE  Owed'
<1>1. BillingTypeOK /\ Owed
      BY DEF BillingInv
<1>2. /\ checkout' = checkout /\ sent' = sent /\ inbox' = inbox /\ emptied' = emptied
      /\ Handled \subseteq 1 .. Len(sent) /\ Len(sent) \in Nat
      BY <1>1, Known DEF outside
<1>3. i \in Nat /\ i >= 1 /\ failed \in BOOLEAN /\ row \in Status \cup {"none"}
      BY StageOf
<1>4. Paid => Paid'
      BY <1>2 DEF Paid
<1>5. \A k : k # i => (Pending(k)' <=> Pending(k))
      BY <1>2 DEF Pending
<1>6. i \in Handled' => Pending(i)'
      BY DEF Pending
<1>7. Pending(i) /\ i \notin inbox
      BY <1>1, Known DEF Pending
<1>8. i # 1 /\ 1 \in Handled => 1 \in Handled' /\ work'[1] = work[1]
      OBVIOUS
<1> SUFFICES ASSUME ~failed', sent # <<>>
             PROVE  Owed'
    BY <1>2 DEF Owed
<1>9. ~failed
      OBVIOUS
<1>10. /\ Pending(1) \/ row # "none"
       /\ checkout = "member" => Pending(2) \/ missed \/ Paid
       /\ checkout = "guest" /\ row # "none" =>
              \/ Paid \/ Pending(2) \/ 1 \in inbox
              \/ 1 \in Handled /\ (work[1].at # "save" \/ work[1].saw)
       BY <1>1, <1>9 DEF Owed
<1>11. CASE i = 1
  <2>1. Pending(2)' <=> Pending(2)
        BY <1>5, <1>11
  <2> QED
      BY <1>2, <1>4, <1>6, <1>7, <1>10, <1>11, <2>1 DEF Owed
<1>12. CASE i = 2
  <2>1. Pending(1)' <=> Pending(1)
        BY <1>5, <1>12
  <2> QED
      BY <1>2, <1>4, <1>6, <1>7, <1>8, <1>10, <1>12, <2>1 DEF Owed
<1>13. CASE i > 2
  <2>1. (Pending(1)' <=> Pending(1)) /\ (Pending(2)' <=> Pending(2))
        BY <1>3, <1>5, <1>13
  <2> QED
      BY <1>2, <1>3, <1>4, <1>8, <1>10, <1>13, <2>1 DEF Owed
<1> QED
    BY <1>3, <1>11, <1>12, <1>13

LEMMA MovesOn ==
    ASSUME BillingInv, NEW i \in Handled, NEW s \in Statements, Goto(i, s)
    PROVE  /\ Handled' = Handled /\ work' \in [Handled' -> Place]
           /\ work'[i].at = s /\ work'[i].saw = work[i].saw
           /\ \A j \in Handled' : j # i => work'[j] = work[j]
BY GoesOn DEF BillingInv

LEMMA IsDone ==
    ASSUME BillingInv, NEW i \in Handled, End(i)
    PROVE  /\ Handled' = Handled \ {i} /\ i \notin Handled' /\ work' \in [Handled' -> Place]
           /\ \A j \in Handled' : j # i => work'[j] = work[j]
BY Ends DEF BillingInv

LEMMA LookUpStep ==
    ASSUME BillingInv, NEW i \in Handled, LookUp(i)
    PROVE  BillingInv'
<1> DEFINE s == IF user = "none" THEN "insert" ELSE "sub"
<1>1. /\ work[i].at = "user" /\ Goto(i, s) /\ s \in Statements /\ s \in {"insert", "sub"}
      /\ s = "sub" => user # "none"
      /\ UNCHANGED <<outside, inbox, tables, requests, order, bounds, marks>>
      BY DEF LookUp, Statements
<1> HIDE DEF s
<1>2. /\ user' = user /\ row' = row /\ quota' = quota /\ failed' = failed /\ missed' = missed
      /\ UNCHANGED <<outside, inbox, requests, order, bounds, emptied, cut>>
      BY <1>1 DEF tables, marks
<1>3. /\ Handled' = Handled /\ work' \in [Handled' -> Place] /\ work'[i].at = s
      /\ \A j \in Handled' : j # i => work'[j] = work[j]
      BY <1>1, MovesOn
<1>4. i = 1 /\ checkout = "guest"
      BY <1>1, StageOf
<1>5. Owed'
      BY <1>1, <1>2, <1>3, <1>4, OwedKeeps
<1> QED
    BY <1>1, <1>2, <1>3, <1>4, <1>5, StageOf, HandlerKeeps

LEMMA CreateUserStep ==
    ASSUME BillingInv, NEW i \in Handled, CreateUser(i)
    PROVE  BillingInv'
<1>1. /\ work[i].at = "insert" /\ row' = row /\ quota' = quota /\ missed' = missed
      /\ UNCHANGED <<outside, inbox, requests, order, bounds, emptied, cut>>
      BY DEF CreateUser
<1>2. i = 1 /\ checkout = "guest" /\ "sub" \in Statements
      BY <1>1, StageOf DEF Statements
<1>3. CASE user = "none" /\ user' = "guest" /\ Goto(i, "sub") /\ failed' = failed
  <2>1. /\ Handled' = Handled /\ work' \in [Handled' -> Place] /\ work'[i].at = "sub"
        /\ \A j \in Handled' : j # i => work'[j] = work[j]
        BY <1>2, <1>3, MovesOn
  <2>2. Owed'
        BY <1>1, <1>2, <1>3, <2>1, OwedKeeps
  <2> QED
      BY <1>1, <1>2, <1>3, <2>1, <2>2, StageOf, HandlerKeeps
<1>4. CASE End(i) /\ failed' = TRUE /\ user' = user
  <2>1. /\ Handled' = Handled \ {i} /\ i \notin Handled' /\ work' \in [Handled' -> Place]
        /\ \A j \in Handled' : j # i => work'[j] = work[j]
        BY <1>4, IsDone
  <2>2. Owed'
        BY <1>4 DEF Owed
  <2> QED
      BY <1>1, <1>2, <1>4, <2>1, <2>2, StageOf, HandlerKeeps
<1> QED
    BY <1>3, <1>4 DEF CreateUser

LEMMA FindUserStep ==
    ASSUME BillingInv, NEW i \in Handled, FindUser(i)
    PROVE  BillingInv'
<1>1. /\ work[i].at = "find" /\ user' = user /\ row' = row /\ quota' = quota /\ failed' = failed
      /\ UNCHANGED <<outside, inbox, requests, order, bounds, emptied, cut>>
      BY DEF FindUser, tables
<1>2. i = 2 /\ "sub" \in Statements
      BY <1>1, StageOf DEF Statements
<1>3. CASE (row # "none" \/ user = "guest") /\ Goto(i, "sub") /\ missed' = missed
  <2>1. /\ Handled' = Handled /\ work' \in [Handled' -> Place] /\ work'[i].at = "sub"
        /\ \A j \in Handled' : j # i => work'[j] = work[j]
        BY <1>2, <1>3, MovesOn
  <2>2. Owed'
        BY <1>1, <1>2, <1>3, <2>1, OwedKeeps
  <2> QED
      BY <1>1, <1>2, <1>3, <2>1, <2>2, StageOf, HandlerKeeps
<1>4. CASE ~(row # "none" \/ user = "guest") /\ End(i) /\ missed' = (checkout = "member")
  <2>1. /\ Handled' = Handled \ {i} /\ i \notin Handled' /\ work' \in [Handled' -> Place]
        /\ \A j \in Handled' : j # i => work'[j] = work[j]
        BY <1>4, IsDone
  <2>2. checkout = "member" => missed'
        BY <1>4
  <2>3. Owed'
        BY <1>1, <1>2, <1>4, <2>1, <2>2, StageOf, OwedKeeps
  <2> QED
      BY <1>1, <1>2, <1>4, <2>1, <2>3, StageOf, HandlerKeeps
<1> QED
    BY <1>3, <1>4 DEF FindUser

LEMMA GetSubStep ==
    ASSUME BillingInv, NEW i \in Handled, GetSub(i)
    PROVE  BillingInv'
<1>1. /\ work[i].at = "sub" /\ work' = [work EXCEPT ![i].at = "save", ![i].saw = (row # "none")]
      /\ user' = user /\ row' = row /\ quota' = quota /\ failed' = failed /\ missed' = missed
      /\ UNCHANGED <<outside, inbox, requests, order, bounds, emptied, cut>>
      BY DEF GetSub, tables, marks
<1>2. work \in [Handled -> Place]
      BY Known DEF BillingInv
<1>3. /\ Handled' = Handled /\ work' \in [Handled' -> Place] /\ work'[i].at = "save"
      /\ work'[i].saw = (row # "none")
      /\ \A j \in Handled' : j # i => work'[j] = work[j]
  <2>1. Handled' = Handled
        BY <1>1 DEF Handled
  <2> QED
      BY <1>1, <1>2, <2>1 DEF Place, Statements
<1>4. (i = 1 \/ i = 2) /\ user # "none"
      BY <1>1, StageOf
<1>5. Owed'
  <2>1. row' # "none" => work'[i].saw
    <3>1. work'[i].saw = (row # "none") /\ row' = row
          BY <1>1, <1>3
    <3> QED
        BY <3>1, Zenon
  <2> QED
      BY <1>1, <1>3, <1>4, <2>1, OwedKeeps
<1>6. work'[i].saw => row' # "none"
  <2>1. work'[i].saw = (row # "none") /\ row' = row
        BY <1>1, <1>3
  <2> QED
      BY <2>1, Zenon
<1>7. Handled' = Handled /\ work' \in [Handled' -> Place] /\ work'[i].at = "save"
      /\ \A j \in Handled' : j # i => work'[j] = work[j]
      BY <1>3
<1> QED
    BY <1>1, <1>4, <1>5, <1>6, <1>7, StageOf, HandlerKeeps

LEMMA SaveSubStep ==
    ASSUME BillingInv, NEW i \in Handled, SaveSub(i)
    PROVE  BillingInv'
<1> DEFINE ok == work[i].saw \/ row = "none"
<1>1. /\ work[i].at = "save" /\ row' = (IF ok THEN "active" ELSE row) /\ AfterSub(i, ok)
      /\ user' = user /\ quota' = quota /\ failed' = failed /\ missed' = missed
      /\ UNCHANGED <<outside, inbox, requests, order, bounds, emptied, cut>>
      BY DEF SaveSub, marks
<1>2. (i = 1 \/ i = 2) /\ user # "none" /\ row' \in Status /\ row' # "none" /\ "quota" \in Statements
      BY <1>1, StageOf DEF Status, Statements
<1>3. CASE (i = 2 \/ (checkout = "guest" /\ ok)) /\ Goto(i, "quota")
  <2>1. /\ Handled' = Handled /\ work' \in [Handled' -> Place] /\ work'[i].at = "quota"
        /\ \A j \in Handled' : j # i => work'[j] = work[j]
        BY <1>2, <1>3, MovesOn
  <2>2. Owed'
        BY <1>1, <1>2, <1>3, <2>1, OwedKeeps
  <2> QED
      BY <1>1, <1>2, <1>3, <2>1, <2>2, StageOf, HandlerKeeps
<1>4. CASE i = 1 /\ (checkout # "guest" \/ ~ok) /\ End(i)
  <2>1. /\ Handled' = Handled \ {i} /\ i \notin Handled' /\ work' \in [Handled' -> Place]
        /\ \A j \in Handled' : j # i => work'[j] = work[j]
        BY <1>4, IsDone
  <2>2. checkout = "guest" => failed \/ Paid' \/ Pending(2)
    <3>1. SUFFICES ASSUME checkout = "guest", ~failed
                   PROVE  Paid \/ Pending(2)
          BY <1>1 DEF Paid
    <3>2. row # "none" /\ ~work[1].saw /\ work[1].at = "save" /\ 1 \notin inbox /\ sent # <<>>
          BY <1>1, <1>4, <3>1, StageOf, Known DEF BillingInv
    <3> QED
        BY <3>1, <3>2 DEF BillingInv, Owed
  <2>3. Owed'
        BY <1>1, <1>2, <1>4, <2>1, <2>2, OwedKeeps
  <2> QED
      BY <1>1, <1>2, <1>4, <2>1, <2>3, StageOf, HandlerKeeps
<1>5. \/ (i = 2 \/ (checkout = "guest" /\ ok)) /\ Goto(i, "quota")
      \/ i = 1 /\ (checkout # "guest" \/ ~ok) /\ End(i)
  <2>1. i = 2 <=> sent[i].type = "subscription.created"
        BY StageOf
  <2> QED
      BY <1>1, <1>2, <2>1 DEF AfterSub
<1> QED
    BY <1>3, <1>4, <1>5

LEMMA UpsertQuotaStep ==
    ASSUME BillingInv, NEW i \in Handled, UpsertQuota(i)
    PROVE  BillingInv'
<1>1. /\ work[i].at = "quota" /\ quota' = "full" /\ End(i)
      /\ user' = user /\ row' = row /\ failed' = failed /\ missed' = missed
      /\ UNCHANGED <<outside, inbox, requests, order, bounds, emptied, cut>>
      BY DEF UpsertQuota, marks
<1>2. (i = 1 \/ i = 2) /\ Paid' /\ (failed \/ row # "none")
      BY <1>1, StageOf DEF Paid
<1>3. /\ Handled' = Handled \ {i} /\ i \notin Handled' /\ work' \in [Handled' -> Place]
      /\ \A j \in Handled' : j # i => work'[j] = work[j]
      BY <1>1, IsDone
<1>4. Owed'
      BY <1>1, <1>2, <1>3, OwedKeeps
<1> QED
    BY <1>1, <1>2, <1>3, <1>4, StageOf, HandlerKeeps

LEMMA GetByStripeIDStep ==
    ASSUME BillingInv, NEW i \in Handled, GetByStripeID(i)
    PROVE  BillingInv'
<1>1. /\ work[i].at = "byid" /\ (IF row = "none" THEN End(i) ELSE Goto(i, "status"))
      /\ user' = user /\ row' = row /\ quota' = quota /\ failed' = failed /\ missed' = missed
      /\ UNCHANGED <<outside, inbox, requests, order, bounds, emptied, cut>>
      BY DEF GetByStripeID, tables, marks
<1>2. i > 2 /\ "status" \in Statements
      BY <1>1, StageOf DEF Statements
<1>3. CASE row = "none" /\ End(i)
  <2>1. /\ Handled' = Handled \ {i} /\ i \notin Handled' /\ work' \in [Handled' -> Place]
        /\ \A j \in Handled' : j # i => work'[j] = work[j]
        BY <1>3, IsDone
  <2>2. Owed'
        BY <1>1, <1>2, <2>1, OwedKeeps
  <2> QED
      BY <1>1, <1>2, <2>1, <2>2, StageOf, HandlerKeeps
<1>4. CASE row # "none" /\ Goto(i, "status")
  <2>1. /\ Handled' = Handled /\ work' \in [Handled' -> Place] /\ work'[i].at = "status"
        /\ \A j \in Handled' : j # i => work'[j] = work[j]
        BY <1>2, <1>4, MovesOn
  <2>2. Owed'
        BY <1>1, <1>2, <2>1, OwedKeeps
  <2> QED
      BY <1>1, <1>2, <1>4, <2>1, <2>2, StageOf, HandlerKeeps
<1> QED
    BY <1>1, <1>3, <1>4

LEMMA SaveStatusStep ==
    ASSUME BillingInv, NEW i \in Handled, SaveStatus(i)
    PROVE  BillingInv'
<1>1. /\ work[i].at = "status" /\ row' = sent[i].status /\ End(i)
      /\ user' = user /\ quota' = quota /\ failed' = failed /\ missed' = missed
      /\ UNCHANGED <<outside, inbox, requests, order, bounds, emptied, cut>>
      BY DEF SaveStatus, marks
<1>2. i > 2 /\ row # "none" /\ row' \in Status /\ row' # "none" /\ user # "none"
      BY <1>1, StageOf DEF Status
<1>3. /\ Handled' = Handled \ {i} /\ i \notin Handled' /\ work' \in [Handled' -> Place]
      /\ \A j \in Handled' : j # i => work'[j] = work[j]
      BY <1>1, IsDone
<1>4. Owed'
      BY <1>1, <1>2, <1>3, OwedKeeps
<1> QED
    BY <1>1, <1>2, <1>3, <1>4, StageOf, HandlerKeeps

LEMMA FailsStep ==
    ASSUME BillingInv, NEW i \in Handled, Fails(i)
    PROVE  BillingInv'
<1>1. /\ failed' = TRUE /\ user' = user /\ row' = row /\ quota' = quota /\ missed' = missed
      /\ UNCHANGED <<outside, inbox, requests, order, bounds, emptied, cut>>
      BY DEF Fails, tables
<1>2. Owed'
      BY <1>1 DEF Owed
<1>3. CASE i = 2 /\ work[i].at \in {"sub", "save"} /\ Goto(i, "quota")
  <2>1. user # "none" /\ "quota" \in Statements
        BY <1>3, StageOf DEF Statements
  <2>2. /\ Handled' = Handled /\ work' \in [Handled' -> Place] /\ work'[i].at = "quota"
        /\ \A j \in Handled' : j # i => work'[j] = work[j]
        BY <1>3, <2>1, MovesOn
  <2> QED
      BY <1>1, <1>2, <1>3, <2>1, <2>2, StageOf, HandlerKeeps
<1>4. CASE End(i)
  <2>1. /\ Handled' = Handled \ {i} /\ i \notin Handled' /\ work' \in [Handled' -> Place]
        /\ \A j \in Handled' : j # i => work'[j] = work[j]
        BY <1>4, IsDone
  <2> QED
      BY <1>1, <1>2, <2>1, StageOf, HandlerKeeps
<1>5. i = 2 <=> sent[i].type = "subscription.created"
      BY StageOf
<1> QED
    BY <1>3, <1>4, <1>5 DEF Fails

-------------------------------------------------------------------------------
(* Requests of the user and of an administrator *)

\* A request moves no event: what the books need is that nothing paid or written is lost.
LEMMA RequestKeeps ==
    ASSUME BillingInv,
           UNCHANGED <<outside, inbox, work, order, bounds, failed, missed>>,
           user' = user \/ (user = "none" /\ user' = "registered"),
           row' \in Status \cup {"none"}, row' = "none" <=> row = "none",
           quota' \in {"none", "empty", "full"}, register' \in {"idle", "save"},
           login' \in {"idle", "sub", "save"}, admin' \in {"idle", "save"},
           admin' = "save" => row' # "none", emptied' \in BOOLEAN, cut' \in BOOLEAN,
           Paid => Paid'
    PROVE  BillingInv'
<1>1. BillingTypeOK /\ Feed /\ Stages /\ Owed
      BY DEF BillingInv
<1>2. /\ checkout' = checkout /\ stripe' = stripe /\ sent' = sent /\ inbox' = inbox /\ work' = work
      /\ newest' = newest /\ overtaken' = overtaken /\ again' = again /\ crashes' = crashes
      /\ failed' = failed /\ missed' = missed /\ Changes' = Changes /\ Handled' = Handled
      BY DEF outside, order, bounds, Changes, Handled
<1>3. BillingTypeOK'
  <2>1. /\ inbox' \subseteq DOMAIN sent' /\ DOMAIN work' \subseteq DOMAIN sent' \ inbox'
        /\ work' \in [DOMAIN work' -> [at : Statements, saw : BOOLEAN]]
        BY <1>1, <1>2 DEF BillingTypeOK
  <2>2. user' \in {"none", "registered", "guest"}
        BY <1>1 DEF BillingTypeOK
  <2> QED
      BY <1>1, <1>2, <2>1, <2>2 DEF BillingTypeOK
<1>4. Feed'
  <2>1. DOMAIN sent' = DOMAIN sent
        BY <1>2
  <2>2. checkout = "member" => user' = user
        BY <1>1 DEF Feed
  <2>3. row' # "none" => user' # "none"
        BY <1>1 DEF Feed
  <2> QED
      BY <1>1, <1>2, <2>1, <2>2, <2>3 DEF Feed
<1>5. Stages'
  <2>1. user # "none" => user' # "none"
        OBVIOUS
  <2> QED
      BY <1>1, <1>2, <2>1 DEF Stages
<1>6. Owed'
      BY <1>1, <1>2 DEF Owed, Pending
<1> QED
    BY <1>3, <1>4, <1>5, <1>6 DEF BillingInv

LEMMA RegisterStep ==
    ASSUME BillingInv, RegisterUser \/ RegisterQuota
    PROVE  BillingInv'
<1>1. /\ user \in {"none", "registered", "guest"} /\ row \in Status \cup {"none"}
      /\ quota \in {"none", "empty", "full"} /\ login \in {"idle", "sub", "save"}
      /\ admin \in {"idle", "save"} /\ emptied \in BOOLEAN /\ cut \in BOOLEAN
      /\ admin = "save" => row # "none"
      BY DEF BillingInv, BillingTypeOK, Feed
<1>2. CASE RegisterUser
  <2>1. /\ user = "none" /\ user' = "registered" /\ register' = "save" /\ row' = row /\ quota' = quota
        /\ login' = login /\ admin' = admin /\ emptied' = emptied /\ cut' = cut
        /\ UNCHANGED <<outside, inbox, work, order, bounds, failed, missed>>
        BY <1>2 DEF RegisterUser, marks
  <2>2. Paid => Paid'
        BY <2>1 DEF Paid
  <2> QED
      BY <1>1, <2>1, <2>2, RequestKeeps
<1>3. CASE RegisterQuota
  <2>1. /\ user' = user /\ row' = row /\ register' = "idle" /\ login' = login /\ admin' = admin /\ cut' = cut
        /\ UNCHANGED <<outside, inbox, work, order, bounds, failed, missed>>
        BY <1>3 DEF RegisterQuota
  <2>2. \/ quota' = "empty" /\ emptied' = (emptied \/ quota = "full")
        \/ quota' = quota /\ emptied' = emptied
        BY <1>3 DEF RegisterQuota
  <2>3. Paid => Paid'
        BY <2>2, Zenon DEF Paid
  <2>4. quota' \in {"none", "empty", "full"} /\ emptied' \in BOOLEAN
        BY <1>1, <2>2
  <2> QED
      BY <1>1, <2>1, <2>3, <2>4, RequestKeeps
<1> QED
    BY <1>2, <1>3

LEMMA LoginStep ==
    ASSUME BillingInv, LoginQuota \/ LoginSub \/ LoginSave
    PROVE  BillingInv'
<1>1. /\ user \in {"none", "registered", "guest"} /\ row \in Status \cup {"none"}
      /\ quota \in {"none", "empty", "full"} /\ register \in {"idle", "save"}
      /\ admin \in {"idle", "save"} /\ emptied \in BOOLEAN /\ cut \in BOOLEAN
      /\ admin = "save" => row # "none"
      BY DEF BillingInv, BillingTypeOK, Feed
<1>2. /\ user' = user /\ row' = row /\ register' = register /\ admin' = admin
      /\ emptied' = emptied /\ cut' = cut
      /\ UNCHANGED <<outside, inbox, work, order, bounds, failed, missed>>
      BY DEF LoginQuota, LoginSub, LoginSave, tables, marks
<1>3. login' \in {"idle", "sub", "save"} /\ quota' \in {quota, "full"}
      BY DEF LoginQuota, LoginSub, LoginSave, tables
<1>4. Paid => Paid'
      BY <1>2, <1>3 DEF Paid
<1> QED
    BY <1>1, <1>2, <1>3, <1>4, RequestKeeps

LEMMA AdminStep ==
    ASSUME BillingInv, AdminCancelNow \/ AdminSave
    PROVE  BillingInv'
<1>1. /\ user \in {"none", "registered", "guest"} /\ row \in Status \cup {"none"}
      /\ quota \in {"none", "empty", "full"} /\ register \in {"idle", "save"}
      /\ login \in {"idle", "sub", "save"} /\ emptied \in BOOLEAN /\ cut \in BOOLEAN
      /\ admin = "save" => row # "none"
      BY DEF BillingInv, BillingTypeOK, Feed
<1>2. /\ user' = user /\ quota' = quota /\ register' = register /\ login' = login
      /\ emptied' = emptied
      /\ UNCHANGED <<outside, inbox, work, order, bounds, failed, missed>>
      BY DEF AdminCancelNow, AdminSave, tables, marks
<1>3. \/ row # "none" /\ row' = row /\ admin' = "save" /\ cut' = cut
      \/ row # "none" /\ row' = "canceled" /\ admin' = "idle" /\ cut' = TRUE
      BY <1>1 DEF AdminCancelNow, AdminSave, tables, marks
<1>4. Paid => Paid'
      BY <1>2 DEF Paid
<1> QED
    BY <1>1, <1>2, <1>3, <1>4, RequestKeeps DEF Status

-------------------------------------------------------------------------------
(* The theorems *)

LEMMA InitInv ==
    ASSUME BillingInit
    PROVE  BillingInv
<1>1. sent = <<>> /\ work = <<>> /\ inbox = {} /\ row = "none" /\ stripe = "none" /\ admin = "idle"
      BY DEF BillingInit
<1>2. DOMAIN sent = {} /\ DOMAIN work = {} /\ work \in [{} -> Place] /\ sent \in Seq(Events)
  <2>1. <<>> \in Seq(Place) /\ Len(<<>>) = 0 /\ <<>> \in Seq(Events)
        BY EmptySeq
  <2>2. <<>> \in [1 .. 0 -> Place]
        BY <2>1, LenProperties
  <2>3. DOMAIN <<>> = 1 .. 0 /\ 1 .. 0 = {}
        BY <2>2
  <2> QED
      BY <1>1, <2>1, <2>2, <2>3
<1>3. Changes = 0 /\ newest = 0
      BY <1>1 DEF Changes, BillingInit
<1>4. BillingTypeOK
  <2>1. /\ sent \in Seq([type : Types, status : Status, change : 1 .. MaxChanges + 1])
        /\ work \in [DOMAIN work -> [at : Statements, saw : BOOLEAN]]
        BY <1>1, <1>2 DEF Events, Place
  <2>2. again \in 0 .. MaxAgain /\ crashes \in 0 .. MaxCrashes /\ newest \in 0 .. Changes
        BY <1>3, BillingConstants DEF BillingInit
  <2>3. inbox \subseteq DOMAIN sent /\ DOMAIN work \subseteq DOMAIN sent \ inbox
        BY <1>1, <1>2
  <2>4. /\ checkout \in {"guest", "member"} /\ user \in {"none", "registered", "guest"}
        /\ quota \in {"none", "empty", "full"}
        /\ register \in {"idle", "save"} /\ login \in {"idle", "sub", "save"}
        /\ failed \in BOOLEAN /\ emptied \in BOOLEAN /\ missed \in BOOLEAN /\ cut \in BOOLEAN
        /\ overtaken \in BOOLEAN
        BY DEF BillingInit
  <2> QED
      BY <1>1, <2>1, <2>2, <2>3, <2>4 DEF BillingTypeOK
<1>5. Feed
      BY <1>1, <1>2 DEF BillingInit, Feed
<1>6. Stages /\ Owed
      BY <1>1, <1>2 DEF Stages, Owed, Handled
<1> QED
    BY <1>4, <1>5, <1>6 DEF BillingInv

LEMMA NextInv ==
    ASSUME BillingInv, [BillingNext]_vars
    PROVE  BillingInv'
<1>1. CASE Pay
      BY <1>1, PayStep
<1>2. CASE (\E s \in Status : Change(s)) \/ AdminCancelAtEnd
      BY <1>2, LaterStep
<1>3. ASSUME NEW i \in Handled, Handle(i)
      PROVE  BillingInv'
      BY <1>3, LookUpStep, CreateUserStep, FindUserStep, GetSubStep, SaveSubStep, UpsertQuotaStep,
         GetByStripeIDStep, SaveStatusStep DEF Handle
<1>4. CASE \E i \in inbox : Deliver(i)
      BY <1>4, DeliverStep
<1>5. CASE Requests
      BY <1>2, <1>5, RegisterStep, LoginStep, AdminStep DEF Requests
<1>6. CASE Crash
      BY <1>6, CrashStep
<1>7. CASE \E i \in DOMAIN sent : DeliverAgain(i)
      BY <1>7, AgainStep
<1>8. CASE \E i \in Handled : Fails(i)
      BY <1>8, FailsStep
<1>9. CASE UNCHANGED vars
      BY <1>9 DEF vars, outside, tables, requests, order, bounds, marks, BillingInv, BillingTypeOK,
         Feed, Stages, Owed, Pending, Paid, Changes, Handled
<1> QED
    BY <1>1, <1>2, <1>3, <1>4, <1>5, <1>6, <1>7, <1>8, <1>9 DEF BillingNext, Server

\* Every step of Stripe, of the webhook handlers and of the requests beside them keeps the
\* books: what is still missing of a purchase is owed by an event that is still to come or
\* being handled, through lost races for a row, restarts and repeated deliveries.
THEOREM BillingInvariant == BillingSpec => []BillingInv
<1>1. BillingInit => BillingInv
      BY InitInv
<1>2. BillingInv /\ [BillingNext]_vars => BillingInv'
      BY NextInv
<1> QED
    BY <1>1, <1>2, PTL DEF BillingSpec

\* webhook.go:148, 404: when every event is answered and no statement failed, whoever paid
\* has a user, a subscription and the quota, but for the exceptions Provisioned names.
THEOREM WhoeverPaidIsProvisioned == BillingSpec => []Provisioned
<1>1. BillingInv => Provisioned
  <2> SUFFICES ASSUME BillingInv, Quiet, ~failed, stripe # "none"
               PROVE  /\ user # "none" /\ row # "none"
                      /\ quota = "full" \/ emptied \/ (checkout = "member" /\ missed)
      BY DEF Provisioned
  <2>1. sent # <<>> /\ (row # "none" => user # "none") /\ checkout \in {"guest", "member"}
        BY DEF BillingInv, Feed, BillingTypeOK
  <2>2. ~Pending(1) /\ ~Pending(2) /\ 1 \notin inbox /\ 1 \notin Handled
        BY DEF Quiet, Pending
  <2>3. /\ row # "none"
        /\ checkout = "member" => missed \/ Paid
        /\ checkout = "guest" => Paid
        BY <2>1, <2>2 DEF BillingInv, Owed
  <2> QED
      BY <2>1, <2>3 DEF Paid
<1>2. BillingSpec => []BillingInv
      BY BillingInvariant
<1> QED
    BY <1>1, <1>2, PTL

-------------------------------------------------------------------------------
(* The row follows Stripe *)

\* A change at Stripe: its events have one status and a number of their own.
LEMMA AgreeEmit ==
    ASSUME BillingInv, Agreement, NEW events \in Seq(Events), events # <<>>, Emit(events),
           NEW s \in Status, stripe' = s, UNCHANGED <<work, row, newest, overtaken, failed, cut>>,
           \A k \in 1 .. Len(events) : events[k].status = s /\ events[k].change = Changes + 1,
           sent = <<>> => Len(events) = 2 /\ s = "active"
    PROVE  Agreement'
<1>1. BillingTypeOK /\ Feed /\ Statuses /\ InStep
      BY DEF BillingInv, Agreement
<1>2. /\ Len(sent) \in Nat /\ DOMAIN sent = 1 .. Len(sent) /\ inbox \subseteq 1 .. Len(sent)
      /\ Handled \subseteq 1 .. Len(sent) /\ Changes \in Nat /\ sent \in Seq(Events)
      BY <1>1, Known
<1>3. /\ Len(sent') = Len(sent) + Len(events) /\ Len(events) \in Nat /\ Len(events) >= 1
      /\ DOMAIN sent' = 1 .. Len(sent')
      /\ \A i \in 1 .. Len(sent) : sent'[i] = sent[i]
      /\ \A i \in Len(sent) + 1 .. Len(sent') : sent'[i] = events[i - Len(sent)]
      /\ inbox' = inbox \cup (Len(sent) + 1 .. Len(sent'))
      BY <1>1, Emits
<1>4. \A i \in Len(sent) + 1 .. Len(sent') : sent'[i].status = s /\ sent'[i].change = Changes + 1
  <2>1. \A i \in Len(sent) + 1 .. Len(sent') : i - Len(sent) \in 1 .. Len(events)
        BY <1>2, <1>3
  <2> QED
      BY <1>3, <2>1
<1>5. \A i \in 1 .. Len(sent) : sent[i].change \in Nat /\ sent[i].change <= Changes
      BY <1>1, <1>2, EventOf DEF Feed
<1>6. newest \in Nat /\ newest <= Changes /\ newest' = newest /\ row' = row /\ work' = work
      BY <1>1, <1>2 DEF BillingTypeOK
<1>7. Handled' = Handled
      BY <1>6 DEF Handled
<1>8. \A i \in DOMAIN sent' : i \in 1 .. Len(sent) \/ i \in Len(sent) + 1 .. Len(sent')
      BY <1>2, <1>3
<1>9. sent # <<>> => Len(sent) >= 2 /\ Changes >= 1
  <2>1. SUFFICES ASSUME sent # <<>> PROVE Changes >= 1
        BY <1>1 DEF Feed
  <2>2. Len(sent) \in 1 .. Len(sent)
        BY <1>1, <1>2, <2>1 DEF Feed
  <2> QED
      BY <1>1, <2>1, <2>2, EventOf DEF Changes
<1>10. sent = <<>> => Len(sent) = 0 /\ Changes = 0
       BY EmptySeq DEF Changes
<1>11. Statuses'
  <2>1. sent'[Len(sent')].status = stripe'
    <3>1. Len(sent') \in Len(sent) + 1 .. Len(sent')
          BY <1>2, <1>3
    <3> QED
        BY <1>4, <3>1
  <2>2. ASSUME NEW i \in DOMAIN sent'
        PROVE  (sent'[i].change = 1 <=> i <= 2) /\ (i <= 2 => sent'[i].status = "active")
    <3>1. CASE i \in 1 .. Len(sent)
          BY <1>1, <1>2, <1>3, <3>1 DEF Statuses
    <3>2. CASE i \in Len(sent) + 1 .. Len(sent')
          BY <1>2, <1>3, <1>4, <1>9, <1>10, <3>2
    <3> QED
        BY <1>8, <3>1, <3>2
  <2>3. ASSUME NEW i \in DOMAIN sent', NEW k \in DOMAIN sent', sent'[k].change = sent'[i].change
        PROVE  sent'[k].status = sent'[i].status
    <3>1. CASE i \in 1 .. Len(sent) /\ k \in 1 .. Len(sent)
          BY <1>1, <1>2, <1>3, <2>3, <3>1 DEF Statuses
    <3>2. CASE i \in Len(sent) + 1 .. Len(sent') /\ k \in Len(sent) + 1 .. Len(sent')
          BY <1>4, <3>2
    <3>3. (i \in 1 .. Len(sent)) <=> (k \in 1 .. Len(sent))
          BY <1>2, <1>3, <1>4, <1>5, <1>8, <2>3
    <3> QED
        BY <1>8, <3>1, <3>2, <3>3
  <2> QED
      BY <2>1, <2>2, <2>3 DEF Statuses
<1>12. ASSUME NEW i \in DOMAIN sent'
       PROVE  i \in inbox' \/ sent'[i].change <= newest'
       BY <1>2, <1>3, <1>6, <1>8 DEF Agreement
<1>13. InStep'
  <2> SUFFICES ASSUME ~overtaken
               PROVE  /\ \A i \in Handled : sent'[i].change = newest
                      /\ ~failed /\ ~cut =>
                            \A i \in DOMAIN sent' : sent'[i].change = newest =>
                                \/ row \in {"none", sent'[i].status}
                                \/ \E k \in DOMAIN sent' : k > 2 /\ Pending(k)' /\ sent'[k].change = newest
      BY <1>6, <1>7 DEF InStep
  <2>1. \A i \in Handled : sent'[i].change = newest
        BY <1>1, <1>2, <1>3 DEF InStep
  <2>2. ASSUME ~failed, ~cut, NEW i \in DOMAIN sent', sent'[i].change = newest
        PROVE  \/ row \in {"none", sent'[i].status}
               \/ \E k \in DOMAIN sent' : k > 2 /\ Pending(k)' /\ sent'[k].change = newest
    <3>1. i \in 1 .. Len(sent) /\ sent'[i] = sent[i]
          BY <1>2, <1>3, <1>4, <1>6, <1>8, <2>2
    <3>2. \/ row \in {"none", sent[i].status}
          \/ \E k \in DOMAIN sent : k > 2 /\ Pending(k) /\ sent[k].change = newest
          BY <1>1, <1>2, <2>2, <3>1 DEF InStep
    <3>3. ASSUME NEW k \in DOMAIN sent, Pending(k)
          PROVE  k \in DOMAIN sent' /\ Pending(k)' /\ sent'[k] = sent[k]
          BY <1>2, <1>3, <1>7, <3>3 DEF Pending
    <3> QED
        BY <3>1, <3>2, <3>3
  <2> QED
      BY <2>1, <2>2
<1>14. newest' = 0 => row' = "none"
       BY <1>6 DEF Agreement
<1> QED
    BY <1>11, <1>12, <1>13, <1>14 DEF Agreement

LEMMA AgreePay ==
    ASSUME BillingInv, Agreement, Pay
    PROVE  Agreement'
<1> DEFINE events == <<Event("checkout.completed", "active", 1), Event("subscription.created", "active", 1)>>
<1>1. events \in Seq(Events) /\ Len(events) = 2 /\ events # <<>>
      BY BillingConstants DEF Events, Event, Types, Status
<1>2. /\ events[1].status = "active" /\ events[2].status = "active"
      /\ events[1].change = 1 /\ events[2].change = 1
      BY DEF Event
<1>3. Changes = 0
      BY DEF Pay, BillingInv, Feed, Changes
<1>4. /\ Emit(events) /\ stripe' = "active" /\ "active" \in Status
      /\ UNCHANGED <<work, row, newest, overtaken, failed, cut>>
      BY DEF Pay, Status, tables, order, marks
<1> HIDE DEF events
<1>5. \A k \in 1 .. Len(events) : events[k].status = "active" /\ events[k].change = Changes + 1
      BY <1>1, <1>2, <1>3
<1> QED
    BY <1>1, <1>4, <1>5, AgreeEmit

LEMMA AgreeLater ==
    ASSUME BillingInv, Agreement, NEW s \in Status, Change(s) \/ (s = stripe /\ AdminCancelAtEnd)
    PROVE  Agreement'
<1>1. BillingTypeOK /\ Feed /\ Changes \in Nat
      BY Known DEF BillingInv
<1> DEFINE c == Changes + 1
<1>2. c \in 1 .. MaxChanges + 1 /\ sent # <<>>
  <2>1. c <= MaxChanges + 1 /\ stripe \in {"active", "past_due"}
        BY DEF Change, AdminCancelAtEnd
  <2> QED
      BY <1>1, <2>1, BillingConstants DEF Feed
<1>3. /\ stripe' = s /\ UNCHANGED <<work, row, newest, overtaken, failed, cut>>
      /\ \/ \E t \in {"subscription.updated", "subscription.deleted"} : Emit(<<Event(t, s, c)>>)
         \/ Emit(<<Event("payment_failed", s, c), Event("subscription.updated", s, c)>>)
      BY DEF Change, AdminCancelAtEnd, Status, tables, order, marks
<1>4. ASSUME NEW t \in {"subscription.updated", "subscription.deleted"}, Emit(<<Event(t, s, c)>>)
      PROVE  Agreement'
  <2> DEFINE events == <<Event(t, s, c)>>
  <2>1. /\ events \in Seq(Events) /\ Len(events) = 1 /\ events # <<>>
        /\ events[1].status = s /\ events[1].change = c
        BY <1>2 DEF Events, Event, Types
  <2>2. Emit(events)
        BY <1>4
  <2> HIDE DEF events
  <2>3. \A k \in 1 .. Len(events) : events[k].status = s /\ events[k].change = Changes + 1
        BY <2>1
  <2> QED
      BY <1>2, <1>3, <2>1, <2>2, <2>3, AgreeEmit
<1>5. ASSUME Emit(<<Event("payment_failed", s, c), Event("subscription.updated", s, c)>>)
      PROVE  Agreement'
  <2> DEFINE events == <<Event("payment_failed", s, c), Event("subscription.updated", s, c)>>
  <2>1. /\ events \in Seq(Events) /\ Len(events) = 2 /\ events # <<>>
        /\ events[1].status = s /\ events[1].change = c
        /\ events[2].status = s /\ events[2].change = c
        BY <1>2 DEF Events, Event, Types
  <2>2. Emit(events)
        BY <1>5
  <2> HIDE DEF events
  <2>3. \A k \in 1 .. Len(events) : events[k].status = s /\ events[k].change = Changes + 1
        BY <2>1
  <2> QED
      BY <1>2, <1>3, <2>1, <2>2, <2>3, AgreeEmit
<1> HIDE DEF c
<1> QED
    BY <1>3, <1>4, <1>5

\* The delivery of an older event, or of a newer one beside others, is the exception that
\* StatusAgrees names; a newer one alone is what the row has to follow from now on.
LEMMA AgreeDeliver ==
    ASSUME BillingInv, Agreement, NEW i \in inbox, Deliver(i)
    PROVE  Agreement'
<1>1. BillingTypeOK /\ Feed /\ Statuses /\ InStep
      BY DEF BillingInv, Agreement
<1>2. /\ DOMAIN sent = 1 .. Len(sent) /\ Len(sent) \in Nat /\ inbox \subseteq DOMAIN sent
      /\ Handled \subseteq DOMAIN sent /\ Changes \in Nat
      BY <1>1, Known
<1> DEFINE c == sent[i].change
<1>3. /\ c \in Nat /\ \A k \in DOMAIN sent : sent[k].change \in Nat
      /\ newest \in Nat
      BY <1>1, <1>2, EventOf DEF BillingTypeOK
<1>4. /\ sent' = sent /\ stripe' = stripe /\ row' = row /\ failed' = failed /\ cut' = cut
      /\ inbox' = inbox \ {i} /\ newest' = (IF c > newest THEN c ELSE newest)
      /\ overtaken' = (overtaken \/ c < newest \/ \E j \in Handled : sent[j].change < c)
      BY DEF Deliver, outside, tables, marks
<1>5. Handled' = Handled \cup {i}
  <2>1. work' = [j \in Handled \cup {i} |->
                    IF j = i THEN [at |-> First(sent[i].type), saw |-> FALSE] ELSE work[j]]
        BY DEF Deliver
  <2> QED
      BY <2>1 DEF Handled
<1> HIDE DEF c
<1>6. \A k : Pending(k)' <=> Pending(k)
      BY <1>4, <1>5 DEF Pending
<1>7. Statuses'
      BY <1>1, <1>4 DEF Statuses
<1>8. ASSUME NEW k \in DOMAIN sent'
      PROVE  k \in inbox' \/ sent'[k].change <= newest'
  <2>1. k \in inbox \/ sent[k].change <= newest
        BY <1>4 DEF Agreement
  <2> QED
      BY <1>3, <1>4, <2>1 DEF c
<1>9. ASSUME ~overtaken'
      PROVE  /\ \A k \in Handled' : sent'[k].change = newest'
             /\ ~failed' /\ ~cut' =>
                   \A e \in DOMAIN sent' : sent'[e].change = newest' =>
                       \/ row' \in {"none", sent'[e].status}
                       \/ \E k \in DOMAIN sent' : k > 2 /\ Pending(k)' /\ sent'[k].change = newest'
  <2>1. ~overtaken /\ ~(c < newest) /\ \A j \in Handled : ~(sent[j].change < c)
        BY <1>4, <1>9
  <2>2. newest' = c /\ \A j \in Handled : sent[j].change = newest
        BY <1>1, <1>3, <1>4, <2>1 DEF InStep
  <2>3. \A k \in Handled' : sent'[k].change = newest'
    <3>1. \A j \in Handled : sent[j].change = c
          BY <1>2, <1>3, <2>1, <2>2
    <3> QED
        BY <1>4, <1>5, <2>2, <3>1 DEF c
  <2>4. ASSUME ~failed, ~cut, NEW e \in DOMAIN sent, sent[e].change = c
        PROVE  \/ row \in {"none", sent[e].status}
               \/ \E k \in DOMAIN sent : k > 2 /\ Pending(k) /\ sent[k].change = c
    <3>1. CASE i > 2
      <4>1. Pending(i) /\ i \in DOMAIN sent
            BY <1>2 DEF Pending
      <4> QED
          BY <3>1, <4>1 DEF c
    <3>2. CASE i <= 2
      <4>1. c = 1
            BY <1>1, <1>2, <3>2 DEF Statuses, c
      <4>2. newest = 0 \/ newest = 1
            BY <1>3, <2>1, <4>1
      <4>3. CASE newest = 1
            BY <1>1, <2>1, <2>4, <4>1, <4>3 DEF InStep
      <4>4. CASE newest = 0
            BY <4>4 DEF Agreement
      <4> QED
          BY <4>2, <4>3, <4>4
    <3> QED
        BY <1>2, <3>1, <3>2
  <2> QED
      BY <1>4, <1>6, <2>2, <2>3, <2>4
<1>10. newest' = 0 => row' = "none"
  <2>1. newest' = 0 => newest = 0
        BY <1>3, <1>4
  <2> QED
      BY <1>4, <2>1 DEF Agreement
<1> QED
    BY <1>7, <1>8, <1>9, <1>10 DEF Agreement, InStep

\* What a statement of a handler does to its event and to the row.
LEMMA HandlerEffects ==
    ASSUME BillingInv, NEW i \in Handled, Handle(i) \/ Fails(i)
    PROVE  /\ Handled' \in {Handled, Handled \ {i}}
           /\ \/ failed'
              \/ /\ failed' = failed
                 /\ \/ row' = row /\ (i > 2 => Handled' = Handled \/ row = "none")
                    \/ row' = "active" /\ i <= 2
                    \/ row' = sent[i].status
<1>1. /\ \A s \in Statements : Goto(i, s) => Handled' = Handled
      /\ End(i) => Handled' = Handled \ {i}
      BY MovesOn, IsDone
<1>2. CASE LookUp(i)
  <2>1. i = 1 /\ row' = row /\ failed' = failed
        BY <1>2, StageOf DEF LookUp, tables, marks
  <2> QED
      BY <1>1, <1>2, <2>1 DEF LookUp, Statements
<1>3. CASE CreateUser(i)
  <2>1. i = 1 /\ row' = row
        BY <1>3, StageOf DEF CreateUser
  <2> QED
      BY <1>1, <1>3, <2>1 DEF CreateUser, Statements
<1>4. CASE FindUser(i)
  <2>1. i = 2 /\ row' = row /\ failed' = failed
        BY <1>4, StageOf DEF FindUser, tables
  <2> QED
      BY <1>1, <1>4, <2>1 DEF FindUser, Statements
<1>5. CASE GetSub(i)
  <2>1. /\ row' = row /\ failed' = failed
        /\ work' = [work EXCEPT ![i].at = "save", ![i].saw = (row # "none")]
        BY <1>5 DEF GetSub, tables, marks
  <2>2. Handled' = Handled
        BY <2>1, Known DEF Handled, BillingInv
  <2> QED
      BY <2>1, <2>2
<1>6. CASE SaveSub(i)
  <2>1. (i = 1 \/ i = 2) /\ row' \in {row, "active"} /\ failed' = failed
        BY <1>6, StageOf DEF SaveSub, marks
  <2>2. Handled' \in {Handled, Handled \ {i}}
        BY <1>1, <1>6 DEF SaveSub, AfterSub, Statements
  <2> QED
      BY <2>1, <2>2
<1>7. CASE UpsertQuota(i)
  <2>1. (i = 1 \/ i = 2) /\ row' = row /\ failed' = failed /\ End(i)
        BY <1>7, StageOf DEF UpsertQuota, marks
  <2> QED
      BY <1>1, <2>1
<1>8. CASE GetByStripeID(i)
  <2>1. row' = row /\ failed' = failed
        BY <1>8 DEF GetByStripeID, tables, marks
  <2> QED
      BY <1>1, <1>8, <2>1 DEF GetByStripeID, Statements
<1>9. CASE SaveStatus(i)
      BY <1>1, <1>9 DEF SaveStatus, marks
<1>10. CASE Fails(i)
       BY <1>1, <1>10 DEF Fails, Statements
<1> QED
    BY <1>2, <1>3, <1>4, <1>5, <1>6, <1>7, <1>8, <1>9, <1>10 DEF Handle

LEMMA EmptyWork == DOMAIN <<>> = {}
<1>1. <<>> \in Seq({}) /\ Len(<<>>) = 0
      BY EmptySeq
<1>2. DOMAIN <<>> = 1 .. 0
      BY <1>1, LenProperties
<1> QED
    BY <1>2

\* An event that comes once more, or goes back to Stripe, is still to be handled.
LEMMA AgreeReturn ==
    ASSUME BillingInv, Agreement, NEW i \in DOMAIN sent, DeliverAgain(i) \/ Crash
    PROVE  Agreement'
<1>1. BillingTypeOK /\ Statuses /\ InStep
      BY DEF BillingInv, Agreement
<1>2. /\ sent' = sent /\ stripe' = stripe /\ row' = row /\ failed' = failed /\ cut' = cut
      /\ newest' = newest /\ overtaken' = overtaken
      BY DEF DeliverAgain, Crash, outside, tables, order, marks
<1>3. /\ Handled' \subseteq Handled /\ inbox \subseteq inbox'
      /\ \A k : Pending(k) => Pending(k)'
  <2>1. CASE DeliverAgain(i)
        BY <2>1 DEF DeliverAgain, Handled, Pending
  <2>2. CASE Crash
    <3>1. inbox' = inbox \cup Handled /\ work' = <<>>
          BY <2>2 DEF Crash
    <3>2. Handled' = {}
          BY <3>1, EmptyWork DEF Handled
    <3> QED
        BY <3>1, <3>2 DEF Pending
  <2> QED
      BY <2>1, <2>2
<1>4. Statuses'
      BY <1>1, <1>2 DEF Statuses
<1>5. InStep'
      BY <1>1, <1>2, <1>3 DEF InStep
<1> QED
    BY <1>2, <1>3, <1>4, <1>5 DEF Agreement

\* A statement of a handler: those of the checkout run only while it is the newest change,
\* the others give the row the status of their own change, or find no row.
LEMMA AgreeHandler ==
    ASSUME BillingInv, Agreement, NEW i \in Handled, Handle(i) \/ Fails(i)
    PROVE  Agreement'
<1>1. BillingTypeOK /\ Feed /\ Statuses /\ InStep
      BY DEF BillingInv, Agreement
<1>2. /\ DOMAIN sent = 1 .. Len(sent) /\ Len(sent) \in Nat
      /\ Handled \subseteq DOMAIN sent /\ Handled \cap inbox = {}
      BY <1>1, Known
<1>3. /\ sent' = sent /\ stripe' = stripe /\ inbox' = inbox /\ cut' = cut
      /\ newest' = newest /\ overtaken' = overtaken
      BY DEF Handle, LookUp, CreateUser, FindUser, GetSub, SaveSub, UpsertQuota, GetByStripeID,
             SaveStatus, Fails, outside, order, marks
<1>4. /\ Handled' \in {Handled, Handled \ {i}}
      /\ \/ failed'
         \/ /\ failed' = failed
            /\ \/ row' = row /\ (i > 2 => Handled' = Handled \/ row = "none")
               \/ row' = "active" /\ i <= 2
               \/ row' = sent[i].status
      BY HandlerEffects
<1>5. sent[i].change <= newest /\ sent[i].change \in Nat /\ sent[i].change >= 1 /\ newest \in Nat
      BY <1>1, <1>2, EventOf DEF Agreement, BillingTypeOK
<1>6. ASSUME ~overtaken
      PROVE  /\ \A k \in Handled' : sent[k].change = newest
             /\ ~failed' /\ ~cut =>
                   \A e \in DOMAIN sent : sent[e].change = newest =>
                       \/ row' \in {"none", sent[e].status}
                       \/ \E k \in DOMAIN sent : k > 2 /\ Pending(k)' /\ sent[k].change = newest
  <2>1. \A k \in Handled : sent[k].change = newest
        BY <1>1, <1>6 DEF InStep
  <2>2. ASSUME ~failed', ~cut, NEW e \in DOMAIN sent, sent[e].change = newest
        PROVE  \/ row' \in {"none", sent[e].status}
               \/ \E k \in DOMAIN sent : k > 2 /\ Pending(k)' /\ sent[k].change = newest
    <3>1. sent[e].change = sent[i].change /\ sent[i].status = sent[e].status
          BY <1>1, <1>2, <2>1, <2>2 DEF Statuses
    <3>2. ~failed
          BY <1>4, <2>2
    <3>3. \/ row \in {"none", sent[e].status}
          \/ \E k \in DOMAIN sent : k > 2 /\ Pending(k) /\ sent[k].change = newest
          BY <1>1, <1>6, <2>2, <3>2 DEF InStep
    <3>4. CASE row' = sent[i].status
          BY <3>1, <3>4
    <3>5. CASE row' = "active" /\ i <= 2
      <4>1. sent[i].status = "active"
            BY <1>1, <1>2, <3>5 DEF Statuses
      <4> QED
          BY <3>1, <3>5, <4>1
    <3>6. CASE row' = row /\ i <= 2
      <4>1. sent[i].change = 1
            BY <1>1, <1>2, <3>6 DEF Statuses
      <4>2. ~ \E k \in DOMAIN sent : k > 2 /\ Pending(k) /\ sent[k].change = newest
            BY <1>1, <1>2, <2>1, <4>1 DEF Statuses
      <4> QED
          BY <3>3, <3>6, <4>2
    <3>7. CASE row' = row /\ i > 2 /\ Handled' = Handled
      <4>1. Pending(i)'
            BY <3>7 DEF Pending
      <4> QED
          BY <1>2, <2>1, <3>7, <4>1
    <3>8. CASE row' = row /\ row = "none"
          BY <3>8
    <3>9. i <= 2 \/ i > 2
          BY <1>2
    <3> QED
        BY <1>4, <2>2, <3>4, <3>5, <3>6, <3>7, <3>8, <3>9
  <2> QED
      BY <1>4, <2>1, <2>2
<1>7. Statuses'
      BY <1>1, <1>3 DEF Statuses
<1>8. InStep'
      BY <1>3, <1>6 DEF InStep
<1>9. newest' # 0
      BY <1>3, <1>5
<1> QED
    BY <1>3, <1>7, <1>8, <1>9 DEF Agreement

\* Requests beside the events change the row only to cancel it.
LEMMA AgreeRequests ==
    ASSUME BillingInv, Agreement,
           \/ RegisterUser \/ RegisterQuota \/ LoginQuota \/ LoginSub \/ LoginSave
           \/ AdminCancelNow \/ AdminSave
    PROVE  Agreement'
<1>1. Statuses /\ InStep
      BY DEF Agreement
<1>2. /\ sent' = sent /\ stripe' = stripe /\ inbox' = inbox /\ work' = work
      /\ newest' = newest /\ overtaken' = overtaken /\ failed' = failed
      BY DEF RegisterUser, RegisterQuota, LoginQuota, LoginSub, LoginSave, AdminCancelNow, AdminSave,
             outside, order, marks
<1>3. \/ row' = row /\ cut' = cut
      \/ row # "none" /\ cut'
      BY DEF RegisterUser, RegisterQuota, LoginQuota, LoginSub, LoginSave, AdminCancelNow, AdminSave,
             tables, marks, BillingInv, Feed
<1>4. Handled' = Handled /\ \A k : Pending(k)' <=> Pending(k)
      BY <1>2 DEF Handled, Pending
<1>5. Statuses' /\ InStep'
      BY <1>1, <1>2, <1>3, <1>4 DEF Statuses, InStep
<1>6. newest' = 0 => row' = "none"
      BY <1>2, <1>3 DEF Agreement
<1> QED
    BY <1>2, <1>5, <1>6 DEF Agreement

LEMMA AgreeInit ==
    ASSUME BillingInit
    PROVE  Agreement
<1>1. sent = <<>> /\ row = "none"
      BY DEF BillingInit
<1>2. DOMAIN sent = {} /\ Handled = {}
      BY EmptyWork DEF BillingInit, Handled
<1> QED
    BY <1>1, <1>2 DEF Agreement, Statuses, InStep

LEMMA AgreeNext ==
    ASSUME BillingInv, Agreement, [BillingNext]_vars
    PROVE  Agreement'
<1>1. ASSUME AdminCancelAtEnd PROVE Agreement'
  <2>1. stripe \in Status
        BY <1>1 DEF AdminCancelAtEnd, Status
  <2> QED
      BY <1>1, <2>1, AgreeLater
<1>2. ASSUME Crash PROVE Agreement'
  <2>1. CASE \E i \in DOMAIN sent : TRUE
        BY <1>2, <2>1, AgreeReturn
  <2>2. CASE DOMAIN sent = {}
    <3>1. Handled' = {} /\ DOMAIN sent' = {} /\ sent' = sent /\ newest' = newest /\ row' = row
          BY <1>2, <2>2, EmptyWork DEF Crash, Handled, outside, order, tables
    <3>2. sent = <<>>
          BY <2>2, EmptySeq, Known DEF BillingInv
    <3> QED
        BY <3>1, <3>2 DEF Agreement, Statuses, InStep
  <2> QED
      BY <2>1, <2>2
<1>3. CASE UNCHANGED vars
      BY <1>3 DEF vars, outside, tables, order, marks, Agreement, Statuses, InStep, Handled, Pending
<1> QED
    BY <1>1, <1>2, <1>3, AgreePay, AgreeLater, AgreeDeliver, AgreeReturn, AgreeHandler, AgreeRequests
    DEF BillingNext, Server, Requests

\* webhook.go:458, 519: once every event is answered, no statement failed, nobody cancelled
\* "now" and no change was handled beside or after a newer one, the row says what Stripe says.
THEOREM RowFollowsStripe == BillingSpec => []StatusAgrees
<1>1. BillingInit => Agreement
      BY AgreeInit
<1>2. BillingInv /\ Agreement /\ [BillingNext]_vars => Agreement'
      BY AgreeNext
<1>3. BillingInv /\ Agreement => StatusAgrees
  <2> SUFFICES ASSUME BillingInv, Agreement, Quiet, ~overtaken, ~failed, ~cut, stripe # "none"
               PROVE  row = stripe
      BY DEF StatusAgrees
  <2>1. /\ sent # <<>> /\ Len(sent) \in DOMAIN sent /\ sent[Len(sent)].status = stripe
        /\ sent[Len(sent)].change = Changes
    <3>1. sent # <<>> /\ Len(sent) >= 2
          BY DEF BillingInv, Feed
    <3>2. Len(sent) \in DOMAIN sent
          BY <3>1, Known DEF BillingInv
    <3> QED
        BY <3>1, <3>2 DEF Agreement, Statuses, Changes
  <2>2. inbox = {} /\ \A k : ~Pending(k)
        BY DEF Quiet, Pending
  <2>3. Changes <= newest /\ newest <= Changes /\ newest \in Nat /\ Changes \in Nat
        BY <2>1, <2>2, Known DEF Agreement, BillingInv, BillingTypeOK
  <2>4. row \in {"none", stripe}
        BY <2>1, <2>2, <2>3 DEF Agreement, InStep
  <2>5. row # "none"
        BY <2>1, <2>2 DEF BillingInv, Owed
  <2> QED
      BY <2>4, <2>5
<1> QED
    BY <1>1, <1>2, <1>3, BillingInvariant, PTL DEF BillingSpec
===============================================================================

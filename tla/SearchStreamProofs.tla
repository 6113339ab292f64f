-------------------------- MODULE SearchStreamProofs ---------------------------
(***************************************************************************)
(* The safety theorems of SearchStream, for any cities, listings, channel  *)
(* capacities and width of the semaphore.  Results wait in channels between *)
(* a goroutine and the client; the invariant says where each one is, in    *)
(* which order, and how many there are.                                    *)
(***************************************************************************)
EXTENDS SearchStream, FiniteSetTheorems, TLAPS

-------------------------------------------------------------------------------
(* Channels *)

LEMMA AppendFacts ==
    ASSUME NEW S, NEW q \in Seq(S), NEW e \in S
    PROVE  /\ Append(q, e) \in Seq(S) /\ Len(Append(q, e)) = Len(q) + 1
           /\ \A j \in 1 .. Len(q) : Append(q, e)[j] = q[j]
           /\ Append(q, e)[Len(q) + 1] = e
           /\ DOMAIN q = 1 .. Len(q) /\ DOMAIN Append(q, e) = 1 .. Len(q) + 1 /\ Len(q) \in Nat
OBVIOUS

LEMMA AppendSet ==
    ASSUME NEW S, NEW q \in Seq(S), NEW e \in S
    PROVE  ToSet(Append(q, e)) = ToSet(q) \cup {e}
<1>1. ASSUME NEW x \in ToSet(q) \cup {e}
      PROVE  x \in ToSet(Append(q, e))
  <2>1. CASE x = e
        BY <2>1, AppendFacts DEF ToSet
  <2>2. CASE x \in ToSet(q)
    <3>1. PICK j \in DOMAIN q : q[j] = x
          BY <2>2 DEF ToSet
    <3> QED
        BY <3>1, AppendFacts DEF ToSet
  <2> QED
      BY <1>1, <2>1, <2>2
<1>2. ASSUME NEW x \in ToSet(Append(q, e))
      PROVE  x \in ToSet(q) \cup {e}
  <2>1. PICK j \in 1 .. Len(q) + 1 : Append(q, e)[j] = x
        BY <1>2, AppendFacts DEF ToSet
  <2>2. CASE j = Len(q) + 1
        BY <2>1, <2>2, AppendFacts
  <2>3. CASE j \in 1 .. Len(q)
        BY <2>1, <2>3, AppendFacts DEF ToSet
  <2> QED
      BY <2>2, <2>3, AppendFacts
<1> QED
    BY <1>1, <1>2

LEMMA TailFacts ==
    ASSUME NEW S, NEW q \in Seq(S), q # <<>>
    PROVE  /\ Head(q) \in S /\ Head(q) = q[1] /\ Tail(q) \in Seq(S)
           /\ Len(q) \in Nat \ {0} /\ Len(Tail(q)) = Len(q) - 1
           /\ DOMAIN q = 1 .. Len(q) /\ DOMAIN Tail(q) = 1 .. Len(q) - 1
           /\ \A j \in 1 .. Len(q) - 1 : Tail(q)[j] = q[j + 1]
OBVIOUS

LEMMA TailSet ==
    ASSUME NEW S, NEW q \in Seq(S), q # <<>>
    PROVE  ToSet(q) = {Head(q)} \cup ToSet(Tail(q))
<1>1. ASSUME NEW x \in ToSet(q)
      PROVE  x = Head(q) \/ x \in ToSet(Tail(q))
  <2>1. PICK j \in 1 .. Len(q) : q[j] = x
        BY <1>1, TailFacts DEF ToSet
  <2>2. CASE j = 1
        BY <2>1, <2>2, TailFacts
  <2>3. CASE j # 1
    <3>1. j - 1 \in DOMAIN Tail(q) /\ Tail(q)[j - 1] = x
          BY <2>1, <2>3, TailFacts
    <3> QED
        BY <3>1 DEF ToSet
  <2> QED
      BY <2>2, <2>3
<1>2. ASSUME NEW x \in ToSet(Tail(q))
      PROVE  x \in ToSet(q)
  <2>1. PICK j \in 1 .. Len(q) - 1 : Tail(q)[j] = x
        BY <1>2, TailFacts DEF ToSet
  <2>2. j + 1 \in DOMAIN q /\ q[j + 1] = x
        BY <2>1, TailFacts
  <2> QED
      BY <2>2 DEF ToSet
<1>3. Head(q) \in ToSet(q)
      BY TailFacts DEF ToSet
<1> QED
    BY <1>1, <1>2, <1>3

LEMMA CarriedAppend ==
    ASSUME NEW q \in Seq(Events), NEW e \in Events
    PROVE  Carried(Append(q, e)) = Carried(q) \cup IF e.type = "property" THEN {e.prop} ELSE {}
BY AppendSet DEF Carried

LEMMA CarriedTail ==
    ASSUME NEW q \in Seq(Events), q # <<>>
    PROVE  Carried(q) = Carried(Tail(q)) \cup IF Head(q).type = "property" THEN {Head(q).prop} ELSE {}
BY TailSet DEF Carried

LEMMA ComingAppend ==
    ASSUME results \in Seq(Events), NEW e \in Events, results' = Append(results, e)
    PROVE  Coming' = Coming \cup IF Numbered(e) THEN {e.prop} ELSE {}
BY AppendSet DEF Coming, Numbered

LEMMA ComingTail ==
    ASSUME results \in Seq(Events), results # <<>>, results' = Tail(results)
    PROVE  Coming = Coming' \cup IF Numbered(Head(results)) THEN {Head(results).prop} ELSE {}
BY TailSet DEF Coming, Numbered

\* Events that carry a property name one.
LEMMA EventFacts ==
    ASSUME NEW e \in Events
    PROVE  /\ Numbered(e) => e.prop \in All
           /\ Numbered(e) <=> e.type \notin {"progress", "error"}
           /\ e.type \in {"property", "failed", "progress", "error"}
           /\ e = Event(e.type, e.prop)
           /\ ~Numbered(e) => e.prop = Nobody
BY DEF Events, Numbered, Event

LEMMA ListingFacts ==
    ASSUME NEW c \in Cities
    PROVE  /\ Listing[c] \in Seq(ToSet(Listing[c])) /\ Len(Listing[c]) \in Nat
           /\ Indices(c) = 1 .. Len(Listing[c])
           /\ \A i \in Indices(c) : Listing[c][i] \in All /\ Listing[c][i] \in ToSet(Listing[c]) /\ Listing[c][i] # Nobody
           /\ \A i, j \in Indices(c) : Listing[c][i] = Listing[c][j] => i = j
<1>1. Listing[c] \in Seq(ToSet(Listing[c])) /\ IsInjective(Listing[c]) /\ "none" \notin ToSet(Listing[c])
      BY SearchConstants
<1>2. Len(Listing[c]) \in Nat /\ Indices(c) = 1 .. Len(Listing[c])
      BY <1>1 DEF Indices
<1>3. \A i \in Indices(c) : Listing[c][i] \in ToSet(Listing[c])
      BY DEF Indices, ToSet
<1> QED
    BY <1>1, <1>2, <1>3 DEF All, Nobody, IsInjective, Indices

LEMMA IndexFacts ==
    ASSUME NEW c \in Cities
    PROVE  /\ Len(Listing[c]) \in Nat /\ Indices(c) = 1 .. Len(Listing[c])
           /\ \A i \in Indices(c) : i \in Nat /\ 1 <= i /\ i <= Len(Listing[c])
<1>1. Len(Listing[c]) \in Nat /\ Indices(c) = 1 .. Len(Listing[c])
      BY ListingFacts
<1> QED
    BY <1>1

LEMMA NobodyListed == Nobody \notin All
BY SearchConstants DEF All, Nobody

\* The place of a property in the listing is its index.
LEMMA PlaceFacts ==
    ASSUME NEW i \in Indices(Origin)
    PROVE  Place(Listing[Origin][i]) = i
BY ListingFacts, SearchConstants DEF Place

-------------------------------------------------------------------------------
(* Types *)

LEMMA PutType ==
    ASSUME SearchTypeOK, NEW c \in Cities, NEW e \in Events, Put(c, e)
    PROVE  /\ city' \in [Cities -> Seq(Events)] /\ \A d \in Cities : Len(city'[d]) <= CityBuffer
           /\ results' \in Seq(Events) /\ Len(results') <= Buffer
<1>1. CityBuffer \in Nat /\ Buffer \in Nat
      BY SearchConstants
<1>2. CASE fanout
  <2>1. city[c] \in Seq(Events) /\ Len(city[c]) < CityBuffer
        BY <1>2 DEF SearchTypeOK, Put
  <2>2. Append(city[c], e) \in Seq(Events) /\ Len(Append(city[c], e)) <= CityBuffer
        BY <1>1, <2>1, AppendFacts
  <2> QED
      BY <1>2, <2>2 DEF SearchTypeOK, Put
<1>3. CASE ~fanout
  <2>1. results \in Seq(Events) /\ Len(results) < Buffer
        BY <1>3 DEF SearchTypeOK, Put
  <2>2. Append(results, e) \in Seq(Events) /\ Len(Append(results, e)) <= Buffer
        BY <1>1, <2>1, AppendFacts
  <2> QED
      BY <1>3, <2>2 DEF SearchTypeOK, Put
<1> QED
    BY <1>2, <1>3

LEMMA BecomeType ==
    ASSUME SearchTypeOK, NEW c \in Cities, NEW i \in Indices(c),
           NEW w \in {"fetch", "ready", "failed"}, Become(c, i, w)
    PROVE  /\ DOMAIN worker' = Cities
           /\ \A d \in Cities : worker'[d] \in [Indices(d) -> {"none", "wait", "fetch", "ready", "failed"}]
           /\ worker'[c][i] = w
           /\ \A d \in Cities : \A j \in Indices(d) : ~(d = c /\ j = i) => worker'[d][j] = worker[d][j]
<1>1. worker' = [worker EXCEPT ![c] = [worker[c] EXCEPT ![i] = w]] /\ DOMAIN worker = Cities
      BY DEF Become, SearchTypeOK
<1>2. worker[c] \in [Indices(c) -> {"none", "wait", "fetch", "ready", "failed"}]
      BY DEF SearchTypeOK
<1>3. DOMAIN worker' = Cities /\ worker'[c] = [worker[c] EXCEPT ![i] = w]
      /\ \A d \in Cities \ {c} : worker'[d] = worker[d]
      BY <1>1
<1>4. worker'[c] \in [Indices(c) -> {"none", "wait", "fetch", "ready", "failed"}]
      BY <1>2, <1>3
<1>5. \A d \in Cities \ {c} : worker'[d] \in [Indices(d) -> {"none", "wait", "fetch", "ready", "failed"}]
      BY <1>3 DEF SearchTypeOK
<1>6. worker'[c][i] = w /\ \A j \in Indices(c) \ {i} : worker'[c][j] = worker[c][j]
      BY <1>2, <1>3
<1> QED
    BY <1>3, <1>4, <1>5, <1>6

LEMMA TypeInit == SearchInit => SearchTypeOK
<1> SUFFICES ASSUME SearchInit PROVE SearchTypeOK
    OBVIOUS
<1>1. CityBuffer \in Nat /\ Buffer \in Nat /\ \A c \in Cities : 1 \in 1 .. Len(Listing[c]) + 1
      BY IndexFacts, SearchConstants
<1>2. Len(<<>>) = 0 /\ <<>> \in Seq(Events) /\ <<>> \in Seq(All)
      OBVIOUS
<1>3. /\ city \in [Cities -> Seq(Events)] /\ results \in Seq(Events) /\ Len(results) <= Buffer
      /\ \A c \in Cities : Len(city[c]) <= CityBuffer
      BY <1>1, <1>2 DEF SearchInit
<1>4. /\ DOMAIN worker = Cities /\ next \in [Cities -> Nat]
      /\ \A c \in Cities : /\ worker[c] \in [Indices(c) -> {"none", "wait", "fetch", "ready", "failed"}]
                           /\ next[c] \in 1 .. Len(Listing[c]) + 1
      BY <1>1 DEF SearchInit
<1>5. phase \in [Cities -> {"off", "search", "first", "send", "tick", "error", "closed"}]
      BY DEF SearchInit
<1> QED
    BY <1>2, <1>3, <1>4, <1>5 DEF SearchInit, SearchTypeOK

LEMMA TypeStep == SearchTypeOK /\ Stages /\ [SearchNext]_vars => SearchTypeOK'
<1> SUFFICES ASSUME SearchTypeOK, Stages, [SearchNext]_vars PROVE SearchTypeOK'
    OBVIOUS
<1>0. /\ \A p \in All : Event("property", p) \in Events /\ Event("failed", p) \in Events
      /\ Event("progress", Nobody) \in Events /\ Event("error", Nobody) \in Events
      BY DEF Event, Events
<1>1. ASSUME NEW c \in Cities, Lists(c)
      PROVE  SearchTypeOK'
      BY <1>1 DEF Lists, SearchTypeOK, Goto, forward, output
<1>2. ASSUME NEW c \in Cities, Begin(c)
      PROVE  SearchTypeOK'
  <2>1. PICK w \in {"wait", "ready"} : worker' = [worker EXCEPT ![c] = [i \in Indices(c) |-> w]]
        BY <1>2 DEF Begin
  <2>2. /\ DOMAIN worker' = Cities
        /\ \A d \in Cities : worker'[d] \in [Indices(d) -> {"none", "wait", "fetch", "ready", "failed"}]
        BY <2>1 DEF SearchTypeOK
  <2>3. /\ city' \in [Cities -> Seq(Events)] /\ \A d \in Cities : Len(city'[d]) <= CityBuffer
        /\ results' \in Seq(Events) /\ Len(results') <= Buffer
        BY <1>0, <1>2, PutType DEF Begin
  <2> QED
      BY <1>2, <2>2, <2>3 DEF Begin, SearchTypeOK, Goto, forward, output
<1>3. ASSUME NEW c \in Cities, NEW i \in Indices(c), Acquire(c, i) \/ GiveUp(c, i) \/ Answer(c, i)
      PROVE  SearchTypeOK'
  <2>1. PICK w \in {"fetch", "ready", "failed"} : Become(c, i, w)
        BY <1>3 DEF Acquire, GiveUp, Answer
  <2>2. UNCHANGED <<fanout, phase, next, late, city, results, forward, handler, output, expired>>
        BY <1>3 DEF Acquire, GiveUp, Answer
  <2> QED
      BY <2>1, <2>2, BecomeType DEF SearchTypeOK, forward, output
<1>4. ASSUME NEW c \in Cities, SendResult(c)
      PROVE  SearchTypeOK'
  <2>1. next[c] \in Indices(c) /\ Listing[c][next[c]] \in All
        BY <1>4, ListingFacts DEF SendResult
  <2>2. PICK e \in Events : Put(c, e)
        BY <1>0, <1>4, <2>1 DEF SendResult
  <2> QED
      BY <1>4, <2>2, PutType DEF SendResult, SearchTypeOK, Goto, forward, output
<1>5. ASSUME NEW c \in Cities, SendProgress(c)
      PROVE  SearchTypeOK'
  <2>1. Put(c, Event("progress", Nobody)) /\ next' = [next EXCEPT ![c] = @ + 1] /\ phase[c] = "tick"
        BY <1>5 DEF SendProgress
  <2>2. next[c] \in 1 .. Len(Listing[c])
        BY <1>5, <2>1, IndexFacts DEF Stages
  <2>3. next' \in [Cities -> Nat] /\ \A d \in Cities : next'[d] \in 1 .. Len(Listing[d]) + 1
        BY <2>1, <2>2, IndexFacts DEF SearchTypeOK
  <2> QED
      BY <1>0, <1>5, <2>1, <2>3, PutType DEF SendProgress, SearchTypeOK, Goto, forward, output
<1>6. ASSUME NEW c \in Cities, SendError(c)
      PROVE  SearchTypeOK'
      BY <1>0, <1>6, PutType DEF SendError, SearchTypeOK, Goto, forward, output
<1>7. ASSUME NEW c \in Cities, Return(c) \/ EnrichmentTimesOut(c)
      PROVE  SearchTypeOK'
      BY <1>7 DEF Return, EnrichmentTimesOut, SearchTypeOK, Goto, forward, output
<1>8. ASSUME NEW c \in Cities, Take(c)
      PROVE  SearchTypeOK'
  <2> DEFINE e == Head(city[c])
  <2>1. city[c] \in Seq(Events) /\ city[c] # <<>> /\ city' = [city EXCEPT ![c] = Tail(@)]
        BY <1>8 DEF Take, SearchTypeOK
  <2>2. e \in Events /\ Tail(city[c]) \in Seq(Events) /\ Len(Tail(city[c])) <= Len(city[c])
        BY <2>1, TailFacts
  <2>3. city' \in [Cities -> Seq(Events)] /\ \A d \in Cities : Len(city'[d]) <= CityBuffer
        BY <2>1, <2>2, TailFacts, SearchConstants DEF SearchTypeOK
  <2>4. e.type = "property" => e.prop \in All
        BY <2>2, EventFacts DEF Numbered
  <2>5. held' \in [Cities -> All \cup {Nobody}] /\ seen' \subseteq Ids(All)
    <3>1. e.type = "property" => Id[e.prop] \in Ids(All)
          BY <2>4 DEF Ids
    <3> QED
        BY <1>8, <2>4, <3>1 DEF Take, SearchTypeOK, forward
  <2> QED
      BY <1>8, <2>3, <2>5 DEF Take, SearchTypeOK, search, output
<1>9. ASSUME NEW c \in Cities, Forward(c)
      PROVE  SearchTypeOK'
  <2>1. held[c] \in All /\ Event("property", held[c]) \in Events
        BY <1>0, <1>9 DEF Forward, SearchTypeOK
  <2>2. results' \in Seq(Events) /\ Len(results') <= Buffer
        BY <1>9, <2>1, AppendFacts, SearchConstants DEF Forward, SearchTypeOK
  <2> QED
      BY <1>9, <2>2 DEF Forward, SearchTypeOK, search, output
<1>10. ASSUME Receive
       PROVE  SearchTypeOK'
  <2> DEFINE e == Head(results)
  <2>1. results \in Seq(Events) /\ results # <<>> /\ results' = Tail(results)
        BY <1>10 DEF Receive, SearchTypeOK
  <2>2. e \in Events /\ results' \in Seq(Events) /\ Len(results') <= Buffer
        BY <2>1, TailFacts, SearchConstants DEF SearchTypeOK
  <2>3. e.type = "property" => e.prop \in All
        BY <2>2, EventFacts DEF Numbered
  <2>4. Len(Listing[Origin]) \in Nat
        BY ListingFacts, SearchConstants
  <2>5. delivered' \in Seq(All) /\ filtered' \subseteq All /\ failedCount' \in Nat /\ totalCount' \in Nat
    <3>1. CASE e.type = "property" /\ delivered' = Append(delivered, e.prop) /\ UNCHANGED filtered
      <4>1. delivered' = Append(delivered, e.prop) /\ UNCHANGED <<filtered, failedCount, totalCount>>
            BY <1>10, <3>1 DEF Receive
      <4>2. delivered' \in Seq(All)
            BY <2>3, <3>1, <4>1, AppendFacts DEF SearchTypeOK
      <4> QED
          BY <4>1, <4>2 DEF SearchTypeOK
    <3>2. CASE e.type = "property" /\ filtered' = filtered \cup {e.prop} /\ UNCHANGED delivered
          BY <1>10, <2>3, <3>2 DEF Receive, SearchTypeOK
    <3>3. CASE e.type = "failed"
          BY <1>10, <3>3 DEF Receive, SearchTypeOK
    <3>4. CASE e.type = "progress"
          BY <1>10, <2>4, <3>4 DEF Receive, SearchTypeOK
    <3>5. CASE e.type = "error"
          BY <1>10, <3>5 DEF Receive, SearchTypeOK, output
    <3>6. e.type = "property" =>
             \/ delivered' = Append(delivered, e.prop) /\ UNCHANGED filtered
             \/ filtered' = filtered \cup {e.prop} /\ UNCHANGED delivered
          BY <1>10 DEF Receive
    <3> QED
        BY <2>2, <3>1, <3>2, <3>3, <3>4, <3>5, <3>6, EventFacts
  <2> QED
      BY <1>10, <2>2, <2>5 DEF Receive, SearchTypeOK, search, forward
<1>11. ASSUME Complete \/ TimesOut \/ Expires \/ UNCHANGED vars
       PROVE  SearchTypeOK'
       BY <1>11 DEF Complete, TimesOut, Expires, SearchTypeOK, vars, search, forward, output
<1> QED
    BY <1>1, <1>2, <1>3, <1>4, <1>5, <1>6, <1>7, <1>8, <1>9, <1>10, <1>11 DEF SearchNext, Server, Searching

-------------------------------------------------------------------------------
(* Where each search stands *)

\* Once the handler has completed, no search and no forwarder has a step left.
LEMMA AllQuiet ==
    ASSUME SearchTypeOK, Stages, handler = "complete", NEW c \in Cities
    PROVE  /\ phase[c] \in {"off", "closed"} /\ held[c] = Nobody /\ results = <<>>
           /\ fanout => city[c] = <<>>
<1>1. ResultsClosed /\ results = <<>> /\ (~fanout => held[c] = Nobody) /\ (phase[c] = "off" <=> c \notin Active)
      BY DEF Stages
<1>2. fanout => Active = Cities
      BY DEF Active
<1> QED
    BY <1>1, <1>2 DEF ResultsClosed

\* A search that does anything is one of the handler's, the only one without a radius.
LEMMA Active1 ==
    ASSUME Stages, NEW c \in Cities, phase[c] # "off"
    PROVE  c \in Active /\ (~fanout => c = Origin)
BY DEF Stages, Active

LEMMA StagesInit == SearchInit => Stages
<1> SUFFICES ASSUME SearchInit PROVE Stages
    OBVIOUS
<1>1. \A c \in Cities : Indices(c) = 1 .. Len(Listing[c]) /\ Sent(c) = 1 /\ next[c] = 1 /\ held[c] = Nobody
      BY IndexFacts DEF SearchInit, Sent
<1>2. \A c \in Cities : /\ phase[c] \in {"off", "search"}
                        /\ phase[c] = "off" <=> c \notin Active
      BY DEF SearchInit, Active
<1>3. handler # "complete"
      BY DEF SearchInit
<1> QED
    BY <1>1, <1>2, <1>3 DEF Stages

\* The step of one search, or of one of its goroutines: the others stay where they are.
LEMMA StagesOne ==
    ASSUME SearchTypeOK, Stages, NEW c \in Cities, phase[c] # "off", UNCHANGED <<fanout, handler, held>>,
           phase' \in [Cities -> {"off", "search", "first", "send", "tick", "error", "closed"}],
           phase'[c] # "off",
           \A d \in Cities \ {c} : phase'[d] = phase[d] /\ next'[d] = next[d] /\ worker'[d] = worker[d],
           phase'[c] \in {"search", "first", "error"} => next'[c] = 1,
           phase'[c] = "tick" => next'[c] \in Indices(c),
           phase'[c] = "closed" => next'[c] \in {1, Len(Listing[c]) + 1},
           \A i \in Indices(c) : i < Sent(c)' => worker'[c][i] \in {"ready", "failed"},
           handler = "complete" => UNCHANGED <<phase, city, results>>
    PROVE  Stages'
<1>1. Active' = Active
      BY DEF Active
<1>2. c \in Active
      BY Active1
<1>3. \A d \in Cities \ {c} : Sent(d)' = Sent(d)
      BY DEF Sent
<1>4. handler' = "complete" => ResultsClosed' /\ results' = <<>>
  <2> SUFFICES ASSUME handler = "complete" PROVE ResultsClosed' /\ results' = <<>>
      OBVIOUS
  <2>1. ResultsClosed /\ results = <<>> /\ UNCHANGED <<phase, city, results>>
        BY DEF Stages
  <2> QED
      BY <1>1, <2>1 DEF ResultsClosed
<1>5. ASSUME NEW d \in Cities
      PROVE  /\ phase'[d] = "off" <=> d \notin Active'
             /\ phase'[d] \in {"off", "search", "first", "error"} => next'[d] = 1
             /\ phase'[d] = "tick" => next'[d] \in Indices(d)
             /\ phase'[d] = "closed" => next'[d] \in {1, Len(Listing[d]) + 1}
             /\ \A i \in Indices(d) : i < Sent(d)' => worker'[d][i] \in {"ready", "failed"}
             /\ ~fanout' => held'[d] = Nobody
  <2>1. CASE d = c
        BY <1>1, <1>2, <2>1 DEF Stages
  <2>2. CASE d # c
        BY <1>1, <1>3, <2>2 DEF Stages
  <2> QED
      BY <2>1, <2>2
<1> QED
    BY <1>4, <1>5 DEF Stages

LEMMA StagesStep == SearchTypeOK /\ Stages /\ [SearchNext]_vars => Stages'
<1> SUFFICES ASSUME SearchTypeOK, Stages, [SearchNext]_vars PROVE Stages'
    OBVIOUS
<1> USE DEF SearchTypeOK, Goto, forward
<1>0. \A c \in Cities : handler = "complete" => phase[c] \in {"off", "closed"}
      BY AllQuiet
<1>1. ASSUME NEW c \in Cities, Lists(c)
      PROVE  Stages'
  <2>1. /\ phase[c] = "search" /\ phase'[c] \in {"first", "closed", "error"} /\ next'[c] = 1
        /\ phase' \in [Cities -> {"off", "search", "first", "send", "tick", "error", "closed"}]
        BY <1>1 DEF Lists, Stages
  <2>2. /\ \A d \in Cities \ {c} : phase'[d] = phase[d] /\ next'[d] = next[d] /\ worker'[d] = worker[d]
        /\ UNCHANGED <<fanout, handler, held>>
        BY <1>1 DEF Lists
  <2>3. \A i \in Indices(c) : i < Sent(c)' => worker'[c][i] \in {"ready", "failed"}
    <3>1. Sent(c)' = 1
          BY <2>1 DEF Sent
    <3> QED
        BY <3>1, IndexFacts
  <2> QED
      BY <1>0, <2>1, <2>2, <2>3, StagesOne
<1>2. ASSUME NEW c \in Cities, Begin(c)
      PROVE  Stages'
  <2>1. Sent(c)' = 1 /\ next'[c] = 1
        BY <1>2 DEF Begin, Sent, Stages
  <2>2. \A d \in Cities \ {c} : worker'[d] = worker[d]
        BY <1>2 DEF Begin
  <2>3. \A i \in Indices(c) : ~(i < Sent(c)')
        BY <2>1, IndexFacts
  <2>4. /\ \A d \in Cities \ {c} : phase'[d] = phase[d] /\ next'[d] = next[d]
        /\ UNCHANGED <<fanout, handler, held>> /\ phase[c] = "first" /\ phase'[c] = "send"
        /\ phase' \in [Cities -> {"off", "search", "first", "send", "tick", "error", "closed"}]
        BY <1>2 DEF Begin
  <2> QED
      BY <1>0, <2>1, <2>2, <2>3, <2>4, StagesOne
<1>3. ASSUME NEW c \in Cities, NEW i \in Indices(c), Acquire(c, i) \/ GiveUp(c, i) \/ Answer(c, i)
      PROVE  Stages'
  <2>1. PICK w \in {"fetch", "ready", "failed"} : Become(c, i, w)
        BY <1>3 DEF Acquire, GiveUp, Answer
  <2>2. UNCHANGED <<fanout, phase, next, late, city, results, forward, handler, output, expired>>
        BY <1>3 DEF Acquire, GiveUp, Answer
  <2>3. worker[c][i] \in {"wait", "fetch"}
        BY <1>3 DEF Acquire, GiveUp, Answer
  <2>4. Active' = Active /\ \A d \in Cities : Sent(d)' = Sent(d)
        BY <2>2 DEF Sent, Active
  <2>5. \A d \in Cities : \A j \in Indices(d) : j < Sent(d)' => worker'[d][j] \in {"ready", "failed"}
    <3> SUFFICES ASSUME NEW d \in Cities, NEW j \in Indices(d), j < Sent(d)
                 PROVE  worker'[d][j] \in {"ready", "failed"}
        BY <2>4
    <3>1. worker[d][j] \in {"ready", "failed"}
          BY DEF Stages
    <3>2. ~(d = c /\ j = i)
          BY <2>3, <3>1
    <3> QED
        BY <2>1, <3>1, <3>2, BecomeType
  <2>6. ResultsClosed' = ResultsClosed
        BY <2>2, <2>4 DEF ResultsClosed
  <2> QED
      BY <2>2, <2>4, <2>5, <2>6 DEF Stages
<1>4. ASSUME NEW c \in Cities, SendResult(c)
      PROVE  Stages'
  <2>1. next'[c] = next[c] /\ next[c] \in Indices(c) /\ Sent(c)' = next[c] + 1 /\ Sent(c) = next[c]
        /\ worker[c][next[c]] \in {"ready", "failed"}
        BY <1>4 DEF SendResult, Sent
  <2>2. \A i \in Indices(c) : i < Sent(c)' => i < Sent(c) \/ i = next[c]
        BY <2>1, IndexFacts
  <2>3. \A i \in Indices(c) : i < Sent(c)' => worker'[c][i] \in {"ready", "failed"}
        BY <1>4, <2>1, <2>2 DEF SendResult, Stages
  <2>4. /\ \A d \in Cities \ {c} : phase'[d] = phase[d] /\ next'[d] = next[d] /\ worker'[d] = worker[d]
        /\ UNCHANGED <<fanout, handler, held>> /\ phase[c] = "send" /\ phase'[c] = "tick"
        /\ phase' \in [Cities -> {"off", "search", "first", "send", "tick", "error", "closed"}]
        BY <1>4 DEF SendResult
  <2> QED
      BY <1>0, <2>1, <2>3, <2>4, StagesOne
<1>5. ASSUME NEW c \in Cities, SendProgress(c)
      PROVE  Stages'
  <2>1. phase[c] = "tick" /\ phase'[c] = "send" /\ next'[c] = next[c] + 1
        BY <1>5 DEF SendProgress
  <2>2. Sent(c)' = Sent(c)
        BY <2>1 DEF Sent
  <2>3. \A d \in Cities \ {c} : next'[d] = next[d] /\ phase'[d] = phase[d] /\ worker'[d] = worker[d]
        BY <1>5 DEF SendProgress
  <2>4. UNCHANGED <<fanout, handler, held, worker>> /\ phase' \in [Cities -> {"off", "search", "first", "send", "tick", "error", "closed"}]
        BY <1>5 DEF SendProgress
  <2>5. \A i \in Indices(c) : i < Sent(c)' => worker'[c][i] \in {"ready", "failed"}
        BY <2>2, <2>4 DEF Stages
  <2> QED
      BY <1>0, <2>1, <2>3, <2>4, <2>5, StagesOne
<1>6. ASSUME NEW c \in Cities, SendError(c)
      PROVE  Stages'
  <2>1. Sent(c)' = Sent(c) /\ next'[c] = 1
        BY <1>6 DEF SendError, Sent, Stages
  <2>2. /\ \A d \in Cities \ {c} : phase'[d] = phase[d] /\ next'[d] = next[d] /\ worker'[d] = worker[d]
        /\ UNCHANGED <<fanout, handler, held, worker>> /\ phase[c] = "error" /\ phase'[c] = "closed"
        /\ phase' \in [Cities -> {"off", "search", "first", "send", "tick", "error", "closed"}]
        BY <1>6 DEF SendError
  <2>3. \A i \in Indices(c) : i < Sent(c)' => worker'[c][i] \in {"ready", "failed"}
        BY <2>1, <2>2 DEF Stages
  <2> QED
      BY <1>0, <2>1, <2>2, <2>3, StagesOne
<1>7. ASSUME NEW c \in Cities, Return(c)
      PROVE  Stages'
  <2>1. Sent(c)' = Sent(c) /\ next'[c] = next[c] /\ next[c] \in 1 .. Len(Listing[c]) + 1 /\ next[c] > Len(Listing[c])
        BY <1>7 DEF Return, Sent
  <2>2. next'[c] = Len(Listing[c]) + 1
        BY <2>1, IndexFacts
  <2>3. /\ \A d \in Cities \ {c} : phase'[d] = phase[d] /\ next'[d] = next[d] /\ worker'[d] = worker[d]
        /\ UNCHANGED <<fanout, handler, held, worker>> /\ phase[c] = "send" /\ phase'[c] = "closed"
        /\ phase' \in [Cities -> {"off", "search", "first", "send", "tick", "error", "closed"}]
        BY <1>7 DEF Return
  <2>4. \A i \in Indices(c) : i < Sent(c)' => worker'[c][i] \in {"ready", "failed"}
        BY <2>1, <2>3 DEF Stages
  <2> QED
      BY <1>0, <2>1, <2>2, <2>3, <2>4, StagesOne
<1>8. ASSUME NEW c \in Cities, Take(c) \/ Forward(c)
      PROVE  Stages'
  <2>1. fanout
        BY <1>8 DEF Take, Forward, Stages
  <2>2. handler # "complete"
        BY <1>8, <2>1, AllQuiet DEF Take, Forward
  <2>3. UNCHANGED <<fanout, search, handler>>
        BY <1>8 DEF Take, Forward
  <2>4. Active' = Active /\ \A d \in Cities : Sent(d)' = Sent(d)
        BY <2>3 DEF Sent, Active, search
  <2> QED
      BY <2>1, <2>2, <2>3, <2>4 DEF Stages, search
<1>9. CASE Complete
  <2>1. UNCHANGED <<fanout, search, results, city, forward>> /\ results = <<>> /\ ResultsClosed
        BY <1>9 DEF Complete
  <2>2. Active' = Active /\ \A d \in Cities : Sent(d)' = Sent(d)
        BY <2>1 DEF Sent, Active, search
  <2>3. ResultsClosed'
        BY <2>1, <2>2 DEF ResultsClosed, search
  <2> QED
      BY <2>1, <2>2, <2>3 DEF Stages, search
<1>10. CASE Receive
  <2>1. UNCHANGED <<fanout, search, forward, handler>> /\ handler # "complete"
        BY <1>10 DEF Receive
  <2>2. Active' = Active /\ \A d \in Cities : Sent(d)' = Sent(d)
        BY <2>1 DEF Sent, Active, search
  <2> QED
      BY <2>1, <2>2 DEF Stages, search
<1>11. ASSUME TimesOut \/ Expires \/ (\E c \in Cities : EnrichmentTimesOut(c)) \/ UNCHANGED vars
       PROVE  Stages'
  <2>1. UNCHANGED <<fanout, phase, worker, next, city, results, held>>
        BY <1>11 DEF TimesOut, Expires, EnrichmentTimesOut, vars, search
  <2>2. handler' = "complete" => handler = "complete"
        BY <1>11 DEF TimesOut, Expires, EnrichmentTimesOut, vars
  <2>3. Active' = Active /\ (\A d \in Cities : Sent(d)' = Sent(d)) /\ ResultsClosed' = ResultsClosed
        BY <2>1 DEF Sent, Active, ResultsClosed
  <2> QED
      BY <2>1, <2>2, <2>3 DEF Stages
<1> QED
    BY <1>1, <1>2, <1>3, <1>4, <1>5, <1>6, <1>7, <1>8, <1>9, <1>10, <1>11 DEF SearchNext, Server, Searching

-------------------------------------------------------------------------------
(* Where each result is *)

\* What a send changes: within a radius the city's channel, else the handler's.
LEMMA PutEffect ==
    ASSUME SearchTypeOK, NEW c \in Cities, NEW e \in Events, Put(c, e)
    PROVE  /\ fanout => /\ results' = results
                        /\ Carried(city'[c]) = Carried(city[c]) \cup IF e.type = "property" THEN {e.prop} ELSE {}
           /\ ~fanout => /\ results' = Append(results, e) /\ city' = city
                         /\ Carried(results') = Carried(results) \cup IF e.type = "property" THEN {e.prop} ELSE {}
                         /\ Coming' = Coming \cup IF Numbered(e) THEN {e.prop} ELSE {}
                         /\ ToSet(results') = ToSet(results) \cup {e}
           /\ \A d \in Cities \ {c} : city'[d] = city[d]
<1>1. city[c] \in Seq(Events) /\ results \in Seq(Events) /\ city \in [Cities -> Seq(Events)]
      BY DEF SearchTypeOK
<1>2. CASE fanout
  <2>1. results' = results /\ city' = [city EXCEPT ![c] = Append(city[c], e)]
        BY <1>2 DEF Put
  <2>2. city'[c] = Append(city[c], e) /\ \A d \in Cities \ {c} : city'[d] = city[d]
        BY <1>1, <2>1
  <2>3. Carried(Append(city[c], e)) = Carried(city[c]) \cup IF e.type = "property" THEN {e.prop} ELSE {}
        BY <1>1, CarriedAppend
  <2> QED
      BY <1>2, <2>1, <2>2, <2>3
<1>3. CASE ~fanout
  <2>1. results' = Append(results, e) /\ city' = city
        BY <1>3 DEF Put
  <2>2. Carried(Append(results, e)) = Carried(results) \cup IF e.type = "property" THEN {e.prop} ELSE {}
        BY <1>1, CarriedAppend
  <2>3. Coming' = Coming \cup IF Numbered(e) THEN {e.prop} ELSE {}
        BY <1>1, <2>1, ComingAppend
  <2>4. ToSet(Append(results, e)) = ToSet(results) \cup {e}
        BY <1>1, AppendSet
  <2> QED
      BY <1>3, <2>1, <2>2, <2>3, <2>4
<1> QED
    BY <1>2, <1>3

\* What the handler's receive changes.
LEMMA ReceiveEffect ==
    ASSUME SearchTypeOK, Receive
    PROVE  LET e == Head(results)
           IN  /\ e \in Events /\ results # <<>> /\ results' = Tail(results)
               /\ Shown' = Shown \cup IF e.type = "property" THEN {e.prop} ELSE {}
               /\ Carried(results) = Carried(results') \cup IF e.type = "property" THEN {e.prop} ELSE {}
               /\ Coming = Coming' \cup IF Numbered(e) THEN {e.prop} ELSE {}
               /\ \/ e.type = "property" /\ delivered' = Append(delivered, e.prop) /\ filtered' = filtered
                  \/ delivered' = delivered
<1> DEFINE e == Head(results)
<1>1. results \in Seq(Events) /\ results # <<>> /\ results' = Tail(results) /\ delivered \in Seq(All)
      BY DEF Receive, SearchTypeOK
<1>2. e \in Events
      BY <1>1, TailFacts
<1>3. /\ Carried(results) = Carried(results') \cup IF e.type = "property" THEN {e.prop} ELSE {}
      /\ Coming = Coming' \cup IF Numbered(e) THEN {e.prop} ELSE {}
      BY <1>1, CarriedTail, ComingTail
<1>4. CASE e.type = "property" /\ delivered' = Append(delivered, e.prop) /\ filtered' = filtered
  <2>1. delivered' = Append(delivered, e.prop) /\ filtered' = filtered
        BY <1>4
  <2>2. e.prop \in All
        BY <1>2, <1>4, EventFacts DEF Numbered
  <2>3. ToSet(delivered') = ToSet(delivered) \cup {e.prop}
        BY <1>1, <2>1, <2>2, AppendSet
  <2> QED
      BY <1>1, <1>2, <1>3, <1>4, <2>1, <2>3 DEF Shown
<1>5. CASE e.type = "property" /\ filtered' = filtered \cup {e.prop} /\ delivered' = delivered
  <2>1. filtered' = filtered \cup {e.prop} /\ delivered' = delivered
        BY <1>5
  <2> QED
      BY <1>1, <1>2, <1>3, <1>5, <2>1 DEF Shown
<1>6. CASE e.type # "property"
  <2>1. filtered' = filtered /\ delivered' = delivered
    <3>1. CASE e.type = "failed"
          BY <3>1 DEF Receive
    <3>2. CASE e.type = "progress"
          BY <3>2 DEF Receive
    <3>3. CASE e.type = "error"
          BY <3>3 DEF Receive, output
    <3> QED
        BY <1>2, <1>6, <3>1, <3>2, <3>3, EventFacts
  <2> QED
      BY <1>1, <1>2, <1>3, <1>6, <2>1 DEF Shown
<1>7. e.type = "property" =>
         \/ delivered' = Append(delivered, e.prop) /\ filtered' = filtered
         \/ filtered' = filtered \cup {e.prop} /\ delivered' = delivered
      BY DEF Receive
<1> QED
    BY <1>4, <1>5, <1>6, <1>7

LEMMA OnePlaceInit == SearchInit => OnePlace
<1> SUFFICES ASSUME SearchInit PROVE OnePlace
    OBVIOUS
<1>1. results = <<>> /\ delivered = <<>> /\ filtered = {} /\ seen = {} /\ held = [c \in Cities |-> Nobody]
      BY DEF SearchInit
<1>2. ToSet(<<>>) = {} /\ DOMAIN <<>> = {}
      BY DEF ToSet
<1>3. Coming = {} /\ Shown = {} /\ Holding = {} /\ IsInjective(results)
      BY <1>1, <1>2 DEF Coming, Shown, Holding, IsInjective
<1>4. Present = {} /\ Ids(Present) = {}
      BY <1>3 DEF Present, Ids
<1> QED
    BY <1>1, <1>2, <1>3, <1>4 DEF OnePlace

LEMMA OnePlaceTake ==
    ASSUME SearchTypeOK, OnePlace, NEW c \in Cities, Take(c)
    PROVE  OnePlace'
<1> DEFINE e == Head(city[c])
<1>1. fanout /\ held[c] = Nobody /\ UNCHANGED <<fanout, results, output>>
      BY DEF Take
<1>2. Coming' = Coming /\ Shown' = Shown
      BY <1>1 DEF Coming, Shown, output
<1>3. CASE UNCHANGED forward
      BY <1>1, <1>2, <1>3 DEF OnePlace, Present, Holding, forward
<1>4. CASE /\ e.type = "property" /\ Id[e.prop] \notin seen
           /\ held' = [held EXCEPT ![c] = e.prop] /\ seen' = seen \cup {Id[e.prop]}
  <2>1. city[c] \in Seq(Events) /\ city[c] # <<>>
        BY DEF Take, SearchTypeOK
  <2>2. e \in Events
        BY <2>1, TailFacts
  <2>3. e.prop \in All /\ e.prop # Nobody
        BY <1>4, <2>2, EventFacts, NobodyListed DEF Numbered
  <2>4. held'[c] = e.prop /\ \A d \in Cities \ {c} : held'[d] = held[d]
        BY <1>4 DEF SearchTypeOK
  <2>5. Holding' = Holding \cup {c} /\ c \notin Holding
        BY <1>1, <2>3, <2>4 DEF Holding
  <2>6. {held'[d] : d \in Holding'} = {held[d] : d \in Holding} \cup {e.prop}
        BY <2>4, <2>5 DEF Holding
  <2>9. Present' = Present \cup {e.prop}
        BY <1>2, <2>6 DEF Present
  <2>10. seen = Ids(Present) /\ (\A p \in Present : Id[p] # Id[e.prop]) /\ e.prop \notin Present
        BY <1>1, <1>4 DEF OnePlace, Ids
  <2>11. seen' = Ids(Present')
        BY <1>4, <2>9, <2>10 DEF Ids
  <2>12. \A p, q \in Present' : Id[p] = Id[q] => p = q
        BY <1>1, <2>9, <2>10 DEF OnePlace
  <2>7. \A d \in Holding : held'[d] = held[d] /\ held[d] # e.prop
        BY <2>4, <2>5, <2>10 DEF Present, Holding
  <2>8. e.prop \notin Shown \cup Coming
        BY <2>10 DEF Present
  <2> QED
      BY <1>1, <1>2, <2>4, <2>5, <2>7, <2>8, <2>11, <2>12 DEF OnePlace
<1> QED
    BY <1>3, <1>4 DEF Take

LEMMA OnePlaceForward ==
    ASSUME SearchTypeOK, OnePlace, fanout, NEW c \in Cities, Forward(c)
    PROVE  OnePlace'
<1> DEFINE e == Event("property", held[c])
<1>1. held[c] # Nobody /\ results' = Append(results, e) /\ held' = [held EXCEPT ![c] = Nobody]
      /\ UNCHANGED <<fanout, seen, output>>
      BY DEF Forward
<1>2. e \in Events /\ e.type = "property" /\ e.prop = held[c] /\ results \in Seq(Events)
      BY <1>1 DEF SearchTypeOK, Event, Events
<1>3. Coming' = Coming \cup {held[c]} /\ Shown' = Shown
      BY <1>1, <1>2, ComingAppend DEF Numbered, Shown, output
<1>4. held'[c] = Nobody /\ \A d \in Cities \ {c} : held'[d] = held[d]
      BY <1>1 DEF SearchTypeOK
<1>5. Holding' = Holding \ {c} /\ c \in Holding /\ Holding \subseteq Cities
      BY <1>1, <1>4 DEF Holding
<1>6. held[c] \notin Shown \cup Coming
      BY <1>5 DEF OnePlace
<1>7. {held[d] : d \in Holding} = {held'[d] : d \in Holding'} \cup {held[c]}
      BY <1>4, <1>5
<1>8. \A d \in Holding' : held'[d] = held[d] /\ held[d] # held[c]
      BY <1>4, <1>5 DEF OnePlace
<1>9. ToSet(results') = ToSet(results) \cup {e}
      BY <1>1, <1>2, AppendSet
<1>10. \A j \in DOMAIN results : results[j] # e
  <2> SUFFICES ASSUME NEW j \in DOMAIN results, results[j] = e PROVE FALSE
      OBVIOUS
  <2>1. e \in ToSet(results)
        BY DEF ToSet
  <2> QED
      BY <1>2, <1>6, <2>1 DEF Coming, Numbered
<1>11. IsInjective(results')
  <2>1. /\ DOMAIN results = 1 .. Len(results) /\ DOMAIN results' = 1 .. Len(results) + 1 /\ Len(results) \in Nat
        /\ \A j \in DOMAIN results : results'[j] = results[j]
        /\ results'[Len(results) + 1] = e
        BY <1>1, <1>2, AppendFacts
  <2>2. \A j \in DOMAIN results' : j \in DOMAIN results \/ j = Len(results) + 1
        BY <2>1
  <2> QED
      BY <1>10, <2>1, <2>2 DEF IsInjective, OnePlace
<1>12. \A f \in ToSet(results') : f.type = "property"
      BY <1>2, <1>9 DEF OnePlace
<1>13. Present' = Present
      BY <1>3, <1>7 DEF Present
<1>17. seen' = Ids(Present') /\ \A p, q \in Present' : Id[p] = Id[q] => p = q
      BY <1>1, <1>13 DEF OnePlace
<1>14. Shown' \cap Coming' = {}
      BY <1>3, <1>6 DEF OnePlace
<1>15. \A d \in Holding' : held'[d] \notin Shown' \cup Coming'
      BY <1>3, <1>5, <1>8 DEF OnePlace
<1>16. \A d, d2 \in Holding' : held'[d] = held'[d2] => d = d2
      BY <1>5, <1>8 DEF OnePlace
<1> QED
    BY <1>11, <1>12, <1>14, <1>15, <1>16, <1>17 DEF OnePlace

LEMMA OnePlaceReceive ==
    ASSUME SearchTypeOK, OnePlace, fanout, Receive
    PROVE  OnePlace'
<1> DEFINE e == Head(results)
<1>1. e \in Events /\ results # <<>> /\ results' = Tail(results) /\ results \in Seq(Events)
      BY ReceiveEffect DEF SearchTypeOK
<1>2. /\ e = results[1] /\ Len(results) \in Nat \ {0} /\ DOMAIN results = 1 .. Len(results)
      /\ DOMAIN results' = 1 .. Len(results) - 1 /\ \A j \in DOMAIN results' : results'[j] = results[j + 1]
      BY <1>1, TailFacts
<1>3. ToSet(results) = {e} \cup ToSet(results')
      BY <1>1, TailSet
<1>4. e.type = "property"
      BY <1>3 DEF OnePlace
<1>5. Shown' = Shown \cup {e.prop} /\ Coming = Coming' \cup {e.prop}
      BY <1>4, ReceiveEffect DEF Numbered
<1>6. e.prop \notin Coming'
  <2> SUFFICES ASSUME NEW f \in ToSet(results'), f.prop = e.prop PROVE FALSE
      BY DEF Coming
  <2>1. PICK j \in DOMAIN results' : results'[j] = f
        BY DEF ToSet
  <2>2. f \in Events /\ f.type = "property"
    <3>1. f \in ToSet(results)
          BY <1>3
    <3>2. f.type = "property"
          BY <3>1 DEF OnePlace
    <3>3. j + 1 \in DOMAIN results /\ results[j + 1] = f
          BY <1>2, <2>1
    <3> QED
        BY <1>1, <3>2, <3>3
  <2>3. f = e
        BY <1>1, <1>4, <2>2, EventFacts
  <2>4. j + 1 \in DOMAIN results /\ 1 \in DOMAIN results /\ results[j + 1] = results[1] /\ j + 1 # 1
        BY <1>2, <2>1, <2>3
  <2> QED
      BY <2>4 DEF OnePlace, IsInjective
<1>7. IsInjective(results')
  <2> SUFFICES ASSUME NEW a \in DOMAIN results', NEW b \in DOMAIN results', results'[a] = results'[b] PROVE a = b
      BY DEF IsInjective
  <2>1. a + 1 \in DOMAIN results /\ b + 1 \in DOMAIN results /\ results[a + 1] = results[b + 1] /\ a \in Nat /\ b \in Nat
        BY <1>2
  <2>2. a + 1 = b + 1
        BY <2>1 DEF OnePlace, IsInjective
  <2> QED
      BY <2>1, <2>2
<1>8. Holding' = Holding /\ UNCHANGED <<fanout, held, seen>>
      BY DEF Receive, Holding, forward
<1>9. /\ \A f \in ToSet(results') : f.type = "property"
      /\ Shown' \cap Coming' = {}
      BY <1>3, <1>5, <1>6, <1>8 DEF OnePlace
<1>10. \A d \in Holding' : held'[d] \notin Shown' \cup Coming'
      BY <1>5, <1>8 DEF OnePlace
<1>11. Present' = Present
      BY <1>5, <1>8 DEF Present
<1>12. seen' = Ids(Present') /\ \A p, q \in Present' : Id[p] = Id[q] => p = q
      BY <1>8, <1>11 DEF OnePlace
<1> QED
    BY <1>7, <1>8, <1>9, <1>10, <1>12 DEF OnePlace

\* Searches do not touch the handler's channel within a radius.
LEMMA SearchAside ==
    ASSUME SearchTypeOK, NEW c \in Cities,
           \/ Lists(c) \/ Begin(c) \/ SendResult(c) \/ SendProgress(c) \/ SendError(c) \/ Return(c)
           \/ \E i \in Indices(c) : Acquire(c, i) \/ GiveUp(c, i) \/ Answer(c, i)
    PROVE  UNCHANGED <<fanout, forward, output, handler>> /\ (fanout => results' = results)
BY DEF Lists, Begin, SendResult, SendProgress, SendError, Return, Acquire, GiveUp, Answer, Put

\* The clocks and the handler's end leave everything on its way alone.
LEMMA ClocksAside ==
    ASSUME Complete \/ TimesOut \/ Expires \/ (\E c \in Cities : EnrichmentTimesOut(c)) \/ UNCHANGED vars
    PROVE  UNCHANGED <<fanout, phase, worker, next, city, results, forward, output>>
BY DEF Complete, TimesOut, Expires, EnrichmentTimesOut, vars, search

LEMMA OnePlaceStep == SearchTypeOK /\ Stages /\ OnePlace /\ [SearchNext]_vars => OnePlace'
<1> SUFFICES ASSUME SearchTypeOK, Stages, OnePlace, [SearchNext]_vars PROVE OnePlace'
    OBVIOUS
<1>1. ASSUME UNCHANGED <<fanout, forward, output>>, fanout => results' = results
      PROVE  OnePlace'
  <2> SUFFICES ASSUME fanout PROVE OnePlace'
      BY <1>1 DEF OnePlace
  <2>1. Coming' = Coming /\ Shown' = Shown /\ Holding' = Holding /\ UNCHANGED <<results, held, seen>>
        BY <1>1 DEF Coming, Shown, Holding, forward, output
  <2>2. Present' = Present
        BY <2>1 DEF Present
  <2> QED
      BY <2>1, <2>2 DEF OnePlace
<1>2. ASSUME NEW c \in Cities, Take(c)
      PROVE  OnePlace'
      BY <1>2, OnePlaceTake
<1>3. ASSUME NEW c \in Cities, Forward(c)
      PROVE  OnePlace'
      BY <1>3, OnePlaceForward DEF Forward, Stages
<1>4. CASE Receive /\ fanout
      BY <1>4, OnePlaceReceive
<1>5. CASE Receive /\ ~fanout
      BY <1>5 DEF Receive, OnePlace
<1> QED
    BY <1>1, <1>2, <1>3, <1>4, <1>5, SearchAside, ClocksAside DEF SearchNext, Server, Searching

-------------------------------------------------------------------------------
(* The order of the listing *)

LEMMA InLineInit == SearchInit => InLine
<1> SUFFICES ASSUME SearchInit PROVE InLine
    OBVIOUS
<1>1. ToSet(<<>>) = {} /\ DOMAIN <<>> = {} /\ results = <<>> /\ delivered = <<>> /\ filtered = {}
      BY DEF ToSet, SearchInit
<1>2. Coming = {} /\ Shown = {} /\ DOMAIN results = {}
      BY <1>1 DEF Coming, Shown
<1> QED
    BY <1>2 DEF InLine

\* A channel that is in line stays so when the next in line, or nothing numbered, is appended.
LEMMA InLineAppend ==
    ASSUME SearchTypeOK, InLine, ~fanout, UNCHANGED <<fanout, output>>, NEW e \in Events, results' = Append(results, e),
           Sent(Origin) \in Nat, Sent(Origin)' \in Nat, Sent(Origin) <= Sent(Origin)',
           Numbered(e) => /\ e.prop \in ToSet(Listing[Origin]) /\ Place(e.prop) = Sent(Origin)
                          /\ Sent(Origin) < Sent(Origin)'
    PROVE  InLine'
<1> DEFINE n == Len(results)
<1>1. /\ n \in Nat /\ DOMAIN results = 1 .. n /\ DOMAIN results' = 1 .. n + 1
      /\ \A j \in 1 .. n : results'[j] = results[j]
      /\ results'[n + 1] = e
      BY AppendFacts DEF SearchTypeOK
<1>2. Coming' = Coming \cup (IF Numbered(e) THEN {e.prop} ELSE {}) /\ Shown' = Shown
      BY ComingAppend DEF SearchTypeOK, Shown, output
<1>3. \A p \in Shown \cup Coming : /\ p \in ToSet(Listing[Origin]) /\ Place(p) < Sent(Origin)
                                   /\ Place(p) \in Int
  <2>1. ASSUME NEW p \in ToSet(Listing[Origin])
        PROVE  Place(p) \in Int
    <3>1. PICK i \in Indices(Origin) : Listing[Origin][i] = p
          BY <2>1 DEF ToSet, Indices
    <3> QED
        BY <3>1, PlaceFacts, IndexFacts, SearchConstants
  <2> QED
      BY <2>1 DEF InLine
<1>4. ASSUME NEW p \in Shown' \cup Coming'
      PROVE  p \in ToSet(Listing[Origin]) /\ Place(p) < Sent(Origin)'
  <2>1. CASE p \in Shown \cup Coming
        BY <1>3, <2>1
  <2>2. CASE Numbered(e) /\ p = e.prop
        BY <2>2
  <2> QED
      BY <1>2, <2>1, <2>2
<1>5. ASSUME NEW p \in Shown', NEW q \in Coming'
      PROVE  Place(p) < Place(q)
  <2>1. CASE q \in Coming
        BY <1>2, <2>1 DEF InLine
  <2>2. CASE Numbered(e) /\ q = e.prop
        BY <1>2, <1>3, <2>2
  <2> QED
      BY <1>2, <2>1, <2>2
<1>6. ASSUME NEW j \in DOMAIN results', NEW k \in DOMAIN results', j < k, Numbered(results'[j]), Numbered(results'[k])
      PROVE  Place(results'[j].prop) < Place(results'[k].prop)
  <2>1. CASE k \in 1 .. n
    <3>1. j \in 1 .. n
          BY <1>1, <1>6, <2>1
    <3> QED
        BY <1>1, <1>6, <2>1, <3>1 DEF InLine
  <2>2. CASE k = n + 1
    <3>1. j \in 1 .. n
          BY <1>1, <1>6, <2>2
    <3>2. results[j] \in ToSet(results) /\ Numbered(results[j])
          BY <1>1, <1>6, <3>1 DEF ToSet
    <3>3. results[j].prop \in Coming
          BY <3>2 DEF Coming
    <3> QED
        BY <1>1, <1>3, <1>6, <2>2, <3>1, <3>3
  <2> QED
      BY <1>1, <2>1, <2>2
<1> QED
    BY <1>4, <1>5, <1>6 DEF InLine

\* Whoever is first in line leaves it; the others are behind it.
LEMMA FirstInLine ==
    ASSUME SearchTypeOK, InLine, ~fanout, Receive, Numbered(Head(results))
    PROVE  \A p \in Coming' : Place(Head(results).prop) < Place(p)
<1> DEFINE e == Head(results)
<1>1. results \in Seq(Events) /\ results # <<>> /\ results' = Tail(results)
      BY ReceiveEffect DEF SearchTypeOK
<1>2. /\ e = results[1] /\ Len(results) \in Nat \ {0} /\ DOMAIN results = 1 .. Len(results)
      /\ DOMAIN results' = 1 .. Len(results) - 1 /\ \A j \in DOMAIN results' : results'[j] = results[j + 1]
      BY <1>1, TailFacts
<1> SUFFICES ASSUME NEW f \in ToSet(results'), Numbered(f) PROVE Place(e.prop) < Place(f.prop)
    BY DEF Coming
<1>3. PICK j \in DOMAIN results' : results'[j] = f
      BY DEF ToSet
<1>4. j + 1 \in DOMAIN results /\ 1 \in DOMAIN results /\ 1 < j + 1 /\ results[j + 1] = f
      BY <1>2, <1>3
<1> QED
    BY <1>2, <1>4 DEF InLine

LEMMA InLineReceive ==
    ASSUME SearchTypeOK, InLine, ~fanout, Receive
    PROVE  InLine'
<1> DEFINE e == Head(results)
<1>1. e \in Events /\ results # <<>> /\ results' = Tail(results) /\ results \in Seq(Events)
      BY ReceiveEffect DEF SearchTypeOK
<1>2. /\ Len(results) \in Nat \ {0} /\ DOMAIN results = 1 .. Len(results)
      /\ DOMAIN results' = 1 .. Len(results) - 1 /\ \A j \in DOMAIN results' : results'[j] = results[j + 1]
      BY <1>1, TailFacts
<1>3. Coming = Coming' \cup (IF Numbered(e) THEN {e.prop} ELSE {})
      /\ Shown' = Shown \cup (IF e.type = "property" THEN {e.prop} ELSE {})
      BY ReceiveEffect
<1>4. e.type = "property" => Numbered(e)
      BY DEF Numbered
<1>5. Sent(Origin)' = Sent(Origin) /\ fanout' = fanout
      BY DEF Receive, Sent, search
<1>6. \A p \in Shown' \cup Coming' : p \in ToSet(Listing[Origin]) /\ Place(p) < Sent(Origin)'
      BY <1>3, <1>4, <1>5 DEF InLine
<1>7. ASSUME NEW p \in Shown', NEW q \in Coming'
      PROVE  Place(p) < Place(q)
  <2>1. CASE p \in Shown
        BY <1>3, <2>1 DEF InLine
  <2>2. CASE e.type = "property" /\ p = e.prop
        BY <1>4, <2>2, FirstInLine
  <2> QED
      BY <1>3, <2>1, <2>2
<1>8. ASSUME NEW j \in DOMAIN results', NEW k \in DOMAIN results', j < k, Numbered(results'[j]), Numbered(results'[k])
      PROVE  Place(results'[j].prop) < Place(results'[k].prop)
  <2>1. j + 1 \in DOMAIN results /\ k + 1 \in DOMAIN results /\ j + 1 < k + 1
        /\ results'[j] = results[j + 1] /\ results'[k] = results[k + 1]
        BY <1>2, <1>8
  <2> QED
      BY <1>8, <2>1 DEF InLine
<1> QED
    BY <1>6, <1>7, <1>8 DEF InLine

\* How far a search's sends come with each of its steps.
LEMMA SentStep ==
    ASSUME SearchTypeOK, Stages, NEW c \in Cities
    PROVE  /\ Sent(c) \in Nat
           /\ Lists(c) \/ Begin(c) \/ SendProgress(c) \/ SendError(c) \/ Return(c) => Sent(c)' = Sent(c)
           /\ SendResult(c) => Sent(c)' = next[c] + 1 /\ Sent(c) = next[c]
           /\ \A i \in Indices(c) : Acquire(c, i) \/ GiveUp(c, i) \/ Answer(c, i) => Sent(c)' = Sent(c)
<1>1. next[c] \in Nat /\ phase \in [Cities -> {"off", "search", "first", "send", "tick", "error", "closed"}]
      /\ next \in [Cities -> Nat]
      BY DEF SearchTypeOK
<1>2. Sent(c) \in Nat
      BY <1>1 DEF Sent
<1>3. Lists(c) => Sent(c)' = Sent(c)
      BY <1>1 DEF Lists, Sent, Goto
<1>4. Begin(c) => Sent(c)' = Sent(c)
      BY <1>1 DEF Begin, Sent, Goto
<1>5. SendProgress(c) => Sent(c)' = Sent(c)
      BY <1>1 DEF SendProgress, Sent, Goto
<1>6. SendError(c) \/ Return(c) => Sent(c)' = Sent(c)
      BY <1>1 DEF SendError, Return, Sent, Goto
<1>7. SendResult(c) => Sent(c)' = next[c] + 1 /\ Sent(c) = next[c]
      BY <1>1 DEF SendResult, Sent, Goto
<1>8. \A i \in Indices(c) : Acquire(c, i) \/ GiveUp(c, i) \/ Answer(c, i) => Sent(c)' = Sent(c)
      BY DEF Acquire, GiveUp, Answer, Sent
<1> QED
    BY <1>2, <1>3, <1>4, <1>5, <1>6, <1>7, <1>8

\* The event a SendResult sends, and its place.
LEMMA NextResult ==
    ASSUME SearchTypeOK, NEW c \in Cities, SendResult(c)
    PROVE  LET p == Listing[c][next[c]]
               e == Event(IF worker[c][next[c]] = "ready" THEN "property" ELSE "failed", p)
           IN  /\ next[c] \in Indices(c) /\ p \in ToSet(Listing[c]) /\ p \in All /\ e \in Events
               /\ Put(c, e) /\ e.prop = p /\ Numbered(e)
               /\ e.type = "property" <=> worker[c][next[c]] = "ready"
<1>1. next[c] \in Indices(c) /\ Put(c, Event(IF worker[c][next[c]] = "ready" THEN "property" ELSE "failed", Listing[c][next[c]]))
      BY DEF SendResult
<1>2. Listing[c][next[c]] \in ToSet(Listing[c]) /\ Listing[c][next[c]] \in All
      BY <1>1, ListingFacts
<1> QED
    BY <1>1, <1>2 DEF Event, Events, Numbered

LEMMA QuietEvents ==
    /\ Event("progress", Nobody) \in Events /\ ~Numbered(Event("progress", Nobody))
    /\ Event("error", Nobody) \in Events /\ ~Numbered(Event("error", Nobody))
    /\ Event("progress", Nobody).type = "progress" /\ Event("error", Nobody).type = "error"
BY DEF Event, Events, Numbered

LEMMA FanoutStays == [SearchNext]_vars => fanout' = fanout
<1>1. ASSUME NEW c \in Cities, Searching(c)
      PROVE  fanout' = fanout
      BY <1>1 DEF Searching, Lists, Begin, SendResult, SendProgress, SendError, Return, Acquire, GiveUp, Answer, Take, Forward
<1>2. Receive \/ Complete \/ TimesOut \/ Expires \/ (\E c \in Cities : EnrichmentTimesOut(c)) \/ UNCHANGED vars
         => fanout' = fanout
      BY DEF Receive, Complete, TimesOut, Expires, EnrichmentTimesOut, vars
<1> QED
    BY <1>1, <1>2 DEF SearchNext, Server

LEMMA InLineStep == SearchTypeOK /\ Stages /\ InLine /\ [SearchNext]_vars => InLine'
<1> SUFFICES ASSUME SearchTypeOK, Stages, InLine, [SearchNext]_vars PROVE InLine'
    OBVIOUS
<1> SUFFICES ASSUME ~fanout PROVE InLine'
    BY FanoutStays DEF InLine
<1>1. ASSUME UNCHANGED <<fanout, results, output>>, Sent(Origin)' = Sent(Origin)
      PROVE  InLine'
  <2>1. Coming' = Coming /\ Shown' = Shown
        BY <1>1 DEF Coming, Shown, output
  <2> QED
      BY <1>1, <2>1 DEF InLine
<1>2. ASSUME NEW c \in Cities, NEW i \in Indices(c), Acquire(c, i) \/ GiveUp(c, i) \/ Answer(c, i)
      PROVE  InLine'
  <2>1. UNCHANGED <<fanout, phase, next, results, output>>
        BY <1>2 DEF Acquire, GiveUp, Answer
  <2> QED
      BY <1>1, <2>1 DEF Sent
<1>3. ASSUME NEW c \in Cities, Lists(c) \/ Return(c)
      PROVE  InLine'
  <2>1. c = Origin /\ UNCHANGED <<fanout, results, output>>
        BY <1>3, Active1 DEF Lists, Return
  <2>2. Sent(c)' = Sent(c)
        BY <1>3, SentStep
  <2> QED
      BY <1>1, <2>1, <2>2
<1>4. ASSUME NEW c \in Cities, Begin(c) \/ SendProgress(c) \/ SendError(c)
      PROVE  InLine'
  <2>1. PICK e \in Events : ~Numbered(e) /\ Put(c, e)
        BY <1>4, QuietEvents DEF Begin, SendProgress, SendError
  <2>2. c = Origin /\ UNCHANGED <<fanout, output>>
        BY <1>4, Active1 DEF Begin, SendProgress, SendError
  <2>3. results' = Append(results, e)
        BY <2>1, PutEffect
  <2>4. Sent(Origin) \in Nat /\ Sent(Origin)' = Sent(Origin)
        BY <1>4, <2>2, SentStep
  <2> QED
      BY <2>1, <2>2, <2>3, <2>4, InLineAppend
<1>5. ASSUME NEW c \in Cities, SendResult(c)
      PROVE  InLine'
  <2>1. c = Origin /\ UNCHANGED <<fanout, output>>
        BY <1>5, Active1 DEF SendResult
  <2>2. PICK e \in Events : /\ Put(c, e) /\ e.prop = Listing[c][next[c]] /\ e.prop \in ToSet(Listing[c])
                            /\ next[c] \in Indices(c)
        BY <1>5, NextResult
  <2>3. results' = Append(results, e) /\ Place(e.prop) = next[c]
        BY <2>1, <2>2, PutEffect, PlaceFacts
  <2>4. Sent(Origin) = next[c] /\ Sent(Origin)' = next[c] + 1 /\ next[c] \in Nat
        BY <1>5, <2>1, SentStep DEF SearchTypeOK
  <2>5. Sent(Origin)' \in Nat /\ Sent(Origin) < Sent(Origin)' /\ Sent(Origin) <= Sent(Origin)'
        BY <2>4
  <2> QED
      BY <2>1, <2>2, <2>3, <2>4, <2>5, InLineAppend
<1>6. ASSUME NEW c \in Cities, Take(c) \/ Forward(c)
      PROVE  FALSE
      BY <1>6 DEF Take, Forward, Stages
<1>7. CASE Receive
      BY <1>7, InLineReceive
<1>8. ASSUME Complete \/ TimesOut \/ Expires \/ (\E c \in Cities : EnrichmentTimesOut(c)) \/ UNCHANGED vars
      PROVE  InLine'
      BY <1>1, <1>8, ClocksAside DEF Sent
<1> QED
    BY <1>2, <1>3, <1>4, <1>5, <1>6, <1>7, <1>8 DEF SearchNext, Server, Searching

\* What is shown next was not shown before, and comes after what was.
LEMMA DeliveredStep ==
    ASSUME SearchTypeOK, InLine, OnePlace, InListingOrder, ShownOnce, OnePlace', [SearchNext]_vars
    PROVE  InListingOrder' /\ ShownOnce'
<1>1. ASSUME UNCHANGED <<fanout, delivered>>
      PROVE  InListingOrder' /\ ShownOnce'
      BY <1>1 DEF InListingOrder, ShownOnce
<1>2. ASSUME Receive, delivered' # delivered
      PROVE  InListingOrder' /\ ShownOnce'
  <2> DEFINE e == Head(results)
             n == Len(delivered)
  <2>1. /\ e \in Events /\ e.type = "property" /\ delivered' = Append(delivered, e.prop)
        /\ e.prop \in Coming /\ e.prop \in All
        BY <1>2, ReceiveEffect, EventFacts DEF Numbered
  <2>2. /\ n \in Nat /\ DOMAIN delivered = 1 .. n /\ DOMAIN delivered' = 1 .. n + 1
        /\ \A j \in 1 .. n : delivered'[j] = delivered[j]
        /\ delivered'[n + 1] = e.prop
        BY <2>1, AppendFacts DEF SearchTypeOK
  <2>3. \A j \in 1 .. n : delivered[j] \in Shown
        BY <2>2 DEF Shown, ToSet
  <2>4. fanout' = fanout
        BY <1>2 DEF Receive
  <2>5. \A j \in 1 .. n : ~fanout => Place(delivered[j]) < Place(e.prop)
        BY <2>1, <2>3 DEF InLine
  <2>6. \A j \in 1 .. n : delivered[j] # e.prop
    <3> SUFFICES ASSUME NEW j \in 1 .. n, delivered[j] = e.prop PROVE FALSE
        OBVIOUS
    <3>1. CASE fanout
          BY <2>1, <2>3, <3>1 DEF OnePlace
    <3>2. CASE ~fanout
      <4>1. e.prop \in ToSet(Listing[Origin])
            BY <2>1, <3>2 DEF InLine
      <4>2. PICK i \in Indices(Origin) : Listing[Origin][i] = e.prop
            BY <4>1 DEF ToSet, Indices
      <4>3. Place(e.prop) \in Int
            BY <4>2, PlaceFacts, IndexFacts, SearchConstants
      <4> QED
          BY <2>5, <3>2, <4>3
    <3> QED
        BY <3>1, <3>2
  <2>7. \A j \in DOMAIN delivered' : j \in 1 .. n \/ j = n + 1
        BY <2>2
  <2>8. InListingOrder'
    <3> SUFFICES ASSUME ~fanout, NEW j \in DOMAIN delivered', NEW k \in DOMAIN delivered', j < k
                 PROVE  Place(delivered'[j]) < Place(delivered'[k])
        BY <2>4 DEF InListingOrder
    <3>1. j \in 1 .. n
          BY <2>2
    <3>2. CASE k = n + 1
          BY <2>2, <2>5, <3>1, <3>2
    <3>3. CASE k \in 1 .. n
          BY <2>2, <3>1, <3>3 DEF InListingOrder
    <3> QED
        BY <2>7, <3>2, <3>3
  <2>9. IsInjective(delivered')
        BY <2>2, <2>6, <2>7 DEF ShownOnce, IsInjective
  <2>10. fanout' => \A p, q \in ToSet(delivered') : Id[p] = Id[q] => p = q
        BY DEF OnePlace, Present, Shown
  <2> QED
      BY <2>8, <2>9, <2>10 DEF ShownOnce
<1>3. ASSUME NEW c \in Cities, Take(c) \/ Forward(c)
      PROVE  UNCHANGED <<fanout, delivered>>
      BY <1>3 DEF Take, Forward, output
<1>4. Receive => fanout' = fanout
      BY DEF Receive
<1> QED
    BY <1>1, <1>2, <1>3, <1>4, SearchAside, ClocksAside DEF SearchNext, Server, Searching, output

-------------------------------------------------------------------------------
(* Nothing is lost on the way *)

\* What is sent and enriched stays among what was seen, shown or is on its way.
LEMMA NothingLostGrows ==
    ASSUME NothingLost, fanout' = fanout,
           \A c \in Active : \A i \in Indices(c) :
               i < Sent(c)' /\ worker'[c][i] = "ready" => i < Sent(c) /\ worker[c][i] = "ready",
           fanout => \A c \in Active : \A p :
               Id[p] \in seen \/ p \in Carried(city[c]) => Id[p] \in seen' \/ p \in Carried(city'[c]),
           ~fanout => Shown \cup Carried(results) \subseteq Shown' \cup Carried(results')
    PROVE  NothingLost'
<1>1. Active' = Active
      BY DEF Active
<1> SUFFICES ASSUME NEW c \in Active, NEW i \in Indices(c), i < Sent(c)', worker'[c][i] = "ready"
             PROVE  Accounted(c, Listing[c][i])'
    BY <1>1 DEF NothingLost
<1>2. Accounted(c, Listing[c][i])
      BY DEF NothingLost
<1> QED
    BY <1>2 DEF Accounted, Carried

LEMMA NothingLostInit == SearchInit => NothingLost
<1> SUFFICES ASSUME SearchInit, NEW c \in Active, NEW i \in Indices(c) PROVE worker[c][i] # "ready"
    BY DEF NothingLost
<1>1. c \in Cities
      BY SearchConstants DEF Active
<1> QED
    BY <1>1 DEF SearchInit

LEMMA NothingLostStep == SearchTypeOK /\ Stages /\ OnePlace /\ NothingLost /\ [SearchNext]_vars => NothingLost'
<1> SUFFICES ASSUME SearchTypeOK, Stages, OnePlace, NothingLost, [SearchNext]_vars PROVE NothingLost'
    OBVIOUS
<1>0. Origin \in Cities /\ \A c \in Active : c \in Cities
      BY SearchConstants DEF Active
<1>1. ASSUME NEW c \in Cities, Lists(c) \/ SendProgress(c) \/ SendError(c) \/ Return(c) \/ Begin(c)
      PROVE  NothingLost'
  <2>1. UNCHANGED <<fanout, forward, output>>
        BY <1>1 DEF Lists, SendProgress, SendError, Return, Begin
  <2>2. Sent(c)' = Sent(c) /\ \A d \in Cities \ {c} : Sent(d)' = Sent(d) /\ worker'[d] = worker[d]
    <3>1. \A d \in Cities \ {c} : phase'[d] = phase[d] /\ next'[d] = next[d] /\ worker'[d] = worker[d]
          BY <1>1 DEF Lists, SendProgress, SendError, Return, Begin, Goto, SearchTypeOK
    <3> QED
        BY <1>1, <3>1, SentStep DEF Sent
  <2>3. \A i \in Indices(c) : i < Sent(c)' => worker'[c][i] = worker[c][i]
    <3>1. CASE Begin(c)
      <4>1. Sent(c)' = 1
            BY <2>2, <3>1 DEF Begin, Stages, Sent
      <4> QED
          BY <4>1, IndexFacts
    <3>2. CASE ~Begin(c)
          BY <1>1, <3>2 DEF Lists, SendProgress, SendError, Return
    <3> QED
        BY <3>1, <3>2
  <2>4. \A d \in Active : \A i \in Indices(d) :
             i < Sent(d)' /\ worker'[d][i] = "ready" => i < Sent(d) /\ worker[d][i] = "ready"
        BY <1>0, <2>2, <2>3
  <2>5. /\ \A d \in Active : Carried(city[d]) \subseteq Carried(city'[d])
        /\ Carried(results) \subseteq Carried(results')
    <3>1. CASE UNCHANGED <<city, results>>
          BY <3>1
    <3>2. CASE \E e \in Events : Put(c, e)
      <4>1. PICK e \in Events : Put(c, e)
            BY <3>2
      <4>2. \A d \in Active : Carried(city[d]) \subseteq Carried(city'[d])
            BY <1>0, <4>1, PutEffect
      <4> QED
          BY <4>1, <4>2, PutEffect
    <3> QED
        BY <1>1, <3>1, <3>2, QuietEvents DEF Lists, SendProgress, SendError, Return, Begin
  <2> QED
      BY <2>1, <2>4, <2>5, NothingLostGrows DEF forward, output, Shown
<1>2. ASSUME NEW c \in Cities, NEW i \in Indices(c), Acquire(c, i) \/ GiveUp(c, i) \/ Answer(c, i)
      PROVE  NothingLost'
  <2>1. PICK w \in {"fetch", "ready", "failed"} : Become(c, i, w)
        BY <1>2 DEF Acquire, GiveUp, Answer
  <2>2. UNCHANGED <<fanout, phase, next, city, results, forward, output>> /\ worker[c][i] \notin {"ready", "failed"}
        BY <1>2 DEF Acquire, GiveUp, Answer
  <2>3. \A d \in Cities : Sent(d)' = Sent(d)
        BY <2>2 DEF Sent
  <2>4. \A d \in Active : \A j \in Indices(d) :
             j < Sent(d)' /\ worker'[d][j] = "ready" => j < Sent(d) /\ worker[d][j] = "ready"
    <3> SUFFICES ASSUME NEW d \in Active, NEW j \in Indices(d), j < Sent(d), worker'[d][j] = "ready"
                 PROVE  worker[d][j] = "ready"
        BY <1>0, <2>3
    <3>1. worker[d][j] \in {"ready", "failed"} /\ d \in Cities
          BY <1>0 DEF Stages
    <3>2. ~(d = c /\ j = i)
          BY <2>2, <3>1
    <3> QED
        BY <2>1, <3>1, <3>2, BecomeType
  <2> QED
      BY <2>2, <2>4, NothingLostGrows DEF forward, output, Shown
<1>3. ASSUME NEW c \in Cities, SendResult(c)
      PROVE  NothingLost'
  <2> DEFINE p == Listing[c][next[c]]
  <2>1. PICK e \in Events : /\ Put(c, e) /\ e.prop = p /\ next[c] \in Indices(c)
                            /\ e.type = "property" <=> worker[c][next[c]] = "ready"
        BY <1>3, NextResult
  <2>2. UNCHANGED <<fanout, worker, forward, output>> /\ (~fanout => c = Origin)
        BY <1>3, Active1 DEF SendResult
  <2>3. Sent(c)' = next[c] + 1 /\ Sent(c) = next[c] /\ \A d \in Cities \ {c} : Sent(d)' = Sent(d)
        BY <1>3, SentStep DEF SendResult, Goto, SearchTypeOK, Sent
  <2>4. \A d \in Active : Carried(city[d]) \subseteq Carried(city'[d])
        BY <1>0, <2>1, PutEffect
  <2>5. Carried(results) \subseteq Carried(results') /\ Shown' = Shown /\ seen' = seen /\ Active' = Active
        BY <2>1, <2>2, PutEffect DEF forward, output, Shown, Active
  <2> SUFFICES ASSUME NEW d \in Active, NEW i \in Indices(d), i < Sent(d)', worker[d][i] = "ready"
               PROVE  Accounted(d, Listing[d][i])'
      BY <2>2, <2>5 DEF NothingLost
  <2>6. CASE i < Sent(d)
    <3>1. Accounted(d, Listing[d][i])
          BY <2>6 DEF NothingLost
    <3> QED
        BY <2>2, <2>4, <2>5, <3>1 DEF Accounted, Carried
  <2>7. CASE ~(i < Sent(d))
    <3>1. d = c /\ i = next[c]
      <4>1. d = c
            BY <1>0, <2>3, <2>7
      <4> QED
          BY <2>1, <2>3, <2>7, <4>1, IndexFacts
    <3>2. e.type = "property" /\ e.prop = Listing[d][i]
          BY <2>1, <3>1
    <3> QED
        BY <2>1, <2>2, <3>1, <3>2, PutEffect DEF Accounted, Carried
  <2> QED
      BY <2>6, <2>7
<1>4. ASSUME NEW c \in Cities, Take(c)
      PROVE  NothingLost'
  <2> DEFINE e == Head(city[c])
  <2>1. fanout /\ city[c] \in Seq(Events) /\ city[c] # <<>> /\ UNCHANGED <<fanout, search>>
        /\ city' = [city EXCEPT ![c] = Tail(city[c])] /\ city \in [Cities -> Seq(Events)]
        BY <1>4 DEF Take, SearchTypeOK
  <2>2. Carried(city[c]) = Carried(Tail(city[c])) \cup IF e.type = "property" THEN {e.prop} ELSE {}
        BY <2>1, CarriedTail
  <2>3. seen \subseteq seen' /\ (e.type = "property" => Id[e.prop] \in seen')
        BY <1>4 DEF Take, forward
  <2>4. city'[c] = Tail(city[c]) /\ \A d \in Cities \ {c} : city'[d] = city[d]
        BY <2>1
  <2>5. \A d \in Active : \A p :
           Id[p] \in seen \/ p \in Carried(city[d]) => Id[p] \in seen' \/ p \in Carried(city'[d])
        BY <1>0, <2>2, <2>3, <2>4
  <2> QED
      BY <2>1, <2>5, NothingLostGrows DEF search, Sent
<1>5. ASSUME NEW c \in Cities, Forward(c)
      PROVE  NothingLost'
  <2>1. fanout /\ UNCHANGED <<fanout, search, city, seen>>
        BY <1>5 DEF Forward, Stages
  <2> QED
      BY <2>1, NothingLostGrows DEF search, Sent
<1>6. CASE Receive
  <2>1. UNCHANGED <<fanout, search, city, forward>>
        BY <1>6 DEF Receive
  <2>2. Shown \cup Carried(results) \subseteq Shown' \cup Carried(results')
        BY <1>6, ReceiveEffect
  <2> QED
      BY <2>1, <2>2, NothingLostGrows DEF search, forward, Sent
<1>7. ASSUME Complete \/ TimesOut \/ Expires \/ (\E c \in Cities : EnrichmentTimesOut(c)) \/ UNCHANGED vars
      PROVE  NothingLost'
  <2>1. UNCHANGED <<fanout, phase, worker, next, city, results, forward, output>>
        BY <1>7, ClocksAside
  <2> QED
      BY <2>1, NothingLostGrows DEF forward, output, Shown, Sent
<1> QED
    BY <1>1, <1>2, <1>3, <1>4, <1>5, <1>6, <1>7 DEF SearchNext, Server, Searching

-------------------------------------------------------------------------------
(* The counts of a search without a radius *)

Sum ==
    /\ IsFiniteSet(filtered) /\ IsFiniteSet(Coming)
    /\ Len(delivered) + Cardinality(filtered) + failedCount + Cardinality(Coming) = Sent(Origin) - 1

Totals ==
    /\ phase[Origin] \in {"search", "first", "error"} => totalCount = 0 /\ ~Ticked
    /\ phase[Origin] \in {"send", "tick"} => totalCount = Len(Listing[Origin]) \/ Ticked
    /\ phase[Origin] = "closed" =>
          \/ next[Origin] = Len(Listing[Origin]) + 1 /\ (totalCount = Len(Listing[Origin]) \/ Ticked)
          \/ next[Origin] = 1 /\ totalCount = 0 /\ ~Ticked

LEMMA BooksInit == SearchInit => Books
<1> SUFFICES ASSUME SearchInit, ~fanout PROVE Books
    BY DEF Books
<1>1. results = <<>> /\ delivered = <<>> /\ filtered = {} /\ failedCount = 0 /\ totalCount = 0
      BY DEF SearchInit
<1>2. ToSet(<<>>) = {} /\ Len(<<>>) = 0
      BY DEF ToSet
<1>3. Coming = {} /\ ~Ticked
      BY <1>1, <1>2 DEF Coming, Ticked
<1>4. Origin \in Cities /\ phase[Origin] = "search" /\ Sent(Origin) = 1
      BY SearchConstants DEF SearchInit, Active, Sent
<1>5. IsFiniteSet({}) /\ Cardinality({}) = 0
      BY FS_EmptySet
<1> QED
    BY <1>1, <1>2, <1>3, <1>4, <1>5 DEF Books

\* Adding one and taking one away, in the sum of the four counts.
LEMMA SumTypes ==
    ASSUME SearchTypeOK, Sum
    PROVE  /\ Len(delivered) \in Nat /\ Cardinality(filtered) \in Nat
           /\ failedCount \in Nat /\ Cardinality(Coming) \in Nat
BY FS_CardinalityType DEF SearchTypeOK, Sum

LEMMA PlaceType ==
    ASSUME NEW p \in ToSet(Listing[Origin])
    PROVE  Place(p) \in Nat
<1>1. PICK i \in Indices(Origin) : Listing[Origin][i] = p
      BY DEF ToSet, Indices
<1> QED
    BY <1>1, PlaceFacts, IndexFacts, SearchConstants

LEMMA SumReceive ==
    ASSUME SearchTypeOK, InLine, ~fanout, Sum, Receive
    PROVE  Sum'
<1> DEFINE e == Head(results)
<1>1. e \in Events /\ UNCHANGED search
      BY ReceiveEffect DEF Receive
<1>2. Sent(Origin)' = Sent(Origin) /\ Sent(Origin) - 1 = Len(delivered) + Cardinality(filtered) + failedCount + Cardinality(Coming)
      BY <1>1 DEF Sent, search, Sum
<1>3. Len(delivered) \in Nat /\ Cardinality(filtered) \in Nat /\ failedCount \in Nat /\ Cardinality(Coming) \in Nat
      BY SumTypes
<1>4. ASSUME Numbered(e)
      PROVE  IsFiniteSet(Coming') /\ Cardinality(Coming') = Cardinality(Coming) - 1 /\ e.prop \notin Shown
  <2>1. Coming = Coming' \cup {e.prop}
        BY <1>4, ReceiveEffect
  <2>2. e.prop \in ToSet(Listing[Origin])
        BY <2>1 DEF InLine
  <2>3. Place(e.prop) \in Nat
        BY <2>2, PlaceType
  <2>4. e.prop \notin Coming'
        BY <1>4, <2>3, FirstInLine
  <2>5. e.prop \notin Shown
        BY <2>1, <2>3 DEF InLine
  <2>6. Coming' = Coming \ {e.prop} /\ e.prop \in Coming
        BY <2>1, <2>4
  <2> QED
      BY <2>5, <2>6, FS_RemoveElement DEF Sum
<1>5. CASE e.type = "property" /\ delivered' = Append(delivered, e.prop) /\ UNCHANGED filtered
  <2>1. delivered' = Append(delivered, e.prop) /\ UNCHANGED <<filtered, failedCount>>
        BY <1>5 DEF Receive
  <2>2. Len(delivered') = Len(delivered) + 1
    <3>1. e.prop \in All /\ delivered \in Seq(All)
          BY <1>1, <1>5, EventFacts DEF SearchTypeOK, Numbered
    <3> QED
        BY <2>1, <3>1, AppendFacts
  <2>3. IsFiniteSet(Coming') /\ Cardinality(Coming') = Cardinality(Coming) - 1
        BY <1>4, <1>5 DEF Numbered
  <2>4. IsFiniteSet(filtered') /\ Cardinality(filtered') = Cardinality(filtered)
        BY <2>1 DEF Sum
  <2> QED
      BY <1>2, <1>3, <2>1, <2>2, <2>3, <2>4 DEF Sum
<1>6. CASE e.type = "property" /\ filtered' = filtered \cup {e.prop} /\ UNCHANGED delivered
  <2>1. filtered' = filtered \cup {e.prop} /\ UNCHANGED <<delivered, failedCount>>
        BY <1>6 DEF Receive
  <2>2. e.prop \notin filtered
        BY <1>4, <1>6 DEF Numbered, Shown
  <2>3. IsFiniteSet(filtered') /\ Cardinality(filtered') = Cardinality(filtered) + 1
        BY <2>1, <2>2, FS_AddElement DEF Sum
  <2> QED
      BY <1>2, <1>3, <1>4, <1>6, <2>1, <2>3 DEF Sum, Numbered
<1>7. CASE e.type = "failed"
  <2>1. failedCount' = failedCount + 1 /\ UNCHANGED <<delivered, filtered>>
        BY <1>7 DEF Receive
  <2> QED
      BY <1>2, <1>3, <1>4, <1>7, <2>1 DEF Sum, Numbered
<1>8. CASE e.type \in {"progress", "error"}
  <2>1. UNCHANGED <<delivered, filtered, failedCount>>
    <3>1. CASE e.type = "progress"
          BY <3>1 DEF Receive
    <3>2. CASE e.type = "error"
          BY <3>2 DEF Receive, output
    <3> QED
        BY <1>8, <3>1, <3>2
  <2>2. ~Numbered(e)
        BY <1>8 DEF Numbered
  <2>3. Coming' = Coming
        BY <2>2, ReceiveEffect
  <2> QED
      BY <1>2, <2>1, <2>3 DEF Sum
<1>9. e.type = "property" =>
         \/ delivered' = Append(delivered, e.prop) /\ UNCHANGED filtered
         \/ filtered' = filtered \cup {e.prop} /\ UNCHANGED delivered
      BY DEF Receive
<1> QED
    BY <1>1, <1>5, <1>6, <1>7, <1>8, <1>9, EventFacts

LEMMA TotalsReceive ==
    ASSUME SearchTypeOK, ~fanout, Totals, Receive
    PROVE  Totals'
<1> DEFINE e == Head(results)
<1>1. e \in Events /\ UNCHANGED search /\ results \in Seq(Events) /\ results # <<>> /\ results' = Tail(results)
      BY ReceiveEffect DEF Receive, SearchTypeOK
<1>2. ToSet(results) = {e} \cup ToSet(results')
      BY <1>1, TailSet
<1>3. CASE e.type = "progress"
  <2>1. Ticked /\ totalCount' = Len(Listing[Origin])
        BY <1>2, <1>3 DEF Ticked, Receive
  <2>2. phase[Origin] \notin {"search", "first", "error"}
        /\ (phase[Origin] = "closed" => next[Origin] = Len(Listing[Origin]) + 1)
        BY <2>1 DEF Totals
  <2> QED
      BY <1>1, <2>1, <2>2 DEF Totals, search
<1>4. CASE e.type # "progress"
  <2>1. Ticked' <=> Ticked
        BY <1>2, <1>4 DEF Ticked
  <2>2. totalCount' = totalCount
    <3>1. CASE e.type = "property"
          BY <3>1 DEF Receive
    <3>2. CASE e.type = "failed"
          BY <3>2 DEF Receive
    <3>3. CASE e.type = "error"
          BY <3>3 DEF Receive, output
    <3> QED
        BY <1>1, <1>4, <3>1, <3>2, <3>3, EventFacts
  <2> QED
      BY <1>1, <2>1, <2>2 DEF Totals, search
<1> QED
    BY <1>3, <1>4

LEMMA BooksStep == SearchTypeOK /\ Stages /\ InLine /\ Books /\ [SearchNext]_vars => Books'
<1> SUFFICES ASSUME SearchTypeOK, Stages, InLine, Books, [SearchNext]_vars PROVE Books'
    OBVIOUS
<1> SUFFICES ASSUME ~fanout PROVE Books'
    BY FanoutStays DEF Books
<1>0. Origin \in Cities /\ Sum /\ Totals /\ (Sum' /\ Totals' => Books')
      BY SearchConstants DEF Books, Sum, Totals
<1>1. ASSUME UNCHANGED <<results, output>>, Sent(Origin)' = Sent(Origin)
      PROVE  Sum' /\ (Ticked' <=> Ticked) /\ totalCount' = totalCount
  <2>1. Coming' = Coming /\ (Ticked' <=> Ticked)
        BY <1>1 DEF Coming, Ticked
  <2> QED
      BY <1>0, <1>1, <2>1 DEF Sum, output
<1>2. ASSUME NEW c \in Cities, NEW i \in Indices(c), Acquire(c, i) \/ GiveUp(c, i) \/ Answer(c, i)
      PROVE  Books'
  <2>1. UNCHANGED <<phase, next, results, output>>
        BY <1>2 DEF Acquire, GiveUp, Answer
  <2>2. Sum' /\ (Ticked' <=> Ticked) /\ totalCount' = totalCount
        BY <1>1, <2>1 DEF Sent
  <2> QED
      BY <1>0, <2>1, <2>2 DEF Totals
<1>3. ASSUME NEW c \in Cities, Lists(c)
      PROVE  Books'
  <2>1. /\ c = Origin /\ UNCHANGED <<next, results, output>>
        /\ phase[Origin] = "search" /\ phase'[Origin] \in {"first", "error"}
        BY <1>3, Active1 DEF Lists, Goto, SearchTypeOK
  <2>2. Sent(c)' = Sent(c)
        BY <1>3, SentStep
  <2>3. Sum' /\ (Ticked' <=> Ticked) /\ totalCount' = totalCount
        BY <1>1, <2>1, <2>2
  <2> QED
      BY <1>0, <2>1, <2>3 DEF Totals
<1>4. ASSUME NEW c \in Cities, Return(c)
      PROVE  Books'
  <2>1. /\ c = Origin /\ UNCHANGED <<next, results, output>>
        /\ phase[Origin] = "send" /\ phase'[Origin] = "closed"
        /\ next[c] > Len(Listing[c]) /\ next[c] \in 1 .. Len(Listing[c]) + 1
        BY <1>4, Active1 DEF Return, Goto, SearchTypeOK
  <2>2. Sent(c)' = Sent(c)
        BY <1>4, SentStep
  <2>3. Sum' /\ (Ticked' <=> Ticked) /\ totalCount' = totalCount
        BY <1>1, <2>1, <2>2
  <2>4. next[Origin] = Len(Listing[Origin]) + 1
        BY <1>0, <2>1, IndexFacts
  <2> QED
      BY <1>0, <2>1, <2>3, <2>4 DEF Totals
<1>5. ASSUME NEW c \in Cities, NEW e \in Events, ~Numbered(e), Put(c, e), c = Origin,
             Sent(c)' = Sent(c), UNCHANGED output
      PROVE  Sum' /\ (Ticked' <=> Ticked \/ e.type = "progress") /\ totalCount' = totalCount
  <2>1. Coming' = Coming /\ ToSet(results') = ToSet(results) \cup {e}
        BY <1>5, PutEffect
  <2>2. Ticked' <=> Ticked \/ e.type = "progress"
        BY <2>1 DEF Ticked
  <2> QED
      BY <1>0, <1>5, <2>1, <2>2 DEF Sum, output
<1>6. ASSUME NEW c \in Cities, Begin(c)
      PROVE  Books'
  <2>1. /\ c = Origin /\ UNCHANGED output /\ Put(c, Event("progress", Nobody))
        /\ phase'[Origin] = "send"
        BY <1>6, Active1 DEF Begin, Goto, SearchTypeOK
  <2>2. Sent(c)' = Sent(c)
        BY <1>6, SentStep
  <2>3. Sum' /\ Ticked'
        BY <1>5, <2>1, <2>2, QuietEvents
  <2> QED
      BY <1>0, <2>1, <2>3 DEF Totals
<1>7. ASSUME NEW c \in Cities, SendProgress(c)
      PROVE  Books'
  <2>1. /\ c = Origin /\ UNCHANGED output /\ Put(c, Event("progress", Nobody))
        /\ phase'[Origin] = "send"
        BY <1>7, Active1 DEF SendProgress, Goto, SearchTypeOK
  <2>2. Sent(c)' = Sent(c)
        BY <1>7, SentStep
  <2>3. Sum' /\ Ticked'
        BY <1>5, <2>1, <2>2, QuietEvents
  <2> QED
      BY <1>0, <2>1, <2>3 DEF Totals
<1>8. ASSUME NEW c \in Cities, SendError(c)
      PROVE  Books'
  <2>1. /\ c = Origin /\ UNCHANGED <<next, output>> /\ Put(c, Event("error", Nobody))
        /\ phase[Origin] = "error" /\ phase'[Origin] = "closed"
        BY <1>8, Active1 DEF SendError, Goto, SearchTypeOK
  <2>2. Sent(c)' = Sent(c)
        BY <1>8, SentStep
  <2>3. Sum' /\ (Ticked' <=> Ticked) /\ totalCount' = totalCount
        BY <1>5, <2>1, <2>2, QuietEvents
  <2>4. next'[Origin] = 1 /\ totalCount = 0 /\ ~Ticked
        BY <1>0, <2>1 DEF Totals, Stages
  <2> QED
      BY <1>0, <2>1, <2>3, <2>4 DEF Totals
<1>9. ASSUME NEW c \in Cities, SendResult(c)
      PROVE  Books'
  <2>1. /\ c = Origin /\ UNCHANGED output /\ phase[Origin] = "send" /\ phase'[Origin] = "tick"
        BY <1>9, Active1 DEF SendResult, Goto, SearchTypeOK
  <2>2. PICK e \in Events : /\ Put(c, e) /\ Numbered(e) /\ e.prop = Listing[c][next[c]]
                            /\ next[c] \in Indices(c)
        BY <1>9, NextResult
  <2>3. Coming' = Coming \cup {e.prop} /\ ToSet(results) \subseteq ToSet(results')
        BY <2>2, PutEffect
  <2>4. Sent(Origin)' = next[c] + 1 /\ Sent(Origin) = next[c] /\ next[c] \in Nat
        BY <1>9, <2>1, SentStep DEF SearchTypeOK
  <2>5. e.prop \notin Coming
    <3>1. Place(e.prop) = next[c]
          BY <2>1, <2>2, PlaceFacts
    <3> QED
        BY <2>4, <3>1 DEF InLine
  <2>6. IsFiniteSet(Coming') /\ Cardinality(Coming') = Cardinality(Coming) + 1
        BY <1>0, <2>3, <2>5, FS_AddElement DEF Sum
  <2>7. Sum'
        BY <1>0, <2>1, <2>4, <2>6, SumTypes DEF Sum, output
  <2>8. Totals'
        BY <1>0, <2>1, <2>3 DEF Totals, Ticked, output
  <2> QED
      BY <1>0, <2>7, <2>8
<1>10. ASSUME NEW c \in Cities, Take(c) \/ Forward(c)
       PROVE  Books'
       BY <1>10 DEF Take, Forward, Stages
<1>11. CASE Receive
       BY <1>0, <1>11, SumReceive, TotalsReceive
<1>12. ASSUME Complete \/ TimesOut \/ Expires \/ (\E c \in Cities : EnrichmentTimesOut(c)) \/ UNCHANGED vars
       PROVE  Books'
  <2>1. UNCHANGED <<phase, next, results, output>>
        BY <1>12, ClocksAside
  <2>2. Sum' /\ (Ticked' <=> Ticked) /\ totalCount' = totalCount
        BY <1>1, <2>1 DEF Sent
  <2> QED
      BY <1>0, <2>1, <2>2 DEF Totals
<1> QED
    BY <1>2, <1>3, <1>4, <1>6, <1>7, <1>8, <1>9, <1>10, <1>11, <1>12 DEF SearchNext, Server, Searching

-------------------------------------------------------------------------------
(* The theorems *)

LEMMA SearchInvInit == SearchInit => SearchInv
<1>1. SearchInit => InListingOrder /\ ShownOnce
  <2> SUFFICES ASSUME SearchInit PROVE InListingOrder /\ ShownOnce
      OBVIOUS
  <2>1. DOMAIN delivered = {}
        BY DEF SearchInit
  <2> QED
      BY <2>1 DEF InListingOrder, ShownOnce, IsInjective, ToSet
<1> QED
    BY <1>1, TypeInit, StagesInit, InLineInit, OnePlaceInit, NothingLostInit, BooksInit DEF SearchInv

LEMMA SearchInvStep == SearchInv /\ [SearchNext]_vars => SearchInv'
BY TypeStep, StagesStep, InLineStep, OnePlaceStep, DeliveredStep, NothingLostStep, BooksStep DEF SearchInv

\* Where each result of a streaming search is, in which order, and how many there are.
THEOREM SearchInvariant == SearchSpec => []SearchInv
<1>1. SearchInit => SearchInv
      BY SearchInvInit
<1>2. SearchInv /\ [SearchNext]_vars => SearchInv'
      BY SearchInvStep
<1> QED
    BY <1>1, <1>2, PTL DEF SearchSpec

\* nextIndex and the buffer of pending results: one city's properties are shown in the
\* order of its listing, whichever goroutine ends first.
THEOREM ShownInOrder == SearchSpec => []InListingOrder
<1>1. SearchInv => InListingOrder
      BY DEF SearchInv
<1> QED
    BY <1>1, SearchInvariant, PTL

\* seenIDs: whatever the cities share, no two entries with one id are shown.
THEOREM NothingShownTwice == SearchSpec => []ShownOnce
<1>1. SearchInv => ShownOnce
      BY DEF SearchInv
<1> QED
    BY <1>1, SearchInvariant, PTL

\* What the handler saves and sends as "complete" is all that the searches obtained, but for
\* entries that a radius search dropped for another with the same id; its counts add up.
THEOREM CompleteMeansAll == SearchSpec => []CompleteIsAll
<1>1. SearchInv => CompleteIsAll
  <2> SUFFICES ASSUME SearchInv, handler = "complete" PROVE CompleteIsAll
      BY DEF CompleteIsAll
  <2>1. SearchTypeOK /\ Stages /\ NothingLost /\ OnePlace /\ Books /\ ResultsClosed /\ results = <<>>
        BY DEF SearchInv, Stages
  <2>2. ToSet(<<>>) = {}
        BY DEF ToSet
  <2>3. Coming = {} /\ Carried(<<>>) = {} /\ ~Ticked
        BY <2>1, <2>2 DEF Coming, Carried, Ticked
  <2>4. ASSUME NEW c \in Active, next[c] # 1, NEW i \in Indices(c), worker[c][i] # "failed"
        PROVE  Listing[c][i] \in Shown \/ (fanout /\ Id[Listing[c][i]] \in Ids(Shown))
    <3>1. c \in Cities /\ phase[c] = "closed" /\ city[c] = <<>>
          BY <2>1, SearchConstants DEF ResultsClosed, Active
    <3>2. next[c] = Len(Listing[c]) + 1 /\ Sent(c) = next[c]
          BY <2>1, <2>4, <3>1 DEF Stages, Sent
    <3>3. i < Sent(c)
          BY <3>1, <3>2, IndexFacts
    <3>4. worker[c][i] = "ready"
          BY <2>1, <2>4, <3>1, <3>3 DEF Stages
    <3>5. Accounted(c, Listing[c][i])
          BY <2>1, <3>3, <3>4 DEF NothingLost
    <3>6. fanout => seen = Ids(Shown)
      <4>1. fanout => Holding = {}
            BY <2>1, AllQuiet DEF Holding
      <4>2. fanout => Present = Shown
            BY <2>3, <4>1 DEF Present
      <4> QED
          BY <2>1, <4>2 DEF OnePlace
    <3> QED
        BY <2>1, <2>3, <3>1, <3>5, <3>6 DEF Accounted
  <2>5. ASSUME ~fanout
        PROVE  Len(delivered) + Cardinality(filtered) + failedCount = totalCount
    <3>1. Origin \in Cities /\ phase[Origin] = "closed"
          BY <2>1, <2>5, SearchConstants DEF ResultsClosed, Active
    <3>2. Sum /\ Totals
          BY <2>1, <2>5 DEF Books, Sum, Totals
    <3>3. Sent(Origin) = next[Origin] /\ next[Origin] - 1 = totalCount
          BY <2>3, <3>1, <3>2, IndexFacts DEF Sent, Totals
    <3>4. Cardinality(Coming) = 0
          BY <2>3, FS_EmptySet
    <3> QED
        BY <2>1, <3>2, <3>3, <3>4, SumTypes DEF Sum
  <2> QED
      BY <2>4, <2>5 DEF CompleteIsAll
<1> QED
    BY <1>1, SearchInvariant, PTL
===============================================================================

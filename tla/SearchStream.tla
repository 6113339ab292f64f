---------------------------- MODULE SearchStream ------------------------------
(***************************************************************************)
(* A streaming search: SearchWithStreaming (finder/orchestrator.go) lists  *)
(* the properties of a city, enriches them side by side under a semaphore  *)
(* and sends them in the listing's order; the handler                      *)
(* (discover/streaming_search.go) runs one search, or one for each city    *)
(* within a radius with a forwarder that drops duplicates, and passes what *)
(* arrives on to the client.                                               *)
(*                                                                         *)
(* An entry of a listing is a value of its own, whatever Property.ID it    *)
(* bears: Claude's ids are made of the second of the clock and the index   *)
(* in the answer (claude.go:447) and HasData's may be empty                *)
(* (hasdata.go:504), so that two entries, of one city or of two, may have  *)
(* the same Id and be one house or two.  Their other data, the investment  *)
(* metrics, the cache and the heartbeat are left out.  The channel that    *)
(* collects the goroutines' results has room for all of them and is not a  *)
(* step.                                                                   *)
(***************************************************************************)
EXTENDS Integers, FiniteSets, Sequences, SequencesExt

CONSTANTS
    Cities, Origin,   \* the cities within the radius, and the one asked for
    Listing,          \* the entries listed for each city
    Id,               \* the Property.ID of each entry
    Concurrency,      \* enrichmentConcurrency
    CityBuffer, Buffer  \* capacities of cityResults (50) and results (200)

All    == UNION {ToSet(Listing[c]) : c \in Cities}
Ids(S) == {Id[p] : p \in S}

\* IsInjective: the entries of a listing are told apart by their place, not by their Id.
ASSUME SearchConstants ==
    /\ Origin \in Cities /\ IsFiniteSet(Cities)
    /\ DOMAIN Listing = Cities
    /\ \A c \in Cities : /\ Listing[c] \in Seq(ToSet(Listing[c])) /\ IsInjective(Listing[c])
                         /\ "none" \notin ToSet(Listing[c])
    /\ DOMAIN Id = All
    /\ Concurrency \in Nat \ {0} /\ CityBuffer \in Nat \ {0} /\ Buffer \in Nat \ {0}

VARIABLES
    fanout,         \* was a radius given?
    phase,          \* of each city: what SearchWithStreaming is about to do
    worker,         \* of each city: its goroutines, one for each listed property
    next,           \* of each city: nextIndex
    late,           \* the cities whose enrichment context has timed out
    city, results,  \* the channels
    held, seen,     \* of each city: what its forwarder is sending; seenIDs
    handler,        \* what the handler is doing
    delivered, filtered, failedCount, totalCount,   \* what it took from the channel
    expired         \* is streamCtx done (time is up, the client left, the handler returned)?

search   == <<phase, worker, next, late>>
forward  == <<held, seen>>
output   == <<delivered, filtered, failedCount, totalCount>>
vars     == <<fanout, search, city, results, forward, handler, output, expired>>

Event(t, p) == [type |-> t, prop |-> p]
Nobody      == "none"
Events      == [type : {"property", "failed"}, prop : All] \cup [type : {"progress", "error"}, prop : {Nobody}]
Active      == IF fanout THEN Cities ELSE {Origin}
Indices(c)  == DOMAIN Listing[c]
\* Mutant of Enriching: a slot of the semaphore is not given back.
EnrichingOrReady(c) == {i \in Indices(c) : worker[c][i] \in {"fetch", "ready"}}
\* The holders of the semaphore.
Enriching(c) == {i \in Indices(c) : worker[c][i] = "fetch"}
Cancelled(c) == expired \/ c \in late

SearchTypeOK ==
    /\ fanout \in BOOLEAN /\ expired \in BOOLEAN
    /\ phase \in [Cities -> {"off", "search", "first", "send", "tick", "error", "closed"}]
    /\ DOMAIN worker = Cities /\ next \in [Cities -> Nat]
    /\ \A c \in Cities :
          /\ worker[c] \in [Indices(c) -> {"none", "wait", "fetch", "ready", "failed"}]
          /\ next[c] \in 1 .. Len(Listing[c]) + 1
          /\ Len(city[c]) <= CityBuffer
    /\ city \in [Cities -> Seq(Events)] /\ results \in Seq(Events) /\ Len(results) <= Buffer
    /\ held \in [Cities -> All \cup {Nobody}] /\ seen \subseteq Ids(All)
    /\ late \subseteq Cities
    /\ handler \in {"streaming", "complete", "timedout"}
    /\ delivered \in Seq(All) /\ filtered \subseteq All
    /\ failedCount \in Nat /\ totalCount \in Nat

SearchInit ==
    /\ fanout \in BOOLEAN
    /\ phase = [c \in Cities |-> IF c \in Active THEN "search" ELSE "off"]
    /\ worker = [c \in Cities |-> [i \in Indices(c) |-> "none"]]
    /\ next = [c \in Cities |-> 1]
    /\ late = {}
    /\ city = [c \in Cities |-> <<>>] /\ results = <<>>
    /\ held = [c \in Cities |-> Nobody] /\ seen = {}
    /\ handler = "streaming"
    /\ delivered = <<>> /\ filtered = {} /\ failedCount = 0 /\ totalCount = 0
    /\ expired = FALSE

-------------------------------------------------------------------------------
(* SearchWithStreaming *)

\* A blocking send to the channel the search was given.
Put(c, e) ==
    IF fanout THEN /\ Len(city[c]) < CityBuffer
                   /\ city' = [city EXCEPT ![c] = Append(@, e)]
                   /\ UNCHANGED results
    ELSE /\ Len(results) < Buffer
         /\ results' = Append(results, e)
         /\ UNCHANGED city

Goto(c, p) == phase' = [phase EXCEPT ![c] = p]
Become(c, i, w) == worker' = [worker EXCEPT ![c][i] = w]

\* The listing providers answer, or all fail: a radius search only logs that.
Lists(c) ==
    /\ phase[c] = "search"
    /\ \/ Goto(c, "first")
       \/ Goto(c, IF fanout THEN "closed" ELSE "error")
    /\ UNCHANGED <<fanout, worker, next, late, city, results, forward, handler, output, expired>>

\* Progress 0, then the goroutines; without a provider to enrich there is nothing to wait for.
Begin(c) ==
    /\ phase[c] = "first"
    /\ Put(c, Event("progress", Nobody))
    /\ Goto(c, "send")
    /\ \E w \in {"wait", "ready"} : worker' = [worker EXCEPT ![c] = [i \in Indices(c) |-> w]]
    /\ UNCHANGED <<fanout, next, late, forward, handler, output, expired>>

Acquire(c, i) ==
    /\ worker[c][i] = "wait"
    /\ Cardinality(Enriching(c)) < Concurrency
    /\ Become(c, i, "fetch")
    /\ UNCHANGED <<fanout, phase, next, late, city, results, forward, handler, output, expired>>

\* The context is done before the semaphore was free, or beside it.
GiveUp(c, i) ==
    /\ worker[c][i] = "wait" /\ Cancelled(c)
    /\ Become(c, i, "failed")
    /\ UNCHANGED <<fanout, phase, next, late, city, results, forward, handler, output, expired>>

\* The cache or the provider answers; an error leaves the property as it was listed.
Answer(c, i) ==
    /\ worker[c][i] = "fetch"
    /\ Become(c, i, "ready")
    /\ UNCHANGED <<fanout, phase, next, late, city, results, forward, handler, output, expired>>

\* The result at nextIndex goes out, once it is in the buffer; a status "nodata" has a
\* property and is sent as one.
SendResult(c) ==
    LET i == next[c]
    IN  /\ phase[c] = "send" /\ i \in Indices(c)
        /\ worker[c][i] \in {"ready", "failed"}
        /\ Put(c, Event(IF worker[c][i] = "ready" THEN "property" ELSE "failed", Listing[c][i]))
        /\ Goto(c, "tick")
        /\ UNCHANGED <<fanout, worker, next, late, forward, handler, output, expired>>

SendProgress(c) ==
    /\ phase[c] = "tick"
    /\ Put(c, Event("progress", Nobody))
    /\ next' = [next EXCEPT ![c] = @ + 1]
    /\ Goto(c, "send")
    /\ UNCHANGED <<fanout, worker, late, forward, handler, output, expired>>

SendError(c) ==
    /\ phase[c] = "error"
    /\ Put(c, Event("error", Nobody))
    /\ Goto(c, "closed")
    /\ UNCHANGED <<fanout, worker, next, late, forward, handler, output, expired>>

Return(c) ==
    /\ phase[c] = "send" /\ next[c] > Len(Listing[c])
    /\ Goto(c, "closed")
    /\ UNCHANGED <<fanout, worker, next, late, city, results, forward, handler, output, expired>>

\* streamingEnrichmentTimeout.
EnrichmentTimesOut(c) ==
    /\ phase[c] \in {"send", "tick"} /\ c \notin late
    /\ late' = late \cup {c}
    /\ UNCHANGED <<fanout, phase, worker, next, city, results, forward, handler, output, expired>>

-------------------------------------------------------------------------------
(* The forwarders of a radius search *)

\* Mutant of Take: the id is noted, but not looked for.
TakeAny(c) ==
    LET e == Head(city[c])
    IN  /\ fanout /\ held[c] = Nobody /\ city[c] # <<>>
        /\ city' = [city EXCEPT ![c] = Tail(@)]
        /\ IF e.type = "property"
           THEN held' = [held EXCEPT ![c] = e.prop] /\ seen' = seen \cup {Id[e.prop]}
           ELSE UNCHANGED forward
        /\ UNCHANGED <<fanout, search, results, handler, output, expired>>

\* LoadOrStore: only the first entry with an Id is kept, a different house that bears it
\* included; every other event is suppressed.
Take(c) ==
    LET e == Head(city[c])
    IN  /\ fanout /\ held[c] = Nobody /\ city[c] # <<>>
        /\ city' = [city EXCEPT ![c] = Tail(@)]
        /\ IF e.type = "property" /\ Id[e.prop] \notin seen
           THEN held' = [held EXCEPT ![c] = e.prop] /\ seen' = seen \cup {Id[e.prop]}
           ELSE UNCHANGED forward
        /\ UNCHANGED <<fanout, search, results, handler, output, expired>>

Forward(c) ==
    /\ held[c] # Nobody /\ Len(results) < Buffer
    /\ results' = Append(results, Event("property", held[c]))
    /\ held' = [held EXCEPT ![c] = Nobody]
    /\ UNCHANGED <<fanout, search, city, seen, handler, output, expired>>

\* Mutant of ResultsClosed: the searches are waited for, not the forwarders.
ClosedEarly == \A c \in Active : phase[c] = "closed"

\* close(results): after the search, or after every forwarder has drained its channel.
ResultsClosed == \A c \in Active : phase[c] = "closed" /\ city[c] = <<>> /\ held[c] = Nobody

-------------------------------------------------------------------------------
(* The handler *)

\* The filters on price, yield and rent look at the enriched copy that was sent, which may
\* be fit or not, whatever another copy of the house was.
Receive ==
    LET e == Head(results)
    IN  /\ handler = "streaming" /\ results # <<>>
        /\ results' = Tail(results)
        /\ CASE e.type = "property" ->
                  /\ \/ delivered' = Append(delivered, e.prop) /\ UNCHANGED filtered
                     \/ filtered' = filtered \cup {e.prop} /\ UNCHANGED delivered
                  /\ UNCHANGED <<failedCount, totalCount>>
             [] e.type = "failed" ->
                  failedCount' = failedCount + 1 /\ UNCHANGED <<delivered, filtered, totalCount>>
             [] e.type = "progress" ->
                  totalCount' = Len(Listing[Origin]) /\ UNCHANGED <<delivered, filtered, failedCount>>
             [] OTHER -> UNCHANGED output
        /\ UNCHANGED <<fanout, search, city, forward, handler, expired>>

\* The channel is closed and empty: the session is saved and "complete" sent.  The
\* deferred cancel() ends streamCtx.
Complete ==
    /\ handler = "streaming" /\ results = <<>> /\ ResultsClosed
    /\ handler' = "complete" /\ expired' = TRUE
    /\ UNCHANGED <<fanout, search, city, results, forward, output>>

\* select may take streamCtx.Done() even when results are waiting.
TimesOut ==
    /\ handler = "streaming" /\ expired
    /\ handler' = "timedout"
    /\ UNCHANGED <<fanout, search, city, results, forward, output, expired>>

\* streamingSearchTimeout is over, or the client leaves.
Expires ==
    /\ handler = "streaming" /\ ~expired
    /\ expired' = TRUE
    /\ UNCHANGED <<fanout, search, city, results, forward, handler, output>>

-------------------------------------------------------------------------------

Searching(c) ==
    \/ Lists(c) \/ Begin(c) \/ SendResult(c) \/ SendProgress(c) \/ SendError(c) \/ Return(c)
    \/ Take(c) \/ Forward(c)
    \/ \E i \in Indices(c) : Acquire(c, i) \/ GiveUp(c, i) \/ Answer(c, i)

Server == (\E c \in Cities : Searching(c)) \/ Receive \/ Complete \/ TimesOut

SearchNext == Server \/ Expires \/ \E c \in Cities : EnrichmentTimesOut(c)

\* The server runs, and providers answer within their own limits.  No step repeats for
\* ever, so this is fair to each goroutine.  The clocks and the client are owed nothing.
SearchSpec     == SearchInit /\ [][SearchNext]_vars
FairSearchSpec == SearchSpec /\ WF_vars(Server)

-------------------------------------------------------------------------------
(* Properties *)

Place(p) == CHOOSE i \in Indices(Origin) : Listing[Origin][i] = p
Shown    == ToSet(delivered) \cup filtered

\* Properties are enriched side by side and finish in any order, yet one city's are shown
\* in the order of its listing.
InListingOrder ==
    ~fanout => \A m, n \in DOMAIN delivered : m < n => Place(delivered[m]) < Place(delivered[n])

\* Cities overlap, and their forwarders run side by side: no entry is shown twice and, within
\* a radius, no two entries with the same Id are.
ShownOnce ==
    /\ IsInjective(delivered)
    /\ fanout => \A p, q \in ToSet(delivered) : Id[p] = Id[q] => p = q

\* "complete" is not sent while a search, a forwarder or a channel still holds a result:
\* every entry of every listing that was obtained was taken by the handler, or its goroutine
\* gave up, or, within a radius, the handler took another with the same Id; and the counts of
\* a search without a radius add up.
CompleteIsAll ==
    handler = "complete" =>
        /\ \A c \in Active : next[c] = 1 \/
              \A i \in Indices(c) :
                 \/ worker[c][i] = "failed"
                 \/ Listing[c][i] \in Shown
                 \/ fanout /\ Id[Listing[c][i]] \in Ids(Shown)
        /\ ~fanout => Len(delivered) + Cardinality(filtered) + failedCount = totalCount

\* What a channel carries: properties; and, on the way to the handler, results of any kind.
Carried(q)  == {e.prop : e \in {f \in ToSet(q) : f.type = "property"}}
Numbered(e) == e.type \in {"property", "failed"}
Coming      == {e.prop : e \in {f \in ToSet(results) : Numbered(f)}}
Holding     == {c \in Cities : held[c] # Nobody}

\* The index up to which a city's results have been sent.
Sent(c) == IF phase[c] = "tick" THEN next[c] + 1 ELSE next[c]

\* Where each search stands, and what is over when the handler has completed.
Stages ==
    /\ \A c \in Cities :
          /\ phase[c] = "off" <=> c \notin Active
          /\ phase[c] \in {"off", "search", "first", "error"} => next[c] = 1
          /\ phase[c] = "tick" => next[c] \in Indices(c)
          /\ phase[c] = "closed" => next[c] \in {1, Len(Listing[c]) + 1}
          /\ \A i \in Indices(c) : i < Sent(c) => worker[c][i] \in {"ready", "failed"}
          /\ ~fanout => held[c] = Nobody
    /\ handler = "complete" => ResultsClosed /\ results = <<>>

\* Without a radius, what was sent comes in the order of the listing.
InLine ==
    ~fanout =>
        /\ \A p \in Shown \cup Coming : p \in ToSet(Listing[Origin]) /\ Place(p) < Sent(Origin)
        /\ \A p \in Shown, q \in Coming : Place(p) < Place(q)
        /\ \A j, k \in DOMAIN results :
              j < k /\ Numbered(results[j]) /\ Numbered(results[k]) => Place(results[j].prop) < Place(results[k].prop)

\* The entries that have passed a forwarder's test.
Present == Shown \cup Coming \cup {held[c] : c \in Holding}

\* Within a radius, each Id seen is that of one entry, which is with one forwarder, once in
\* results, or shown.
OnePlace ==
    fanout =>
        /\ \A e \in ToSet(results) : e.type = "property"
        /\ IsInjective(results)
        /\ seen = Ids(Present)
        /\ \A p, q \in Present : Id[p] = Id[q] => p = q
        /\ Shown \cap Coming = {}
        /\ \A c \in Holding : held[c] \notin Shown \cup Coming
        /\ \A c, d \in Holding : held[c] = held[d] => c = d

\* An entry that was sent is on its way or with the handler, or its Id was seen.
Accounted(c, p) ==
    IF fanout THEN Id[p] \in seen \/ p \in Carried(city[c]) ELSE p \in Shown \cup Carried(results)

\* Nothing that was enriched and sent is lost.
NothingLost ==
    \A c \in Active : \A i \in Indices(c) :
        i < Sent(c) /\ worker[c][i] = "ready" =>
            Accounted(c, Listing[c][i])

Ticked == \E e \in ToSet(results) : e.type = "progress"

\* Without a radius the counts add up to what was sent, and the total is that of the listing.
Books ==
    ~fanout =>
        /\ IsFiniteSet(filtered) /\ IsFiniteSet(Coming)
        /\ Len(delivered) + Cardinality(filtered) + failedCount + Cardinality(Coming) = Sent(Origin) - 1
        /\ phase[Origin] \in {"search", "first", "error"} => totalCount = 0 /\ ~Ticked
        /\ phase[Origin] \in {"send", "tick"} => totalCount = Len(Listing[Origin]) \/ Ticked
        /\ phase[Origin] = "closed" =>
              \/ next[Origin] = Len(Listing[Origin]) + 1 /\ (totalCount = Len(Listing[Origin]) \/ Ticked)
              \/ next[Origin] = 1 /\ totalCount = 0 /\ ~Ticked

\* What every step of the search preserves; CompleteIsAll follows.
SearchInv ==
    /\ SearchTypeOK /\ Stages /\ InListingOrder /\ InLine
    /\ ShownOnce /\ OnePlace /\ NothingLost /\ Books

\* The semaphore, the bounded channels and the ordering never wait for one another in a
\* circle: the handler ends, without the clock's help.
StreamEnds == handler = "streaming" ~> handler # "streaming"

-------------------------------------------------------------------------------
(* A claim of a comment, which the code does not keep *)

\* streaming_search.go:155: "Heartbeats + context cancellation handle cleanup instead":
\* once the handler has returned, the searches and the forwarders end.
CleanedUp == handler # "streaming" ~> ResultsClosed
===============================================================================

------------------------------ MODULE Enrichment ------------------------------
(***************************************************************************)
(* One background enrichment job (property/finder/enrichment_job.go) and   *)
(* the event streams that follow it (handlers/discover/enrichment_sse.go). *)
(*                                                                         *)
(* runEnrichment starts a goroutine per property, at most Concurrency of   *)
(* them past the semaphore, waits for them all, saves the final status and *)
(* closes the channels of the subscribers.  A stream reads the saved       *)
(* status, subscribes, and reads the status again once its channel is      *)
(* closed.  Jobs share nothing but the semaphore's width, so one job shows *)
(* every behaviour.                                                        *)
(*                                                                         *)
(* The values that enrich a property are left out, and the saved status is *)
(* one cell: it expires 10 minutes after the last save, later than the 30  *)
(* seconds a job is given.                                                 *)
(***************************************************************************)
EXTENDS Integers, FiniteSets, Sequences

CONSTANTS
    Properties,     \* indices that need enrichment
    Streams,        \* connections to GET /api/v2/discover/enrich/{jobId}/stream
    Concurrency,    \* EnrichmentJobManager.concurrency
    SaveEvery,      \* progress is saved at each multiple of it (5 in the code)
    Buffer,         \* capacity of a subscriber's channel (100 in the code)
    MayLose         \* may a save of the status be lost (both cache layers fail)?

ASSUME EnrichmentConstants ==
    /\ Properties # {} /\ IsFiniteSet(Properties) /\ IsFiniteSet(Streams)
    /\ Concurrency \in Nat \ {0}
    /\ SaveEvery \in Nat \ {0}
    /\ Buffer \in Nat
    /\ MayLose \in BOOLEAN

VARIABLES
    phase,          \* where runEnrichment stands
    cell,           \* the saved EnrichmentJobStatus
    lost,           \* was the save of the final status lost?
    late,           \* has enrichCtx reached its deadline?
    pc, tally,      \* of each property goroutine: its place, what it counted
    seen,           \* the counters it read for the progress it is about to save
    completed,      \* the shared counter; enriched, failed, noData are in tally
    arrays, subs,   \* the backing arrays of m.subscribers[jobID], the slice in the map
    send,           \* of each broadcast: the slice it ranges over and its position
    channel,        \* of each stream: its channel
    stream, told,   \* of each stream: its place, the last status it holds
    hasty,          \* streams whose client left before the job was over
    crashed         \* did a send on a closed channel end the process?

jobVars    == <<phase, late>>
cellVars   == <<cell, lost>>
workVars   == <<pc, tally, seen, completed, send>>
listVars   == <<arrays, subs>>
streamVars == <<stream, told, hasty>>
vars == <<jobVars, cellVars, workVars, listVars, channel, streamVars, crashed>>

N          == Cardinality(Properties)
Outcomes   == {"enriched", "noData", "failed"}
FinalCells == {"COMPLETED", "FAILED"}
Counted(o) == Cardinality({p \in Properties : tally[p] = o})
Status(s, c, e, f, n, u) ==
    [status |-> s, completed |-> c, enriched |-> e, failed |-> f, noData |-> n, updates |-> u]
Fresh(s)   == Status(s, 0, 0, 0, 0, {})
None       == Fresh("none")
Statuses   == {"PENDING", "PROCESSING"} \cup FinalCells
NilSlice   == [array |-> 0, len |-> 0]
Idle       == [array |-> 0, len |-> 0, at |-> 1]
Holding    == {p \in Properties : pc[p] \in {"fetch", "broadcast", "send", "check", "read", "save"}}

EnrichTypeOK ==
    /\ phase \in {"none", "started", "ready", "running", "notify", "over"}
    /\ cell \in [status : Statuses \cup {"none"}, completed : Nat, enriched : Nat, failed : Nat,
                 noData : Nat, updates : SUBSET Properties]
    /\ lost \in BOOLEAN /\ late \in BOOLEAN /\ crashed \in BOOLEAN
    /\ pc \in [Properties -> {"none", "acquire", "fetch", "broadcast", "send", "check",
                              "read", "save", "done"}]
    /\ tally \in [Properties -> Outcomes \cup {"none", "late"}]
    /\ seen \in [Properties -> 0 .. N]
    /\ completed \in 0 .. N
    /\ arrays \in Seq(Seq(Streams \cup {"none"}))
    /\ subs \in [array : Nat, len : Nat]
    /\ send \in [Properties -> [array : Nat, len : Nat, at : Nat \ {0}]]
    /\ channel \in [Streams -> [state : {"none", "open", "closed"}, queued : 0 .. Buffer]]
    /\ stream \in [Streams -> {"new", "checked", "listening", "ended", "leaving", "gone", "aborted"}]
    /\ told \in [Streams -> Statuses \cup {"none"}]
    /\ hasty \subseteq Streams

EnrichInit ==
    /\ phase = "none" /\ late = FALSE
    /\ cell = None /\ lost = FALSE
    /\ pc = [p \in Properties |-> "none"]
    /\ tally = [p \in Properties |-> "none"]
    /\ seen = [p \in Properties |-> 0]
    /\ completed = 0
    /\ send = [p \in Properties |-> Idle]
    /\ arrays = <<>> /\ subs = NilSlice
    /\ channel = [s \in Streams |-> [state |-> "none", queued |-> 0]]
    /\ stream = [s \in Streams |-> "new"]
    /\ told = [s \in Streams |-> "none"]
    /\ hasty = {}
    /\ crashed = FALSE

\* HybridCache.Set reports no failure: a save that reaches neither layer is dropped.
Save(status) ==
    \/ cell' = status /\ UNCHANGED lost
    \/ MayLose /\ lost' = (status.status \in FinalCells) /\ UNCHANGED cell

-------------------------------------------------------------------------------
(* The job: StartEnrichmentJob and runEnrichment *)

\* Nothing needs enrichment: the job is born completed.
NothingToDo ==
    /\ phase = "none"
    /\ phase' = "over"
    /\ Save(Fresh("COMPLETED"))
    /\ UNCHANGED <<late, workVars, listVars, channel, streamVars, crashed>>

Start ==
    /\ phase = "none"
    /\ phase' = "started"
    /\ Save(Fresh("PENDING"))
    /\ UNCHANGED <<late, workVars, listVars, channel, streamVars, crashed>>

Begin ==
    /\ phase = "started"
    /\ phase' = "ready"
    /\ Save(Fresh("PROCESSING"))
    /\ UNCHANGED <<late, workVars, listVars, channel, streamVars, crashed>>

NoProvider ==
    /\ phase = "ready"
    /\ phase' = "notify"
    /\ Save(Fresh("FAILED"))
    /\ UNCHANGED <<late, workVars, listVars, channel, streamVars, crashed>>

Spawn ==
    /\ phase = "ready"
    /\ phase' = "running"
    /\ pc' = [p \in Properties |-> "acquire"]
    /\ UNCHANGED <<late, cellVars, tally, seen, completed, send, listVars, channel, streamVars, crashed>>

\* enrichTimeout passes.
TimeUp ==
    /\ phase = "running" /\ ~late
    /\ late' = TRUE
    /\ UNCHANGED <<phase, cellVars, workVars, listVars, channel, streamVars, crashed>>

Goto(p, place) == pc' = [pc EXCEPT ![p] = place]

Acquire(p) ==
    /\ pc[p] = "acquire"
    /\ Cardinality(Holding) < Concurrency
    /\ Goto(p, "fetch")
    /\ UNCHANGED <<jobVars, cellVars, tally, seen, completed, send, listVars, channel, streamVars, crashed>>

\* A goroutine still at the semaphore gives up: it counts as failed, and nothing else.
GiveUp(p) ==
    /\ pc[p] = "acquire" /\ late
    /\ tally' = [tally EXCEPT ![p] = "late"]
    /\ Goto(p, "done")
    /\ UNCHANGED <<jobVars, cellVars, seen, completed, send, listVars, channel, streamVars, crashed>>

\* Mutant of Fetch: it counts the property as completed, which Count does again.
FetchCounts(p) ==
    /\ pc[p] = "fetch"
    /\ \E o \in Outcomes : tally' = [tally EXCEPT ![p] = o]
    /\ completed' = completed + 1
    /\ Goto(p, "broadcast")
    /\ UNCHANGED <<jobVars, cellVars, seen, send, listVars, channel, streamVars, crashed>>

\* The cache or the provider answers; the counter and the list of updates follow.
Fetch(p) ==
    /\ pc[p] = "fetch"
    /\ \E o \in Outcomes : tally' = [tally EXCEPT ![p] = o]
    /\ Goto(p, "broadcast")
    /\ UNCHANGED <<jobVars, cellVars, seen, completed, send, listVars, channel, streamVars, crashed>>

\* broadcast takes the slice under the lock ...
Broadcast(p) ==
    /\ pc[p] = "broadcast"
    /\ send' = [send EXCEPT ![p] = [array |-> subs.array, len |-> subs.len, at |-> 1]]
    /\ Goto(p, "send")
    /\ UNCHANGED <<jobVars, cellVars, tally, seen, completed, listVars, channel, streamVars, crashed>>

\* ... and sends without it, to the channels its backing array holds by then.
Send(p) ==
    LET s == arrays[send[p].array][send[p].at]
    IN  /\ pc[p] = "send" /\ send[p].at <= send[p].len
        /\ send' = [send EXCEPT ![p].at = @ + 1]
        /\ crashed' = (channel[s].state = "closed")
        /\ channel' = IF channel[s].state = "open" /\ channel[s].queued < Buffer
                      THEN [channel EXCEPT ![s].queued = @ + 1] ELSE channel
        /\ UNCHANGED <<jobVars, cellVars, pc, tally, seen, completed, listVars, streamVars>>

\* Mutant of Count: the path of an error returns before it counts.
CountAnswers(p) ==
    /\ pc[p] = "send" /\ send[p].at > send[p].len
    /\ send' = [send EXCEPT ![p] = Idle]
    /\ completed' = IF tally[p] = "failed" THEN completed ELSE completed + 1
    /\ \/ tally[p] # "failed" /\ Goto(p, "check")
       \/ Goto(p, "done")
    /\ UNCHANGED <<jobVars, cellVars, tally, seen, listVars, channel, streamVars, crashed>>

\* The broadcast is over; only what the provider answered is followed by a save of the progress.
Count(p) ==
    /\ pc[p] = "send" /\ send[p].at > send[p].len
    /\ send' = [send EXCEPT ![p] = Idle]
    /\ completed' = completed + 1
    /\ \/ tally[p] # "failed" /\ Goto(p, "check")
       \/ Goto(p, "done")
    /\ UNCHANGED <<jobVars, cellVars, tally, seen, listVars, channel, streamVars, crashed>>

Check(p) ==
    /\ pc[p] = "check"
    /\ Goto(p, IF completed % SaveEvery = 0 THEN "read" ELSE "done")
    /\ UNCHANGED <<jobVars, cellVars, tally, seen, completed, send, listVars, channel, streamVars, crashed>>

\* completed is loaded first ...
ReadCompleted(p) ==
    /\ pc[p] = "read"
    /\ seen' = [seen EXCEPT ![p] = completed]
    /\ Goto(p, "save")
    /\ UNCHANGED <<jobVars, cellVars, tally, completed, send, listVars, channel, streamVars, crashed>>

Progress(s, c, u) ==
    Status(s, c, Counted("enriched"), Counted("failed") + Counted("late"), Counted("noData"), u)

\* ... the others after it, and what was read is saved.
SaveProgress(p) ==
    /\ pc[p] = "save"
    /\ Save(Progress("PROCESSING", seen[p], {}))
    /\ seen' = [seen EXCEPT ![p] = 0]
    /\ Goto(p, "done")
    /\ UNCHANGED <<jobVars, tally, completed, send, listVars, channel, streamVars, crashed>>

\* Mutant of Finish: it waits for the counts, not for the goroutines.
FinishOnCount ==
    /\ phase = "running"
    /\ \A p \in Properties : tally[p] # "none"
    /\ phase' = "notify"
    /\ Save(Progress("COMPLETED", completed, {p \in Properties : tally[p] = "enriched"}))
    /\ UNCHANGED <<late, workVars, listVars, channel, streamVars, crashed>>

\* wg.Wait, then the final status with the updates of every enriched property.
Finish ==
    /\ phase = "running"
    /\ \A p \in Properties : pc[p] = "done"
    /\ phase' = "notify"
    /\ Save(Progress("COMPLETED", completed, {p \in Properties : tally[p] = "enriched"}))
    /\ UNCHANGED <<late, workVars, listVars, channel, streamVars, crashed>>

\* A backing array lives for as long as a broadcast ranges over it.
Reachable == IF \A p \in Properties : send[p] = Idle THEN <<>> ELSE arrays

\* Mutant of NotifyComplete: the first channel of the list is passed over.
NotifyRest ==
    LET listed == {arrays[subs.array][i] : i \in 2 .. subs.len}
    IN  /\ phase = "notify"
        /\ phase' = "over"
        /\ crashed' = (\E s \in listed : channel[s].state = "closed")
        /\ channel' = [s \in Streams |-> IF s \in listed THEN [channel[s] EXCEPT !.state = "closed"]
                                         ELSE channel[s]]
        /\ subs' = NilSlice /\ arrays' = Reachable
        /\ UNCHANGED <<late, cellVars, workVars, streamVars>>

\* notifyComplete: every subscriber's channel is closed and the map entry deleted.
NotifyComplete ==
    LET listed == {arrays[subs.array][i] : i \in 1 .. subs.len}
    IN  /\ phase = "notify"
        /\ phase' = "over"
        /\ crashed' = (\E s \in listed : channel[s].state = "closed")
        /\ channel' = [s \in Streams |-> IF s \in listed THEN [channel[s] EXCEPT !.state = "closed"]
                                         ELSE channel[s]]
        /\ subs' = NilSlice /\ arrays' = Reachable
        /\ UNCHANGED <<late, cellVars, workVars, streamVars>>

-------------------------------------------------------------------------------
(* A stream: StreamEnrichmentUpdates, Subscribe and unsubscribe *)

\* GetJobStatus at the top of the handler: 404, "complete", or a stream.
CheckStatus(s) ==
    /\ phase # "none" /\ stream[s] = "new"
    /\ told' = [told EXCEPT ![s] = cell.status]
    /\ stream' = [stream EXCEPT ![s] = IF cell.status \in FinalCells \cup {"none"} THEN "gone"
                                      ELSE "checked"]
    /\ UNCHANGED <<jobVars, cellVars, workVars, listVars, channel, hasty, crashed>>

\* append writes into the backing array while it has room, or into a new one.
Subscribe(s) ==
    LET old   == IF subs.array = 0 THEN <<>> ELSE arrays[subs.array]
        wider == [i \in 1 .. (IF subs.len = 0 THEN 1 ELSE 2 * subs.len) |->
                    IF i <= subs.len THEN old[i] ELSE IF i = subs.len + 1 THEN s ELSE "none"]
    IN  /\ stream[s] = "checked"
        /\ stream' = [stream EXCEPT ![s] = "listening"]
        /\ channel' = [channel EXCEPT ![s].state = "open"]
        /\ IF subs.len < Len(old)
           THEN /\ arrays' = [arrays EXCEPT ![subs.array][subs.len + 1] = s]
                /\ subs' = [subs EXCEPT !.len = @ + 1]
           ELSE /\ arrays' = Append(arrays, wider)
                /\ subs' = [array |-> Len(arrays) + 1, len |-> subs.len + 1]
        /\ UNCHANGED <<jobVars, cellVars, workVars, told, hasty, crashed>>

Receive(s) ==
    /\ stream[s] = "listening" /\ channel[s].queued > 0
    /\ channel' = [channel EXCEPT ![s].queued = @ - 1]
    /\ UNCHANGED <<jobVars, cellVars, workVars, listVars, streamVars, crashed>>

\* Mutant of JobEnds: the handler sends the status it already holds.
JobEndsUnread(s) ==
    /\ stream[s] = "listening" /\ channel[s] = [state |-> "closed", queued |-> 0]
    /\ stream' = [stream EXCEPT ![s] = "ended"]
    /\ UNCHANGED <<jobVars, cellVars, workVars, listVars, channel, told, hasty, crashed>>

\* The channel is closed and empty: the status is read again and sent as "complete".
JobEnds(s) ==
    /\ stream[s] = "listening" /\ channel[s] = [state |-> "closed", queued |-> 0]
    /\ told' = [told EXCEPT ![s] = cell.status]
    /\ stream' = [stream EXCEPT ![s] = "ended"]
    /\ UNCHANGED <<jobVars, cellVars, workVars, listVars, channel, hasty, crashed>>

ClientLeaves(s) ==
    /\ stream[s] = "listening"
    /\ stream' = [stream EXCEPT ![s] = "leaving"]
    /\ hasty' = hasty \cup {s}
    /\ UNCHANGED <<jobVars, cellVars, workVars, listVars, channel, told, crashed>>

\* The deferred unsubscribe takes the channel out of the array in place and closes it.
\* A channel that notifyComplete closed before makes close panic; net/http recovers that.
Unsubscribe(s) ==
    LET here == {i \in 1 .. subs.len : arrays[subs.array][i] = s}
    IN  /\ stream[s] \in {"ended", "leaving"}
        /\ IF here = {} THEN UNCHANGED listVars
           ELSE \E i \in here :
                  /\ arrays' = [arrays EXCEPT ![subs.array] =
                                  [k \in DOMAIN @ |-> IF k \in i .. subs.len - 1 THEN @[k + 1] ELSE @[k]]]
                  /\ subs' = [subs EXCEPT !.len = @ - 1]
        /\ stream' = [stream EXCEPT ![s] = IF channel[s].state = "closed" THEN "aborted" ELSE "gone"]
        /\ channel' = [channel EXCEPT ![s] = [state |-> "closed", queued |-> 0]]
        /\ UNCHANGED <<jobVars, cellVars, workVars, told, hasty, crashed>>

-------------------------------------------------------------------------------

Goroutine(p) ==
    \/ Acquire(p) \/ GiveUp(p) \/ Fetch(p) \/ Broadcast(p) \/ Send(p)
    \/ Count(p) \/ Check(p) \/ ReadCompleted(p) \/ SaveProgress(p)

Runner  == Begin \/ NoProvider \/ Spawn \/ Finish \/ NotifyComplete
Handler(s) == CheckStatus(s) \/ Subscribe(s) \/ Receive(s) \/ JobEnds(s) \/ Unsubscribe(s)

EnrichNext ==
    /\ ~crashed
    /\ \/ NothingToDo \/ Start \/ Runner \/ TimeUp
       \/ \E p \in Properties : Goroutine(p)
       \/ \E s \in Streams : Handler(s) \/ ClientLeaves(s)

\* The server runs: a provider's call ends within enrichCtx, and no send and no receive
\* blocks.  No step of it repeats for ever, so this is fair to each goroutine and handler.
\* Clients, the deadline and new jobs are owed nothing.
Server == ~crashed /\ (Runner \/ (\E p \in Properties : Goroutine(p)) \/ \E s \in Streams : Handler(s))

EnrichSpec     == EnrichInit /\ [][EnrichNext]_vars
FairEnrichSpec == EnrichSpec /\ WF_vars(Server)

-------------------------------------------------------------------------------
(* Properties *)

\* Progress saves are goroutines' own writes and may overtake one another; none overtakes
\* the final status: once COMPLETED or FAILED is saved, the saved status stays as it is.
FinalStaysFinal == [][cell.status \in FinalCells => cell' = cell]_vars

\* A saved progress never claims more properties processed than it accounts for, although
\* its counters are read one after another while other goroutines count.
ProgressAccounted ==
    /\ cell.completed <= cell.enriched + cell.failed + cell.noData
    /\ cell.enriched + cell.failed + cell.noData <= N

\* The final status accounts for every property, lists the updates of exactly the enriched
\* ones, and counts as completed all but those that timed out at the semaphore.
FinalBooks ==
    cell.status = "COMPLETED" /\ (\A p \in Properties : pc[p] = "done") =>
        /\ cell.enriched + cell.failed + cell.noData = N
        /\ cell.completed = N - Counted("late")
        /\ Cardinality(cell.updates) = cell.enriched

\* A send on a closed channel ends the process (broadcast runs in a goroutine nobody
\* recovers); only a client that leaves while its job runs can bring that about, because
\* notifyComplete waits for every broadcast.
OnlyLeaversCrash == crashed => hasty # {}

\* What a stream sends as "complete" is the final status, unless its save was lost.
ToldFinal == \A s \in Streams : stream[s] \in {"ended", "aborted"} /\ s \notin hasty /\ ~lost
                                   => told[s] \in FinalCells

\* A slice lies within its array, and what it shows are streams.
Sound(array, len) ==
    /\ array = 0 => len = 0
    /\ array > 0 => /\ array <= Len(arrays) /\ len <= Len(arrays[array])
                    /\ \A i \in 1 .. len : arrays[array][i] \in Streams

\* The map's slice, and those the broadcasts took, whatever is shifted in place.
Slices == Sound(subs.array, subs.len) /\ \A p \in Properties : Sound(send[p].array, send[p].len)

\* The final status is saved after the last goroutine, or its save was lost.
Phases ==
    /\ phase # "running" => \A p \in Properties : pc[p] \in {"none", "done"}
    /\ phase \in {"none", "started", "ready"} => \A p \in Properties : pc[p] = "none"
    /\ (cell.status \in FinalCells \/ lost) <=> phase \in {"notify", "over"}

\* The goroutines that have counted their property.
Processed == {p \in Properties : pc[p] \in {"check", "read", "save", "done"} /\ tally[p] # "late"}

Tallies ==
    /\ \A p \in Properties :
          /\ tally[p] = "none" <=> pc[p] \in {"none", "acquire", "fetch"}
          /\ tally[p] = "late" => pc[p] = "done"
          /\ seen[p] <= completed
    /\ completed = Cardinality(Processed)

\* A channel is closed by the end of the job, or by its client's early leave.
Closings ==
    /\ \A s \in Streams : channel[s].state = "closed" => phase = "over" \/ s \in hasty
    /\ \A s \in Streams : stream[s] = "leaving" => s \in hasty
    /\ \A s \in Streams : stream[s] \in {"ended", "aborted"} => channel[s].state = "closed"

\* What every step of the job and of its streams preserves; the safety properties above follow.
EnrichInv ==
    /\ EnrichTypeOK /\ Slices /\ Phases /\ Tallies /\ Closings
    /\ ProgressAccounted /\ FinalBooks /\ OnlyLeaversCrash /\ ToldFinal

\* A stream that subscribes before notifyComplete does not wait for ever: it ends, or the
\* process does.  (One that read the status before and subscribes after may.)
SubscribersHear ==
    \A s \in Streams : (stream[s] = "listening" /\ phase # "over") ~> (stream[s] # "listening" \/ crashed)
===============================================================================

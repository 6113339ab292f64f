# TLA+ models of the estara-ai/www backend

This directory holds TLA+ models of the concurrent core of the backend (job queue,
worker pool, progress streams, Redis backup, parallel and streaming property
search, enrichment jobs, Stripe's events, the export quota), the configurations
that model-check them with TLC, and proofs for TLAPS.

The first half of this file is an inventory of the whole system; the second half
describes the modules, what their runs show, what is proved, and what comes next.

## 1. The system

A Go HTTP server (`cmd/server/main.go`, chi router) for real-estate investors.
State lives in PostgreSQL (generated queries in `internal/db`), optionally in
Redis, and, for what is running, in the memory of the one server process.

| Component | State it keeps | Operations | Talks to |
|---|---|---|---|
| Job queue (`internal/services/jobs/queue/queue.go`) | `jobs`, `pending` (sorted slice), `results`, `subscribers`, `closed`, all under `q.mu` | Enqueue, Dequeue, Complete, Fail, skipJob, Cancel, Delete, Subscribe, ReportProgress, CleanupOldResults, Close | called by workers, HTTP handlers and the shutdown; sends on subscribers' channels; starts backup goroutines |
| Redis backup (same file) | keys `job:<id>`, `job_result:<id>` with an expiration | backupJobToRedis, deleteFromRedis (a goroutine per call), restoreFromRedis (a goroutine at start-up) | job queue, Redis |
| Worker pool (`queue/pool.go`) | 4 worker goroutines, the pool's context and WaitGroup | worker loop, processNextJob, forwardProgress, Stop; Scheduler (never constructed) | dequeues, runs a handler, completes or fails |
| Job workers (`jobs/workers/*.go`) | local; tickers and search goroutines of a run | investment planning, market analysis, decision memo | providers, AI, cache, database; progress channel of the pool |
| AI handler and memo streams (`handlers/ai/handler.go`, `handlers/discover/memo.go`) | one goroutine per SSE request | start, stream, poll, cancel, dismiss; the chat stream runs its job itself | job queue |
| Enrichment jobs (`property/finder/enrichment_job.go`, `handlers/discover/enrichment_sse.go`) | `subscribers` (a slice of channels per job, under `m.mu`), counters of a run, the status in the cache | StartEnrichmentJob, runEnrichment and a goroutine per property, broadcast, notifyComplete, Subscribe, the returned unsubscribe, the event stream | property cache, provider, SSE |
| Streaming search (`property/finder/orchestrator.go`, `handlers/discover/streaming_search.go`) | channels of one request, `seenIDs`, the reorder buffer | SearchWithStreaming, a forwarder per city, the stream's loop | providers, property cache, discovery sessions |
| SSE registry (`pkg/sse`) | connections by user and by job | Add, Remove, Send, Broadcast, cleanup | unused by the routes at this commit |
| Stripe billing (`services/billing/webhook.go`, `webhooks/stripe.go`) | rows of users, subscriptions, quotas and audits in PostgreSQL | a handler per event type, a few statements each | Stripe (at least once, in any order), users, quota |
| Apple and Google purchases (`webhooks`, `services/iap`) | the same rows | notifications, purchases | external stores |
| Entitlements, evaluation quota (`services/entitlements`, `discover/export.go`, `db/queries/quota.sql.go`) | a quota row per user, decision records, statuses of evaluations | check, export, upsert | billing, login, admin |
| Caches (`services/cache`, `whitelist`) | Redis over PostgreSQL, a timed list | get, set, evict, warm, invalidate | finder, auth |
| Auth and middleware | sessions, counters in Redis | login, register, reset, rate limits | database, Redis |
| Property search, discovery sessions, frontier runs, cron | rows | search, sessions, runs | providers |
| AI agents, investment mathematics, market data, reports, e-mail, PDF | none of their own | pure computation or calls of external services | - |

What is hard in the core:

- Methods of the queue are atomic, but a worker holds no lock between Dequeue and
  Complete/Fail: everything clients do falls in between.
- Outcomes reach a stream over two ways (the queue's event and close, and the
  worker's own progress through a forwarding goroutine), into a bounded buffer
  that drops what does not fit.
- Chat jobs are not run by the pool but by every stream that opens them; and since no
  handler looks at the type or the status of the job in its URL, a chat stream may run,
  and end, a job that a worker runs too.
- Backups are unordered goroutines that read the live job without the lock.
- Shutdown: Stop cancels, waits for the workers, and only then the queue closes;
  a worker's `select` may still take a job after the cancellation.
- The planning worker starts goroutines whose progress channel belongs to the
  pool, which closes it when the handler returns.

- Enrichment broadcasts to channels outside the lock, over a slice whose backing
  array an unsubscribing client shifts in place.
- Stripe's events arrive twice, late and side by side; each handler is several
  statements without a transaction, and is answered with 200 whatever came of it.
- An export reads the quota, makes a PDF, and only then charges.
- A streaming search is a chain of bounded channels whose sends do not watch the
  context.

What makes each part correct: a job runs at most once at a time and at most
`MaxRetries` times, ends once, in the order of urgency (queue, pool); clients hear
the truth and their streams end (streams); what was stored comes back once and
nothing else does (backup); the fan-out collects every result and nothing is sent
on a closed channel (planning worker); the final status accounts for every
property and is never overwritten, and streams hear of it (enrichment); whoever
paid is provisioned and the row follows Stripe, whatever the order of the events
(billing); exports are charged, and exceed the quota by no more than their
parallelism explains (quota); results come in order, once, completely, and nothing
waits in a circle (streaming search); no stale or immortal entries (caches, not
modelled).

## 2. Modules

```
JobQueue  <-EXTENDS-  WorkerPool  <-EXTENDS-  JobStreams
                         |  \                    /
                         |   \--INSTANCE--> JobLifecycle   (abstract job board)
   WorkerPoolProofs      <-EXTENDS-  JobStreamsProofs               (TLAPS)

JobBackup        the queue's Redis backup, over restarts
   JobBackupProofs                                                  (TLAPS)
PlanSearch       goroutines of one run of the planning worker
   PlanSearchProofs                                                 (TLAPS)
Enrichment       one enrichment job and the streams that follow it
   EnrichmentProofs                                                 (TLAPS)
Billing          one customer between Stripe, the webhook handlers and a login
   BillingProofs                                                    (TLAPS)
ExportQuota      one user's exports and every writer of the quota
   ExportQuotaProofs                                                (TLAPS)
SearchStream     one streaming search, from the listing to the client
   SearchStreamProofs                                               (TLAPS)
MC*.tla, MC*.cfg instances for TLC
```

**JobQueue** has the fields of `Queue` as variables and one operator per method.
`status[j] = "absent"` is a job that is not in `q.jobs`; `pending` is the slice
itself, so that Cancel's removal loop, the append of Fail and `sortPending` (not
stable: ties in any order) are what the code does. Channels have a buffer of
`ChanCap` and a closed flag; a send to a full one is dropped.

**WorkerPool** adds the workers (`idle`, `running`, `finishing`, `stopped`), the
forwarding FIFO of each job, and the pool's state. Clients may enqueue, cancel,
delete and subscribe at any moment. `Stop`, `WaitDone`, `CloseQueue` are the
steps of `Services.Close`. Jobs of `ChatJobs` have no handler and are skipped.

**JobStreams** adds SSE requests: `OpenStream` subscribes, `ShowProgress` and
`ShowOutcome` take an event, `SeeClosed` finds the channel closed and asks for
the result, `Timeout` and `Disconnect` end it. Chat streams have an agent
goroutine (`AgentEnds`, `AgentFails`) and a loop (`ChatComplete`, `ChatError`). `Asks`
gives each request the job id of its URL, which may be that of any job. `Quiet` are the
jobs that no chat request is opened for. `ChatFails` counts the failures of a job by chat
streams, from what its requests and their agents have done.

**JobLifecycle** is what the queue promises, with sets in place of slices and
workers: Submit, Start (a most urgent job, a free slot, runs left), End, Cancel,
Forget. The mapping in WorkerPool is `state <- status`, `runs <- attempts`,
`running <- Held`, `Slots <- Cardinality(Workers)`. In JobStreams the same mapping is
restricted to the jobs of `Quiet` (`Board`): a chat stream completes or requeues the job it
is opened for whether it waits, runs or is over, which is no step of the board.

**JobBackup** models the other half of `queue.go`. A job may have two copies in
memory, its own and a restored one, since the restore makes new values; entries
of the slice belong to copies, while Complete, Fail, Cancel and Delete look jobs
up by id. A backup goroutine reads status and attempts in two steps, then writes.
`ChatEnds` is a chat stream's Complete or Fail, which asks for no status and no worker;
`Leave` is a worker that finds the job gone, or no handler for its type. `Crash` empties
memory and starts the restore. `Expire` takes a key away at any moment when the retention
is shorter than a day. `failed`, `touched` and `lapsed` are history variables: what chat
streams did in this life, and which keys expired. The order of the slice is left out (it
is JobQueue's subject).

**PlanSearch** models `processSearchMode` and `searchProperties`: a goroutine per
location, the semaphore, the WaitGroup, `resultChan` and its closer, the collector,
and the ticker goroutines; `CloseProgress` is the pool's `close(progressChan)`.

**Enrichment** has a place in the code for `runEnrichment` (`phase`), for each
property's goroutine (`pc`) and for each stream. The list of subscribers is what
Go makes of it: `arrays` are backing arrays, `subs` the slice in the map, and a
broadcast ranges over the slice it took (`send`) while `append` writes into the
same array and `Unsubscribe` shifts it. A send on a closed channel sets `crashed`,
which stops the model as it stops the process. The final status, the counters it
is made of and a save that neither cache layer takes (`Save`) are kept; the
enriched values are not.

**Billing** follows one customer. `sent` and `inbox` are Stripe's events and those still
to be delivered; `work` maps each event being handled, of which there are at most
`Parallel`, to the statement its handler is about to run; every
statement is an action, since each is a transaction of its own. `user`, `row` and
`quota` are the three tables. `Crash` stops the handlers, `DeliverAgain` repeats an
event, `Fails` is the error branch of any statement. A registration
(`RegisterUser`, `RegisterQuota`), logins (`LoginQuota` to `LoginSave`) and the
administrator's cancellation interleave with them; `emptied` remembers that the
registration's second statement overwrote a quota already paid for.

**ExportQuota** has a request's three reads and writes (`Fetch`, `CheckQuota`,
`Commit`) and the two upserts, which differ: `StripeGrants` resets what was used
when the period is over, `Upsert` never does. `exports`, `top` and `lifted` are
history variables the properties need.

**SearchStream** has the producer of each city (`phase`, `next`), its goroutines
(`worker`), the bounded channels `city[c]` and `results`, the forwarders (`held`,
`seen`) and the loop of the handler. A blocked send is a disabled action. What is listed
are entries; `Id` gives each its `Property.ID`, and different entries may share one, since
Claude's ids are made of the second and an index and HasData's may be empty. The forwarders
know only ids (`Take`). Whether the filters keep an entry is open each time, as they look
at the enriched copy.

Definitions whose comment says *Mutant of X* are wrong versions of `X` that
nothing uses. `PROJECT.json` pairs each property with one it must reject.

## 3. Runs

| Run | Instance | Shows |
|---|---|---|
| `pool` | 4 jobs of two priorities, one of them a chat, 2 workers, capacity 1, 2 attempts, no subscribers and no stages | `IInv` (its conjuncts are types, `AttemptsBounded`, `BacklogBounded`, `ResultMatchesStatus` and what their proof needs), `NoDoubleProcessing`, `ShutdownQuiesced`; `FinalStays`, `IdleCancelSticks`, `MostUrgentFirst`; `RefinesLifecycle` |
| `pool_live` | 2 jobs, 2 workers, 2 channels, 2 attempts, a scheduler, fair | `RegisteredOpen` (no send to or close of a closed channel); `JobsEnd`, `ShutdownEnds` |
| `stream_watch` | a plan and a memo stream, 2 jobs, 1 worker, buffers of one, one attempt, fair | `ChannelsSound` (types, `EarlyChannelClosed`), `ToldTheTruth`, `EarlyStreamEnds` |
| `stream_chat` | two chat requests opened with the id of a job that a worker runs, a plan left to its worker, 1 worker, one attempt, no stages forwarded; symmetry, safety only | `ReconnectsAccounted`: each further place or run of the job is owed to one failure by a chat stream; `RefinesBoard`: for the other job, queue, pool and streams are still the abstract job board |
| `backup` | 1 job, 2 lives, 2 backup goroutines at a time, 2 attempts, Redis sound or faulty, keys that live for a millisecond, a chat stream that fails the job once and completes it any number of times | `RestoredSound` (types, `RestoredOnce`), `RetryBudget`, `EndedStaysEnded`, `BackedUp`, `RestartRestores` |
| `plan_search` | 2 locations, 1 slot, errors and a cancellation, fair | `PlanInv` (types, `SearchLimit`, what semaphore, WaitGroup and channel count), `CollectedAll`; `PlanReturns`, `TickersStop` |
| `enrichment` | 2 properties side by side, 2 streams, buffers of one, a save at every second property, lost saves, a deadline, fair | `EnrichInv` (types, `ProgressAccounted` and what the proof needs), `FinalBooks`, `FinalStaysFinal`: the books; `OnlyLeaversCrash`, `ToldFinal`, `SubscribersHear`: the streams |
| `billing` | 2 deliveries at a time, 1 change after the checkout, 1 repeated event, 1 restart, failing statements, a registration, a login, a cancellation, fair | `BillingInv` (what is missing is owed by an event to come), `Provisioned`, `StatusAgrees`, `GuestGetsQuota` |
| `quota` | 3 requests over 3 evaluations, limits of 1 and 2, all writers of the quota | `QuotaInv` (types, the columns agree with the history), `BoundedOverrun`, `RecordsBounded` |
| `search_stream` | a city of three entries and one of one entry, or the first alone; an Id in common, and two entries without an Id; channels of 1 and 2, 2 slots, timeouts, fair | `SearchInv` (types, `InListingOrder`, `ShownOnce` and what their proof needs), `CompleteIsAll`, `StreamEnds` |
| `cancel_now` | the instance of `billing` | refutes `CancelStops` |
| `search_leak` | a city of one entry and one of three, a channel of 3 to the handler | refutes `CleanedUp` |

Bounds. Two workers and a capacity of one make the slice overflow by retries,
and the fourth job is one more than can wait and run; a buffer of one makes
every second event drop; two attempts give one retry; two priorities and a tie
show the order. The streams follow one attempt: what a retry sends them is the
same sequence of progress events again (that a channel closes across retries is the theorem
`ChannelsClose`), and a market stream ends at a subset of what ends a plan stream or a memo
stream, so that `stream_watch` runs the latter two. In `stream_chat` two requests are a
reconnect; the forwarding goroutine has no place to put a stage (`FwdCap`), since chat
streams read no progress that matters there. Jobs of the backup share no key and no
worker, so one is enough; `MaxLives` bounds the restarts, and two lives give
every prefix of the first to the restore of the second; `MaxTasks` bounds the
backup goroutines, and two are needed for one to overtake the other (a method
whose goroutine finds no room waits, which leaves orders out but adds none).
`RetentionMs` is 1: services.go:163 passes 1440 nanoseconds, for which go-redis sends a
millisecond. `MaxChatFails` bounds the failures by chat streams in one life, to one, and
`EarlyChats` keeps them to the life after the restart, which the properties are about; the
theorems need neither bound. Two
locations and one slot make a search wait for another; `MaxSteps` is the number
of messages a synthetic ticker has. Deadlock is not checked: the server may be
idle, stopped or out of job ids, and a run of the planning worker ends.

No chat stream is opened in `pool`, `pool_live` and `stream_watch`: what they show of a job
holds as long as none is. `stream_chat` and `backup` show what is left when one is.

The properties of the backup are about jobs from an earlier life (`Old`). A job
accepted while the restore runs may get a twin: its snapshot, written a moment
before, is read back, and the restored value takes its place in the map.

Bounds of the newer runs. Two streams make a list that `append` doubles and that an
unsubscribing client shifts under a broadcast; two properties make the last count, the
save of the progress and the final save overlap. In `billing` two handlers race for each
row, and checkout, creation and a later change give three or four events to reorder; a
second change adds overtaking, which `StatusAgrees` names as its exception anyway.
`Provisioned` and `GuestGetsQuota` name their exceptions too: a handler that failed (it is
answered with 200 and never repeated), and a quota that a registration with the same
address overwrote. In `quota` three requests pass the test together on the last use of a
limit of one, so that the bound is reached, and three evaluations make batches overlap
partly. In `search_stream` each city has more events than its channels have places, so
that every send blocks at some time; in the code that happens to the 50 places of a city's
channel and, within a radius, to the 200 of the channel to the handler, while the search
of one city sends at most 101 events there. `quota` and `stream_chat` use symmetry; they
check no liveness.

The last two runs each refute a comment; `PROJECT.json` quotes the lines.

- `cancel_now`: an administrator's immediate cancellation sends Stripe
  `cancel_at_period_end = false`, the request that takes a cancellation back. The row
  says CANCELED, and Stripe goes on charging.
- `search_leak`: "Heartbeats + context cancellation handle cleanup instead". The sends
  watch no context: the forwarders of a radius search whose handler returned early block
  for ever once `results` is full. In the instance, as in the code, all that the search of
  one city sends fits into `results` (three events for three places; 101 for 200), and what
  all cities of a radius find does not (four for three; nine cities of up to 50 for 200), so
  that the trace is one of a radius search.

## 4. Fairness

- Workers: weak fairness of taking a job and of returning from the handler. A
  worker polls every 100 ms, and the handler's context expires. `Leave` (a stopping
  worker's `ctx.Done` case) is weakly fair.
- Shutdown: `WaitDone` and `CloseQueue` are straight-line code.
- Streams: weak fairness of reading the channel and of the plan's timer.
- Planning worker: weak fairness of each goroutine, strong fairness of taking a
  free slot (a Go channel serves its waiters in turn) and of a ticker's `done` case
  (`select` chooses at random among the cases that are ready).
- Enrichment, Billing, SearchStream: weak fairness of one action, `Server`, the
  disjunction of every step of the server. None of these steps can repeat for ever, so
  that a goroutine whose step stays possible takes it in the end, as Go's scheduler
  provides; calls of providers end within their own time limits, and Stripe retries an
  unanswered event. Clients, clocks, crashes, failures and changes at Stripe are owed
  nothing. ExportQuota has safety properties only.
- Writes to a client return: a handler that waits for a client which reads nothing takes
  no further step, and the write deadline of the search's stream is switched off
  (streaming_search.go:157). `StreamEnds`, `EarlyStreamEnds` and `SubscribersHear` are about
  handlers that get that far.
- Nothing else is assumed of clients, connections, the restore, or that anybody calls
  Stop. The properties of the backup are safety properties: they say what holds
  when its goroutines are done, not that they finish.

## 5. Proofs

For all finite sets of workers, all sets of jobs, capacities, priorities and retry
limits that satisfy `QueueConstants` and `PoolConstants` (WorkerPoolProofs):

- `TypeCorrect`: `Spec => []TypeOK`.
- `Invariance`: `Spec => []IInv`, and from it `NeverTwice` (`NoDoubleProcessing`),
  `RetriesEnd` (`AttemptsBounded`), `BacklogLimit` (`BacklogBounded`), `ResultsAgree`
  (`ResultMatchesStatus`), `CleanShutdown` (`ShutdownQuiesced`).
- `SubscribedAreOpen`: `Spec => []RegisteredOpen`. Only ends of a job close channels, and
  each forgets what it closes; Subscribe registers a channel it has just made.
- `Refinement`: `Spec => Lifecycle!Spec`; `FinalIsFinal`, `IdleCancelHolds`,
  `UrgentFirst`, `DeletedStaysDeleted` for the action properties.

The argument. `NoDoubleProcessing` is not inductive: a step of Fail could requeue a
job that is pending already unless a held job's status is known. `IInv` adds
`HeldStatus` (a held job was issued and is processing, cancelled or absent),
`IssuedFirst`, `ProcessingIsHeld`, `Sorted(pending)` (for the order) and `StopOrder`
(closed only after every worker has left). The lemmas about one slice say what
sorting after an append, Tail and the removal loop do to the set of entries, to
distinctness and to the order; `HeldTake` and `HeldRelease` say how a step of a
worker changes the set of held jobs, and `Counts` gives the cardinalities for
`BacklogBounded`. `InvStep` has a case per action. The refinement maps Take to Start,
Succeed, Err and Skip to End, the clients' calls to Submit, Cancel and Forget, and
everything else to a stutter; a free slot exists since a free worker does.

For any requests, jobs and workers, JobStreamsProofs has `StreamInvariance`, and from it

- `ReconnectsAccountedHolds` (`ReconnectsAccounted`), for every job;
- `QuietOnceHolds` and `QuietFinalHolds` (`QuietOnce`, `QuietFinalStays`), and `BoardRefined`:
  `StreamSpec => Board!Spec`, for the jobs that no chat request is opened for;
- `ChannelsClose`: `~SchedulerOn /\ StreamSpec => []ChannelsSound`;
- `TruthHolds` (`ToldTheTruth`, about the same jobs), and `StreamsOpen` (`RegisteredOpen`).

`IInv` does not survive chat streams: they complete and fail jobs that wait, run or are
over, so that such a job may be listed twice. `PlacesInv` says what is kept of every job:
a place, in the slice or with a worker, comes from the job's acceptance or from a failure
by a chat stream (`PlacesOf`), a worker's own retry only moves its place, and a waiting
place has a run left or is such a failure's; a chat request counts at most two failures,
since it tells its outcome once. For the other jobs (`Quiet`) the pool's invariant is
kept, job by job (`JobSound`): a request keeps to the job of its URL (`StreamJobs`), and
every method of the queue is shown to leave the other jobs alone. `EarlyAttended` adds to
`EarlyChannelClosed` that an early request is registered for its job, which is what lets
the end of the job find its channel. `TruthInv` says of every event still in the channel
of such a job that it is true of the job as it is now (`EventsTrue`): events of a success
or a failure are sent by the step that makes them true, and a status that has been told
never changes but to "absent". `BoardRefined` needs `BoardInv` besides: the slice is
sorted, for which even a job that is listed twice does no harm (`WithoutSorted`), and a
waiting job of `Quiet` has a run left. `StepKinds` reduces every step to one method for
one job, a cleanup, or no change of a job; a method for a job outside `Quiet`, or one that
no quiet job's status, attempts and holders notice, is a stutter of the board
(`BoardFrame`). Without `~SchedulerOn` a job that a chat stream fails after it ended keeps
its old result, `CleanupOldResults` removes the job with it, and the channel of an early
request stays open (TLC has a trace); services.go starts no Scheduler.

For any jobs, backup goroutines and restarts, JobBackupProofs has `BackupInvariance`, and
from it or beside it

- `RestoredHolds`, `RetryBudgetHolds`, `EndedHolds` (`RestoredSound`, `RetryBudget`,
  `EndedStaysEnded`);
- `BackedUpHolds`: `BackupSpec => []BackedUp`, with any retention. A key that expired since
  it was last written is the exception (`lapsed`): it is not written again while its job
  waits;
- `RestoresHolds` (`RestartRestores`), whatever the retention.

`OldSound` says of a job from an earlier life that all that happens to it happens to the
copy the restore made, that this copy is at one place in the slice or with one worker, and
one more for each failure by a chat stream, and nowhere once a worker ended it, and that
until the restore has decided about its key (`Undecided`) nothing happens to it at all; so
Put undoes nothing. The attempts of the copy bound the starts of this life whatever the
snapshot says, hence the budget. `KeptInv` follows a job that is in `q.jobs` to its key or
to the goroutine that will write it, and `FoundInv` every goroutine, entry and key back to
a job that is in `q.jobs`, deleted, or still to be decided about. `RestoredOnce` and
`RetryBudget` are about old jobs only: one that is accepted while the restore runs may get
a twin.

The inductive invariants of these two modules stand in a section of their own in
JobStreams.tla and JobBackup.tla. TLC confirms them on the instances of `stream_watch`,
`stream_chat` and `backup` when they are added to the `.cfg`.

For all finite sets of requests, all sets of evaluations and all limits that satisfy
`QuotaConstants`, ExportQuotaProofs has `QuotaTypeCorrect`, `QuotaInvariant`, and from it
`OverrunBounded`, `RecordsAreBounded` and `ExportsChargedAndMarked`. `BoundedOverrun`
alone says nothing of requests that have passed the test and not yet charged. `QuotaInv`
counts them: `Spoken` bounds exports plus the requests that have passed by the highest
limit and the requests there are, once somebody passed; `Wanted` does the same for the
records of an evaluation and the requests that hold it in their batch; `Charged` and
`Marked` tie the columns to the history. A commit moves one from the second summand to
the first, and a new pass needs `used < limit`.

For all finite sets of locations and any number of slots, PlanSearchProofs has
`PlanInvariant`, and from it `SearchesLimited`, `EveryLocationCollected` and
`ReportsPrecedeClose`. `CollectedAll` looks at the end of a run only; `PlanInv` says of
every moment that a location has one result, in the channel or collected, once its
goroutine has reported and none before (`OneResult`), that semaphore and WaitGroup count
the goroutines between their two ends (`Counters`), and that `resultChan` is closed after
the last goroutine (`Phases`).

For any number of properties and streams, EnrichmentProofs has `EnrichInvariant`, and
from it `ProgressIsAccounted`, `FinalBooksBalance`, `NobodyElseCrashes`,
`StreamsToldFinal` and `FinalStatusStays`. `Tallies` makes the
counters cardinalities of sets of goroutines, so that the sums hold although every
addition is a step of its own and a progress is read one counter after another; `Phases`
puts the final save after the last goroutine, `Slices` keeps every slice within its
backing array whatever is shifted in it, and `Closings` says that a channel is closed
only by the end of the job, which is after the last broadcast, or by a client that left.

For any number of parallel deliveries, changes at Stripe, repeated events and restarts,
BillingProofs has `BillingInvariant`, `WhoeverPaidIsProvisioned` and `RowFollowsStripe`.
`BillingInv` adds to the types the order of Stripe's events (`Feed`), where a handler may
stand and what the tables hold by then (`Stages`), and `Owed`: as long as row or quota is
missing, an event whose handler will write it is to come or being handled, or a named
exception holds. There is one lemma for each statement of a handler; `HandlerKeeps` and
`OwedKeeps` say which part of the invariant a step of one handler leaves alone in the
others. `StatusAgrees` is about the moment when all is answered; `Agreement` says of every
moment that, unless a change was overtaken, the handlers at work belong to the newest
change taken up, and that the row has its status or one of its events is still to be
handled.

For any cities, listings, channel capacities and number of slots, SearchStreamProofs has
`SearchInvariant`, and from it `ShownInOrder`, `NothingShownTwice` and `CompleteMeansAll`.
`SearchInv` says where each property on its way is: without a radius, what the client has
and what the channel holds are in listing order one after the other (`InLine`); within a
radius, what was seen is with one forwarder, once in `results`, or shown (`OnePlace`), and
no two entries that passed a forwarder share an Id; what a goroutine finished and the
producer sent is on its way or has arrived, or, within a radius, its Id was seen
(`NothingLost`); the counts of the handler, of the channels and of the producer add up to
what was sent (`Books`). `Stages` says how far each producer and its goroutines are.

Only model-checked: liveness, which is out of the prover's reach (`JobsEnd`,
`ShutdownEnds`, `EarlyStreamEnds`, `PlanReturns`, `TickersStop`, `SubscribersHear`,
`GuestGetsQuota`, `StreamEnds`). Every safety and action property of a passing run is a
theorem.

## 6. Abstractions and what is not modelled

- Percentages, messages, payloads and timestamps except `CreatedAt`. Job ids are
  assumed distinct; the code draws them from the clock.
- The forwarding goroutines of successive runs of one job are merged into a FIFO.
- The order of the slice while restoreFromRedis is appending to it, before it sorts
  (queue.go:625-637): JobQueue starts without a backup, and JobBackup has no order.
- The chat agent's intermediate events and the capacity of its channel.
- The backup of results, which nothing reads back; the queue's order in JobBackup.
- In JobBackup two reads (status, then attempts) stand for the unsynchronized
  reading of a job by `json.Marshal`.
- Selection mode and the numeric parts of the planning worker.
- Enrichment: the values, the polling endpoint, the cache's expiration (10 minutes,
  longer than a job). Billing: tiers, prices, periods, invoices, disputes, trials,
  e-mails, audit rows, subscriptions without a Stripe id, portal and checkout requests.
  ExportQuota: the PDF, the memo, the dates but for "is the period over".
  SearchStream: metrics, cache, heartbeat, the discovery session. The data races on
  properties that a search shares with an enrichment job are left out with the data.
- All components marked `not_modelled` in `PROJECT.json`, each with its reason: the
  SSE registry, which no route uses; the caches, rate limits, Apple and Google
  purchases and frontier runs, which come next (section 7); and what keeps no state
  between requests (agents, mathematics, reports, e-mail, PDF, CRUD handlers).

Known disagreements between comments and code. Their properties stand under *Claims
of the comments* in the modules; each is violated when it is put into a `.cfg` of the
run in the first column.

| Run, property | The comment | What happens |
|---|---|---|
| `pool`, `CancelledStays` | queue.go:316 "Cancel cancels a pending or processing job" | the run goes on, and completes or retries the job (queue.go:190) |
| `stream_watch`, `CompletedCarriesPlan` | ai/handler.go:1485 "Send completion ... with status + plan" | the worker's own "completed" ends the stream without the plan |
| `stream_watch`, `LateMemoStreamEnds` | memo.go:174 "Job may already be complete" | a stream of a finished memo waits for ever (queue.go:387) |
| `plan_search`, `NoSendOnClosed` | investment_planning.go:1359 "Stops when done is closed" | a tick already chosen is sent on the closed channel and panics |
| `backup`, `DeleteForgets` | queue.go:355 "removes a job and its result from memory and Redis" | an older backup, or the restore, brings it back |
| `backup`, `KeptADay` | services.go:163 "24 hours in minutes" | 1440 nanoseconds; Redis keeps the key for a millisecond |

Behaviours without a property that a reader of the code may want to know of:

- skipJob leaves a job "processing" where its comment says "Put job back in pending
  state"; a chat stream can fail a job that another one, or its worker, completed, and so
  queue it again, and one whose client leaves gives the job no end; a plan stream reads a
  closed channel as "job completed" although deletion, cancellation and the shutdown close
  it too; a snapshot left in Redis may be an older one than the last.
- Each enrichment stream that ends with its job closes its channel a second time; the
  panic is recovered by net/http.
- A registration sets the quota to 0 in a statement of its own (auth/handler.go:224), and
  so can take away what a guest's checkout with the same address has just granted.
- A member's `subscription.created` that comes before the checkout finds nobody and is
  answered; the login heals a missing quota, not one whose limit is 0.
- `subscription.updated` never touches the quota, so that a renewal alone does not begin a
  new period. Evaluations are saved here as DRAFT, and nothing here completes them.
- A search within a radius reports a total of 0 at its end, since the forwarders keep
  progress events back.
- "Rule 2: all properties are enriched via Property API before caching"
  (orchestrator.go:688), while searches cache raw listings under the same key (:393,
  :921).

## 7. What could come next

1. `PropertyCache` (Redis over PostgreSQL, warmed by reads beside deletions),
   `RateLimit` (increment and expiration in two calls), and Apple and Google purchases
   on the rows of Billing.
2. Frontier runs and cron bookkeeping; the SSE registry once a route uses it.
3. Abstract specifications of the streaming search (an ordered delivery) and of the
   enrichment job, and proofs that the modules implement them.

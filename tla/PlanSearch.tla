------------------------------ MODULE PlanSearch ------------------------------
(***************************************************************************)
(* The goroutines of one run of the investment planning worker in search   *)
(* mode (workers/investment_planning.go: processSearchMode,                *)
(* searchProperties, searchHeartbeat, syntheticProgress): a search per     *)
(* location behind a semaphore, a collector, and tickers that report       *)
(* progress on the channel the worker pool closes when the handler returns *)
(* (pool.go:167).                                                          *)
(*                                                                         *)
(* What a search finds is reduced to "found", "empty" or "error".  The     *)
(* progress channel drops what does not fit, so that only whether it is    *)
(* closed matters.                                                         *)
(***************************************************************************)
EXTENDS Integers, FiniteSets

CONSTANTS
    Locations,   \* the locations of the request
    Optim,       \* stands for the ticker of the optimization
    Limit,       \* capacity of sem: ten searches at a time
    MaxSteps     \* len(optimizationMessages)

ASSUME PlanConstants ==
    /\ IsFiniteSet(Locations) /\ Optim \notin Locations
    /\ Limit \in Nat \ {0} /\ MaxSteps \in Nat

VARIABLES
    main,        \* the handler's goroutine
    search,      \* the goroutine of each location
    sem,         \* slots of the semaphore that are taken
    wg,          \* the WaitGroup
    results,     \* resultChan: results not yet received, and whether it is closed
    collected,   \* what the collector received from each location
    cancelled,   \* is the job's context done?
    ticker,      \* each ticker: where it is, and its steps
    stopped,     \* tickers whose done channel is closed
    progress     \* the progress channel: "open", "closed", or "panic" on a late send

fanVars  == <<search, sem, wg, results, collected>>
tickVars == <<ticker, stopped>>
planVars == <<main, fanVars, cancelled, tickVars, progress>>

Tickers  == Locations \cup {Optim}
Outcomes == {"found", "empty", "error"}
Result   == [loc : Locations, is : Outcomes]

PlanTypeOK ==
    /\ main \in {"launch", "collect", "optimize", "finish", "returned"}
    /\ search \in [Locations -> [at : {"none", "waiting", "starting", "searching", "report",
                                     "release", "leave", "gone"}, got : Outcomes]]
    /\ sem \in 0 .. Limit
    /\ wg \in 0 .. Cardinality(Locations)
    /\ results \in [buf : SUBSET Result, closed : BOOLEAN]
    /\ collected \subseteq Result
    /\ cancelled \in BOOLEAN
    /\ ticker \in [Tickers -> [at : {"off", "select", "send", "gone"}, step : 0 .. MaxSteps]]
    /\ stopped \subseteq Tickers
    /\ progress \in {"open", "closed", "panic"}

PlanInit ==
    /\ main = "launch"
    /\ search = [l \in Locations |-> [at |-> "none", got |-> "empty"]]
    /\ sem = 0 /\ wg = 0
    /\ results = [buf |-> {}, closed |-> FALSE]
    /\ collected = {}
    /\ cancelled = FALSE
    /\ ticker = [t \in Tickers |-> [at |-> "off", step |-> 0]]
    /\ stopped = {}
    /\ progress = "open"

Become(l, s) == search' = [search EXCEPT ![l].at = s]
Start(t)     == ticker' = [ticker EXCEPT ![t].at = "select"]
Put(r)       == results' = [results EXCEPT !.buf = @ \cup {r}]

\* A send on the closed channel panics and nothing recovers: the process dies.
Report == progress' = IF progress = "open" THEN "open" ELSE "panic"

-------------------------------------------------------------------------------
(* searchProperties: the goroutine of a location *)

Launch(l) ==
    /\ main = "launch" /\ search[l].at = "none"
    /\ wg' = wg + 1
    /\ Become(l, "waiting")
    /\ UNCHANGED <<main, sem, results, collected, cancelled, tickVars, progress>>

\* Mutant of Acquire: the semaphore does not block.
AcquireAlways(l) ==
    /\ search[l].at = "waiting"
    /\ sem' = sem + 1
    /\ Become(l, "starting")
    /\ Report
    /\ UNCHANGED <<main, wg, results, collected, cancelled, tickVars>>

Acquire(l) ==
    /\ search[l].at = "waiting"
    /\ sem < Limit
    /\ sem' = sem + 1
    /\ Become(l, "starting")
    /\ Report
    /\ UNCHANGED <<main, wg, results, collected, cancelled, tickVars>>

\* The other case of the select: the job was cancelled or timed out.
GiveUp(l) ==
    /\ search[l].at = "waiting" /\ cancelled
    /\ Put([loc |-> l, is |-> "error"])
    /\ Become(l, "leave")
    /\ UNCHANGED <<main, sem, wg, collected, cancelled, tickVars, progress>>

StartSearch(l) ==
    /\ search[l].at = "starting"
    /\ Become(l, "searching")
    /\ Start(l)
    /\ UNCHANGED <<main, sem, wg, results, collected, cancelled, stopped, progress>>

\* Mutant of SearchReturns: after an error the heartbeat goes on.
SearchReturnsKeeps(l, r) ==
    /\ search[l].at = "searching"
    /\ stopped' = IF r = "error" THEN stopped ELSE stopped \cup {l}
    /\ search' = [search EXCEPT ![l] = [at |-> "report", got |-> r]]
    /\ UNCHANGED <<main, sem, wg, results, collected, cancelled, ticker, progress>>

SearchReturns(l, r) ==
    /\ search[l].at = "searching"
    /\ stopped' = stopped \cup {l}
    /\ search' = [search EXCEPT ![l] = [at |-> "report", got |-> r]]
    /\ UNCHANGED <<main, sem, wg, results, collected, cancelled, ticker, progress>>

\* The last report of the location, then its result.
Deliver(l) ==
    /\ search[l].at = "report"
    /\ Report
    /\ Put([loc |-> l, is |-> search[l].got])
    /\ Become(l, "release")
    /\ UNCHANGED <<main, sem, wg, collected, cancelled, tickVars>>

\* Mutant of Release: the slot is not given back.
ReleaseNothing(l) ==
    /\ search[l].at = "release"
    /\ Become(l, "leave")
    /\ UNCHANGED <<main, sem, wg, results, collected, cancelled, tickVars, progress>>

\* Deferred calls run last to first: the slot, then wg.Done.
Release(l) ==
    /\ search[l].at = "release"
    /\ sem' = sem - 1
    /\ Become(l, "leave")
    /\ UNCHANGED <<main, wg, results, collected, cancelled, tickVars, progress>>

Leave(l) ==
    /\ search[l].at = "leave"
    /\ wg' = wg - 1
    /\ Become(l, "gone")
    /\ UNCHANGED <<main, sem, results, collected, cancelled, tickVars, progress>>

-------------------------------------------------------------------------------
(* The handler, and the goroutine that closes resultChan *)

Launched ==
    /\ main = "launch" /\ \A l \in Locations : search[l].at # "none"
    /\ main' = "collect"
    /\ UNCHANGED <<fanVars, cancelled, tickVars, progress>>

\* Mutant of CloseResults: it does not wait.
CloseResultsAtOnce ==
    /\ main # "launch" /\ ~results.closed
    /\ results' = [results EXCEPT !.closed = TRUE]
    /\ UNCHANGED <<main, search, sem, wg, collected, cancelled, tickVars, progress>>

CloseResults ==
    /\ main # "launch" /\ ~results.closed
    /\ wg = 0
    /\ results' = [results EXCEPT !.closed = TRUE]
    /\ UNCHANGED <<main, search, sem, wg, collected, cancelled, tickVars, progress>>

Collect(r) ==
    /\ main = "collect" /\ r \in results.buf
    /\ collected' = collected \cup {r}
    /\ results' = [results EXCEPT !.buf = @ \ {r}]
    /\ UNCHANGED <<main, search, sem, wg, cancelled, tickVars, progress>>

\* The range over resultChan ends when it is closed and empty.  With no property found,
\* whether by errors or not, the handler returns an error.
Collected ==
    /\ main = "collect"
    /\ results.closed /\ results.buf = {}
    /\ IF \E r \in collected : r.is = "found"
       THEN main' = "optimize" /\ Start(Optim)
       ELSE main' = "returned" /\ UNCHANGED ticker
    /\ UNCHANGED <<fanVars, cancelled, stopped, progress>>

\* close(optimDone); an error returns at once.
Optimized ==
    /\ main = "optimize"
    /\ stopped' = stopped \cup {Optim}
    /\ main' \in {"finish", "returned"}
    /\ UNCHANGED <<fanVars, cancelled, ticker, progress>>

Finish ==
    /\ main = "finish"
    /\ Report
    /\ main' = "returned"
    /\ UNCHANGED <<fanVars, cancelled, tickVars>>

\* processNextJob closes the progress channel as soon as the handler has returned.
CloseProgress ==
    /\ main = "returned" /\ progress = "open"
    /\ progress' = "closed"
    /\ UNCHANGED <<main, fanVars, cancelled, tickVars>>

Cancel ==
    /\ ~cancelled /\ main # "returned"
    /\ cancelled' = TRUE
    /\ UNCHANGED <<main, fanVars, tickVars, progress>>

-------------------------------------------------------------------------------
(* searchHeartbeat and syntheticProgress *)

\* The tick may be chosen by the select although done is closed as well.
Tick(t) ==
    /\ ticker[t].at = "select"
    /\ IF t = Optim /\ ticker[t].step = MaxSteps
       THEN ticker' = [ticker EXCEPT ![t].at = "gone"]
       ELSE ticker' = [ticker EXCEPT ![t].at = "send"]
    /\ UNCHANGED <<main, fanVars, cancelled, stopped, progress>>

TickReport(t) ==
    /\ ticker[t].at = "send"
    /\ Report
    /\ ticker' = [ticker EXCEPT ![t] = [at |-> "select", step |-> IF t = Optim THEN @.step + 1 ELSE 0]]
    /\ UNCHANGED <<main, fanVars, cancelled, stopped>>

Stop(t) ==
    /\ ticker[t].at = "select" /\ t \in stopped
    /\ ticker' = [ticker EXCEPT ![t].at = "gone"]
    /\ UNCHANGED <<main, fanVars, cancelled, stopped, progress>>

SearchStep(l) ==
    \/ Launch(l) \/ Acquire(l) \/ GiveUp(l) \/ StartSearch(l) \/ Deliver(l) \/ Release(l) \/ Leave(l)
    \/ \E r \in Outcomes : SearchReturns(l, r)

MainStep ==
    \/ Launched \/ CloseResults \/ Collected \/ Optimized \/ Finish \/ CloseProgress
    \/ \E r \in results.buf : Collect(r)

PlanNext ==
    /\ progress # "panic"
    /\ \/ MainStep \/ Cancel
       \/ \E l \in Locations : SearchStep(l)
       \/ \E t \in Tickers : Tick(t) \/ TickReport(t) \/ Stop(t)

PlanSpec == PlanInit /\ [][PlanNext]_planVars

Alive(A) == progress # "panic" /\ A

\* Goroutines are scheduled and finder.Search returns.  A ticker at its select takes each
\* of the cases that are ready again and again: select chooses among them at random.
FairPlanSpec ==
    /\ PlanSpec
    /\ WF_planVars(Alive(MainStep))
    /\ \A l \in Locations : /\ WF_planVars(Alive(SearchStep(l)))
                            /\ SF_planVars(Alive(Acquire(l)))
    /\ \A t \in Tickers : WF_planVars(Alive(TickReport(t))) /\ SF_planVars(Alive(Stop(t)))

-------------------------------------------------------------------------------
(* Properties *)

Holding(l) == search[l].at \in {"starting", "searching", "report", "release"}
Held       == {l \in Locations : Holding(l)}
Waited     == {l \in Locations : search[l].at \notin {"none", "gone"}}
ResultsOf(l) == {r \in results.buf \cup collected : r.loc = l}
Reported   == {"release", "leave", "gone"}

\* The semaphore counts the goroutines between its two ends, whichever way they leave:
\* no more than Limit locations are searched at a time.
SearchLimit == sem = Cardinality(Held) /\ sem <= Limit

\* The collection ends only with exactly one result of every location, although
\* resultChan is closed by a goroutine of its own.
CollectedAll ==
    main \notin {"launch", "collect"} =>
        \A l \in Locations : Cardinality({r \in collected : r.loc = l}) = 1

\* The goroutines of the locations have made their last report before the pool closes
\* the progress channel.
ReportsBeforeClose ==
    progress # "open" => \A l \in Locations : search[l].at \in {"release", "leave", "gone"}

\* What sem and the WaitGroup count.
Counters == SearchLimit /\ wg = Cardinality(Waited)

\* resultChan is closed only after the last goroutine, and the collector leaves it empty.
Phases ==
    /\ main # "launch" => \A l \in Locations : search[l].at # "none"
    /\ results.closed => main # "launch" /\ \A l \in Locations : search[l].at = "gone"
    /\ main \notin {"launch", "collect"} => results.closed /\ results.buf = {}
    /\ progress # "open" => main = "returned"

\* A location has one result, in the channel or collected, once its goroutine reported.
OneResult ==
    \A l \in Locations :
        IF search[l].at \in Reported THEN \E o \in Outcomes : ResultsOf(l) = {[loc |-> l, is |-> o]}
        ELSE ResultsOf(l) = {}

\* The optimization's ticker stops before it runs out of messages.
StepsLeft == ticker[Optim].at = "send" => ticker[Optim].step < MaxSteps

\* What every step of the worker's goroutines preserves; the three properties above follow.
PlanInv == PlanTypeOK /\ Counters /\ Phases /\ OneResult /\ StepsLeft

\* The handler returns, even when there are more locations than slots.
PlanReturns == <>(main = "returned")

\* No ticker outlives its handler for ever.
TickersStop == [](main = "returned" => <>(progress = "panic" \/ \A t \in Tickers : ticker[t].at \in {"off", "gone"}))

\* "Stops when done is closed" (investment_planning.go:1359), "Close the done channel to
\* stop" (1430): nothing is sent on the progress channel after the pool closed it.
NoSendOnClosed == progress # "panic"
===============================================================================

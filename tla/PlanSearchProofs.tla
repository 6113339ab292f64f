---------------------------- MODULE PlanSearchProofs ---------------------------
(***************************************************************************)
(* The fan-out theorems of PlanSearch, for any number of locations and any *)
(* width of the semaphore.  The semaphore and the WaitGroup are counters;  *)
(* the invariant says which goroutines they count, and that every location *)
(* has one result between the channel and the collector once its goroutine *)
(* has reported.                                                           *)
(***************************************************************************)
EXTENDS PlanSearch, FiniteSetTheorems, TLAPS

-------------------------------------------------------------------------------
(* Counting *)

LEMMA Subsets ==
    ASSUME NEW S \in SUBSET Locations
    PROVE  /\ IsFiniteSet(S) /\ Cardinality(S) \in Nat /\ Cardinality(Locations) \in Nat
           /\ Cardinality(S) <= Cardinality(Locations)
           /\ Cardinality(S) = 0 <=> S = {}
<1>1. IsFiniteSet(S) /\ Cardinality(S) <= Cardinality(Locations)
      BY PlanConstants, FS_Subset
<1>2. Cardinality(S) \in Nat /\ Cardinality(Locations) \in Nat
      BY <1>1, PlanConstants, FS_CardinalityType
<1>3. Cardinality(S) = 0 <=> S = {}
      BY <1>1, FS_EmptySet
<1> QED
    BY <1>1, <1>2, <1>3

LEMMA OneMore ==
    ASSUME NEW S \in SUBSET Locations, NEW l \in Locations, l \notin S
    PROVE  Cardinality(S \cup {l}) = Cardinality(S) + 1
BY Subsets, FS_AddElement

LEMMA OneLess ==
    ASSUME NEW S \in SUBSET Locations, NEW l \in S
    PROVE  Cardinality(S \ {l}) = Cardinality(S) - 1
BY Subsets, FS_RemoveElement

-------------------------------------------------------------------------------
(* How a goroutine's step changes what the invariant speaks of *)

Places == {"none", "waiting", "starting", "searching", "report", "release", "leave", "gone"}

\* Only the goroutine of l moves, to p.
MovesTo(l, p) ==
    /\ search' \in [Locations -> [at : Places, got : Outcomes]]
    /\ search'[l].at = p
    /\ \A m \in Locations \ {l} : search'[m] = search[m]

LEMMA Becomes ==
    ASSUME PlanTypeOK, NEW l \in Locations, NEW p \in Places, Become(l, p)
    PROVE  MovesTo(l, p)
<1>1. search[l] \in [at : Places, got : Outcomes] /\ search \in [Locations -> [at : Places, got : Outcomes]]
      BY DEF PlanTypeOK, Places
<1>2. search' = [search EXCEPT ![l] = [search[l] EXCEPT !.at = p]]
      BY DEF Become
<1>3. [search[l] EXCEPT !.at = p] \in [at : Places, got : Outcomes]
      BY <1>1
<1>4. [search[l] EXCEPT !.at = p].at = p
      BY <1>1
<1> QED
    BY <1>1, <1>2, <1>3, <1>4 DEF MovesTo

LEMMA ReportsTo ==
    ASSUME PlanTypeOK, NEW l \in Locations, NEW o \in Outcomes, SearchReturns(l, o)
    PROVE  MovesTo(l, "report")
<1>1. search \in [Locations -> [at : Places, got : Outcomes]]
      BY DEF PlanTypeOK, Places
<1>2. search' = [search EXCEPT ![l] = [at |-> "report", got |-> o]]
      BY DEF SearchReturns
<1>3. [at |-> "report", got |-> o] \in [at : Places, got : Outcomes]
      BY DEF Places
<1> QED
    BY <1>1, <1>2, <1>3 DEF MovesTo

LEMMA SetsMove ==
    ASSUME NEW l \in Locations, NEW p \in Places, MovesTo(l, p)
    PROVE  /\ Held' = IF p \in {"starting", "searching", "report", "release"}
                      THEN Held \cup {l} ELSE Held \ {l}
           /\ Waited' = IF p \notin {"none", "gone"} THEN Waited \cup {l} ELSE Waited \ {l}
BY DEF MovesTo, Held, Waited, Holding
-------------------------------------------------------------------------------
(* Each part of the invariant, step by step *)

\* Which goroutines a step of the location l may leave in which place.
LEMMA StepMoves ==
    ASSUME PlanTypeOK, NEW l \in Locations, SearchStep(l)
    PROVE  \E p \in Places : MovesTo(l, p)
<1>1. ASSUME NEW p \in Places, Become(l, p) PROVE \E q \in Places : MovesTo(l, q)
      BY <1>1, Becomes
<1>2. ASSUME NEW o \in Outcomes, SearchReturns(l, o) PROVE \E q \in Places : MovesTo(l, q)
  <2>1. MovesTo(l, "report")
        BY <1>2, ReportsTo
  <2> QED
      BY <2>1 DEF Places
<1>3. /\ "waiting" \in Places /\ "starting" \in Places /\ "searching" \in Places
      /\ "release" \in Places /\ "leave" \in Places /\ "gone" \in Places
      BY DEF Places
<1> QED
    BY <1>1, <1>2, <1>3 DEF SearchStep, Launch, Acquire, GiveUp, StartSearch, Deliver, Release, Leave

LEMMA Untouched ==
    ASSUME UNCHANGED <<search, sem, wg>>, Counters
    PROVE  Counters'
BY DEF Counters, SearchLimit, Held, Waited, Holding

LEMMA CountersStep ==
    ASSUME PlanTypeOK, Counters, [PlanNext]_planVars
    PROVE  Counters'
<1>0. Held \subseteq Locations /\ Waited \subseteq Locations
      BY DEF Held, Waited
<1>1. CASE UNCHANGED <<search, sem, wg>>
      BY <1>1, Untouched
<1>2. ASSUME NEW l \in Locations, SearchStep(l) PROVE Counters'
  <2>1. Cardinality(Held) \in Nat /\ Cardinality(Waited) \in Nat /\ Limit \in Nat
        BY <1>0, Subsets, PlanConstants
  <2>2. CASE Launch(l)
    <3>1. MovesTo(l, "waiting") /\ search[l].at = "none" /\ sem' = sem /\ wg' = wg + 1
          BY <2>2, Becomes DEF Launch, Places
    <3>2. Held' = Held /\ Waited' = Waited \cup {l} /\ l \notin Waited
          BY <3>1, SetsMove DEF Places, Held, Waited, Holding
    <3> QED
        BY <1>0, <2>1, <3>1, <3>2, OneMore DEF Counters, SearchLimit
  <2>3. CASE Acquire(l)
    <3>1. MovesTo(l, "starting") /\ search[l].at = "waiting" /\ sem' = sem + 1 /\ sem < Limit /\ wg' = wg
          BY <2>3, Becomes DEF Acquire, Places
    <3>2. Held' = Held \cup {l} /\ Waited' = Waited /\ l \notin Held
          BY <3>1, SetsMove DEF Places, Held, Waited, Holding
    <3> QED
        BY <1>0, <2>1, <3>1, <3>2, OneMore DEF Counters, SearchLimit
  <2>4. CASE GiveUp(l)
    <3>1. MovesTo(l, "leave") /\ search[l].at = "waiting" /\ sem' = sem /\ wg' = wg
          BY <2>4, Becomes DEF GiveUp, Places
    <3>2. Held' = Held /\ Waited' = Waited
          BY <3>1, SetsMove DEF Places, Held, Waited, Holding
    <3> QED
        BY <3>1, <3>2 DEF Counters, SearchLimit
  <2>5. CASE StartSearch(l)
    <3>1. MovesTo(l, "searching") /\ search[l].at = "starting" /\ sem' = sem /\ wg' = wg
          BY <2>5, Becomes DEF StartSearch, Places
    <3>2. Held' = Held /\ Waited' = Waited
          BY <3>1, SetsMove DEF Places, Held, Waited, Holding
    <3> QED
        BY <3>1, <3>2 DEF Counters, SearchLimit
  <2>6. ASSUME NEW o \in Outcomes, SearchReturns(l, o) PROVE Counters'
    <3>1. MovesTo(l, "report") /\ search[l].at = "searching" /\ sem' = sem /\ wg' = wg
          BY <2>6, ReportsTo DEF SearchReturns
    <3>2. Held' = Held /\ Waited' = Waited
          BY <3>1, SetsMove DEF Places, Held, Waited, Holding
    <3> QED
        BY <3>1, <3>2 DEF Counters, SearchLimit
  <2>7. CASE Deliver(l)
    <3>1. MovesTo(l, "release") /\ search[l].at = "report" /\ sem' = sem /\ wg' = wg
          BY <2>7, Becomes DEF Deliver, Places
    <3>2. Held' = Held /\ Waited' = Waited
          BY <3>1, SetsMove DEF Places, Held, Waited, Holding
    <3> QED
        BY <3>1, <3>2 DEF Counters, SearchLimit
  <2>8. CASE Release(l)
    <3>1. MovesTo(l, "leave") /\ search[l].at = "release" /\ sem' = sem - 1 /\ wg' = wg
          BY <2>8, Becomes DEF Release, Places
    <3>2. Held' = Held \ {l} /\ Waited' = Waited /\ l \in Held
          BY <3>1, SetsMove DEF Places, Held, Waited, Holding
    <3> QED
        BY <1>0, <2>1, <3>1, <3>2, OneLess DEF Counters, SearchLimit
  <2>9. CASE Leave(l)
    <3>1. MovesTo(l, "gone") /\ search[l].at = "leave" /\ sem' = sem /\ wg' = wg - 1
          BY <2>9, Becomes DEF Leave, Places
    <3>2. Held' = Held /\ Waited' = Waited \ {l} /\ l \in Waited
          BY <3>1, SetsMove DEF Places, Held, Waited, Holding
    <3> QED
        BY <1>0, <2>1, <3>1, <3>2, OneLess DEF Counters, SearchLimit
  <2> QED
      BY <1>2, <2>2, <2>3, <2>4, <2>5, <2>6, <2>7, <2>8, <2>9 DEF SearchStep
<1>3. CASE MainStep \/ Cancel
      BY <1>1, <1>3 DEF MainStep, Cancel, Launched, CloseResults, Collected, Optimized, Finish,
                        CloseProgress, Collect, fanVars
<1>4. ASSUME NEW t \in Tickers, Tick(t) \/ TickReport(t) \/ Stop(t) PROVE Counters'
      BY <1>1, <1>4 DEF Tick, TickReport, Stop, fanVars
<1>5. CASE UNCHANGED planVars
      BY <1>1, <1>5 DEF planVars, fanVars
<1> QED
    BY <1>2, <1>3, <1>4, <1>5 DEF PlanNext

\* The variables but the two counters.
PlainTypes ==
    /\ main \in {"launch", "collect", "optimize", "finish", "returned"}
    /\ search \in [Locations -> [at : Places, got : Outcomes]]
    /\ results \in [buf : SUBSET Result, closed : BOOLEAN]
    /\ collected \subseteq Result
    /\ cancelled \in BOOLEAN
    /\ ticker \in [Tickers -> [at : {"off", "select", "send", "gone"}, step : 0 .. MaxSteps]]
    /\ stopped \subseteq Tickers
    /\ progress \in {"open", "closed", "panic"}

LEMMA PutType ==
    ASSUME PlanTypeOK, NEW r \in Result, Put(r)
    PROVE  /\ results' \in [buf : SUBSET Result, closed : BOOLEAN]
           /\ results'.buf = results.buf \cup {r} /\ results'.closed = results.closed
BY DEF PlanTypeOK, Put

LEMMA StartType ==
    ASSUME PlanTypeOK, NEW t \in Tickers, Start(t)
    PROVE  /\ ticker' \in [Tickers -> [at : {"off", "select", "send", "gone"}, step : 0 .. MaxSteps]]
           /\ ticker'[t].at = "select" /\ \A u \in Tickers \ {t} : ticker'[u] = ticker[u]
BY DEF PlanTypeOK, Start

LEMMA SearchTypes ==
    ASSUME PlanTypeOK, NEW l \in Locations, SearchStep(l)
    PROVE  PlainTypes'
<1>1. search' \in [Locations -> [at : Places, got : Outcomes]]
      BY StepMoves DEF MovesTo
<1>2. CASE Launch(l) \/ Acquire(l) \/ Release(l) \/ Leave(l)
      BY <1>1, <1>2 DEF Launch, Acquire, Release, Leave, Report, PlanTypeOK, PlainTypes, tickVars
<1>3. CASE GiveUp(l)
  <2>1. [loc |-> l, is |-> "error"] \in Result
        BY DEF Result, Outcomes
  <2> QED
      BY <1>1, <1>3, <2>1, PutType DEF GiveUp, PlanTypeOK, PlainTypes, tickVars
<1>4. CASE Deliver(l)
  <2>1. [loc |-> l, is |-> search[l].got] \in Result
        BY DEF PlanTypeOK, Result
  <2> QED
      BY <1>1, <1>4, <2>1, PutType DEF Deliver, Report, PlanTypeOK, PlainTypes, tickVars
<1>5. CASE StartSearch(l)
  <2>1. l \in Tickers
        BY DEF Tickers
  <2> QED
      BY <1>1, <1>5, <2>1, StartType DEF StartSearch, PlanTypeOK, PlainTypes
<1>6. ASSUME NEW o \in Outcomes, SearchReturns(l, o) PROVE PlainTypes'
  <2>1. l \in Tickers
        BY DEF Tickers
  <2> QED
      BY <1>1, <1>6, <2>1 DEF SearchReturns, PlanTypeOK, PlainTypes
<1> QED
    BY <1>2, <1>3, <1>4, <1>5, <1>6 DEF SearchStep

LEMMA MainTypes ==
    ASSUME PlanTypeOK, MainStep \/ Cancel \/ UNCHANGED planVars
    PROVE  PlainTypes'
<1>0. PlainTypes
      BY DEF PlanTypeOK, PlainTypes, Places
<1>1. CASE Launched \/ CloseProgress \/ Finish \/ Cancel \/ UNCHANGED planVars
      BY <1>0, <1>1 DEF Launched, CloseProgress, Finish, Cancel, Report, planVars, fanVars, tickVars, PlainTypes
<1>2. CASE CloseResults
      BY <1>0, <1>2 DEF CloseResults, tickVars, PlainTypes
<1>3. ASSUME NEW r \in results.buf, Collect(r) PROVE PlainTypes'
      BY <1>0, <1>3 DEF Collect, tickVars, PlainTypes
<1>4. Optim \in Tickers
      BY DEF Tickers
<1>5. CASE Collected
      BY <1>0, <1>4, <1>5, StartType DEF Collected, fanVars, PlainTypes
<1>6. CASE Optimized
      BY <1>0, <1>4, <1>6 DEF Optimized, fanVars, PlainTypes
<1> QED
    BY <1>1, <1>2, <1>3, <1>5, <1>6 DEF MainStep

\* A ticker's step, as the invariant sees it.
LEMMA TickerTypes ==
    ASSUME PlanTypeOK, StepsLeft, NEW t \in Tickers, Tick(t) \/ TickReport(t) \/ Stop(t)
    PROVE  PlainTypes' /\ StepsLeft'
<1>0. /\ PlainTypes /\ ticker[t] \in [at : {"off", "select", "send", "gone"}, step : 0 .. MaxSteps]
      /\ Optim \in Tickers /\ MaxSteps \in Nat
      BY PlanConstants DEF PlanTypeOK, PlainTypes, Places, Tickers
<1>1. CASE Tick(t)
  <2>1. PICK p \in {"send", "gone"} : /\ ticker' = [ticker EXCEPT ![t].at = p]
                                      /\ p = "send" /\ t = Optim => ticker[t].step # MaxSteps
    <3>1. CASE t = Optim /\ ticker[t].step = MaxSteps
      <4>1. ticker' = [ticker EXCEPT ![t].at = "gone"]
            BY <1>1, <3>1 DEF Tick
      <4> QED
          BY <4>1
    <3>2. CASE ~(t = Optim /\ ticker[t].step = MaxSteps)
      <4>1. ticker' = [ticker EXCEPT ![t].at = "send"]
            BY <1>1, <3>2 DEF Tick
      <4> QED
          BY <3>2, <4>1
    <3> QED
        BY <3>1, <3>2
  <2>2. PlainTypes'
        BY <1>0, <1>1, <2>1 DEF Tick, fanVars, PlainTypes
  <2>3. StepsLeft'
    <3>1. CASE t = Optim
      <4>1. ticker'[t].at = p /\ ticker'[t].step = ticker[t].step
            BY <1>0, <2>1 DEF PlainTypes
      <4>2. ticker[t].step \in 0 .. MaxSteps
            BY <1>0
      <4> QED
          BY <1>0, <2>1, <3>1, <4>1, <4>2 DEF StepsLeft
    <3>2. CASE t # Optim
      <4>1. ticker'[Optim] = ticker[Optim]
            BY <1>0, <2>1, <3>2 DEF PlainTypes
      <4> QED
          BY <4>1 DEF StepsLeft
    <3> QED
        BY <3>1, <3>2
  <2> QED
      BY <2>2, <2>3
<1>2. CASE TickReport(t)
  <2>1. PICK n \in 0 .. MaxSteps : ticker' = [ticker EXCEPT ![t] = [at |-> "select", step |-> n]]
    <3>1. CASE t = Optim
      <4>1. ticker[t].step + 1 \in 0 .. MaxSteps
            BY <1>0, <1>2, <3>1 DEF TickReport, StepsLeft
      <4>2. ticker' = [ticker EXCEPT ![t] = [at |-> "select", step |-> ticker[t].step + 1]]
            BY <1>2, <3>1 DEF TickReport
      <4> QED
          BY <4>1, <4>2
    <3>2. CASE t # Optim
      <4>1. ticker' = [ticker EXCEPT ![t] = [at |-> "select", step |-> 0]]
            BY <1>2, <3>2 DEF TickReport
      <4>2. 0 \in 0 .. MaxSteps
            BY <1>0
      <4> QED
          BY <4>1, <4>2
    <3> QED
        BY <3>1, <3>2
  <2>2. PlainTypes'
        BY <1>0, <1>2, <2>1 DEF TickReport, Report, fanVars, PlainTypes
  <2>3. StepsLeft'
        BY <1>0, <2>1 DEF StepsLeft, PlainTypes
  <2> QED
      BY <2>2, <2>3
<1>3. CASE Stop(t)
  <2>1. PlainTypes'
        BY <1>0, <1>3 DEF Stop, fanVars, PlainTypes
  <2>2. StepsLeft'
        BY <1>0, <1>3 DEF Stop, StepsLeft, PlainTypes
  <2> QED
      BY <2>1, <2>2
<1> QED
    BY <1>1, <1>2, <1>3

LEMMA StepsLeftStep ==
    ASSUME PlanTypeOK, StepsLeft, [PlanNext]_planVars
    PROVE  StepsLeft'
<1>0. Optim \in Tickers /\ Optim \notin Locations
      BY PlanConstants DEF Tickers
<1>1. CASE UNCHANGED ticker
      BY <1>1 DEF StepsLeft
<1>2. ASSUME NEW l \in Locations, SearchStep(l) PROVE StepsLeft'
  <2>1. CASE StartSearch(l)
    <3>1. l \in Tickers
          BY DEF Tickers
    <3>2. ticker'[Optim] = ticker[Optim]
          BY <1>0, <2>1, <3>1, StartType DEF StartSearch
    <3> QED
        BY <3>2 DEF StepsLeft
  <2>2. CASE ~StartSearch(l)
        BY <1>1, <1>2, <2>2 DEF SearchStep, Launch, Acquire, GiveUp, SearchReturns, Deliver, Release, Leave, tickVars
  <2> QED
      BY <2>1, <2>2
<1>3. CASE Collected
  <2>1. CASE Start(Optim)
        BY <1>0, <2>1, StartType DEF StepsLeft
  <2>2. CASE UNCHANGED ticker
        BY <1>1, <2>2
  <2> QED
      BY <1>3, <2>1, <2>2 DEF Collected
<1>4. CASE (MainStep /\ ~Collected) \/ Cancel \/ UNCHANGED planVars
      BY <1>1, <1>4 DEF MainStep, Cancel, Launched, CloseResults, Optimized, Finish, CloseProgress, Collect,
                        planVars, tickVars
<1> QED
    BY <1>2, <1>3, <1>4, TickerTypes DEF PlanNext

LEMMA TypeStep ==
    ASSUME PlanTypeOK, Counters, StepsLeft, [PlanNext]_planVars
    PROVE  PlanTypeOK'
<1>1. PlainTypes'
      BY SearchTypes, MainTypes, TickerTypes DEF PlanNext
<1>2. Counters' /\ Held' \subseteq Locations /\ Waited' \subseteq Locations
      BY CountersStep DEF Held, Waited
<1>3. sem' \in 0 .. Limit /\ wg' \in 0 .. Cardinality(Locations)
      BY <1>2, Subsets, PlanConstants DEF Counters, SearchLimit
<1> QED
    BY <1>1, <1>3 DEF PlainTypes, PlanTypeOK, Places

-------------------------------------------------------------------------------
(* The phases of the handler, and one result for each location *)

LEMMA PhasesStep ==
    ASSUME PlanTypeOK, Counters, Phases, [PlanNext]_planVars
    PROVE  Phases'
<1>1. CASE UNCHANGED <<main, search, results>> /\ (progress' = progress \/ main = "returned")
      BY <1>1 DEF Phases
<1>2. ASSUME NEW l \in Locations, SearchStep(l) PROVE Phases'
  <2>1. search[l].at # "gone" /\ main' = main /\ (search[l].at = "none" => main = "launch")
        BY <1>2 DEF SearchStep, Launch, Acquire, GiveUp, StartSearch, SearchReturns, Deliver, Release, Leave, Phases
  <2>2. ~results.closed /\ main \in {"launch", "collect"} /\ progress = "open"
        BY <2>1 DEF Phases
  <2>3. results'.closed = results.closed
        BY <1>2 DEF SearchStep, Launch, Acquire, GiveUp, StartSearch, SearchReturns, Deliver, Release, Leave,
                    Put, PlanTypeOK
  <2>4. progress' = progress
        BY <1>2, <2>2 DEF SearchStep, Launch, Acquire, GiveUp, StartSearch, SearchReturns, Deliver, Release, Leave, Report
  <2>5. \A m \in Locations : search'[m].at = "none" => search[m].at = "none"
    <3>1. search'[l].at # "none"
          BY <1>2 DEF SearchStep, Launch, Acquire, GiveUp, StartSearch, SearchReturns, Deliver, Release, Leave,
                      Become, PlanTypeOK
    <3>2. \A m \in Locations \ {l} : search'[m] = search[m]
          BY <1>2, StepMoves DEF MovesTo
    <3> QED
        BY <3>1, <3>2
  <2> QED
      BY <2>1, <2>2, <2>3, <2>4, <2>5 DEF Phases
<1>3. CASE Launched
      BY <1>3 DEF Launched, fanVars, Phases, PlanTypeOK
<1>4. CASE CloseResults
  <2>1. Waited = {}
    <3>1. Waited \subseteq Locations
          BY DEF Waited
    <3> QED
        BY <1>4, <3>1, Subsets DEF CloseResults, Counters, SearchLimit
  <2>2. \A l \in Locations : search[l].at = "gone"
        BY <1>4, <2>1 DEF CloseResults, Phases, Waited
  <2>3. results'.closed /\ results'.buf = results.buf
        BY <1>4 DEF CloseResults, PlanTypeOK
  <2> QED
      BY <1>4, <2>2, <2>3 DEF CloseResults, Phases
<1>5. ASSUME NEW r \in results.buf, Collect(r) PROVE Phases'
      BY <1>5 DEF Collect, Phases, PlanTypeOK
<1>6. CASE Collected
      BY <1>6 DEF Collected, fanVars, Phases
<1>7. CASE Optimized
      BY <1>7 DEF Optimized, fanVars, Phases
<1>8. CASE Finish
      BY <1>8 DEF Finish, Report, fanVars, Phases
<1>9. CASE CloseProgress \/ Cancel \/ UNCHANGED planVars
      BY <1>1, <1>9 DEF CloseProgress, Cancel, planVars, fanVars
<1>10. ASSUME NEW t \in Tickers, Tick(t) \/ TickReport(t) \/ Stop(t) PROVE Phases'
      BY <1>10 DEF Tick, TickReport, Stop, Report, fanVars, Phases
<1> QED
    BY <1>2, <1>3, <1>4, <1>5, <1>6, <1>7, <1>8, <1>9, <1>10 DEF PlanNext, MainStep

LEMMA OneResultStep ==
    ASSUME PlanTypeOK, Phases, OneResult, [PlanNext]_planVars
    PROVE  OneResult'
<1>1. CASE UNCHANGED <<search, results, collected>>
      BY <1>1 DEF OneResult, ResultsOf
<1>2. ASSUME NEW l \in Locations, SearchStep(l) PROVE OneResult'
  <2>0. \A m \in Locations \ {l} : search'[m] = search[m]
        BY <1>2, StepMoves DEF MovesTo
  <2>1. CASE GiveUp(l)
    <3> DEFINE r == [loc |-> l, is |-> "error"]
    <3>1. r \in Result /\ r.loc = l /\ "error" \in Outcomes
          BY DEF Result, Outcomes
    <3>2. results'.buf = results.buf \cup {r} /\ collected' = collected
          BY <2>1, <3>1, PutType DEF GiveUp
    <3>3. search[l].at = "waiting" /\ search'[l].at = "leave"
          BY <2>1, Becomes DEF GiveUp, Places, MovesTo
    <3>4. ResultsOf(l) = {}
          BY <3>3 DEF OneResult, Reported
    <3>5. ResultsOf(l)' = {r}
          BY <3>1, <3>2, <3>4 DEF ResultsOf
    <3>6. \A m \in Locations \ {l} : ResultsOf(m)' = ResultsOf(m)
          BY <3>1, <3>2 DEF ResultsOf
    <3>7. ASSUME NEW m \in Locations \ {l}
          PROVE  IF search'[m].at \in Reported THEN \E o \in Outcomes : ResultsOf(m)' = {[loc |-> m, is |-> o]}
                 ELSE ResultsOf(m)' = {}
          BY <2>0, <3>6 DEF OneResult
    <3> QED
        BY <3>1, <3>3, <3>5, <3>7 DEF OneResult, Reported
  <2>2. CASE Deliver(l)
    <3> DEFINE r == [loc |-> l, is |-> search[l].got]
    <3>1. r \in Result /\ r.loc = l /\ search[l].got \in Outcomes
          BY DEF Result, PlanTypeOK
    <3>2. results'.buf = results.buf \cup {r} /\ collected' = collected
          BY <2>2, <3>1, PutType DEF Deliver
    <3>3. search[l].at = "report" /\ search'[l].at = "release"
          BY <2>2, Becomes DEF Deliver, Places, MovesTo
    <3>4. ResultsOf(l) = {}
          BY <3>3 DEF OneResult, Reported
    <3>5. ResultsOf(l)' = {r}
          BY <3>1, <3>2, <3>4 DEF ResultsOf
    <3>6. \A m \in Locations \ {l} : ResultsOf(m)' = ResultsOf(m)
          BY <3>1, <3>2 DEF ResultsOf
    <3>7. ASSUME NEW m \in Locations \ {l}
          PROVE  IF search'[m].at \in Reported THEN \E o \in Outcomes : ResultsOf(m)' = {[loc |-> m, is |-> o]}
                 ELSE ResultsOf(m)' = {}
          BY <2>0, <3>6 DEF OneResult
    <3> QED
        BY <3>1, <3>3, <3>5, <3>7 DEF OneResult, Reported
  <2>3. CASE ~GiveUp(l) /\ ~Deliver(l)
    <3>1. UNCHANGED <<results, collected>>
          BY <1>2, <2>3 DEF SearchStep, Launch, Acquire, StartSearch, SearchReturns, Release, Leave
    <3>2. search'[l].at \in Reported <=> search[l].at \in Reported
          BY <1>2, <2>3 DEF SearchStep, Launch, Acquire, StartSearch, SearchReturns, Release, Leave, Become,
                            PlanTypeOK, Reported
    <3>3. \A m \in Locations : ResultsOf(m)' = ResultsOf(m)
          BY <3>1 DEF ResultsOf
    <3> QED
        BY <2>0, <3>2, <3>3 DEF OneResult
  <2> QED
      BY <2>1, <2>2, <2>3
<1>3. ASSUME NEW r \in results.buf, Collect(r) PROVE OneResult'
  <2>1. results'.buf = results.buf \ {r} /\ collected' = collected \cup {r} /\ search' = search
        BY <1>3 DEF Collect, PlanTypeOK
  <2>2. \A m \in Locations : ResultsOf(m)' = ResultsOf(m)
        BY <2>1 DEF ResultsOf
  <2> QED
      BY <2>1, <2>2 DEF OneResult
<1>4. CASE CloseResults
  <2>1. results'.buf = results.buf /\ collected' = collected /\ search' = search
        BY <1>4 DEF CloseResults, PlanTypeOK
  <2> QED
      BY <2>1 DEF OneResult, ResultsOf
<1>5. CASE Launched \/ Collected \/ Optimized \/ Finish \/ CloseProgress \/ Cancel \/ UNCHANGED planVars
      BY <1>1, <1>5 DEF Launched, Collected, Optimized, Finish, CloseProgress, Cancel, planVars, fanVars
<1>6. ASSUME NEW t \in Tickers, Tick(t) \/ TickReport(t) \/ Stop(t) PROVE OneResult'
      BY <1>1, <1>6 DEF Tick, TickReport, Stop, fanVars
<1> QED
    BY <1>2, <1>3, <1>4, <1>5, <1>6 DEF PlanNext, MainStep

-------------------------------------------------------------------------------
(* The theorems *)

LEMMA PlanInvInit == PlanInit => PlanInv
<1> SUFFICES ASSUME PlanInit PROVE PlanInv
    OBVIOUS
<1>1. Held = {} /\ Waited = {} /\ \A l \in Locations : ResultsOf(l) = {}
      BY DEF PlanInit, Held, Waited, Holding, ResultsOf
<1>2. Cardinality(Held) = 0 /\ Cardinality(Waited) = 0 /\ Cardinality(Locations) \in Nat /\ Limit \in Nat /\ MaxSteps \in Nat
      BY <1>1, Subsets, PlanConstants
<1>3. Counters /\ Phases /\ StepsLeft
      BY <1>2 DEF PlanInit, Counters, SearchLimit, Phases, StepsLeft, Tickers
<1>4. OneResult
      BY <1>1 DEF PlanInit, OneResult, Reported
<1>5. PlanTypeOK
  <2>1. search \in [Locations -> [at : {"none", "waiting", "starting", "searching", "report",
                                     "release", "leave", "gone"}, got : Outcomes]]
        BY DEF PlanInit, Outcomes
  <2>2. ticker \in [Tickers -> [at : {"off", "select", "send", "gone"}, step : 0 .. MaxSteps]]
        BY <1>2 DEF PlanInit
  <2>3. results \in [buf : SUBSET Result, closed : BOOLEAN]
        BY DEF PlanInit
  <2>4. sem \in 0 .. Limit /\ wg \in 0 .. Cardinality(Locations)
        BY <1>2 DEF PlanInit
  <2> QED
      BY <2>1, <2>2, <2>3, <2>4 DEF PlanInit, PlanTypeOK
<1> QED
    BY <1>3, <1>4, <1>5 DEF PlanInv

LEMMA PlanInvStep == PlanInv /\ [PlanNext]_planVars => PlanInv'
BY TypeStep, CountersStep, PhasesStep, OneResultStep, StepsLeftStep DEF PlanInv

\* The invariant of the fan-out: types, what the counters count, the handler's phases
\* and one result for each location.
THEOREM PlanInvariant == PlanSpec => []PlanInv
<1>1. PlanInit => PlanInv
      BY PlanInvInit
<1>2. PlanInv /\ [PlanNext]_planVars => PlanInv'
      BY PlanInvStep
<1> QED
    BY <1>1, <1>2, PTL DEF PlanSpec

\* The semaphore of searchProperties counts the locations being searched, at most Limit.
THEOREM SearchesLimited == PlanSpec => []SearchLimit
<1>1. PlanInv => SearchLimit
      BY DEF PlanInv, Counters
<1> QED
    BY <1>1, PlanInvariant, PTL

\* The collector of searchProperties ends with exactly one result of every location.
THEOREM EveryLocationCollected == PlanSpec => []CollectedAll
<1>1. PlanInv => CollectedAll
  <2> SUFFICES ASSUME PlanInv, main \notin {"launch", "collect"}, NEW l \in Locations
               PROVE  Cardinality({r \in collected : r.loc = l}) = 1
      BY DEF CollectedAll
  <2>1. search[l].at = "gone" /\ results.buf = {}
        BY DEF PlanInv, Phases
  <2>2. PICK o \in Outcomes : ResultsOf(l) = {[loc |-> l, is |-> o]}
        BY <2>1 DEF PlanInv, OneResult, Reported
  <2>3. {r \in collected : r.loc = l} = {[loc |-> l, is |-> o]}
        BY <2>1, <2>2 DEF ResultsOf
  <2> QED
      BY <2>3, FS_Singleton
<1> QED
    BY <1>1, PlanInvariant, PTL

\* Every goroutine of a location has made its last report before processNextJob closes
\* the progress channel.
THEOREM ReportsPrecedeClose == PlanSpec => []ReportsBeforeClose
<1>1. PlanInv => ReportsBeforeClose
      BY DEF PlanInv, Phases, ReportsBeforeClose
<1> QED
    BY <1>1, PlanInvariant, PTL
===============================================================================

-------------------------- MODULE ExportQuotaProofs ---------------------------
(***************************************************************************)
(* The quota theorems, for any number of requests, evaluations and tiers.  *)
(* Both bounds count what is still in flight: an export that has passed    *)
(* the check will be charged, and a batch that has been fetched will get   *)
(* its records, whatever happens to the quota in between.                  *)
(***************************************************************************)
EXTENDS ExportQuota, FiniteSetTheorems, TLAPS

-------------------------------------------------------------------------------
(* Type correctness *)

LEMMA TypeInit == QuotaInit => QuotaTypeOK
<1> SUFFICES ASSUME QuotaInit PROVE QuotaTypeOK
    OBVIOUS
<1>1. status \in [Evaluations -> {"DRAFT", "COMPLETED", "EXPORTED"}]
      BY DEF QuotaInit
<1>2. recs \in [Evaluations -> Nat]
      BY DEF QuotaInit
<1>3. /\ at \in [Requests -> {"idle", "fetched", "passed"}]
      /\ batch \in [Requests -> SUBSET Evaluations]
      /\ \A r \in Requests : at[r] = "idle" <=> batch[r] = {}
      BY DEF QuotaInit
<1> QED
    BY <1>1, <1>2, <1>3 DEF QuotaInit, QuotaTypeOK

LEMMA AnsweredType ==
    ASSUME QuotaTypeOK, NEW r \in Requests, Answered(r)
    PROVE  /\ at' \in [Requests -> {"idle", "fetched", "passed"}]
           /\ batch' \in [Requests -> SUBSET Evaluations]
           /\ \A q \in Requests : at'[q] = "idle" <=> batch'[q] = {}
BY DEF QuotaTypeOK, Answered

LEMMA GrantType ==
    ASSUME QuotaTypeOK, NEW l \in Tiers \cup {Unlimited}, Grant(l)
    PROVE  /\ limit' \in {NoQuota, Unlimited, 0} \cup Tiers
           /\ top' \in {0} \cup Tiers /\ lifted' \in BOOLEAN
<1>1. l > top => l \in Tiers
      BY QuotaConstants DEF QuotaTypeOK, Unlimited
<1> QED
    BY <1>1 DEF QuotaTypeOK, Grant

LEMMA TypeStep == QuotaTypeOK /\ [QuotaNext]_vars => QuotaTypeOK'
<1> SUFFICES ASSUME QuotaTypeOK, [QuotaNext]_vars PROVE QuotaTypeOK'
    OBVIOUS
<1>1. ASSUME NEW r \in Requests, NEW B \in SUBSET Evaluations, Fetch(r, B) PROVE QuotaTypeOK'
      BY <1>1 DEF Fetch, QuotaTypeOK, quota, ghosts
<1>2. ASSUME NEW r \in Requests, CheckQuota(r) PROVE QuotaTypeOK'
  <2>1. CASE Answered(r)
        BY <1>2, <2>1, AnsweredType DEF CheckQuota, QuotaTypeOK, quota, ghosts
  <2>2. CASE at' = [at EXCEPT ![r] = "passed"] /\ UNCHANGED batch
        BY <1>2, <2>2 DEF CheckQuota, QuotaTypeOK, quota, ghosts
  <2> QED
      BY <1>2, <2>1, <2>2 DEF CheckQuota
<1>3. ASSUME NEW r \in Requests, Commit(r) PROVE QuotaTypeOK'
      BY <1>3, AnsweredType DEF Commit, QuotaTypeOK
<1>4. ASSUME NEW r \in Requests, Fails(r) PROVE QuotaTypeOK'
      BY <1>4, AnsweredType DEF Fails, QuotaTypeOK, quota, ghosts
<1>5. ASSUME NEW l \in Tiers, StripeGrants(l) PROVE QuotaTypeOK'
      BY <1>5, GrantType DEF StripeGrants, QuotaTypeOK, request
<1>6. ASSUME NEW l \in Tiers, LoginGrants(l) PROVE QuotaTypeOK'
      BY <1>6, GrantType DEF LoginGrants, Upsert, QuotaTypeOK, request
<1>7. CASE EarlyAccess
      BY <1>7, GrantType DEF EarlyAccess, Upsert, QuotaTypeOK, request
<1>8. CASE LoginFindsNone \/ LoginGivesUp \/ PeriodEnds
      BY <1>8 DEF LoginFindsNone, LoginGivesUp, PeriodEnds, QuotaTypeOK, quota, request, ghosts
<1>9. CASE UNCHANGED vars
      BY <1>9 DEF vars, QuotaTypeOK, quota, request, ghosts
<1> QED
    BY <1>1, <1>2, <1>3, <1>4, <1>5, <1>6, <1>7, <1>8, <1>9 DEF QuotaNext

-------------------------------------------------------------------------------
(* The sets the bounds count *)

LEMMA Counts ==
    ASSUME NEW S \in SUBSET Requests
    PROVE  /\ IsFiniteSet(S)
           /\ Cardinality(S) \in Nat /\ Cardinality(Requests) \in Nat \ {0}
           /\ Cardinality(S) <= Cardinality(Requests)
           /\ S = {} => Cardinality(S) = 0
<1>1. IsFiniteSet(Requests) /\ Requests # {}
      BY QuotaConstants
<1>2. IsFiniteSet(S) /\ Cardinality(S) <= Cardinality(Requests)
      BY <1>1, FS_Subset
<1>3. Cardinality(S) \in Nat /\ Cardinality(Requests) \in Nat
      BY <1>1, <1>2, FS_CardinalityType
<1>4. Cardinality(Requests) # 0 /\ (S = {} => Cardinality(S) = 0)
      BY <1>1, FS_EmptySet
<1> QED
    BY <1>2, <1>3, <1>4

LEMMA OneMore ==
    ASSUME NEW S \in SUBSET Requests, NEW T \in SUBSET Requests, NEW r \in Requests, T \subseteq S \cup {r}
    PROVE  Cardinality(T) <= Cardinality(S) + 1
<1>1. IsFiniteSet(S \cup {r}) /\ Cardinality(S \cup {r}) <= Cardinality(S) + 1
      BY Counts, FS_AddElement
<1>2. Cardinality(T) <= Cardinality(S \cup {r})
      BY <1>1, FS_Subset
<1> QED
    BY <1>1, <1>2, Counts

LEMMA OneLess ==
    ASSUME NEW S \in SUBSET Requests, NEW r \in S
    PROVE  Cardinality(S \ {r}) = Cardinality(S) - 1
BY Counts, FS_RemoveElement

LEMMA Fewer ==
    ASSUME NEW S \in SUBSET Requests, NEW T \in SUBSET S
    PROVE  Cardinality(T) <= Cardinality(S)
BY Counts, FS_Subset

\* An answered request is among neither set, and the others stay where they were.
LEMMA AnsweredSets ==
    ASSUME QuotaTypeOK, NEW r \in Requests, Answered(r)
    PROVE  /\ Passed' = Passed \ {r}
           /\ \A e \in Evaluations : Holders(e)' = Holders(e) \ {r}
BY DEF QuotaTypeOK, Answered, Passed, Holders

-------------------------------------------------------------------------------
(* The quota *)

LEMMA ChargedInit == QuotaInit => Charged /\ Spoken
<1> SUFFICES ASSUME QuotaInit PROVE Charged /\ Spoken
    OBVIOUS
<1>1. Passed = {}
      BY DEF QuotaInit, Passed
<1>2. Cardinality(Passed) = 0 /\ Cardinality(Requests) \in Nat \ {0}
      BY <1>1, Counts
<1> QED
    BY <1>1, <1>2 DEF QuotaInit, Charged, Spoken, NoQuota, Unlimited

\* A step that only lets requests go, or moves them before the check.
LEMMA ChargedFewer ==
    ASSUME QuotaTypeOK, Charged, Spoken, UNCHANGED <<limit, used, exports, top, lifted>>, Passed' \subseteq Passed
    PROVE  Charged' /\ Spoken'
<1>1. Passed \subseteq Requests
      BY DEF Passed
<1>2. Cardinality(Passed') <= Cardinality(Passed)
      BY <1>1, Fewer
<1>3. Cardinality(Passed) \in Nat /\ Cardinality(Passed') \in Nat /\ Cardinality(Requests) \in Nat
      BY <1>1, Counts
<1>4. Charged'
      BY DEF Charged
<1>5. Spoken'
      BY <1>2, <1>3 DEF Spoken, QuotaTypeOK
<1> QED
    BY <1>4, <1>5

\* A step that grants a limit and leaves the requests alone.
LEMMA ChargedGrant ==
    ASSUME QuotaTypeOK, Charged, Spoken, NEW l \in Tiers \cup {Unlimited}, Grant(l), UNCHANGED at,
           used' = exports', exports' \in {0, exports}
    PROVE  Charged' /\ Spoken'
<1>1. Passed' = Passed /\ Passed \subseteq Requests
      BY DEF Passed
<1>2. /\ Cardinality(Passed) \in Nat /\ Cardinality(Requests) \in Nat \ {0}
      /\ Cardinality(Passed) <= Cardinality(Requests)
      /\ Passed = {} => Cardinality(Passed) = 0
      BY <1>1, Counts
<1>3. CASE l = Unlimited
  <2>1. limit' = Unlimited /\ lifted'
        BY <1>3 DEF Grant
  <2> QED
      BY <2>1 DEF Charged, Spoken, Unlimited, NoQuota
<1>4. CASE l \in Tiers
  <2>1. l \in Nat \ {0} /\ top \in Nat /\ top' \in Nat /\ top' >= l /\ top' >= top /\ top' >= 1
        BY <1>4, QuotaConstants DEF Grant, QuotaTypeOK
  <2>2. limit' = l /\ lifted' = lifted
        BY <2>1 DEF Grant, QuotaTypeOK, Unlimited
  <2>3. Charged'
        BY <2>1, <2>2 DEF Charged, NoQuota, Unlimited
  <2>4. Spoken'
        BY <1>1, <1>2, <2>1, <2>2 DEF Spoken, QuotaTypeOK
  <2> QED
      BY <2>3, <2>4
<1> QED
    BY <1>3, <1>4

LEMMA ChargedStep ==
    QuotaTypeOK /\ Charged /\ Spoken /\ [QuotaNext]_vars => Charged' /\ Spoken'
<1> SUFFICES ASSUME QuotaTypeOK, Charged, Spoken, [QuotaNext]_vars PROVE Charged' /\ Spoken'
    OBVIOUS
<1>0. Passed \subseteq Requests /\ Passed' \subseteq Requests
      BY DEF Passed
<1>1. ASSUME NEW r \in Requests, NEW B \in SUBSET Evaluations, Fetch(r, B) PROVE Charged' /\ Spoken'
  <2>1. Passed' \subseteq Passed
        BY <1>1 DEF Fetch, Passed, QuotaTypeOK
  <2> QED
      BY <1>1, <2>1, ChargedFewer DEF Fetch, quota, ghosts
<1>2. ASSUME NEW r \in Requests, CheckQuota(r) PROVE Charged' /\ Spoken'
  <2>1. CASE ~Entitled
    <3>1. Passed' \subseteq Passed
          BY <1>2, <2>1, AnsweredSets DEF CheckQuota
    <3> QED
        BY <1>2, <3>1, ChargedFewer DEF CheckQuota, quota, ghosts
  <2>2. CASE Entitled
    <3>1. UNCHANGED <<limit, used, exports, top, lifted>>
          BY <1>2 DEF CheckQuota, quota, ghosts
    <3>2. lifted \/ (exports <= top - 1 /\ top >= 1)
          BY <2>2, QuotaConstants DEF Entitled, Charged, QuotaTypeOK, NoQuota, Unlimited
    <3>3. limit # NoQuota
          BY <2>2 DEF Entitled
    <3>4. Cardinality(Passed') \in Nat /\ Cardinality(Passed') <= Cardinality(Requests)
          /\ Cardinality(Requests) \in Nat
          BY <1>0, Counts
    <3>5. Charged'
          BY <3>1, <3>2, <3>3 DEF Charged, QuotaTypeOK
    <3>6. Spoken'
          BY <3>1, <3>2, <3>4 DEF Spoken, QuotaTypeOK
    <3> QED
        BY <3>5, <3>6
  <2> QED
      BY <2>1, <2>2
<1>3. ASSUME NEW r \in Requests, Commit(r) PROVE Charged' /\ Spoken'
  <2>1. r \in Passed /\ Passed' = Passed \ {r}
        BY <1>3, AnsweredSets DEF Commit, Passed
  <2>2. UNCHANGED <<limit, top, lifted>> /\ used' = used + 1 /\ exports' = exports + 1
        BY <1>3 DEF Commit
  <2>3. Cardinality(Passed') = Cardinality(Passed) - 1
        BY <1>0, <2>1, OneLess
  <2>4. Cardinality(Passed) \in Nat /\ Cardinality(Requests) \in Nat
        BY <1>0, Counts
  <2>5. Charged'
        BY <2>1, <2>2 DEF Charged, QuotaTypeOK
  <2>6. Spoken'
        BY <2>2, <2>3, <2>4 DEF Spoken, QuotaTypeOK
  <2> QED
      BY <2>5, <2>6
<1>4. ASSUME NEW r \in Requests, Fails(r) PROVE Charged' /\ Spoken'
  <2>1. Passed' \subseteq Passed
        BY <1>4, AnsweredSets DEF Fails
  <2> QED
      BY <1>4, <2>1, ChargedFewer DEF Fails, quota, ghosts
<1>5. ASSUME NEW l \in Tiers, StripeGrants(l) PROVE Charged' /\ Spoken'
  <2>1. used' = exports' /\ exports' \in {0, exports}
        BY <1>5 DEF StripeGrants, Charged
  <2> QED
      BY <1>5, <2>1, ChargedGrant DEF StripeGrants, request
<1>6. ASSUME NEW l \in Tiers \cup {Unlimited}, Upsert(l), UNCHANGED request PROVE Charged' /\ Spoken'
  <2>1. used' = exports' /\ exports' \in {0, exports}
        BY <1>6 DEF Upsert, Charged
  <2> QED
      BY <1>6, <2>1, ChargedGrant DEF Upsert, request
<1>7. CASE LoginFindsNone \/ LoginGivesUp \/ PeriodEnds \/ UNCHANGED vars
  <2>1. UNCHANGED <<limit, used, exports, top, lifted, at>>
        BY <1>7 DEF LoginFindsNone, LoginGivesUp, PeriodEnds, vars, quota, request, ghosts
  <2>2. Passed' = Passed
        BY <2>1 DEF Passed
  <2> QED
      BY <2>1, <2>2, ChargedFewer
<1>8. ASSUME NEW l \in Tiers, LoginGrants(l) PROVE Charged' /\ Spoken'
      BY <1>6, <1>8 DEF LoginGrants, request
<1>9. CASE EarlyAccess
      BY <1>6, <1>9 DEF EarlyAccess, request
<1> QED
    BY <1>1, <1>2, <1>3, <1>4, <1>5, <1>7, <1>8, <1>9 DEF QuotaNext

-------------------------------------------------------------------------------
(* The records *)

LEMMA RecordsInit == QuotaInit => Wanted /\ Marked
<1> SUFFICES ASSUME QuotaInit PROVE Wanted /\ Marked
    OBVIOUS
<1>1. ASSUME NEW e \in Evaluations PROVE recs[e] + Cardinality(Holders(e)) <= Cardinality(Requests)
  <2>1. Holders(e) = {}
        BY DEF QuotaInit, Holders
  <2>2. Cardinality(Holders(e)) = 0 /\ Cardinality(Requests) \in Nat
        BY <2>1, Counts
  <2> QED
      BY <2>2 DEF QuotaInit
<1>2. Marked
      BY DEF QuotaInit, Marked
<1> QED
    BY <1>1, <1>2 DEF Wanted

\* A step that writes no record and gives no evaluation to one more request.
LEMMA RecordsFewer ==
    ASSUME QuotaTypeOK, Wanted, Marked, UNCHANGED <<status, recs>>,
           \A e \in Evaluations : Holders(e)' \subseteq Holders(e)
    PROVE  Wanted' /\ Marked'
<1>1. ASSUME NEW e \in Evaluations PROVE recs[e] + Cardinality(Holders(e)') <= Cardinality(Requests)
  <2>1. Holders(e) \subseteq Requests /\ Holders(e)' \subseteq Requests
        BY DEF Holders
  <2>2. Cardinality(Holders(e)') <= Cardinality(Holders(e))
        BY <2>1, Fewer
  <2>3. Cardinality(Holders(e)) \in Nat /\ Cardinality(Holders(e)') \in Nat /\ Cardinality(Requests) \in Nat
        BY <2>1, Counts
  <2>4. recs[e] \in Nat /\ recs[e] + Cardinality(Holders(e)) <= Cardinality(Requests)
        BY DEF Wanted, QuotaTypeOK
  <2> QED
      BY <2>2, <2>3, <2>4
<1>2. Wanted'
      BY <1>1 DEF Wanted
<1>3. Marked'
      BY DEF Marked
<1> QED
    BY <1>2, <1>3

LEMMA RecordsStep ==
    QuotaTypeOK /\ Wanted /\ Marked /\ [QuotaNext]_vars => Wanted' /\ Marked'
<1> SUFFICES ASSUME QuotaTypeOK, Wanted, Marked, [QuotaNext]_vars PROVE Wanted' /\ Marked'
    OBVIOUS
<1>1. ASSUME NEW r \in Requests, NEW B \in SUBSET Evaluations, Fetch(r, B) PROVE Wanted' /\ Marked'
  <2>1. ASSUME NEW e \in Evaluations PROVE recs'[e] + Cardinality(Holders(e)') <= Cardinality(Requests)
    <3>1. Holders(e)' \subseteq Requests
          BY DEF Holders
    <3>2. Cardinality(Holders(e)') \in Nat /\ Cardinality(Holders(e)') <= Cardinality(Requests)
          BY <3>1, Counts
    <3>3. CASE e \in B
          BY <1>1, <3>2, <3>3, Counts DEF Fetch
    <3>4. CASE e \notin B
      <4>1. Holders(e)' \subseteq Holders(e) /\ Holders(e) \subseteq Requests
            BY <1>1, <3>4 DEF Fetch, Holders, QuotaTypeOK
      <4>2. Cardinality(Holders(e)') <= Cardinality(Holders(e)) /\ Cardinality(Holders(e)) \in Nat
            BY <4>1, Fewer, Counts
      <4>3. recs[e] \in Nat /\ recs[e] + Cardinality(Holders(e)) <= Cardinality(Requests) /\ recs' = recs
            BY <1>1 DEF Wanted, QuotaTypeOK, Fetch
      <4> QED
          BY <3>2, <4>2, <4>3, Counts
    <3> QED
        BY <3>3, <3>4
  <2>2. Wanted'
        BY <2>1 DEF Wanted
  <2>3. Marked'
        BY <1>1 DEF Fetch, Marked
  <2> QED
      BY <2>2, <2>3
<1>2. ASSUME NEW r \in Requests, CheckQuota(r) PROVE Wanted' /\ Marked'
  <2>1. \A e \in Evaluations : Holders(e)' \subseteq Holders(e)
    <3>1. CASE Answered(r)
          BY <3>1, AnsweredSets
    <3>2. CASE UNCHANGED batch
          BY <3>2 DEF Holders
    <3> QED
        BY <1>2, <3>1, <3>2 DEF CheckQuota
  <2> QED
      BY <1>2, <2>1, RecordsFewer DEF CheckQuota
<1>3. ASSUME NEW r \in Requests, Commit(r) PROVE Wanted' /\ Marked'
  <2>1. ASSUME NEW e \in Evaluations PROVE recs'[e] + Cardinality(Holders(e)') <= Cardinality(Requests)
    <3>1. Holders(e)' = Holders(e) \ {r} /\ Holders(e) \subseteq Requests
          BY <1>3, AnsweredSets DEF Commit, Holders
    <3>2. /\ recs[e] \in Nat /\ recs[e] + Cardinality(Holders(e)) <= Cardinality(Requests)
          /\ Cardinality(Holders(e)) \in Nat /\ Cardinality(Requests) \in Nat
          BY <3>1, Counts DEF Wanted, QuotaTypeOK
    <3>3. CASE e \in batch[r]
      <4>1. Cardinality(Holders(e)') = Cardinality(Holders(e)) - 1
            BY <3>1, <3>3, OneLess DEF Holders
      <4>2. recs'[e] = recs[e] + 1
            BY <1>3, <3>3 DEF Commit
      <4> QED
          BY <3>2, <4>1, <4>2
    <3>4. CASE e \notin batch[r]
      <4>1. Holders(e)' = Holders(e)
            BY <3>1, <3>4 DEF Holders
      <4>2. recs'[e] = recs[e]
            BY <1>3, <3>4 DEF Commit
      <4> QED
          BY <3>2, <4>1, <4>2
    <3> QED
        BY <3>3, <3>4
  <2>2. Wanted'
        BY <2>1 DEF Wanted
  <2>3. Marked'
        BY <1>3 DEF Commit, Marked, QuotaTypeOK
  <2> QED
      BY <2>2, <2>3
<1>4. ASSUME NEW r \in Requests, Fails(r) PROVE Wanted' /\ Marked'
      BY <1>4, AnsweredSets, RecordsFewer DEF Fails
<1>5. ASSUME UNCHANGED <<status, recs, batch>> PROVE Wanted' /\ Marked'
  <2>1. \A e \in Evaluations : Holders(e)' = Holders(e)
        BY <1>5 DEF Holders
  <2> QED
      BY <1>5, <2>1, RecordsFewer
<1>6. ASSUME NEW l \in Tiers, StripeGrants(l) \/ LoginGrants(l) PROVE Wanted' /\ Marked'
      BY <1>5, <1>6 DEF StripeGrants, LoginGrants, request
<1>7. CASE LoginFindsNone \/ LoginGivesUp \/ EarlyAccess \/ PeriodEnds \/ UNCHANGED vars
      BY <1>5, <1>7 DEF LoginFindsNone, LoginGivesUp, EarlyAccess, PeriodEnds, vars, request
<1> QED
    BY <1>1, <1>2, <1>3, <1>4, <1>6, <1>7 DEF QuotaNext

-------------------------------------------------------------------------------
(* The theorems *)

\* The variables keep their types, and a request in flight always has its evaluations.
THEOREM QuotaTypeCorrect == QuotaSpec => []QuotaTypeOK
<1> QED
    BY TypeInit, TypeStep, PTL DEF QuotaSpec

\* The inductive invariant behind the other theorems (export.go: what a request read is
\* not read again when it commits).
THEOREM QuotaInvariant == QuotaSpec => []QuotaInv
<1>1. QuotaInit => QuotaInv
      BY TypeInit, ChargedInit, RecordsInit DEF QuotaInv
<1>2. QuotaInv /\ [QuotaNext]_vars => QuotaInv'
      BY TypeStep, ChargedStep, RecordsStep DEF QuotaInv
<1> QED
    BY <1>1, <1>2, PTL DEF QuotaSpec

\* However many requests run side by side, and whoever rewrites the quota, the exports of
\* a period exceed the highest limit by at most the other requests, and a user who was
\* granted nothing exports nothing (export.go:155, 430).
THEOREM OverrunBounded == QuotaSpec => []BoundedOverrun
<1>1. QuotaInv => BoundedOverrun
  <2>1. Passed \subseteq Requests
        BY DEF Passed
  <2>2. Cardinality(Passed) \in Nat /\ Cardinality(Requests) \in Nat
        BY <2>1, Counts
  <2> QED
      BY <2>2 DEF QuotaInv, Charged, Spoken, BoundedOverrun, QuotaTypeOK
<1> QED
    BY <1>1, QuotaInvariant, PTL

\* An evaluation gets no more decision records than requests may hold it (export.go:113, 408).
THEOREM RecordsAreBounded == QuotaSpec => []RecordsBounded
<1>1. QuotaInv => RecordsBounded
  <2> SUFFICES ASSUME QuotaInv, NEW e \in Evaluations PROVE recs[e] <= Cardinality(Requests)
      BY DEF RecordsBounded
  <2>1. Holders(e) \subseteq Requests
        BY DEF Holders
  <2>2. Cardinality(Holders(e)) \in Nat /\ Cardinality(Requests) \in Nat
        BY <2>1, Counts
  <2> QED
      BY <2>2 DEF QuotaInv, Wanted, QuotaTypeOK
<1> QED
    BY <1>1, QuotaInvariant, PTL

\* What was exported is charged and marked (export.go:405-440, quota.sql.go:96-154, 206-216).
THEOREM ExportsChargedAndMarked == QuotaSpec => []ChargedAndMarked
<1>1. QuotaInv => ChargedAndMarked
      BY DEF QuotaInv, Charged, Marked, ChargedAndMarked
<1> QED
    BY <1>1, QuotaInvariant, PTL
===============================================================================

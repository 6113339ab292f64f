----------------------------- MODULE ExportQuota ------------------------------
(***************************************************************************)
(* The exports of one user's evaluations and the quota they are charged to *)
(* (handlers/discover/export.go, db/queries/quota.sql.go): a request reads *)
(* the evaluations, reads the quota, makes the PDF, and commits records,   *)
(* statuses and the charge in one transaction.  Nothing it read is locked  *)
(* or read again.  Meanwhile a Stripe event, a login or an administrator   *)
(* rewrites the quota.                                                     *)
(*                                                                         *)
(* Left out: the memo, the PDF, the tier's name, the dates except whether  *)
(* the period is over.                                                     *)
(***************************************************************************)
EXTENDS Integers, FiniteSets

CONSTANTS
    Requests,       \* export requests the server handles at a time
    Evaluations,    \* the user's evaluations
    Tiers           \* annual limits of the paid tiers (500 and 1000)

ASSUME QuotaConstants ==
    /\ Requests # {} /\ IsFiniteSet(Requests)
    /\ Tiers \subseteq Nat \ {0}

VARIABLES
    status, recs,   \* of each evaluation: its status, and how many decision records it has
    limit, used, ended,   \* the quota: annual_limit, used_this_period, is period_end_date past?
    at, batch,      \* of each request: how far it is, and the evaluations it exports
    login,          \* has a login found no quota, and not yet inserted one?
    exports,        \* exports made since a Stripe event last began a period
    top, lifted     \* the highest limit there was; was there ever none ("unlimited")?

request == <<at, batch>>
quota   == <<limit, used, ended>>
ghosts  == <<exports, top, lifted>>
vars    == <<status, recs, quota, request, login, ghosts>>

NoQuota   == -2
Unlimited == -1

QuotaTypeOK ==
    /\ status \in [Evaluations -> {"DRAFT", "COMPLETED", "EXPORTED"}]
    /\ recs \in [Evaluations -> Nat]
    /\ limit \in {NoQuota, Unlimited, 0} \cup Tiers
    /\ used \in Nat /\ ended \in BOOLEAN
    /\ at \in [Requests -> {"idle", "fetched", "passed"}]
    /\ batch \in [Requests -> SUBSET Evaluations]
    /\ \A r \in Requests : at[r] = "idle" <=> batch[r] = {}
    /\ login \in BOOLEAN
    /\ exports \in Nat
    /\ top \in {0} \cup Tiers /\ lifted \in BOOLEAN

\* A registered user has a quota of nothing, or none when its insertion failed; Billing has
\* the registration itself.  This server saves evaluations as DRAFT; the other backend of
\* the same tables completes them.
QuotaInit ==
    /\ status \in [Evaluations -> {"DRAFT", "COMPLETED"}]
    /\ recs = [e \in Evaluations |-> 0]
    /\ limit \in {NoQuota, 0} /\ used = 0 /\ ended = FALSE
    /\ at = [r \in Requests |-> "idle"]
    /\ batch = [r \in Requests |-> {}]
    /\ login = FALSE
    /\ exports = 0 /\ top = 0 /\ lifted = FALSE

-------------------------------------------------------------------------------
(* ExportBatchEvaluations.  A refused request changes nothing. *)

Answered(r) ==
    /\ at' = [at EXCEPT ![r] = "idle"]
    /\ batch' = [batch EXCEPT ![r] = {}]

\* Mutant of Fetch: evaluations that have a record are exported again.
FetchExported(r, B) ==
    /\ at[r] = "idle" /\ B # {}
    /\ \A e \in B : status[e] \in {"COMPLETED", "EXPORTED"}
    /\ at' = [at EXCEPT ![r] = "fetched"]
    /\ batch' = [batch EXCEPT ![r] = B]
    /\ UNCHANGED <<status, recs, quota, login, ghosts>>

\* fetchEvaluations: all completed, and none has a decision record.
Fetch(r, B) ==
    /\ at[r] = "idle" /\ B # {}
    /\ \A e \in B : status[e] \in {"COMPLETED", "EXPORTED"} /\ recs[e] = 0
    /\ at' = [at EXCEPT ![r] = "fetched"]
    /\ batch' = [batch EXCEPT ![r] = B]
    /\ UNCHANGED <<status, recs, quota, login, ghosts>>

\* Mutant of Entitled: the limit itself is let through.
EntitledAtLimit ==
    /\ limit # NoQuota /\ ~ended
    /\ limit = Unlimited \/ used <= limit

Entitled ==
    /\ limit # NoQuota /\ ~ended
    /\ limit = Unlimited \/ used < limit

CheckQuota(r) ==
    /\ at[r] = "fetched"
    /\ IF Entitled THEN at' = [at EXCEPT ![r] = "passed"] /\ UNCHANGED batch
       ELSE Answered(r)
    /\ UNCHANGED <<status, recs, quota, login, ghosts>>

\* createDecisionRecords: one transaction, and one charge for the whole batch.
Commit(r) ==
    /\ at[r] = "passed"
    /\ recs' = [e \in Evaluations |-> IF e \in batch[r] THEN recs[e] + 1 ELSE recs[e]]
    /\ status' = [e \in Evaluations |-> IF e \in batch[r] THEN "EXPORTED" ELSE status[e]]
    /\ used' = used + 1
    /\ exports' = exports + 1
    /\ Answered(r)
    /\ UNCHANGED <<limit, ended, login, top, lifted>>

\* The PDF cannot be made, or the transaction is rolled back, or the server stops.
Fails(r) ==
    /\ at[r] # "idle"
    /\ Answered(r)
    /\ UNCHANGED <<status, recs, quota, login, ghosts>>

-------------------------------------------------------------------------------
(* Who rewrites the quota *)

Grant(l) ==
    /\ limit' = l
    /\ top' = IF l > top THEN l ELSE top
    /\ lifted' = (lifted \/ l = Unlimited)

\* UpsertV2EvaluationQuotaWithPeriodReset, of Stripe's events: a period that is over
\* begins anew, with nothing used.
StripeGrants(l) ==
    /\ Grant(l)
    /\ ended' = FALSE
    /\ used' = IF limit = NoQuota \/ ended THEN 0 ELSE used
    /\ exports' = IF ended THEN 0 ELSE exports
    /\ UNCHANGED <<status, recs, request, login>>

\* Mutant of Upsert: the insertion's used_this_period = 0 is also the update's.
UpsertUnused(l) ==
    /\ Grant(l)
    /\ ended' = FALSE
    /\ used' = 0
    /\ UNCHANGED exports

\* UpsertV2EvaluationQuota: a new period, with what was used in the old one.
Upsert(l) ==
    /\ Grant(l)
    /\ ended' = FALSE
    /\ used' = IF limit = NoQuota THEN 0 ELSE used
    /\ UNCHANGED exports

\* getV2Quota finds no row, and autoProvisionQuota inserts one.
LoginFindsNone ==
    /\ ~login /\ limit = NoQuota
    /\ login' = TRUE
    /\ UNCHANGED <<status, recs, quota, request, ghosts>>

LoginGrants(l) ==
    /\ login /\ login' = FALSE
    /\ Upsert(l)
    /\ UNCHANGED <<status, recs, request>>

\* The login found no active subscription, or the insertion failed.
LoginGivesUp ==
    /\ login /\ login' = FALSE
    /\ UNCHANGED <<status, recs, quota, request, ghosts>>

\* The approval of an early access request.
EarlyAccess ==
    /\ Upsert(Unlimited)
    /\ UNCHANGED <<status, recs, request, login>>

PeriodEnds ==
    /\ limit # NoQuota /\ ~ended
    /\ ended' = TRUE
    /\ UNCHANGED <<status, recs, limit, used, request, login, ghosts>>

-------------------------------------------------------------------------------

QuotaNext ==
    \/ \E r \in Requests :
          \/ \E B \in SUBSET Evaluations : Fetch(r, B)
          \/ CheckQuota(r) \/ Commit(r) \/ Fails(r)
    \/ \E l \in Tiers : StripeGrants(l) \/ LoginGrants(l)
    \/ LoginFindsNone \/ LoginGivesUp \/ EarlyAccess \/ PeriodEnds

QuotaSpec == QuotaInit /\ [][QuotaNext]_vars

-------------------------------------------------------------------------------
(* Properties *)

\* The quota is read before the charge and without a lock: requests side by side may pass
\* with the same last use.  The exports of a period exceed the highest limit there was
\* by at most the other requests in flight, whoever rewrites the quota meanwhile, and who
\* has been granted nothing exports nothing.
BoundedOverrun ==
    ~lifted => /\ exports <= top + Cardinality(Requests) - 1
               /\ top = 0 => exports = 0

\* No unique key forbids a second record: requests that read the evaluation before the
\* first one committed each write theirs, and none that reads it afterwards does.
RecordsBounded ==
    \A e \in Evaluations : recs[e] <= Cardinality(Requests)

\* An evaluation is marked exactly when it has a record.
Marked == \A e \in Evaluations : recs[e] > 0 <=> status[e] = "EXPORTED"

\* What was exported is charged and marked: the column and the statuses agree with the
\* exports and the records, however the rewriting of the quota falls between the two
\* reads and the transaction.
ChargedAndMarked == used = exports /\ Marked

-------------------------------------------------------------------------------
(* The inductive invariant: the bounds count what is still in flight *)

Passed     == {r \in Requests : at[r] = "passed"}
Holders(e) == {r \in Requests : e \in batch[r]}

\* What the quota says of the exports, and of the requests that passed the check.
Charged ==
    /\ used = exports
    /\ limit \in Nat => limit <= top
    /\ limit = Unlimited => lifted
    /\ limit = NoQuota \/ (top = 0 /\ ~lifted) => exports = 0 /\ Passed = {}

\* The exports made and those sure to be charged.
Spoken == ~lifted => exports + Cardinality(Passed) <= top + Cardinality(Requests) - 1

\* The records written and those sure to be asked for.
Wanted == \A e \in Evaluations : recs[e] + Cardinality(Holders(e)) <= Cardinality(Requests)

\* What every step of the requests and of the quota's writers preserves; the properties
\* above follow.
QuotaInv == QuotaTypeOK /\ Charged /\ Spoken /\ Wanted /\ Marked
===============================================================================

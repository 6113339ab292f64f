-------------------------------- MODULE Billing --------------------------------
(***************************************************************************)
(* One customer's subscription between Stripe and the database: the        *)
(* webhook handlers (services/billing/webhook.go), the quota that a login  *)
(* provisions (handlers/auth/handler.go) and the administrator's           *)
(* cancellation (handlers/admin/subscriptions.go).                         *)
(*                                                                         *)
(* A handler is a sequence of statements, each a transaction of its own,   *)
(* and handlers of several deliveries interleave.  Stripe delivers an      *)
(* event at least once, in any order, until it is answered; the endpoint   *)
(* answers 200 whatever the handler returned.  Customers share no row, so  *)
(* one customer shows every order.                                         *)
(*                                                                         *)
(* Tiers, periods, prices, audit rows and e-mails are left out; so are the *)
(* events that leave users, subscriptions and quotas alone.                *)
(***************************************************************************)
EXTENDS Integers, FiniteSets, Sequences

CONSTANTS
    Parallel,       \* how many requests of Stripe the server handles at a time
    MaxChanges,     \* bound: changes of the subscription at Stripe after the checkout
    MaxAgain,       \* bound: events delivered again after they were answered
    MaxCrashes,     \* bound: restarts of the server
    MayFail         \* may a statement fail?

ASSUME BillingConstants ==
    /\ Parallel \in Nat \ {0}
    /\ MaxChanges \in Nat /\ MaxAgain \in Nat /\ MaxCrashes \in Nat
    /\ MayFail \in BOOLEAN

VARIABLES
    checkout,       \* who pays: a "guest", or a "member" whose session names the userId
    stripe,         \* status of the subscription at Stripe
    sent,           \* the events of Stripe, each with the change it belongs to
    inbox,          \* the events still to be delivered
    work,           \* of each event being handled: the statement its handler is about to run
    user, row, quota,   \* the users, subscriptions and v2_evaluation_quotas rows
    register,       \* a registration with the customer's address: the statement it is about to run
    login,          \* a login's getV2Quota: likewise
    admin,          \* an immediate cancellation: likewise
    again, crashes, \* how often an event came again, how often the server stopped
    failed,         \* did a statement fail, or was an insertion of the user refused?
    emptied,        \* did a registration overwrite a quota that was paid for?
    missed,         \* did a member's subscription.created find no user?
    newest, overtaken,  \* the last change taken up; was an older one handled beside or after it?
    cut             \* did an administrator cancel "now"?

outside  == <<checkout, stripe, sent>>
tables   == <<user, row, quota>>
requests == <<register, login, admin>>
order    == <<newest, overtaken>>
bounds   == <<again, crashes>>
marks    == <<failed, emptied, missed, cut>>
vars     == <<outside, inbox, work, tables, requests, order, bounds, marks>>

Status   == {"active", "past_due", "canceled"}
Types    == {"checkout.completed", "subscription.created", "subscription.updated",
             "subscription.deleted", "payment_failed"}
Event(t, s, c) == [type |-> t, status |-> s, change |-> c]
Changes  == IF sent = <<>> THEN 0 ELSE sent[Len(sent)].change
Statements == {"user", "insert", "find", "sub", "save", "quota", "byid", "status"}

BillingTypeOK ==
    /\ checkout \in {"guest", "member"}
    /\ stripe \in Status \cup {"none"}
    /\ sent \in Seq([type : Types, status : Status, change : 1 .. MaxChanges + 1])
    /\ inbox \subseteq DOMAIN sent
    /\ DOMAIN work \subseteq DOMAIN sent \ inbox
    /\ work \in [DOMAIN work -> [at : Statements, saw : BOOLEAN]]
    /\ user \in {"none", "registered", "guest"}
    /\ row \in Status \cup {"none"}
    /\ quota \in {"none", "empty", "full"}
    /\ register \in {"idle", "save"} /\ login \in {"idle", "sub", "save"} /\ admin \in {"idle", "save"}
    /\ again \in 0 .. MaxAgain /\ crashes \in 0 .. MaxCrashes
    /\ failed \in BOOLEAN /\ emptied \in BOOLEAN /\ missed \in BOOLEAN /\ cut \in BOOLEAN
    /\ overtaken \in BOOLEAN
    /\ newest \in 0 .. Changes

\* A guest may use the address of a registered user.  A registered user has a quota of
\* nothing, or none when its insertion failed.
BillingInit ==
    /\ \/ checkout = "guest" /\ user = "none" /\ quota = "none"
       \/ checkout \in {"guest", "member"} /\ user = "registered" /\ quota \in {"none", "empty"}
    /\ stripe = "none" /\ sent = <<>> /\ inbox = {}
    /\ work = <<>>
    /\ row = "none"
    /\ register = "idle" /\ login = "idle" /\ admin = "idle"
    /\ again = 0 /\ crashes = 0
    /\ failed = FALSE /\ emptied = FALSE /\ missed = FALSE /\ cut = FALSE
    /\ newest = 0 /\ overtaken = FALSE

-------------------------------------------------------------------------------
(* Stripe *)

Emit(events) ==
    /\ sent' = sent \o events
    /\ inbox' = inbox \cup (Len(sent) + 1 .. Len(sent) + Len(events))

\* checkout.session.completed and customer.subscription.created "fire simultaneously".
Pay ==
    /\ stripe = "none"
    /\ stripe' = "active"
    /\ Emit(<<Event("checkout.completed", "active", 1), Event("subscription.created", "active", 1)>>)
    /\ UNCHANGED <<checkout, work, tables, requests, order, bounds, marks>>

\* A renewal, a failed or late payment, the end of the subscription.
Change(s) ==
    LET c == Changes + 1
    IN  /\ stripe \in {"active", "past_due"} /\ c <= MaxChanges + 1
        /\ stripe' = s
        /\ Emit(CASE s = "active"   -> <<Event("subscription.updated", s, c)>>
                  [] s = "past_due" -> <<Event("payment_failed", s, c), Event("subscription.updated", s, c)>>
                  [] s = "canceled" -> <<Event("subscription.deleted", s, c)>>)
        /\ UNCHANGED <<checkout, work, tables, requests, order, bounds, marks>>

First(type) ==
    CASE type = "checkout.completed"   -> IF checkout = "guest" THEN "user" ELSE "sub"
      [] type = "subscription.created" -> "find"
      [] OTHER                         -> "byid"

Handled == DOMAIN work
Goto(i, s) == work' = [work EXCEPT ![i].at = s]
End(i)     == work' = [j \in Handled \ {i} |-> work[j]]

Deliver(i) ==
    LET c == sent[i].change
    IN  /\ i \in inbox /\ Cardinality(Handled) < Parallel
        /\ inbox' = inbox \ {i}
        /\ work' = [j \in Handled \cup {i} |->
                       IF j = i THEN [at |-> First(sent[i].type), saw |-> FALSE] ELSE work[j]]
        /\ newest' = IF c > newest THEN c ELSE newest
        /\ overtaken' = (overtaken \/ c < newest \/ \E j \in Handled : sent[j].change < c)
        /\ UNCHANGED <<outside, tables, requests, bounds, marks>>

\* An answered event comes once more: the answer was lost, or late.
DeliverAgain(i) ==
    /\ again < MaxAgain
    /\ i \in DOMAIN sent \ (inbox \cup Handled)
    /\ again' = again + 1
    /\ inbox' = inbox \cup {i}
    /\ UNCHANGED <<outside, work, tables, requests, order, crashes, marks>>

\* The server stops: what was not answered is delivered again.
Crash ==
    /\ crashes < MaxCrashes
    /\ crashes' = crashes + 1
    /\ inbox' = inbox \cup Handled
    /\ work' = <<>>
    /\ register' = "idle" /\ login' = "idle" /\ admin' = "idle"
    /\ UNCHANGED <<outside, tables, order, again, marks>>

-------------------------------------------------------------------------------
(* The webhook handlers, a statement at a time *)

\* handleGuestCheckoutCompleted: GetUserByEmail.
LookUp(i) ==
    /\ work[i].at = "user"
    /\ Goto(i, IF user = "none" THEN "insert" ELSE "sub")
    /\ UNCHANGED <<outside, inbox, tables, requests, order, bounds, marks>>

\* CreateUserWithPassword: the e-mail is unique, and a refusal ends the handler.
CreateUser(i) ==
    /\ work[i].at = "insert"
    /\ IF user = "none" THEN user' = "guest" /\ Goto(i, "sub") /\ UNCHANGED failed
       ELSE End(i) /\ failed' = TRUE /\ UNCHANGED user
    /\ UNCHANGED <<outside, inbox, row, quota, requests, order, bounds, emptied, missed, cut>>

\* findUserForStripe: by the subscription, else by the customer id, which only a user
\* made by a guest checkout has.
FindUser(i) ==
    /\ work[i].at = "find"
    /\ IF row # "none" \/ user = "guest" THEN Goto(i, "sub") /\ UNCHANGED missed
       ELSE End(i) /\ missed' = (checkout = "member")
    /\ UNCHANGED <<outside, inbox, tables, requests, order, bounds, failed, emptied, cut>>

\* createOrUpdateSubscription: GetSubscriptionByUserID.
GetSub(i) ==
    /\ work[i].at = "sub"
    /\ work' = [work EXCEPT ![i].at = "save", ![i].saw = (row # "none")]
    /\ UNCHANGED <<outside, inbox, tables, requests, order, bounds, marks>>

\* After the subscription row: handleSubscriptionCreated goes on whatever came of it,
\* a guest's checkout only on success, and a member's checkout is over.
AfterSub(i, ok) ==
    IF sent[i].type = "subscription.created" \/ (checkout = "guest" /\ ok) THEN Goto(i, "quota") ELSE End(i)

\* Mutant of SaveSub: a handler returns when the row is there already.
SaveSubOrStop(i) ==
    /\ work[i].at = "save"
    /\ row' = "active"
    /\ IF work[i].saw \/ row # "none" THEN End(i) ELSE AfterSub(i, TRUE)
    /\ UNCHANGED <<outside, inbox, user, quota, requests, order, bounds, marks>>

\* UpdateSubscriptionStatus of the row it saw, else CreateSubscription, which the unique
\* userId refuses when another handler was first.
SaveSub(i) ==
    LET ok == work[i].saw \/ row = "none"
    IN  /\ work[i].at = "save"
        /\ row' = IF ok THEN "active" ELSE row
        /\ AfterSub(i, ok)
        /\ UNCHANGED <<outside, inbox, user, quota, requests, order, bounds, marks>>

\* Mutant of UpsertQuota: an insertion, which leaves the quota of nothing of a registered
\* user as it is.
InsertQuota(i) ==
    /\ work[i].at = "quota"
    /\ quota' = IF quota = "none" THEN "full" ELSE quota
    /\ End(i)
    /\ UNCHANGED <<outside, inbox, user, row, requests, order, bounds, marks>>

UpsertQuota(i) ==
    /\ work[i].at = "quota"
    /\ quota' = "full"
    /\ End(i)
    /\ UNCHANGED <<outside, inbox, user, row, requests, order, bounds, marks>>

\* handleSubscriptionUpdated, handleSubscriptionDeleted, handleInvoicePaymentFailed:
\* GetSubscriptionByStripeID; without a row there is nothing to update.
GetByStripeID(i) ==
    /\ work[i].at = "byid"
    /\ IF row = "none" THEN End(i) ELSE Goto(i, "status")
    /\ UNCHANGED <<outside, inbox, tables, requests, order, bounds, marks>>

\* Mutant of SaveStatus: a deleted subscription is left as it is.
SaveStatusUpdates(i) ==
    /\ work[i].at = "status"
    /\ row' = IF sent[i].type = "subscription.deleted" THEN row ELSE sent[i].status
    /\ End(i)
    /\ UNCHANGED <<outside, inbox, user, quota, requests, order, bounds, marks>>

SaveStatus(i) ==
    /\ work[i].at = "status"
    /\ row' = sent[i].status
    /\ End(i)
    /\ UNCHANGED <<outside, inbox, user, quota, requests, order, bounds, marks>>

\* A statement fails.  Only handleSubscriptionCreated goes on, to the quota.
Fails(i) ==
    /\ MayFail
    /\ failed' = TRUE
    /\ IF sent[i].type = "subscription.created" /\ work[i].at \in {"sub", "save"} THEN Goto(i, "quota")
       ELSE End(i)
    /\ UNCHANGED <<outside, inbox, tables, requests, order, bounds, emptied, missed, cut>>

-------------------------------------------------------------------------------
(* Requests of the user and of an administrator *)

\* Register: a customer who pays as a guest may register with the same address meanwhile.
RegisterUser ==
    /\ user = "none"
    /\ user' = "registered"
    /\ register' = "save"
    /\ UNCHANGED <<outside, inbox, work, row, quota, login, admin, order, bounds, marks>>

\* The quota of nothing is an upsert too; when it fails the registration goes on.
RegisterQuota ==
    /\ register = "save"
    /\ register' = "idle"
    /\ \/ quota' = "empty" /\ emptied' = (emptied \/ quota = "full")
       \/ MayFail /\ UNCHANGED <<quota, emptied>>
    /\ UNCHANGED <<outside, inbox, work, user, row, login, admin, order, bounds, failed, missed, cut>>

\* getV2Quota: only a missing quota is looked into.
LoginQuota ==
    /\ login = "idle" /\ user # "none" /\ quota = "none"
    /\ login' = "sub"
    /\ UNCHANGED <<outside, inbox, work, tables, register, admin, order, bounds, marks>>

\* autoProvisionQuota: GetActiveSubscriptionForQuota, then the upsert.
LoginSub ==
    /\ login = "sub"
    /\ login' = IF row = "active" THEN "save" ELSE "idle"
    /\ UNCHANGED <<outside, inbox, work, tables, register, admin, order, bounds, marks>>

LoginSave ==
    /\ login = "save"
    /\ login' = "idle"
    /\ quota' = "full"
    /\ UNCHANGED <<outside, inbox, work, user, row, register, admin, order, bounds, marks>>

\* At the period's end: Stripe is told, which sends the status it has; the row gets a flag.
AdminCancelAtEnd ==
    LET c == Changes + 1
    IN  /\ row # "none" /\ stripe \in {"active", "past_due"} /\ c <= MaxChanges + 1
        /\ Emit(<<Event("subscription.updated", stripe, c)>>)
        /\ UNCHANGED <<checkout, stripe, work, tables, requests, order, bounds, marks>>

\* "Now": Stripe is told cancel_at_period_end = false, which changes nothing there ...
AdminCancelNow ==
    /\ admin = "idle" /\ row # "none" /\ stripe \in {"active", "past_due"}
    /\ admin' = "save"
    /\ UNCHANGED <<outside, inbox, work, tables, register, login, order, bounds, marks>>

\* ... and the row is cancelled.
AdminSave ==
    /\ admin = "save"
    /\ admin' = "idle"
    /\ row' = "canceled"
    /\ cut' = TRUE
    /\ UNCHANGED <<outside, inbox, work, user, quota, register, login, order, bounds, failed, emptied, missed>>

-------------------------------------------------------------------------------

Handle(i) == \/ LookUp(i) \/ CreateUser(i) \/ FindUser(i) \/ GetSub(i) \/ SaveSub(i)
             \/ UpsertQuota(i) \/ GetByStripeID(i) \/ SaveStatus(i)
Server    == (\E i \in Handled : Handle(i)) \/ \E i \in inbox : Deliver(i)
Requests  == \/ RegisterUser \/ RegisterQuota \/ LoginQuota \/ LoginSub \/ LoginSave
             \/ AdminCancelAtEnd \/ AdminCancelNow \/ AdminSave

BillingNext ==
    \/ Pay \/ (\E s \in Status : Change(s))
    \/ Server \/ Requests \/ Crash
    \/ \E i \in DOMAIN sent : DeliverAgain(i)
    \/ \E i \in Handled : Fails(i)

\* Stripe delivers what is due and the handlers run; no step of theirs repeats for ever.
BillingSpec     == BillingInit /\ [][BillingNext]_vars
FairBillingSpec == BillingSpec /\ WF_vars(Server)

-------------------------------------------------------------------------------
(* Properties *)

Quiet == inbox = {} /\ Handled = {}

\* When every event is answered and no statement failed, whoever paid has a user and a
\* subscription: the handlers of the two events may race for each row, be cut off by a
\* restart and be delivered again.  The quota may be missing only where
\* subscription.created came before there was anybody to find, or a registration that
\* was under way wrote its quota of nothing last.
Provisioned ==
    Quiet /\ ~failed /\ stripe # "none" =>
        /\ user # "none" /\ row # "none"
        /\ quota = "full" \/ emptied \/ (checkout = "member" /\ missed)

\* The first two events are those of the checkout, and no other event makes a row.
Feed ==
    /\ stripe = "none" <=> sent = <<>>
    /\ sent = <<>> => row = "none"
    /\ sent # <<>> => Len(sent) >= 2
    /\ \A i \in DOMAIN sent :
          /\ i = 1 <=> sent[i].type = "checkout.completed"
          /\ i = 2 <=> sent[i].type = "subscription.created"
          /\ sent[i].change <= Changes
    /\ checkout = "member" => user = "registered"
    /\ row # "none" => user # "none"
    /\ admin = "save" => row # "none"

\* Where each handler may stand, and what the tables hold by then.
Stages ==
    \A i \in Handled :
        /\ i = 1 => work[i].at \in {"user", "insert", "sub", "save", "quota"}
        /\ i = 2 => work[i].at \in {"find", "sub", "save", "quota"}
        /\ i > 2 => work[i].at \in {"byid", "status"}
        /\ i = 1 /\ work[i].at \in {"user", "insert", "quota"} => checkout = "guest"
        /\ work[i].at \in {"sub", "save", "quota"} => user # "none"
        /\ work[i].at = "quota" => failed \/ row # "none"
        /\ work[i].at = "save" /\ work[i].saw => row # "none"
        /\ work[i].at = "status" => row # "none"

Pending(i) == i \in inbox \cup Handled
Paid       == quota = "full" \/ emptied

\* As long as something is missing, an event whose handler will write it is still to come,
\* or being handled.  A guest's checkout that lost the race for the row owes nothing more.
Owed ==
    ~failed /\ sent # <<>> =>
        /\ Pending(1) \/ row # "none"
        /\ checkout = "member" => Pending(2) \/ missed \/ Paid
        /\ checkout = "guest" /\ row # "none" =>
              \/ Paid \/ Pending(2) \/ 1 \in inbox
              \/ 1 \in Handled /\ (work[1].at # "save" \/ work[1].saw)

\* What every step of Stripe, the server and its users preserves; Provisioned follows.
BillingInv == BillingTypeOK /\ Feed /\ Stages /\ Owed

\* The status of the row is Stripe's once every event is answered, provided no change was
\* handled beside or after a newer one, no statement failed and nobody cancelled "now".
StatusAgrees ==
    Quiet /\ ~overtaken /\ ~failed /\ ~cut /\ stripe # "none" => row = stripe

\* The events of one change carry one status, and the last one Stripe's.
Statuses ==
    /\ sent # <<>> => sent[Len(sent)].status = stripe
    /\ \A i \in DOMAIN sent :
          /\ sent[i].change = 1 <=> i <= 2
          /\ i <= 2 => sent[i].status = "active"
          /\ \A k \in DOMAIN sent : sent[k].change = sent[i].change => sent[k].status = sent[i].status

\* The row has the status of the newest change taken up, or an event of it is still to
\* come or being handled; the handlers at work are all of that change.
InStep ==
    ~overtaken =>
        /\ \A i \in Handled : sent[i].change = newest
        /\ ~failed /\ ~cut =>
              \A i \in DOMAIN sent : sent[i].change = newest =>
                  \/ row \in {"none", sent[i].status}
                  \/ \E k \in DOMAIN sent : k > 2 /\ Pending(k) /\ sent[k].change = newest

\* What StatusAgrees follows from, with BillingInv.
Agreement ==
    /\ Statuses
    /\ \A i \in DOMAIN sent : i \in inbox \/ sent[i].change <= newest
    /\ newest = 0 => row = "none"
    /\ InStep

\* A guest who paid gets the account and the quota, and keeps it, whatever the server's
\* restarts, unless a statement fails, for which an event is not delivered again
\* (stripe.go:75), or a registration under way overwrites the quota.
GuestGetsQuota ==
    (checkout = "guest" /\ stripe # "none") ~> (failed \/ emptied \/ (user # "none" /\ quota = "full"))

-------------------------------------------------------------------------------
(* A claim of a comment, which the code does not keep *)

\* subscriptions.go:487: "AdminCancelSubscription cancels a subscription via Stripe", and
\* immediate means "cancel now": Stripe stops charging.
CancelStops == cut => stripe = "canceled"
===============================================================================

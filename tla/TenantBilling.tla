----------------------------- MODULE TenantBilling -----------------------------
(***************************************************************************)
(* What a tenant owes and what it may do: the nightly billing job, the     *)
(* checkout, renewal invoices, the two webhooks through which Chapa        *)
(* reports payments, and the worker that verifies the first payment.       *)
(* One tenant: the nightly job treats tenants one after the other and a    *)
(* failure over one of them ends the run for those that follow.            *)
(* Prices, seats of a plan and tenant.isActive, which nothing reads, are   *)
(* left out.                                                               *)
(***************************************************************************)
EXTENDS Naturals, FiniteSets

CONSTANTS
    Invoice,     \* rows of subscription_invoices (a bound)
    Night,       \* runs of the billing job at one time (a bound)
    Hook,        \* webhook calls the server works on at one time (a bound)
    LastDay,     \* the horizon of calm histories in days (a bound)
    ShortDay,    \* the horizon of the others, no later (a bound)
    MaxJobs,     \* verify-transaction jobs (a bound)
    MaxNotices,  \* webhook calls Chapa sends (a bound)
    MaxMishaps,  \* failures of the server or of Chapa (a bound)
    Period,      \* 30 days
    Grace,       \* 7 days
    Notice       \* 3 days

ASSUME BillingAssumption ==
    /\ Period \in Nat \ {0} /\ Grace \in Nat /\ Notice \in Nat
    /\ LastDay \in Nat /\ ShortDay \in 0 .. LastDay
    /\ MaxJobs \in Nat /\ MaxNotices \in Nat /\ MaxMishaps \in Nat
ASSUME NoticeAssumption == Notice <= Period

(***************************************************************************)
(* In a busy history everything overlaps and some things fail.  In a calm  *)
(* one each run of the job and each webhook call ends before the next      *)
(* begins.                                                                 *)
(***************************************************************************)
Histories == {"busy", "calm"}

(***************************************************************************)
(* Who is told of a first payment: the payments webhook, at a URL that     *)
(* names the tenant, as TenantMiddleware demands; only the webhook of      *)
(* SubscriptionController, which the checkout gives as its callback; or a  *)
(* URL that names nobody, as the one of DEPLOY.md, where every call is     *)
(* refused.                                                                *)
(***************************************************************************)
Routes == {"payments", "subscription", "elsewhere"}

Status == {"ACTIVE", "PAST_DUE", "SUSPENDED"}
Nobody == "absent"                      \* the tenant has not signed up yet
Never  == LastDay + Period * (MaxNotices + 2)  \* subscriptionExpiresAt is NULL

VARIABLES
    day,       \* the date
    history,   \* the kind of history, chosen at the start
    status, expiry, plan,  \* the tenant's row; plan only tells FREE from paid ones
    invoice,   \* subscription_invoices
    notices,   \* renewals Chapa has charged and reported, unanswered so far
    sent,      \* webhook calls sent so far, of both kinds
    payment,   \* payment_transactions: the row of the first payment
    charged,   \* has Chapa charged the first payment?
    report,    \* is a webhook call about the first payment unanswered?
    route,     \* who is told of it
    jobs,      \* verify-transaction jobs waiting
    night,     \* where each run of the billing job is
    slept,     \* has the job run today?
    hook,      \* where each webhook call is
    mishaps,   \* failures left
    byHand     \* has somebody set the status by hand or cancelled (at most once: a bound)?

ledger == <<invoice, notices, sent>>
first  == <<payment, charged, report, jobs>>
row    == <<status, expiry, plan>>
runs   == <<night, slept, hook>>
world  == <<day, history, route, mishaps, byHand>>
billingVars == <<world, row, ledger, first, runs>>

NoInvoice == [state |-> "none", until |-> 0, payable |-> FALSE]
Invoices  == [state : {"none", "draft", "open", "paid"}, until : Nat, payable : BOOLEAN]
Resting   == [at |-> "idle", now |-> 0, saw |-> 0]
NightAt   == {"idle", "expire", "grace", "suspend", "find", "create", "link"}
HookAt    == {"idle", "extend", "receive", "enqueue"}

\* Every variable ranges over the values the code can give it.
BillingTypeOK ==
    /\ day \in 0 .. LastDay
    /\ status \in Status \cup {Nobody}
    /\ expiry \in Nat
    /\ plan \in {"FREE", "paid"}
    /\ invoice \in [Invoice -> Invoices]
    /\ notices \subseteq {i \in Invoice : invoice[i].payable}
    /\ sent \in 0 .. MaxNotices
    /\ payment \in {"none", "INITIATED", "WEBHOOK_RECV", "COMPLETED"}
    /\ route \in Routes \cup {"none"}
    /\ jobs \in 0 .. MaxJobs
    /\ \A n \in Night : night[n].at \in NightAt
    /\ \A h \in Hook : hook[h].at \in HookAt
    /\ mishaps \in 0 .. MaxMishaps

BillingInit ==
    /\ day = 0
    /\ history \in Histories
    /\ status = Nobody /\ expiry = 0 /\ plan = "FREE"
    /\ invoice = [i \in Invoice |-> NoInvoice] /\ notices = {} /\ sent = 0
    /\ payment = "none" /\ charged = FALSE /\ report = FALSE /\ route = "none" /\ jobs = 0
    /\ night = [n \in Night |-> Resting] /\ slept = FALSE
    /\ hook = [h \in Hook |-> Resting]
    /\ mishaps = IF history = "busy" THEN MaxMishaps ELSE 0
    /\ byHand = FALSE

calm == history = "calm"

Horizon == IF calm THEN LastDay ELSE ShortDay

NightsRest == \A n \in Night : night[n] = Resting
HooksRest  == \A h \in Hook : hook[h] = Resting

\* In a calm history one thing is finished before the next begins.
MayBegin == calm => NightsRest /\ HooksRest

Mishap == mishaps > 0 /\ mishaps' = mishaps - 1

-----------------------------------------------------------------------------
(***************************************************************************)
(* Signing up: InternalService.provisionTenant or the checkout.            *)
(***************************************************************************)

\* The operator provisions a tenant: active, with no end of its subscription.
Provision ==
    /\ status = Nobody
    /\ status' = "ACTIVE" /\ expiry' = Never
    /\ plan' \in {"FREE", "paid"}
    /\ UNCHANGED <<world, ledger, first, runs>>

\* The checkout creates the tenant past due, with a provisional month.  If Chapa
\* refuses the payment session the tenant stays, without a transaction.
Checkout ==
    /\ status = Nobody
    /\ status' = "PAST_DUE" /\ expiry' = day + Period /\ plan' = "paid"
    /\ \/ payment' = "INITIATED" /\ route' \in Routes /\ UNCHANGED mishaps
       \/ UNCHANGED <<payment, route>> /\ Mishap
    /\ UNCHANGED <<day, history, byHand, ledger, charged, report, jobs, runs>>

\* SubscriptionController.upgradePlan: the plan changes before anything is paid,
\* and the webhook has no branch for the reference of the payment.
Upgrade ==
    /\ status # Nobody
    /\ plan = "FREE" /\ plan' = "paid"
    /\ UNCHANGED <<world, status, expiry, ledger, first, runs>>

\* SubscriptionController.cancelSubscription.
Cancel ==
    /\ status # Nobody /\ ~byHand
    /\ status' = "SUSPENDED" /\ byHand' = TRUE
    /\ UNCHANGED <<day, history, route, mishaps, expiry, plan, ledger, first, runs>>

\* InternalService.updateTenantBilling: the operator sets any status.
SetByHand ==
    /\ status # Nobody /\ ~byHand
    /\ status' \in Status /\ byHand' = TRUE
    /\ UNCHANGED <<day, history, route, mishaps, expiry, plan, ledger, first, runs>>

-----------------------------------------------------------------------------
(***************************************************************************)
(* SubscriptionService.monitorBillingExpirations.  The run reads the date  *)
(* once; expiry stands for some time of its day and the run for midnight.  *)
(***************************************************************************)

NightGoes(n, next) == night' = [night EXCEPT ![n].at = next]

\* Cron starts the job at midnight; other servers may start it as well.
Midnight(n) ==
    /\ night[n] = Resting
    /\ ~slept \/ ~calm
    /\ MayBegin
    /\ slept' = TRUE
    /\ night' = [night EXCEPT ![n] = [at |-> "expire", now |-> day, saw |-> 0]]
    /\ UNCHANGED <<world, row, ledger, first, hook>>

\* simulate-expiry: the subscription ended yesterday, and the job runs (not twice in
\* a row: a bound).
SimulateExpiry(n) ==
    /\ night[n] = Resting
    /\ status # Nobody /\ day > 0
    /\ status # "PAST_DUE" \/ expiry # day - 1
    /\ MayBegin
    /\ status' = "PAST_DUE" /\ expiry' = day - 1
    /\ night' = [night EXCEPT ![n] = [at |-> "expire", now |-> day, saw |-> 0]]
    /\ UNCHANGED <<world, plan, ledger, first, slept, hook>>

\* 1. The tenants that are active and expired are read ...
FindExpired(n) ==
    /\ night[n].at = "expire"
    /\ NightGoes(n, IF status = "ACTIVE" /\ expiry < night[n].now THEN "grace" ELSE "suspend")
    /\ UNCHANGED <<world, row, ledger, first, slept, hook>>

\* ... and each of them is set past due.
SetPastDue(n) ==
    /\ night[n].at = "grace"
    /\ status' = "PAST_DUE"
    /\ NightGoes(n, "suspend")
    /\ UNCHANGED <<world, expiry, plan, ledger, first, slept, hook>>

\* Mutant: tenants that are late are suspended at once.
FindLateNoGrace(n) ==
    /\ night[n].at = "suspend" /\ night[n].saw = 0
    /\ IF status = "PAST_DUE" /\ expiry < night[n].now
       THEN night' = [night EXCEPT ![n].saw = 1]
       ELSE NightGoes(n, "find")
    /\ UNCHANGED <<world, row, ledger, first, slept, hook>>

\* 2. The tenants past due for longer than the grace period are read ...
FindLate(n) ==
    /\ night[n].at = "suspend" /\ night[n].saw = 0
    /\ IF status = "PAST_DUE" /\ expiry + Grace < night[n].now
       THEN night' = [night EXCEPT ![n].saw = 1]
       ELSE NightGoes(n, "find")
    /\ UNCHANGED <<world, row, ledger, first, slept, hook>>

\* ... and each of them is suspended.
Suspend(n) ==
    /\ night[n].at = "suspend" /\ night[n].saw = 1
    /\ status' = "SUSPENDED"
    /\ night' = [night EXCEPT ![n].at = "find", ![n].saw = 0]
    /\ UNCHANGED <<world, expiry, plan, ledger, first, slept, hook>>

\* 3. The tenants about to expire are read; free ones are skipped.
FindExpiring(n) ==
    /\ night[n].at = "find"
    /\ IF status = "ACTIVE" /\ expiry \in night[n].now .. night[n].now + Notice - 1
          /\ plan # "FREE"
       THEN night' = [night EXCEPT ![n].at = "create", ![n].saw = expiry]
       ELSE night' = [night EXCEPT ![n] = Resting]
    /\ UNCHANGED <<world, row, ledger, first, slept, hook>>

Covered(until) ==
    \E i \in Invoice : invoice[i].state \in {"draft", "open"} /\ invoice[i].until > until

\* Mutant: the invoice is created without a look at the unpaid ones.
CreateInvoiceAnyway(n) ==
    /\ night[n].at = "create"
    /\ \E i \in Invoice :
          /\ invoice[i] = NoInvoice
          /\ invoice' = [invoice EXCEPT ![i] =
                 [state |-> "draft", until |-> night[n].saw + Period, payable |-> FALSE]]
          /\ night' = [night EXCEPT ![n].at = "link", ![n].saw = i]
    /\ UNCHANGED <<world, row, notices, sent, first, slept, hook>>

\* No unpaid invoice reaches beyond the expiry read before: one is created.
CreateInvoice(n) ==
    /\ night[n].at = "create"
    /\ IF Covered(night[n].saw)
       THEN night' = [night EXCEPT ![n] = Resting] /\ UNCHANGED invoice
       ELSE \E i \in Invoice :
               /\ invoice[i] = NoInvoice
               /\ invoice' = [invoice EXCEPT ![i] =
                      [state |-> "draft", until |-> night[n].saw + Period, payable |-> FALSE]]
               /\ night' = [night EXCEPT ![n].at = "link", ![n].saw = i]
    /\ UNCHANGED <<world, row, notices, sent, first, slept, hook>>

\* Chapa opens a payment session, or refuses and the link leads nowhere; either
\* way the link is stored with the invoice.
StoreLink(n) ==
    /\ night[n].at = "link"
    /\ \/ invoice' = [invoice EXCEPT ![night[n].saw].state = "open",
                                     ![night[n].saw].payable = TRUE] /\ UNCHANGED mishaps
       \/ invoice' = [invoice EXCEPT ![night[n].saw].state = "open"] /\ Mishap
    /\ night' = [night EXCEPT ![n] = Resting]
    /\ UNCHANGED <<day, history, route, byHand, row, notices, sent, first, slept, hook>>

\* The process stops, or the run throws over this or an earlier tenant.
NightDies(n) ==
    /\ night[n] # Resting
    /\ Mishap
    /\ night' = [night EXCEPT ![n] = Resting]
    /\ UNCHANGED <<day, history, route, byHand, row, ledger, first, slept, hook>>

-----------------------------------------------------------------------------
(***************************************************************************)
(* Chapa.  A renewal is paid through the link of its invoice, the first    *)
(* payment through the session of the checkout.  A payment is reported     *)
(* until the report is answered; it may be reported again after that.      *)
(***************************************************************************)

PayRenewal(i) ==
    /\ invoice[i].state = "open" /\ invoice[i].payable
    /\ i \notin notices
    /\ sent < MaxNotices
    /\ sent' = sent + 1
    /\ notices' = notices \cup {i}
    /\ UNCHANGED <<world, row, invoice, first, runs>>

RepeatRenewal(i) ==
    /\ ~calm
    /\ invoice[i].state = "paid" /\ i \notin notices
    /\ sent < MaxNotices
    /\ sent' = sent + 1
    /\ notices' = notices \cup {i}
    /\ UNCHANGED <<world, row, invoice, first, runs>>

\* The first payment succeeds, or fails and may be tried again; both are reported.
PayFirst ==
    /\ payment # "none"
    /\ ~report /\ sent < MaxNotices
    /\ calm => ~charged
    /\ charged' \in {charged, TRUE}
    /\ sent' = sent + 1
    /\ report' = TRUE
    /\ UNCHANGED <<world, row, invoice, notices, payment, jobs, runs>>

-----------------------------------------------------------------------------
(***************************************************************************)
(* SubscriptionController.verifyPayment.                                   *)
(***************************************************************************)

HookGoes(h, next) == hook' = [hook EXCEPT ![h].at = next]

Later(a, b) == IF a > b THEN a ELSE b

\* The time a renewal counts from: the expiry if it lies ahead, or the present.
Base(until) == IF until = Never THEN day ELSE Later(until, day)

\* The report of a first payment matches none of its branches.  It is answered, with 200 or,
\* if the payment failed, 400; Chapa leaves it at that, and nothing has changed.
ReportIgnored(h) ==
    /\ hook[h] = Resting
    /\ MayBegin
    /\ report /\ route = "subscription"
    /\ report' = FALSE
    /\ UNCHANGED <<world, row, ledger, payment, charged, jobs, runs>>

\* A renewal.  The invoice is marked as paid, and the tenant is read along with it.
MarkPaid(h, i) ==
    /\ hook[h] = Resting
    /\ MayBegin
    /\ i \in notices
    /\ invoice' = [invoice EXCEPT ![i].state = "paid"]
    /\ hook' = [hook EXCEPT ![h] = [at |-> "extend", now |-> Base(expiry), saw |-> i]]
    /\ UNCHANGED <<world, row, notices, sent, first, night, slept>>

\* Mutant: a renewal is worth two periods.
ExtendTwoPeriods(h) ==
    /\ hook[h].at = "extend"
    /\ status' = "ACTIVE" /\ expiry' = hook[h].now + 2 * Period
    /\ hook' = [hook EXCEPT ![h] = Resting]
    /\ notices' = notices \ {hook[h].saw}
    /\ UNCHANGED <<world, plan, invoice, sent, first, night, slept>>

\* Mutant: only tenants past due are taken back.
ExtendPastDue(h) ==
    /\ hook[h].at = "extend"
    /\ IF status = "SUSPENDED" THEN UNCHANGED <<status, expiry>>
       ELSE status' = "ACTIVE" /\ expiry' = hook[h].now + Period
    /\ hook' = [hook EXCEPT ![h] = Resting]
    /\ notices' = notices \ {hook[h].saw}
    /\ UNCHANGED <<world, plan, invoice, sent, first, night, slept>>

\* The tenant becomes active for another month, and Chapa gets its answer.
Extend(h) ==
    /\ hook[h].at = "extend"
    /\ status' = "ACTIVE" /\ expiry' = hook[h].now + Period
    /\ hook' = [hook EXCEPT ![h] = Resting]
    /\ notices' = notices \ {hook[h].saw}
    /\ UNCHANGED <<world, plan, invoice, sent, first, night, slept>>

\* An error is answered 500, a dead process nothing: Chapa reports again.
ExtendFails(h) ==
    /\ hook[h].at = "extend"
    /\ Mishap
    /\ hook' = [hook EXCEPT ![h] = Resting]
    /\ UNCHANGED <<day, history, route, byHand, row, ledger, first, night, slept>>

-----------------------------------------------------------------------------
(***************************************************************************)
(* PaymentsService.handleWebhook and PaymentVerificationProcessor.  The    *)
(* call is let through only if it names the tenant; any error is answered  *)
(* 200, after which Chapa does not report again.                           *)
(***************************************************************************)

\* A completed payment is left alone; otherwise the row is looked up and taken on.
Claim(h) ==
    /\ hook[h] = Resting
    /\ MayBegin
    /\ report /\ route = "payments"
    /\ IF payment = "COMPLETED"
       THEN report' = FALSE /\ UNCHANGED hook
       ELSE HookGoes(h, "receive") /\ UNCHANGED report
    /\ UNCHANGED <<world, row, ledger, payment, charged, jobs, night, slept>>

\* The row becomes WEBHOOK_RECV, whatever it is by then.
Receive(h) ==
    /\ hook[h].at = "receive"
    /\ payment' = "WEBHOOK_RECV"
    /\ HookGoes(h, "enqueue")
    /\ UNCHANGED <<world, row, ledger, charged, report, jobs, night, slept>>

\* Mutant: no verification is queued.
EnqueueNothing(h) ==
    /\ hook[h].at = "enqueue"
    /\ jobs < MaxJobs
    /\ UNCHANGED jobs
    /\ report' = FALSE
    /\ hook' = [hook EXCEPT ![h] = Resting]
    /\ UNCHANGED <<world, row, ledger, payment, charged, night, slept>>

\* Mutant: two verifications are queued.
EnqueueTwice(h) ==
    /\ hook[h].at = "enqueue"
    /\ jobs' = jobs + 2
    /\ report' = FALSE
    /\ hook' = [hook EXCEPT ![h] = Resting]
    /\ UNCHANGED <<world, row, ledger, payment, charged, night, slept>>

\* A verification is queued, and Chapa gets its answer.
Enqueue(h) ==
    /\ hook[h].at = "enqueue"
    /\ jobs < MaxJobs
    /\ jobs' = jobs + 1
    /\ report' = FALSE
    /\ hook' = [hook EXCEPT ![h] = Resting]
    /\ UNCHANGED <<world, row, ledger, payment, charged, night, slept>>

\* An error is answered 200 and the report is lost; a dead process gets it again.
ClaimFails(h) ==
    /\ hook[h].at \in {"receive", "enqueue"}
    /\ Mishap
    /\ report' \in {FALSE, TRUE}
    /\ hook' = [hook EXCEPT ![h] = Resting]
    /\ UNCHANGED <<day, history, route, byHand, row, ledger, payment, charged, jobs, night, slept>>

\* Chapa confirms the charge: in one transaction the payment is completed and the
\* tenant active for a month from now, whatever it had before.
Verify ==
    /\ jobs > 0 /\ charged
    /\ MayBegin
    /\ jobs' = jobs - 1
    /\ payment' = "COMPLETED"
    /\ status' = "ACTIVE" /\ expiry' = day + Period
    /\ UNCHANGED <<world, plan, ledger, charged, report, runs>>

\* All attempts have failed: Chapa does not confirm, or is not reached.
VerifyFails ==
    /\ jobs > 0
    /\ \/ ~charged /\ UNCHANGED mishaps
       \/ Mishap
    /\ jobs' = jobs - 1
    /\ UNCHANGED <<day, history, route, byHand, row, ledger, payment, charged, report, runs>>

-----------------------------------------------------------------------------
\* The day ends: a run of the job takes less than that.  In a calm history the job has run
\* today.
Tick ==
    /\ day < Horizon
    /\ NightsRest
    /\ calm => slept /\ HooksRest
    /\ day' = day + 1 /\ slept' = FALSE
    /\ UNCHANGED <<history, route, mishaps, byHand, row, ledger, first, night, hook>>

-----------------------------------------------------------------------------
SigningUp == Provision \/ Checkout \/ Upgrade \/ Cancel \/ SetByHand

NightStep(n) ==
    \/ FindExpired(n) \/ SetPastDue(n) \/ FindLate(n) \/ Suspend(n)
    \/ FindExpiring(n) \/ CreateInvoice(n) \/ StoreLink(n) \/ NightDies(n)

Chapa == (\E i \in Invoice : PayRenewal(i) \/ RepeatRenewal(i)) \/ PayFirst

HookStep(h) ==
    \/ \E i \in Invoice : MarkPaid(h, i)
    \/ ReportIgnored(h) \/ Extend(h) \/ ExtendFails(h)
    \/ Claim(h) \/ Receive(h) \/ Enqueue(h) \/ ClaimFails(h)

Worker == Verify \/ VerifyFails

BillingNext ==
    \/ SigningUp
    \/ \E n \in Night : Midnight(n) \/ SimulateExpiry(n) \/ NightStep(n)
    \/ Chapa
    \/ \E h \in Hook : HookStep(h)
    \/ Worker
    \/ Tick

\* Chapa's reports are served, jobs and webhook calls go on; nobody has to pay.
BillingFairness ==
    /\ \A h \in Hook : WF_billingVars(HookStep(h))
    /\ \A n \in Night : WF_billingVars(NightStep(n))
    /\ WF_billingVars(Worker)

BillingSpec == BillingInit /\ [][BillingNext]_billingVars /\ BillingFairness

-----------------------------------------------------------------------------
(***************************************************************************)
(* Properties.                                                             *)
(***************************************************************************)

\* Where nothing overlaps and nothing fails, the status is what the expiry says
\* once the night's run is over: a tenant whose time has run out is past due, one
\* later than the grace period suspended, and nobody who has time left is locked out,
\* except before the first payment.  No single update of the five places that write
\* the status sees to that.
StatusFollowsExpiry ==
    calm /\ ~byHand /\ slept /\ NightsRest /\ HooksRest /\ status # Nobody =>
        /\ status = "ACTIVE" => expiry >= day
        /\ status = "PAST_DUE" => expiry + Grace >= day
        /\ status = "SUSPENDED" => expiry + Grace < day

\* Whatever overlaps, fails or is repeated, a tenant never has more time than Chapa
\* has reported payments for, on top of the month a checkout starts with.
NoFreeTime ==
    expiry # Never => expiry <= day + Period * (sent + 1)

\* Where nothing overlaps, a period is not billed twice: unpaid invoices have
\* different ends, and none ends with a period that was paid.
BilledOncePerPeriod ==
    calm => \A i, j \in Invoice :
        invoice[i].state # "none" /\ invoice[i].until = invoice[j].until => i = j

\* A renewal that Chapa charged makes the tenant active with time left, though the
\* server may fail between marking the invoice and extending the subscription.
RenewalReactivates ==
    \A i \in Invoice : i \in notices ~> (status = "ACTIVE" /\ expiry >= day)

\* In calm histories a first payment that Chapa charged activates the tenant, by way
\* of the payments webhook and the worker, provided that Chapa reports it to the payments
\* webhook at a URL that names the tenant.  The checkout's own callback and the URL of
\* DEPLOY.md do not do that: a tenant that has paid stays past due then.
FirstPaymentActivates ==
    (calm /\ charged /\ route = "payments" /\ payment # "COMPLETED")
        ~> (payment = "COMPLETED" /\ status = "ACTIVE")

=============================================================================

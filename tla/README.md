# Demoz: TLA+ models, model checking and proofs

Demoz is a multi-tenant HR and payroll product for Ethiopia: a NestJS backend
(`src/tenant-backend`), a Next.js front end (`src/tenant-frontend`) and an Expo app
(`src/employee-mobile`). This directory holds the TLA+ modules that model it, from the
payroll core and billing to the clients' forms, the TLC configurations that check them on
small instances, and the proofs that TLAPS checks for every instance. `PROJECT.json` maps
every definition to the lines it translates and lists the runs, the mutated definitions each
property catches, the findings, the hazards and the theorems.

To check: `tlc -workers 2 -config disburse_safety.cfg MCPayrollDisburse` (each run's module
and configuration are in section 4), and `tlapm` on each of the eight
modules whose names end in `Proofs`. Paths below leave out
`src/tenant-backend/src/` where the file name is clear.

## 1. Inventory

| Component | State | Operations | What is hard | What makes it correct |
|---|---|---|---|---|
| Payroll payout by queue (`payroll/`, `webhooks/`) - modelled | `payroll_runs.status`; per line `payoutStatus`, `chapaReference`, `disbursed`, bank columns; one BullMQ job per run | generate, lock, disburse; the `payroll-disburse` worker; Chapa webhook with roll-up | read-then-write status changes, retries, stalled jobs, webhook calls that are early, late, repeated or interim, three-call roll-up | nothing paid without approval or twice; books agree with Chapa; a closed run is settled; a queued one closes |
| Payroll calculation (`payroll.controller`, `payroll.processor`, `ai-audit.service`) - partly: the audit's verdicts and paging are abstracted | run status, lines, the audit report | `POST /payroll/run`; the `payroll-queue` worker; clean-up on failure | a stalled but live worker beside its successor, failures of the clean-up, refused adds | one line per employee that the audit did not flag; no line without the audit; every queued run ends |
| Payroll payout by finance approval (`finance/`) - modelled | the same rows; the in-memory engine | approve (serializable transaction), engine in chunks, finance webhook (transaction) | shares the run with the other payout; nothing awaits or resumes the engine; lost answers; overlapping transactions | no salary under two references; each line submitted once; a paid run is a paid run |
| Chapa gateway - external, partly, from its use | transfers by reference | bulk transfer, settlement, webhook calls | lost answers, duplicates, interim reports | (an assumption: a known reference is not started again) |
| Tenant isolation (`prisma.service`, `tenant.middleware`, async local storage) - partly | tenant of the request; rows' tenants; which fields are stored encrypted | tenant added to every query on a listed model; a look for the row before update or delete by key | models listed without the column; the row changing between look and write; upserts that are left alone; callers that carry no tenant | queries of one tenant reach only its rows, and the ones the code needs do reach them |
| Subscription and billing (`subscription/`, lifecycle guard) - modelled | tenant status, expiry, plan, invoices; status cache of 60 s | sign-up, nightly job, checkout, upgrade, cancel, simulate-expiry, renewal webhook; the guard before each request | nightly job against renewals, webhook repeated, check-then-create of invoices; a status stored after a late read | a tenant that paid is active, one that did not is not; one month per payment; nobody is let in or kept out for long by an old status |
| Payment transactions (`payments/`) - modelled | transaction status | webhook, verification worker with retries | a late upsert over a completed transaction; three URLs that a report may go to, of which one activates | a charged first payment activates the tenant, if its report arrives |
| Leave (`leave/`, the dashboard's form, the phone's screen, `leave-liability`) - modelled | balances, requests, types; what a form shows | request, approve, reject; preview, balance, list; seeding of types; report | check-then-act on overlap and status; balance read-modify-write; answers of an older choice | days taken equal days granted; no overlap; what is requested was counted |
| Attendance (`attendance/`) - partly | logs, daily rows | check-in, check-out, offline sync, USSD webhook, batch logs | duplicate check and create are two calls; the day of an event and today | one log per event; the record follows the log |
| Mobile offline queue (`employee-mobile`) - partly | SQLite events with pending/synced/failed | record, foreground sync, background task | two syncs over one queue; a failure is final | an event taken for delivered is on the server |
| Idempotency interceptor - modelled | Redis lock (10 s) and answer (24 h) per key; advisory lock and memory | lock, run, store, delete on error | slower handlers than the lock; a delete of somebody else's lock; a re-entrant advisory lock | at most one effect per key |
| Dashboard and permission caches - partly | Redis entries of 5 min | read-through, invalidate | a slow read stores old data after the invalidation | every path that changes the data drops the copy |
| Authentication and sessions - partly | tokens, their epoch in Redis, PINs, the phone's storage | login, rotate, logout, reset; employee login by PIN; the phone's storage key by key | concurrent refreshes; resets during a sign-in; an app stopped between two keys | sessions end for good; one way to renew; the issued PIN opens; the app shows whose token it sends |
| USSD - modelled | session and recent copy in Redis, cached employee | menu steps | replayed steps, sessions taken up again, 5 min guard | one log per chosen action |
| Tax, overtime, calendar - partly | none (pure) | brackets, pension, exemptions, overtime by kind and cap | boundaries, rounding | more pay is never less net; parts add up; the schedules agree |
| Employees and seats - partly | employees, branches, departments | create, update, bulk, import, delete | count-then-create at the seat limit; deletes under hires | where seats are counted they are exceeded by overlap only (updates and imports count none, an upload one for all its rows); everybody has a department that exists |
| Roles - modelled | custom roles, assignments, cached permissions | create, change, delete, assign, resolve | whom to drop from the cache | permissions are what the role grants |
| Invitations, settings, the operator's portal - partly | invitations, users, settings rows | provision, invite, accept; load and save a section | addresses looked up before a row is written; optimistic saves | one user per address; the client shows what is stored |
| Reports, payslips, notifications - partly | none | monthly sheets, payslips, exports | month boundaries, rounding | declared once; shares add up |
| Web front end, mobile screens - partly | UI state | lists, forms, polls | late answers, polls under way during a change, optimistic changes taken back | a page at rest shows the server's rows, once the last load was not overtaken |
| Retention - not modelled | - | one scheduled delete | - | - |

How the modelled ones interact. All of them work on one row of `payroll_runs` and its
lines. `POST /payroll/run` queues a calculation, which ends in COMPLETED; finance takes a
COMPLETED run to OWNER_APPROVED and starts its engine. `POST runs/generate` makes a DRAFT,
which `lock` takes to OWNER_APPROVED and `disburse` to PROCESSING_PAYOUT, with a job for the
worker. `disburse` looks only at OWNER_APPROVED, so a run that finance approved is open to
it, too: the two meet in the status column, in the lines and at Chapa. Chapa calls back on
`/api/v1/webhooks/chapa` (references `DEMOZ-...`) and on finance's own webhook
(`demoz_tx_...`).

Around the payroll. A payment webhook and the nightly job write the tenant's status, which
the lifecycle guard caches for a minute and asks on every request; whoever is refused there
does nothing anywhere else. Every query of a request or a job passes the database client,
which takes the tenant from the request's context. Employees come and go by six paths that
drop the dashboard's figure, of which two look for a free seat, and roles change by four that
drop permissions. A clock
event reaches the log by the app, by its queue, by the web or by USSD. The web client shows
what it has loaded, and often what it has only sent; the phone keeps its session in storage
that is written one key at a time. The modules about staff and clients meet only in tables
that each of them models as it uses them, and in the way the server handles requests
(`RequestHandling`).

## 2. Plan

Done: the payroll core with its contract and both payouts together; billing and payments
over the tenant row; staff, leave, attendance with the offline queue, USSD, roles, sessions,
PINs, members, the idempotency interceptor, pay and its documents; the client's forms, lists,
payroll page and leave screens; the database client. All of them have their runs, and every
invariant of a passing run is proved.

What would come next:

1. An abstract ledger of leave that calm histories implement, and an abstract set of
   delivered events for the offline queue, in the way `PayoutContract` stands above the payout.
2. Employees who change during a calculation (the cursor of `payroll.processor.ts:94` may then
   skip one), breaks and geofences in attendance.
3. Sheets of more than two lines, with a prover that can use induction over data.

## 3. Modules

    PayrollSchema          status columns, tenant layer
      PayrollTables        one run and its lines, environment       ChapaGateway (external)
        PayrollDisburse    payout by queue       -- implements -->  PayoutContract
        FinancePayout      payout by approval
          PayrollSystem    PayrollDisburse and FinancePayout over the same rows
            PayrollSystemProofs     of the queue by itself and of both
      PayrollCalculation   the calculation job
        PayrollCalculationProofs
    TenantBilling          billing and payments over one tenant's row
      TenantBillingProofs
    RequestHandling        requests that overlap, or do not
      StaffDirectory       employees, branches, departments, seats, head count
      WorkspaceMembers     users and invitations
      RolePermissions      custom roles and the cache of permissions
      FieldAttendance      app, queue, web and webhook, log and daily record
      UssdSessions         clocking in and self-service by USSD
      LeaveRequests        leave at the server
        LeaveForms         leave at the clients, types, liability report
      IdempotentRequests, AuthSessions, PhoneSessions, EmployeePins
      TenantIsolation      the database client
      LifecycleGuard       the guard before every handler
      SettingsForms, NotificationForms, ClientLists, PayrollScreen
    PayArithmetic          tax, pension, net pay
      PayStatements        sheets, payslips, overtime
    StaffProofs            StaffDirectory, WorkspaceMembers, RolePermissions, PayStatements
    AttendanceProofs       FieldAttendance, UssdSessions, LeaveRequests, LeaveForms
    AccessProofs           TenantIsolation, IdempotentRequests, AuthSessions, PhoneSessions,
                           EmployeePins, LifecycleGuard
    PageProofs             SettingsForms, ClientLists, PayrollScreen, NotificationForms
      WorkplaceProofs      the eighteen of them together: MCWorkplace
    MCPayrollDisburse, MCPayrollSystem, MCPayrollCalculation, MCTenantBilling, MCWorkplace:
    instances for TLC

Common conventions. Node runs one continuation at a time, so each action is what one
request, worker or webhook call does between two `await`s; a local variable that lives over
an `await` is a program counter or a set in the state. A request that an early return or an
exception ends before its first write changes nothing and has no action. Definitions marked
"Mutant" are faulty forms of the definition that follows them; nothing uses them, and they
serve to show that each property notices such a fault.

**PayrollTables** has one run, of one period of one tenant. Runs share no rows
(`payroll_runs` is unique on tenant and period, a line has one run), so more runs add
nothing. Amounts are left out: no decision about the status of a run or a line reads them.
`banked` are the lines with both `bankAccount` and `bankCode`.

**PayrollDisburse.** `request` is where each HTTP call is between its awaits: `LockRead` and
`LockWrite`, `DisburseRead`, `DisburseMark` and `DisburseEnqueue`. `job`, `attempts` and
`stalls` are BullMQ's: the job id is made of the run id and jobs are never removed, so a
second add does nothing. The worker (`AttemptStart`, `PrepareUnpayable`, `Prepare`,
`NoRecipients`, `Submit`, `Finish`) is `PayrollDisburseProcessor.process`; `FailAttempt` and
`JobStalled` are what the queue does when it throws or dies. `Deliver`, `CountPending`,
`CountFailed` and `RollUp` are the webhook; the line's lookup and update are one step
because a line that has its reference keeps it.

**PayoutContract** is what the payout promises with none of this: a salary is ordered once,
after approval, only for those the approved run can pay, and ends once. The refinement
takes `payable` to `banked`, approval to a status beyond DRAFT and the salary's phase to the
gateway's state of the reference.

**PayrollCalculation.** `Trigger` and `TriggerEnqueue` are the endpoint; `Start` to `Return`
are `PayrollProcessor.process`, with the audit's `create` of the report, which is unique per
run, as the only thing that can tell two workers apart. `Stalled` gives the job to another
worker even if the first is alive. Which employees the audit flags is arbitrary. Paging is
abstracted to "in some order", employees do not change meanwhile.

**FinancePayout** and **PayrollSystem.** `Approve` is the serializable transaction of the
approval, one step. `Load`, `Mark`, `NextChunk`, `Post`, `Book`, `BookFailure` and `Conclude`
are `executeChapaDisbursement`; an engine that throws or dies is not resumed (`EngineDies`).
`CallbackBegin` and `CallbackCommit` are the webhook's transaction at read committed: it
holds the lock of its line, counts the others as committed, and writes the verdict it
formed. The composition lets either side act on the same tables; the calculation is one
action there (`Calculated`), since its inner steps happen before any payout can see the run.

**Constants that describe the deployment.** `LineItemTenantColumn`: whether the line item
table has the tenant column that `PrismaService` adds to every direct operation on it; in
`schema.prisma` it does not. `CallbackCarriesTenant`: whether the URL given to Chapa names a
tenant; the one in `DEPLOY.md` does not. With both FALSE, as built, calculation and payout
stop at their first operation on lines, or at the first webhook call. The two runs that
show this are `calc_e2e` and `disburse_callback`. Everything else is checked with both TRUE
(the proofs hold for either), because that is where the protocol itself has to be right.

**Environment.** A set of names of what may go wrong: overlapping requests, crashes at any
await, refused adds, throwing database and gateway calls, lost answers, interim, repeated
and lost reports, live workers losing their jobs. A crash is modelled per actor, which
includes the crash of a whole process.

**TenantBilling.** One tenant over a few days. The day advances; `night` is where each run of
`monitorBillingExpirations` is (looking for the late, the overdue and those to be billed, each
a read and later a write); `hook` where each webhook call is (the renewal's: mark the invoice,
then extend; the first payment's: read, upsert, queue); `jobs` are the verification jobs,
which retry. `route` is where Chapa reports the first payment: the checkout names
`/subscription/webhook`, which answers and does nothing (`ReportIgnored`); the payments webhook
(`Claim`) is behind the middleware that wants a tenant; the URL of `DEPLOY.md` is refused.
A history is *busy* (everything overlaps and some things fail) or *calm* (each run and call
ends before the next begins).

**RequestHandling.** What the modules about staff and clients share: a request is taken by a
handler, waits between its steps, and may be broken off. In a *calm* history a request is
answered before the next begins; in a busy one they overlap. Each property says which of the
two it is about: what holds only in calm histories is a limit of the code (section 6).

**StaffDirectory**: `Create` looks for a free seat, creates the department it needs and inserts,
in steps; an upload looks for one free seat and inserts all its rows; `Update` and the import
count none. `unchecked` are the people who are active without a count of their own, and
`SeatsBounded` is about the others. The deletion of a branch looks for employees first;
`Uncache` follows where the code calls it. **LeaveRequests**: a draft row is a request under
validation; approval reads the balance in one step and writes it in another.
**FieldAttendance**: an event is held by the app, by the queue as pending, or given up; the
server looks for a duplicate, writes the log, then the record. **UssdSessions**: session, recent
copy and guard with their times to live. **RolePermissions**: a request resolves permissions
through the cache; changes drop those of everybody concerned. **AuthSessions**: pairs of tokens
with the second of their issue and the sign-in they descend from; epoch marks in Redis that
expire. **EmployeePins**: `ussdPin`, its hash, and what each path compares. **PhoneSessions**:
the four keys of the phone's storage, written one by one, and what the app has in memory; the
interceptor's queue behind one refresh. **WorkspaceMembers**: provisioning, invitation,
acceptance, sign-in and what a browser names as its workspace. **IdempotentRequests**: the lock,
the answer, and the fallback without Redis. **PayArithmetic** and **PayStatements** compute in
whole hundredths of a santim, rounded where the code rounds; runs begin and end at the moments
the code tells apart. **SettingsForms**: rows on the server, the provider's copy, the open form,
a save that shows first and sends later. **NotificationForms**: two forms behind tabs with one
mark for unsaved changes. **ClientLists**: three ways in which pages follow the server: by the
answer, by loading again, by changing first. Polls (`Poll`) and changes (`Send`) begin at any
time in busy histories, whatever is under way. `late` marks what was read of the table before a
change of it, and the answer to a change of a row that has changed again since; `behind` says
that such a thing has been listed or patched, that an answer was lost, that an added row was
listed already, that a load after a change has failed, or that somebody else has changed the
table: until the next load that is not late, the list may be wrong. **PayrollScreen**:
submission, the poll every 1.5 s, approval. **LeaveForms**: the form's choice, preview, balance
and request; the phone's list; the seeding; the two counts of years.

**TenantIsolation.** Each operation of the Prisma extension as an action: the tenant is added to
conditions and data, `findUnique` becomes `findFirst`, update and delete by key look first
(`Preflight`) and write later (`WriteOne`) whatever happened in between; `upsert` is left as it
is, its callers name their tenant. Tables differ in four traits: have they the column, are
fields encrypted when written, decrypted when read, and are rows upserted.

**LifecycleGuard.** Time goes by in instants, of which an entry lives `EntryLife`. A request
finds an entry that is still valid (`Remembered`) or asks for the row, which is read and comes
back in steps of their own (`LookUp`, `RowRead`, `Remember`): the status may change and time
pass in between (`Restate`, `Later`), and an answer that comes late is stored over a later
one's. `lastHad` is when the tenant last had each status, `longest` the longest read so far. It
is a module of its own because the entry's minute has nothing to do with the days of billing:
an entry of the last minute before midnight decides after it.

**MCWorkplace** chooses one of eighteen modules at the start, its *focus*, and lets it work
alone: their tables do not meet, so that an interleaving of two would add nothing but
states.

## 4. Runs

| Run | Module / expected | Question | Bounds |
|---|---|---|---|
| `disburse_safety` | MCPayrollDisburse / holds | With every hazard on: are the books backed by the gateway, is a closed run settled, is nothing touched before approval, are submissions bounded, is the contract kept? | 2 employees, 3 requests, 2 handlers, batch 1, 2 attempts, 1 stall (770 thousand states) |
| `disburse_live` | MCPayrollDisburse / holds | Without failed attempts: does a queued payout close, with the right verdict, and does what is booked stay booked? | 2 employees, 4 requests, 2 handlers, batch 1, 1 attempt (42 thousand) |
| `disburse_lock` | MCPayrollDisburse / violated | Is OWNER_APPROVED only reached from DRAFT? | 4 requests, overlap only |
| `disburse_callback` | MCPayrollDisburse / violated | Does a payout close with the documented webhook URL? | as `disburse_live`, nothing else wrong |
| `calc_faults` | MCPayrollCalculation / holds | With every hazard on: one line each, audited, exact when completed, and does it end? | 3 employees, 2 calls, 2 workers, 2 stalls (150 thousand) |
| `calc_e2e` | MCPayrollCalculation / violated | Does the run of the end-to-end test complete on the schema as it is? | 2 employees, 2 workers, nothing else wrong |
| `system` | MCPayrollSystem / holds | Both payouts on one run: nobody under two references, one submission per line, no success unknown to Chapa | 2 employees, 3 requests, 1 handler, 2 approvals, 1 callback, overlap, crash, error, timeout (300 thousand) |
| `system_paid` | MCPayrollSystem / violated | Are the lines of a PAID run SUCCESS? | as `system`, nothing goes wrong |
| `finance_chunk` | MCPayrollSystem / violated | Is a chunk that Chapa accepted booked? | chunk of 2, nothing goes wrong |
| `billing` | MCTenantBilling / holds | Does the status follow the expiry, is no month given away or billed twice, and does whoever paid get in, if the report arrives? | 2 invoices, 2 webhook calls at a time, 4 days (1 in busy histories), period 2, 1 failure (280 thousand) |
| `workplace` | MCWorkplace / holds | Fifteen questions about eighteen components, below | 2 requests at a time, calm and busy histories (512 thousand) |
| `tax_schedule` | PayArithmetic / violated | Do the calculation and the draft tax one income alike? | every bound of a bracket, a step below and above |

Why the bounds are enough. Two lines are what it takes for one to be pending, failed or in
another batch while the other settles; a batch size of one makes two batches of them, so
that a crash falls between batches. Two handlers are two roll-ups at once, the count of
which is the interesting race. Generate, lock and disburse need three requests, and the
races among them (a second lock or disburse) a fourth in the smaller run; with three, the
safety run still has two overlapping locks, two overlapping disburse calls after an earlier
lock do not fit, and `disburse_live` covers those. Two attempts and one stall give one
repetition of each kind; the proofs (section 5) remove these bounds. Deadlock is not checked
in any run: the requests are finitely many and a run that is paid rests; a person may close
the page.

In `billing` a period of two days with two days of notice and one of grace puts notice, expiry,
grace and suspension into four days; two calls at a time is what a race with a renewal takes.

In `workplace` two handlers are two requests at once. Busy histories are smaller:

- *Seats*: nobody looks at the dashboard. A third person is employed only by overlapping requests
  for one person each in one branch, while nobody is inactive or active without a count of the
  seats: with one seat and two handlers the bound is two of three, so that a request too many
  would exceed it. Otherwise there are two people.
- *Lists*: one row, changed by both handlers at once, on the branches page or in the leave inbox:
  both poll; one patches its list by the answers and the other loads it again. Of the two
  polls and two changes that the handlers allow, three are under way at a time. The pages that
  do not poll overlap in the proof only.
- *Guard*: an entry lives for two of three instants, and the tenant has two of the three
  statuses; busy histories only, which include the others.
- *Members*: one address is invited, by one link, and nobody browses.
- *Leave* and *roles*: one leave of one day; one user who asks and one permission. Their properties
  are about calm histories, and of the busy ones only the types are asked.
- *The others*: one day of attendance, one choice and one session of USSD, one section of settings and a
  gateway that has its key from the start, one holder of the phone and no stops, a guard that
  takes no employee for a user (so that the phone renews its tokens all the time), one period of
  the payroll page, one employee with a PIN, one pending write in the database client, alerts of
  the company that are closed, and clocks that stop at the horizon of the tokens.

Pay and the leave clients are checked in calm histories only, and a leave is requested from the
form or from the phone, not both; the isolation of tenants in busy ones only, which include the
others. What these leave out is overlap of three requests and overlap across modules; the proofs
cover any number of handlers, with and without the restrictions named here.

What `workplace` asks: `SeatsBounded` (where seats are counted they are exceeded by overlapping
requests only),
`EveryoneBelongs` (departments that exist, one user per address, roles as invited),
`CachesCurrent`, `LeaveSound` (no double leave, the balance is what was granted, the clients
show what was chosen and requested), `EventsAccounted`, `EventLoggedOnce`,
`RecordFollowsLog`, `SignInsSound` (browser, phone and PIN), `DoneOnce`, `WagesSound` (more pay
is never less net, sheets take each run once), `FormsSound`, `PagesSound` (the payroll
page and the notification settings show what the server has, and so does a list at rest, unless
a load or an answer was overtaken or lost since its last load that was not), `IsolationSound`,
`GuardLag` (the guard says what a status says that the tenant had a short while ago).

What the passing runs show, beyond the table:

- `ClosedRunIsSettled` is the deep one of the payout: a retry sets lines that were already
  booked back to PENDING, and two roll-ups count while it does, and yet no run is closed
  with a transfer under way. It holds because a roll-up only reaches its second count after
  every line was booked once, which needs every payable line to have been settled before,
  and settlement is for good.
- `VerdictTrueUntilRetry` says when the verdict is right, and is conditioned on purpose: with
  a repeated attempt it is not. A retry may take a FAILED line back to PENDING between a
  handler's two counts, the second count then finds no failure, and the run becomes PAID.
  `CompletedIsExact` is conditioned in the same way: after a stall, the successor's clean-up
  may delete lines of a run that the first worker then completes.
- `NotPaidTwice` holds for a reason that is nowhere in the code: the two payouts can work on
  one run, but calculated lines have no bank columns and drafts are never COMPLETED, so one
  of the two always finds nothing it can pay.
- `QueuedRunEnds` allows the queue to give a job up; it then leaves the run PROCESSING.
  `QueuedPayoutCloses` needs an attempt that does not fail; after the last failed attempt
  nothing takes the run out of PROCESSING_PAYOUT. Both are limits of the code.

- `RenewalReactivates` holds in busy histories, too: a call that failed after it marked the
  invoice is sent again and extends then, because the extension does not look whether the
  invoice was open. The same carelessness is what `NoFreeTime` must bound by the calls sent.
- `GuardLag`: the guard is behind by the life of an entry and, besides, by the longest that a
  read has taken, since the answer is stored for a full minute however late it comes, and over
  one that was read later. It is neither bound to a date nor to the reads under way at one time.
  The code has one such entry in each of its processes; this is one of them.
- `FirstPaymentActivates` speaks of a payment that Chapa reports to the payments webhook, under
  a URL that names the tenant. The URLs that the code and `DEPLOY.md` name are not that one
  (section 6).
- `PagesSound` of lists: a poll that was read before an add and is listed after it takes the new
  row away, and one that is listed between the server's change and the page's answer to it
  makes the row appear twice. Both are reached in the run and are what its exceptions are for;
  without overlap there is nothing of the kind, and a load that is not overtaken heals both.
- `EventLoggedOnce` for USSD rests on times alone: by the time the guard of 300 s lets a second
  entry through, the copy from which an old session could be taken up has expired.
- `IsolationSound` holds although the write after the look names no tenant, because a row never
  changes its tenant and keys are not used again; the proof makes that explicit.

**Fairness.** `FairDisburseSpec`: Node runs the continuations of what it started (weak
fairness of each request and handler after its first step); the BullMQ worker polls (weak
fairness of `Work`); Chapa settles what it accepted and repeats a call until it is answered
(weak fairness of settlement; strong fairness of delivering each notice, because the model's
few handlers may be busy when the server's would not). Nobody has to send a request, so
none of the first steps is fair. `FairCalcSpec`: the endpoint's continuation and each
worker's steps. `BillingSpec`: each webhook call and each nightly run
goes on with its steps, and the worker takes its jobs; Chapa repeats what was not answered.
Nobody has to pay, and days need not pass. The finance payout has no fairness and no liveness
property: nothing in the code resumes an engine that died. Nor have the modules of
`workplace`: what they wait for is a person.

**Findings** (details and quotations in `PROJECT.json`): the end-to-end test's run fails on
the schema as it is (`calc_e2e`); the documented callback URL names no tenant
(`disburse_callback`); the lock takes back a run that is being paid (`disburse_lock`); a PAID
run whose lines all failed (`system_paid`); a chunk of two lines is booked as failed although
Chapa accepted it (`finance_chunk`); two schedules for one law (`tax_schedule`). `disburse_lock`,
`system_paid` and `finance_chunk` concern code that the first one keeps
from running and are shown with the tenant column in place, except `disburse_lock`, which
needs no line.

## 5. Proofs

Each proof is of the same form: an inductive invariant, that it holds initially, that every step
keeps it (one step of the proof for each action), and that it implies what the run asks. Every
invariant that a passing run checks is proved that way for all values of the constants, with
the action property `BookedStaysUntilRetry` and the refinement of `PayoutContract`. Eight modules
hold the theorems; the most important ones are listed in `PROJECT.json`.

*The payout.* `PayrollSystemProofs` proves first of the queue by itself, for any number of
employees, requests and handlers, any batch size, limits and environment: `DisburseTypeOK`,
`TransferTraceable`, `BooksBackedByGateway`, `UnapprovedUntouched`, `ClosedRunIsSettled`,
`SubmissionsBounded`, and that `DisburseSpec` implements `PayoutContract` (`ContractHolds`).
None of them is inductive by itself: each needs to know what the worker holds, what is on
its way from Chapa and what a handler has counted. The inductive invariant is

    DisburseInv == DisburseTypeOK /\ WorkerInv /\ UnapprovedInv /\ ReferenceInv
           /\ ReportInv /\ PostsInv /\ ClosureInv

- `WorkerInv`: every payable line is either still to be looked at or among the recipients
  while the worker prepares. It is why an attempt without recipients means that the run has no
  payable line, which is what lets `NoRecipients` close it.
- `UnapprovedInv`: before approval nothing has happened anywhere, and no disburse request is
  past its check.
- `ReferenceInv`: the reference is on the line before Chapa knows it.
- `ReportInv`: a final report under way is true and stays true (settlement is for good), and
  a payable line that is not pending was settled. Books rest on this.
- `PostsInv`: how often a line was submitted, by the job's state; what the attempt under way
  still holds was submitted once less. The bound follows from it.
- `ClosureInv`: what a handler between its two counts knows stays true until it writes:
  every payable line is settled, every other one FAILED, and a verdict PAID was formed only if
  all were payable. It survives retries because settlement, unlike `payoutStatus`, never
  goes back.

`VerdictTrueUntilRetry` and the action property `BookedStaysUntilRetry` need more, and only
for as long as no attempt was repeated: `FirstAttemptInv`, beside `DisburseInv`, says that
nothing has been submitted or booked of what the worker still holds, that a failed line was
reported as failed, and that what a handler has counted is still so when it writes. Retries
are what breaks each of its parts, which is why the two properties are conditioned on there
being none.

Then it proves `SystemTypeOK`, `NotPaidTwice`, `FinanceSubmitsOnce` and
`SuccessWasSubmitted` of the composition, from

    SystemInv == SystemTypeOK /\ QueueInv /\ UnbornInv /\ ApprovalInv /\ EngineInv /\ BooksInv

It makes explicit why nobody is paid twice although neither payout looks at the other:
`QueueInv`, whatever Chapa knows under the queue's reference has bank columns; `ApprovalInv`, a
run that is or was COMPLETED has none, and from the first approval on it never will; `EngineInv`,
whatever Chapa knows under finance's reference was submitted by an engine that an approval had
started, and what an engine has still to go through was not submitted. `UnbornInv` carries the
first two over the birth of the run. `DisburseInv` is of no use here:
finance writes the same columns, so that books and reports of the queue no longer agree.

*The calculation.* `PayrollCalculationProofs` proves `CalcTypeOK`, `NoDuplicateLine`,
`LinesAreAudited` and `CompletedIsExact` for any number of employees, calls, workers and
stalls, from

    CalcInv == CalcTypeOK /\ LinesInv /\ SoloInv /\ TriggerInv

`LinesInv`: the report is unique and never deleted, so at most one worker is past the audit,
and what it has still to write and what is written do not overlap. `SoloInv`: until the
queue takes the job back, one worker has started it, and what it has still to write together
with what is written is complete. `TriggerInv`: no job before there is a run.

*Billing.* `TenantBillingProofs` proves the four invariants of `billing`, for any number of
invoices and calls, any period, notice, grace and bounds, from

    BillingInv == ShapeInv /\ CreditInv /\ CalmInv /\ UniqueInv /\ StatusInv

- `ShapeInv`: what a nightly run and a webhook call carry from one step to the next.
- `CreditInv`: time against reports. Each notice that still waits has not been turned into time,
  and a call between marking and extending has a base that does not count its own; so the expiry
  stays one period short for every notice that waits. `NoFreeTime` alone would not survive the
  next extension.
- `CalmInv`, `StatusInv`: where nothing overlaps, what each phase of the nightly run has put right
  already. A status may be wrong before the run and in the middle of it, hence the phases.
- `UniqueInv`: an invoice ends at most a notice and a period from now, and a paid one before
  whatever the present expiry would be billed for next. It needs a notice no longer than the
  period (`NoticeAssumption`; 3 and 30 days in the code): otherwise the next period would be
  billed before the last invoice's end is past.

*The workplace.* The eighteen modules of `workplace` are proved one by one, each for any number
of handlers and of whatever it has, in calm histories and busy ones, and without the
restrictions of the run. `WorkplaceProofs` then puts them together. The argument is
`StepsApart`: as the modules share no variables but `calm`, which no step changes, a step of the
whole is one of the module at work and leaves every other one as it is, so it is a step of
each module or a stutter. Hence

    WorkplaceInv == StaffInv /\ TimeInv /\ SignInInv /\ PagesInv

the conjunction of all the invariants below, holds whichever module is at work, and the seven
properties of `MCWorkplace` that have parts in several modules follow from it, as do
`WorkplaceTypeOK` and the properties of a single module.

In a calm history the invariants have one thing in common: at most one request is under way,
and *what it has found out is still so when it acts on it*. What that comes to is different
for each, and is what a reader may look at in the code:

*Staff.* `StaffProofs` proves `SeatsBounded`, `StaffHasWorkplace` and `KpiCurrent` for any
people, handlers, branches and departments, from

    DirectoryInv == DirectoryTypeOK /\ SeatInv /\ Hired /\ StaffHasWorkplace /\ KpiInv

`SeatInv` counts a request that has found a seat as if its person were employed already: those
and the employed exceed the plan by no more than the requests that may overlap. `Hired`, an update
is about somebody who was on the books when it was asked for and, as nobody leaves them, still
is: otherwise its write would put somebody to work who has no department. `KpiInv`:
only the request under way may have left the cached figure behind.

- `MembersInv`: what a request has looked up of an address or an invitation is still so when it
  writes (`LookedUp`), which makes `OneUserPerAddress` and `RoleAsInvited` inductive. The keys of
  the tables (`Unique`) are checked by every write and hold in busy histories, too.
- `AccessInv`: a cached entry is what the tables say, except for those users whom the request
  under way is about to forget (`Unsettled`): between the deletion of a role's grants and the
  moment its holders are dropped, any of them may have a wrong entry.

*Pay.* `PaySound` is arithmetic over rounding and brackets, for every pay that is a whole
number of steps of 20 santim and not only for those at the bounds that TLC tries:
percentages of whole steps have no fractions (`Percents`), the brackets meet where they
should, and more pay is never less net. `StatementsSound` says of sheets, payslips and
overtime what they add up to. A sheet has at most two lines here and overtime at most two
kinds of days, which is the model's bound: a sum over at most two things is proved by
exhibiting the function that the library's fold is made of, for one of any length the prover
would need induction. Pays, months and shifts are any.

*Time.* `AttendanceProofs` proves `EventsAccounted`, `LoggedOnce` and `RecordFollowsLog` for
any events, days, handlers and faults, from

    FieldInv == FieldTypeOK /\ FreshInv /\ RequestInv /\ DeliveredInv /\ CalmInv

`RequestInv` says what a request has done by the time it is at some step, which is what an answer
that arrives late may be trusted for; `CalmInv` that a log without its part of the daily record is
that of the request under way, today.

- `UssdInv`: a session, or the copy of one in memory, that waits for the PIN of a choice that was
  logged has no more time left than the guard; so whoever sends the PIN again meets the
  guard or finds no session. This is a matter of two lifetimes of 300 s that begin in one order.
- `LeaveInv`: between an approval's look at the balance and its write the balance is what it
  read; between requests it is what it was before plus the working days granted. No overlap
  of leaves is created because what the check saw of the other leaves is still so.
  `UsedWithinEntitlement`, which the type needs, holds as long as the history does not begin
  with too much open.
- `LeaveFormsInv`: without overlap there is one call at most and `FormsFit` says how
  everything else is while it is that one: what it asks about is what is chosen, what it
  brings back is what the server has. That the two figures differ by two days at most
  (`FiguresAgree`) rests on the two counts finding the same anniversary or the one before.

*Access.* `AccessProofs` proves `IsolationTypeOK` and `IsolationSound` for any tenants, rows,
handlers and set of queries, from

    IsolationInv == IsolationTypeOK /\ FoundInv /\ IsolationSound

`FoundInv`: what an update or delete goes on with was found among the rows of its tenant. It
is needed because the write that follows names the key only: `IsolationSound` speaks of the last
query, and would not be kept by `WriteOne` if nothing were known of what a handler holds.
It is inductive because no action changes the tenant of a row that has one.

It proves `DoneOnce` for any number of requests and connections, from
`IdemTypeOK` and `KeyInv`: between lock and answer there is one request at most and its lock is
still there; whoever may still run the handler proves that nobody has succeeded; after a
success the answer is stored or about to be. It is as conditioned as `DoneOnce` is: a handler that
outlasts its lock breaks all of it.

- `SessionInv`: tokens know the second they were issued in, the end of all sessions knows
  the tick. `IssuedBefore` says that time has passed since a pair was issued when the next
  request is under way, and `EndedOnes` that pairs of an epoch that is over were issued
  before its end; together they say that an end of all sessions catches every pair of before
  it and none of after. `OneUnblocked`: of the pairs renewed one from another one is not
  blocked.
- `PhoneInv`: keys are stored and cleared one by one in the same order (`InOrder`), so that
  what one stop of the app leaves behind is of one employee only (`OfOne`); `MemberKept`
  that somebody whom the guard takes for a user is signed in in the storage, the app and
  every request under way.
- `GuardInv`: what a request has read of the status, the tenant had at the instant of the read
  (`ReadsHad`); an entry ends no later than its life and the longest read after the tenant last
  had its status (`EntryFresh`). Neither asks who read first or who stored last.
- `PinInv`: except at an account from before the hash, the hash is that of the PIN issued last,
  and what was compared at a sign-in under way is still so when it is answered.

*Pages.* `PageProofs` proves `FormsSound`, `ListSound`, `ScreenSound` and `AlertsSound`.

- `FormInv`: a section is stored as it is shown but for what the save under way has shown already
  and not stored yet; what a load brings is what is stored.
- `ListInv`: unless the list may be behind, each row is listed as the server has it but for the
  changes that were made and not yet answered. `PatchListed` says how such an answer will put it
  right, `ReloadListed` that a load is still to come or what was read is what the server has, and
  `AheadListed`, of the directory (calm only), what the page shows first and goes back to;
  `Apart` and `InTime` that an added row is one request's and that a load or answer that is not
  late has seen the table as it is. It holds for any number of overlapping polls and changes.
- `ScreenInv`: the page asks for its run exactly as long as it shows it as being calculated,
  what a poll has seen is still so, and a run moves on only by what was pressed.
- `AlertsInv`: a save carries what its form says, and until one form is left or saved over changes
  of the other the mark for unsaved changes is that of the forms that were touched.

*Assumptions* (all evaluated by TLC in the runs). Of the payroll: `ColumnAssumption`,
`EnvironmentAssumption` (the two switches are Booleans, the hazards are the listed ones),
`DisburseAssumption` and `CalculationAssumption` (the line's references are among those the
gateway knows; batch size and attempts are positive; worker names are not job states). Of
billing: `BillingAssumption` and `NoticeAssumption` (the lengths are numbers, a period is at
least a day, a notice at most a period). Of the workplace: `HandlerAssumption` (handlers are
finitely many, and "none" is not one), `TenantAssumption` and `QueryAssumption` (the two
marks are no tenants; rows that are created have some tenant; a query by key is about one
row), `IdempotencyAssumption` (a lock can be taken; the mark for no connection is none),
`SeatAssumption` (people and handlers are finitely many, and there is a handler),
`RoleAssumption` (there is a user, "none" is no role, what a built-in role grants are
permissions), `FieldAssumption` (events are numbered and finitely many; the days that are
looked at include two), `LeaveAssumption` (finitely many leaves, days from the first to the
last, at most 16 days used when the history begins, which is the entitlement of the first
year), `LeaveFormsAssumption` (there is an employee; the days picked are not the first, for
ahead of UTC the one before is sent), `PayAssumption` and `ShiftAssumption` (amounts are
numbers; a shift has an hour of the day, a length and a kind), `SessionAssumption`,
`PhoneAssumption`, `LinkAssumption`, `UssdAssumption` (the bounds are numbers, and a choice
can be made), `PinAssumption`, `EntryAssumption` (there is somebody with an account, and a
row), `RunAssumption` (the mark for no run is none), `GuardAssumption` (an entry lives for an
instant at least, the horizon is a number). None of them bounds the number of
requests.

TLC finds the inductive invariants to hold on the instances of the runs, too, but for two
that it cannot evaluate: `PayInv` says of a pay that there are some numbers of steps it is
made of, and `LeaveFormsInv` that there is some call which is the only one. A note on
reading the sources: `SUBSET S \ T` is grouped differently by different parsers of TLA+, and
is written with parentheses here.

*Only model-checked:* what is liveness (`QueuedPayoutCloses`, `QueuedRunEnds`,
`RenewalReactivates`, `FirstPaymentActivates`), which is out of the prover's reach, as is
what their fairness rests on; and the six violations, of which TLC gives the histories. Not
even model-checked: sheets of more than two lines.

## 6. What the code does not do, and what is not modelled

Limits of the code that the conditions of the properties stand for:

- *Payroll.* Chapa's refusal to start a known reference again is an assumption on which
  `BooksBackedByGateway` after a retry and `ContractHolds` rest; the code has no check of its
  own, as `SubmissionsBounded` makes explicit.
- *Billing.* A nightly PAST_DUE over a renewal locks out a tenant that paid; two servers at
  night make two invoices. As it is built and documented, a first payment activates nobody: the
  checkout names `/subscription/webhook` (`subscription.controller.ts:151`), where its reference
  `sub_...` matches neither `sub_tx_` nor `sub_renewal_`; the URL of `DEPLOY.md:93` and that of
  the payments webhook are behind `tenant.middleware.ts:27`, which answers 401 to a report that
  names no tenant. Chapa has to be given the latter with the tenant in it. Chapa refusing a
  session leaves an unpaid invoice that blocks a new one. `simulate-expiry` says an invoice was
  created and creates none.
- *Staff.* Updates of an employee and the import of a file count no seats, an upload looks for one
  seat and fills its rows; requests that overlap each find the last seat free.
- *Leave.* Pending requests are not counted against the entitlement, and approval checks no
  balance. With overlapping calls additions are lost, a leave is granted twice or ends
  REJECTED with its days deducted. Ahead of UTC (as in Ethiopia) the form counts and requests
  the day before the one that was picked. After a failed load the phone shows sample requests
  as if they were the employee's. The liability report and the balance count years
  differently and disagree for hours around an anniversary.
- *Attendance.* The guard refuses employees' tokens, so their uploads fail; a failed event is
  not read again, though `useAttendance.ts:45` says "Saved offline. Will sync when online.". An
  event synchronised after midnight is recorded on that day. A retry after a request that broke
  off is a duplicate, and its record is never written. `attendanceSyncTask.ts` is registered
  nowhere.
- *Access.* A resolution or figure under way is stored after the drop, for five minutes. A
  refresh under way survives a reset; of two tabs that refresh with one token the second is
  signed out. A wrong first PIN at an account without a hash becomes its PIN
  (`auth.service.ts:309`). Two stops, in a logout and in the next sign-in, show one employee
  with another's token. Accepting an invitation moves an existing user out of the workspace
  they had; an address is unique per workspace only.
- *Idempotency.* A handler slower than ten seconds runs twice; the loser deletes the winner's
  answer; the advisory lock is granted again to the pooled connection that has it. No client of
  the repository sends the header.
- *Pay.* The job takes the pension off the taxable income and the draft does not. Runs to the end
  of their month are in no sheet, as the sheets end a month at 23:59:59.000 and the runs at
  .999; periods made ahead of UTC begin on the last day before the month and are in none, either.
  Sheets do not ask for a run's status. The PDF payslip waits for the end of a document that
  it has not ended (`payslip.service.ts:237`) and is never answered. Night work that reaches six
  o'clock is paid by day.
- *Clients.* The notification settings have one mark for the unsaved changes of two forms:
  saving the one in front clears it for both, and the other's changes can then be lost without a
  question (`notifications/page.tsx:127`); after a failed load the page saves its own defaults.
  Rows of allowances, deductions and shifts are edited in the shared object, so that Cancel and
  "Revert on error" (`SettingsContext.tsx:78`) do not take them back. A late answer to a poll
  covers a newer one: a list that polls loses a row that was just added, lists it twice or shows
  an old value, until the next load. A submission that failed is shown as submitted. The
  directory lists a department that the server dropped.
- *Database client.* Upserts are not encrypted: coordinates of a check-in
  (`attendance.service.ts:45`) and the gateway's key (`settings.service.ts:195`, "@encrypted" in
  `schema.prisma:702`) are stored as they are. The look for a row takes place outside the
  caller's transaction.

Not modelled:

- Chapa beyond its use; Redis, BullMQ and PostgreSQL beyond what the code relies on (expiry,
  atomic set-if-absent, unique columns, serializable and read-committed transactions). BullMQ's
  refusal of custom job ids with a colon in some releases.
- A stalled but live worker of the payout queue (a second submission of the same references at
  the same time). It is in the calculation; in the payout the worker is one process.
- Second factors, deactivation, Google's part of a sign-in, the identity service (Fayda),
  signatures of webhook calls: who may call an endpoint does not change what interleavings of
  calls do.
- Amounts in the payroll tables' protocol (they are in `PayArithmetic`), wording, layout,
  logging, socket messages, notifications, uploads, the audit log and its pages.
- Employees who change during a calculation; breaks, geofences and batch logs (which look an
  employee up by a user's id and find none) in attendance; the dashboard's other figures; tenant
  holidays.
- The calendar, a call of a library, and retention, one query by a date.
- Components that no page imports: `components/PayrollEngine`, `AttendanceTracker` and
  `HRDirectory` (pages use the copies under `features/`), `AIComplianceTerminal`,
  `DashboardOverview` and `features/reports/ReportsDashboard`.

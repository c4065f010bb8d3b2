-------------------------- MODULE TenantBillingProofs --------------------------
(***************************************************************************)
(* What holds of a tenant's subscription for any number of invoices, runs  *)
(* of the billing job, webhook calls and days, and for any lengths of the  *)
(* period, the grace period and the notice.                                *)
(*                                                                         *)
(* BillingInv has a part for each question.  ShapeInv says what a run of   *)
(* the job or a webhook call carries from one step to the next; CreditInv  *)
(* weighs the time a tenant has against the reports of Chapa that have     *)
(* been used up; CalmInv, UniqueInv and StatusInv follow a run of the job  *)
(* through its phases where nothing overlaps.                              *)
(***************************************************************************)
EXTENDS TenantBilling, Integers, FiniteSetTheorems, TLAPS

\* The tenant's row, its invoices and what waits beside them.
RowsInv ==
    /\ BillingTypeOK
    /\ history \in Histories
    /\ IsFiniteSet(notices)
    /\ \A i \in Invoice :
        /\ invoice[i].state = "paid" => invoice[i].payable
        /\ invoice[i].payable => invoice[i].state # "none"
        /\ invoice[i].state = "none" <=> invoice[i].until = 0

\* What a run of the job carries from one phase to the next.
NightInv(n) ==
    /\ night[n].at = "idle" <=> night[n] = Resting
    /\ night[n].at # "idle" => night[n].now = day
    /\ night[n].at = "suspend" => night[n].saw \in {0, 1}
    /\ night[n].at \in {"expire", "grace", "find"} => night[n].saw = 0
    /\ night[n].at = "create" =>
        /\ night[n].saw \in day .. day + Notice - 1
        /\ status # Nobody
    /\ night[n].at = "link" => night[n].saw \in Invoice /\ invoice[night[n].saw].state # "none"

\* What a webhook call carries from the invoice to the tenant.
HookInv(h) ==
    /\ hook[h].at = "idle" <=> hook[h] = Resting
    /\ hook[h].at = "extend" => hook[h].saw \in Invoice /\ invoice[hook[h].saw].payable

ShapeInv ==
    /\ RowsInv
    /\ night \in [Night -> [at : NightAt, now : Nat, saw : Nat \cup Invoice]]
    /\ hook \in [Hook -> [at : HookAt, now : Nat, saw : Nat \cup Invoice]]
    /\ \A n \in Night : NightInv(n)
    /\ \A h \in Hook : HookInv(h)

\* The time that so many periods take.
Months(c) == Period * c

\* The last day a tenant may have reached, were the notices of S not used up yet.
Limit(S) == day + Months(sent + 1 - Cardinality(S))

\* A notice that waits has not been turned into time; one that a call works on is
\* turned into time once, for the call's base does not count it.
CreditInv ==
    /\ Cardinality(notices) <= sent
    /\ expiry # Never => expiry <= Limit(notices)
    /\ \A h \in Hook :
        hook[h].at = "extend" => hook[h].now <= Limit(notices \cup {hook[h].saw})

\* In a calm history one run or call at most is under way, and nothing fails.
CalmInv ==
    calm =>
        /\ mishaps = 0
        /\ \A n, m \in Night : night[n] # Resting /\ night[m] # Resting => n = m
        /\ \A n \in Night : night[n] # Resting => HooksRest
        /\ \A g, h \in Hook : hook[g] # Resting /\ hook[h] # Resting => g = h
        /\ \A n \in Night : night[n].at = "create" => night[n].saw = expiry
        /\ \A h \in Hook : hook[h].at = "extend" => hook[h].now >= day

\* An invoice ends at most a notice and a period from now, and one that is paid ends
\* before the invoice that the present expiry would lead to.
UniqueInv ==
    calm =>
        /\ \A i \in Invoice : invoice[i].state # "none" => invoice[i].until < day + Notice + Period
        /\ (\A h \in Hook : hook[h].at # "extend") /\ expiry >= day =>
            \A i \in Invoice : invoice[i].state = "paid" => invoice[i].until < expiry + Period
        /\ \A i, j \in Invoice :
            invoice[i].state # "none" /\ invoice[i].until = invoice[j].until => i = j

InTime  == status = "ACTIVE" => expiry >= day
InGrace == status = "PAST_DUE" => expiry + Grace >= day

\* What each phase of the job has already put right.
PhaseInv(n) ==
    /\ night[n].at = "grace" => status = "ACTIVE" /\ expiry < day
    /\ night[n].at = "suspend" => InTime
    /\ night[n].at = "suspend" /\ night[n].saw = 1 => status = "PAST_DUE" /\ expiry + Grace < day
    /\ night[n].at \in {"find", "create", "link"} => InTime /\ InGrace

StatusInv ==
    calm /\ ~byHand =>
        /\ status = "SUSPENDED" => expiry + Grace < day
        /\ slept /\ NightsRest => InTime /\ InGrace
        /\ \A n \in Night : PhaseInv(n)

BillingInv ==
    /\ ShapeInv
    /\ CreditInv
    /\ CalmInv
    /\ UniqueInv
    /\ StatusInv

LEMMA InvInitially == BillingInit => BillingInv
<1> SUFFICES ASSUME BillingInit PROVE BillingInv
  OBVIOUS
<1> USE BillingAssumption DEF BillingInit
<1>1. IsFiniteSet(notices) /\ Cardinality(notices) = 0
  BY FS_EmptySet
<1>2. BillingTypeOK
  BY DEF BillingTypeOK, Status, Nobody, Invoices, NoInvoice, Resting, NightAt, HookAt
<1>3. ShapeInv
  BY <1>1, <1>2
     DEF ShapeInv, RowsInv, NightInv, HookInv, Resting, NightAt, HookAt, Histories, NoInvoice
<1>4. CreditInv
  BY <1>1 DEF CreditInv, Limit, Months, Resting
<1>5. CalmInv /\ UniqueInv /\ StatusInv
  BY DEF CalmInv, UniqueInv, StatusInv, PhaseInv, Resting, NoInvoice, calm,
         NightsRest, HooksRest, InTime, InGrace, Nobody
<1> QED
  BY <1>3, <1>4, <1>5 DEF BillingInv

-----------------------------------------------------------------------------
(***************************************************************************)
(* Shapes.                                                                 *)
(***************************************************************************)

LEMMA NeverIsADay == Never \in Nat
<1>1. \A p, m \in Nat : p * m \in Nat
  OBVIOUS
<1>2. Period \in Nat /\ MaxNotices + 2 \in Nat /\ LastDay \in Nat
  BY BillingAssumption
<1>3. Period * (MaxNotices + 2) \in Nat
  BY <1>1, <1>2
<1> QED
  BY <1>2, <1>3 DEF Never

LEMMA ShapeSigningUp == ShapeInv /\ SigningUp => ShapeInv'
<1> SUFFICES ASSUME ShapeInv, SigningUp PROVE ShapeInv'
  OBVIOUS
<1> USE BillingAssumption
        DEF ShapeInv, RowsInv, NightInv, HookInv, BillingTypeOK, Status, Nobody,
            world, ledger, first, runs
<1>1. CASE Provision
  BY <1>1, NeverIsADay DEF Provision
<1>2. CASE Checkout
  BY <1>2 DEF Checkout, Mishap
<1>3. CASE Upgrade
  BY <1>3 DEF Upgrade
<1>4. CASE Cancel
  BY <1>4 DEF Cancel
<1>5. CASE SetByHand
  BY <1>5 DEF SetByHand
<1> QED
  BY <1>1, <1>2, <1>3, <1>4, <1>5 DEF SigningUp

LEMMA ShapeNight ==
    ShapeInv /\ (\E n \in Night : Midnight(n) \/ SimulateExpiry(n) \/ NightStep(n)) => ShapeInv'
<1> SUFFICES ASSUME ShapeInv, NEW n \in Night,
                    Midnight(n) \/ SimulateExpiry(n) \/ NightStep(n)
             PROVE  ShapeInv'
  OBVIOUS
<1> USE BillingAssumption DEF world, row, ledger, first, runs, Resting
<1>0. /\ night \in [Night -> [at : NightAt, now : Nat, saw : Nat \cup Invoice]]
      /\ day \in Nat /\ expiry \in Nat /\ NightInv(n) /\ RowsInv
      /\ invoice \in [Invoice -> Invoices]
  BY DEF ShapeInv, RowsInv, BillingTypeOK
<1>1. CASE Midnight(n)
  <2>1. night' \in [Night -> [at : NightAt, now : Nat, saw : Nat \cup Invoice]]
    BY <1>0, <1>1 DEF Midnight, NightAt, NightInv
  <2>2. \A m \in Night : m # n => night'[m] = night[m]
    BY <1>0, <1>1 DEF Midnight
  <2>3. RowsInv'
    BY <1>0, <1>1, <2>1 DEF Midnight, RowsInv, BillingTypeOK, Status, ShapeInv
  <2>4. NightInv(n)'
    BY <1>0, <1>1, <2>1 DEF Midnight, NightInv, NightAt
  <2>5. \A m \in Night : m # n => NightInv(m)'
    BY <1>0, <1>1, <2>2 DEF Midnight, NightInv, ShapeInv
  <2>6. \A h \in Hook : HookInv(h)'
    BY <1>0, <1>1 DEF Midnight, HookInv, ShapeInv
  <2>7. hook' = hook
    BY <1>1 DEF Midnight
  <2> QED
    BY <2>1, <2>3, <2>4, <2>5, <2>6, <2>7 DEF ShapeInv
<1>2. CASE SimulateExpiry(n)
  <2>1. night' \in [Night -> [at : NightAt, now : Nat, saw : Nat \cup Invoice]]
    BY <1>0, <1>2 DEF SimulateExpiry, Nobody, NightAt, NightInv
  <2>2. \A m \in Night : m # n => night'[m] = night[m]
    BY <1>0, <1>2 DEF SimulateExpiry, Nobody
  <2>3. RowsInv'
    BY <1>0, <1>2, <2>1 DEF SimulateExpiry, Nobody, RowsInv, BillingTypeOK, Status, ShapeInv
  <2>4. NightInv(n)'
    BY <1>0, <1>2, <2>1 DEF SimulateExpiry, Nobody, NightInv, NightAt
  <2>5. \A m \in Night : m # n => NightInv(m)'
    BY <1>0, <1>2, <2>2 DEF SimulateExpiry, Nobody, NightInv, ShapeInv
  <2>6. \A h \in Hook : HookInv(h)'
    BY <1>0, <1>2 DEF SimulateExpiry, Nobody, HookInv, ShapeInv
  <2>7. hook' = hook
    BY <1>2 DEF SimulateExpiry, Nobody
  <2> QED
    BY <2>1, <2>3, <2>4, <2>5, <2>6, <2>7 DEF ShapeInv
<1>3. CASE FindExpired(n)
  <2>1. night' \in [Night -> [at : NightAt, now : Nat, saw : Nat \cup Invoice]]
    BY <1>0, <1>3 DEF FindExpired, NightGoes, NightAt, NightInv
  <2>2. \A m \in Night : m # n => night'[m] = night[m]
    BY <1>0, <1>3 DEF FindExpired, NightGoes
  <2>3. RowsInv'
    BY <1>0, <1>3, <2>1 DEF FindExpired, NightGoes, RowsInv, BillingTypeOK, Status, ShapeInv
  <2>4. NightInv(n)'
    BY <1>0, <1>3, <2>1 DEF FindExpired, NightGoes, NightInv, NightAt
  <2>5. \A m \in Night : m # n => NightInv(m)'
    BY <1>0, <1>3, <2>2 DEF FindExpired, NightGoes, NightInv, ShapeInv
  <2>6. \A h \in Hook : HookInv(h)'
    BY <1>0, <1>3 DEF FindExpired, NightGoes, HookInv, ShapeInv
  <2>7. hook' = hook
    BY <1>3 DEF FindExpired, NightGoes
  <2> QED
    BY <2>1, <2>3, <2>4, <2>5, <2>6, <2>7 DEF ShapeInv
<1>4. CASE SetPastDue(n)
  <2>1. night' \in [Night -> [at : NightAt, now : Nat, saw : Nat \cup Invoice]]
    BY <1>0, <1>4 DEF SetPastDue, NightGoes, Nobody, NightAt, NightInv
  <2>2. \A m \in Night : m # n => night'[m] = night[m]
    BY <1>0, <1>4 DEF SetPastDue, NightGoes, Nobody
  <2>3. RowsInv'
    BY <1>0, <1>4, <2>1 DEF SetPastDue, NightGoes, Nobody, RowsInv, BillingTypeOK, Status, ShapeInv
  <2>4. NightInv(n)'
    BY <1>0, <1>4, <2>1 DEF SetPastDue, NightGoes, Nobody, NightInv, NightAt
  <2>5. \A m \in Night : m # n => NightInv(m)'
    BY <1>0, <1>4, <2>2 DEF SetPastDue, NightGoes, Nobody, NightInv, ShapeInv
  <2>6. \A h \in Hook : HookInv(h)'
    BY <1>0, <1>4 DEF SetPastDue, NightGoes, Nobody, HookInv, ShapeInv
  <2>7. hook' = hook
    BY <1>4 DEF SetPastDue, NightGoes, Nobody
  <2> QED
    BY <2>1, <2>3, <2>4, <2>5, <2>6, <2>7 DEF ShapeInv
<1>5. CASE FindLate(n)
  <2>1. night' \in [Night -> [at : NightAt, now : Nat, saw : Nat \cup Invoice]]
    BY <1>0, <1>5 DEF FindLate, NightGoes, NightAt, NightInv
  <2>2. \A m \in Night : m # n => night'[m] = night[m]
    BY <1>0, <1>5 DEF FindLate, NightGoes
  <2>3. RowsInv'
    BY <1>0, <1>5, <2>1 DEF FindLate, NightGoes, RowsInv, BillingTypeOK, Status, ShapeInv
  <2>4. NightInv(n)'
    BY <1>0, <1>5, <2>1 DEF FindLate, NightGoes, NightInv, NightAt
  <2>5. \A m \in Night : m # n => NightInv(m)'
    BY <1>0, <1>5, <2>2 DEF FindLate, NightGoes, NightInv, ShapeInv
  <2>6. \A h \in Hook : HookInv(h)'
    BY <1>0, <1>5 DEF FindLate, NightGoes, HookInv, ShapeInv
  <2>7. hook' = hook
    BY <1>5 DEF FindLate, NightGoes
  <2> QED
    BY <2>1, <2>3, <2>4, <2>5, <2>6, <2>7 DEF ShapeInv
<1>6. CASE Suspend(n)
  <2>1. night' \in [Night -> [at : NightAt, now : Nat, saw : Nat \cup Invoice]]
    BY <1>0, <1>6 DEF Suspend, Nobody, NightAt, NightInv
  <2>2. \A m \in Night : m # n => night'[m] = night[m]
    BY <1>0, <1>6 DEF Suspend, Nobody
  <2>3. RowsInv'
    BY <1>0, <1>6, <2>1 DEF Suspend, Nobody, RowsInv, BillingTypeOK, Status, ShapeInv
  <2>4. NightInv(n)'
    BY <1>0, <1>6, <2>1 DEF Suspend, Nobody, NightInv, NightAt
  <2>5. \A m \in Night : m # n => NightInv(m)'
    BY <1>0, <1>6, <2>2 DEF Suspend, Nobody, NightInv, ShapeInv
  <2>6. \A h \in Hook : HookInv(h)'
    BY <1>0, <1>6 DEF Suspend, Nobody, HookInv, ShapeInv
  <2>7. hook' = hook
    BY <1>6 DEF Suspend, Nobody
  <2> QED
    BY <2>1, <2>3, <2>4, <2>5, <2>6, <2>7 DEF ShapeInv
<1>7. CASE FindExpiring(n)
  <2>1. night' \in [Night -> [at : NightAt, now : Nat, saw : Nat \cup Invoice]]
    BY <1>0, <1>7 DEF FindExpiring, Nobody, NightAt, NightInv
  <2>2. \A m \in Night : m # n => night'[m] = night[m]
    BY <1>0, <1>7 DEF FindExpiring, Nobody
  <2>3. RowsInv'
    BY <1>0, <1>7, <2>1 DEF FindExpiring, Nobody, RowsInv, BillingTypeOK, Status, ShapeInv
  <2>4. NightInv(n)'
    BY <1>0, <1>7, <2>1 DEF FindExpiring, Nobody, NightInv, NightAt
  <2>5. \A m \in Night : m # n => NightInv(m)'
    BY <1>0, <1>7, <2>2 DEF FindExpiring, Nobody, NightInv, ShapeInv
  <2>6. \A h \in Hook : HookInv(h)'
    BY <1>0, <1>7 DEF FindExpiring, Nobody, HookInv, ShapeInv
  <2>7. hook' = hook
    BY <1>7 DEF FindExpiring, Nobody
  <2> QED
    BY <2>1, <2>3, <2>4, <2>5, <2>6, <2>7 DEF ShapeInv
<1>8. CASE CreateInvoice(n)
  <2>1. night' \in [Night -> [at : NightAt, now : Nat, saw : Nat \cup Invoice]]
    <3>1. \/ night' = [night EXCEPT ![n] = Resting]
          \/ \E i \in Invoice : night' = [night EXCEPT ![n] = [night[n] EXCEPT !.at = "link", !.saw = i]]
      <4>1. \/ night' = [night EXCEPT ![n] = Resting]
            \/ \E i \in Invoice : night' = [night EXCEPT ![n].at = "link", ![n].saw = i]
        BY <1>8 DEF CreateInvoice
      <4> QED
        BY <1>0, <4>1
    <3>2. \A i \in Invoice : [night[n] EXCEPT !.at = "link", !.saw = i]
                                  \in [at : NightAt, now : Nat, saw : Nat \cup Invoice]
      BY <1>0 DEF NightAt
    <3>3. Resting \in [at : NightAt, now : Nat, saw : Nat \cup Invoice]
      BY DEF NightAt
    <3>4. \E r \in [at : NightAt, now : Nat, saw : Nat \cup Invoice] : night' = [night EXCEPT ![n] = r]
      BY <3>1, <3>2, <3>3
    <3> QED
      BY <1>0, <3>4
  <2>2. \A m \in Night : m # n => night'[m] = night[m]
    BY <1>0, <1>8 DEF CreateInvoice, Invoices, NoInvoice
  <2>3. RowsInv'
    <3> DEFINE new == [state |-> "draft", until |-> night[n].saw + Period, payable |-> FALSE]
    <3>1. \/ invoice' = invoice
          \/ \E i \in Invoice : invoice[i] = NoInvoice /\ invoice' = [invoice EXCEPT ![i] = new]
      BY <1>8 DEF CreateInvoice
    <3>2. new \in Invoices /\ new.until # 0
      BY <1>0, <1>8 DEF CreateInvoice, Invoices, NightInv
    <3>3. \A i \in Invoice : invoice[i] = NoInvoice => ~invoice[i].payable
      BY DEF NoInvoice
    <3>4. invoice' \in [Invoice -> Invoices]
      BY <1>0, <3>1, <3>2
    <3>5. notices \subseteq {i \in Invoice : invoice'[i].payable}
      BY <1>0, <3>1, <3>3 DEF RowsInv, BillingTypeOK
    <3>6. \A i \in Invoice : /\ invoice'[i].state = "paid" => invoice'[i].payable
                             /\ invoice'[i].payable => invoice'[i].state # "none"
                             /\ invoice'[i].state = "none" <=> invoice'[i].until = 0
      BY <1>0, <3>1, <3>2 DEF RowsInv
    <3> QED
      BY <1>0, <1>8, <2>1, <3>4, <3>5, <3>6 DEF CreateInvoice, RowsInv, BillingTypeOK, ShapeInv
  <2>4. NightInv(n)'
    BY <1>0, <1>8, <2>1 DEF CreateInvoice, Invoices, NoInvoice, NightInv, NightAt
  <2>5. \A m \in Night : m # n => NightInv(m)'
    BY <1>0, <1>8, <2>2 DEF CreateInvoice, Invoices, NoInvoice, NightInv, ShapeInv
  <2>6. \A h \in Hook : HookInv(h)'
    BY <1>0, <1>8 DEF CreateInvoice, Invoices, NoInvoice, HookInv, ShapeInv
  <2>7. hook' = hook
    BY <1>8 DEF CreateInvoice, Invoices, NoInvoice
  <2> QED
    BY <2>1, <2>3, <2>4, <2>5, <2>6, <2>7 DEF ShapeInv
<1>9. CASE StoreLink(n)
  <2>1. night' \in [Night -> [at : NightAt, now : Nat, saw : Nat \cup Invoice]]
    BY <1>0, <1>9 DEF StoreLink, Invoices, Mishap, NightAt, NightInv
  <2>2. \A m \in Night : m # n => night'[m] = night[m]
    BY <1>0, <1>9 DEF StoreLink, Invoices, Mishap
  <2>3. RowsInv'
    <3>1. night[n].saw \in Invoice /\ invoice[night[n].saw].state # "none"
      BY <1>0, <1>9 DEF StoreLink, NightInv
    <3>2. \A i \in Invoice :
              /\ invoice'[i] \in Invoices
              /\ invoice'[i].until = invoice[i].until
              /\ invoice[i].payable => invoice'[i].payable
              /\ invoice'[i].payable => invoice[i].payable \/ invoice'[i].state = "open"
              /\ invoice'[i].state = "none" <=> invoice[i].state = "none"
              /\ invoice'[i].state = "paid" => invoice[i].state = "paid"
      BY <1>0, <1>9, <3>1 DEF StoreLink, Invoices
    <3>3. invoice' \in [Invoice -> Invoices]
      <4>1. \E f \in Invoices : invoice' = [invoice EXCEPT ![night[n].saw] = f]
        <5> DEFINE was == invoice[night[n].saw]
        <5>1. was \in Invoices
          BY <1>0, <3>1
        <5>2. [was EXCEPT !.state = "open"] \in Invoices
          BY <5>1 DEF Invoices
        <5>3. [was EXCEPT !.state = "open", !.payable = TRUE] \in Invoices
          BY <5>1 DEF Invoices
        <5> QED
          BY <1>0, <1>9, <3>1, <5>2, <5>3 DEF StoreLink
      <4> QED
        BY <1>0, <4>1
    <3>4. notices \subseteq {i \in Invoice : invoice'[i].payable}
      BY <1>0, <3>2 DEF RowsInv, BillingTypeOK
    <3>5. mishaps' \in 0 .. MaxMishaps
      BY <1>0, <1>9 DEF StoreLink, Mishap, RowsInv, BillingTypeOK
    <3>6. UNCHANGED <<day, history, route, byHand, row, notices, sent, first, slept, hook>>
      BY <1>9 DEF StoreLink
    <3>7. BillingTypeOK'
      BY <1>0, <2>1, <3>3, <3>4, <3>5, <3>6 DEF RowsInv, BillingTypeOK, ShapeInv
    <3> QED
      BY <1>0, <3>2, <3>6, <3>7 DEF RowsInv, ShapeInv
  <2>4. NightInv(n)'
    BY <1>0, <1>9, <2>1 DEF StoreLink, Invoices, Mishap, NightInv, NightAt
  <2>5. \A m \in Night : m # n => NightInv(m)'
    BY <1>0, <1>9, <2>2 DEF StoreLink, Invoices, Mishap, NightInv, ShapeInv
  <2>6. \A h \in Hook : HookInv(h)'
    BY <1>0, <1>9 DEF StoreLink, Invoices, Mishap, HookInv, ShapeInv
  <2>7. hook' = hook
    BY <1>9 DEF StoreLink, Invoices, Mishap
  <2> QED
    BY <2>1, <2>3, <2>4, <2>5, <2>6, <2>7 DEF ShapeInv
<1>10. CASE NightDies(n)
  <2>1. night' \in [Night -> [at : NightAt, now : Nat, saw : Nat \cup Invoice]]
    BY <1>0, <1>10 DEF NightDies, Mishap, NightAt, NightInv
  <2>2. \A m \in Night : m # n => night'[m] = night[m]
    BY <1>0, <1>10 DEF NightDies, Mishap
  <2>3. RowsInv'
    BY <1>0, <1>10, <2>1 DEF NightDies, Mishap, RowsInv, BillingTypeOK, Status, ShapeInv
  <2>4. NightInv(n)'
    BY <1>0, <1>10, <2>1 DEF NightDies, Mishap, NightInv, NightAt
  <2>5. \A m \in Night : m # n => NightInv(m)'
    BY <1>0, <1>10, <2>2 DEF NightDies, Mishap, NightInv, ShapeInv
  <2>6. \A h \in Hook : HookInv(h)'
    BY <1>0, <1>10 DEF NightDies, Mishap, HookInv, ShapeInv
  <2>7. hook' = hook
    BY <1>10 DEF NightDies, Mishap
  <2> QED
    BY <2>1, <2>3, <2>4, <2>5, <2>6, <2>7 DEF ShapeInv
<1> QED
  BY <1>1, <1>2, <1>3, <1>4, <1>5, <1>6, <1>7, <1>8, <1>9, <1>10 DEF NightStep

LEMMA ShapeChapa == ShapeInv /\ Chapa => ShapeInv'
<1> SUFFICES ASSUME ShapeInv, Chapa PROVE ShapeInv'
  OBVIOUS
<1> USE BillingAssumption
        DEF ShapeInv, RowsInv, NightInv, HookInv, BillingTypeOK, world, row, ledger, first, runs
<1>1. ASSUME NEW i \in Invoice, PayRenewal(i) \/ RepeatRenewal(i) PROVE ShapeInv'
  <2>1. IsFiniteSet(notices \cup {i})
    BY FS_AddElement
  <2>2. notices \cup {i} \subseteq {j \in Invoice : invoice[j].payable}
    BY <1>1 DEF PayRenewal, RepeatRenewal
  <2>3. sent + 1 \in 0 .. MaxNotices
    BY <1>1 DEF PayRenewal, RepeatRenewal
  <2> QED
    <3>1. BillingTypeOK'
      BY <1>1, <2>2, <2>3 DEF PayRenewal, RepeatRenewal
    <3>2. notices' = notices \cup {i} /\ UNCHANGED <<invoice, history>>
      BY <1>1 DEF PayRenewal, RepeatRenewal
    <3>3. IsFiniteSet(notices')
      BY <2>1, <3>2
    <3>4. RowsInv'
      BY <3>1, <3>2, <3>3
    <3>5. UNCHANGED <<night, hook, invoice, status, day>>
      BY <1>1 DEF PayRenewal, RepeatRenewal
    <3> QED
      BY <3>4, <3>5
<1>2. CASE PayFirst
  BY <1>2 DEF PayFirst
<1> QED
  BY <1>1, <1>2 DEF Chapa

LEMMA ShapeRest == ShapeInv /\ (Worker \/ Tick) => ShapeInv'
<1> SUFFICES ASSUME ShapeInv, Worker \/ Tick PROVE ShapeInv'
  OBVIOUS
<1> USE BillingAssumption
        DEF ShapeInv, RowsInv, NightInv, HookInv, BillingTypeOK, Status,
            world, row, ledger, first, runs
<1>1. CASE Verify
  BY <1>1 DEF Verify, Nobody
<1>2. CASE VerifyFails
  BY <1>2 DEF VerifyFails, Mishap
<1>6. CASE Tick
  BY <1>6 DEF Tick, Horizon, NightsRest, Resting
<1> QED
  BY <1>1, <1>2, <1>6 DEF Worker

LEMMA ShapeHook == ShapeInv /\ (\E h \in Hook : HookStep(h)) => ShapeInv'
<1> SUFFICES ASSUME ShapeInv, NEW h \in Hook, HookStep(h) PROVE ShapeInv'
  OBVIOUS
<1> USE BillingAssumption DEF world, row, ledger, first, runs, Resting
<1>0. /\ hook \in [Hook -> [at : HookAt, now : Nat, saw : Nat \cup Invoice]]
      /\ day \in Nat /\ expiry \in Nat /\ HookInv(h) /\ RowsInv
      /\ invoice \in [Invoice -> Invoices] /\ notices \subseteq Invoice
  BY DEF ShapeInv, RowsInv, BillingTypeOK
<1>1. ASSUME NEW i \in Invoice, MarkPaid(h, i) PROVE ShapeInv'
  <2>0. Base(expiry) \in Nat
    BY <1>0 DEF Base, Later
  <2>1. hook' \in [Hook -> [at : HookAt, now : Nat, saw : Nat \cup Invoice]]
    BY <1>0, <1>1, <2>0 DEF MarkPaid, HookAt
  <2>2. \A g \in Hook : g # h => hook'[g] = hook[g]
    BY <1>0, <1>1 DEF MarkPaid
  <2>3. hook'[h].at = "extend" /\ hook'[h].saw = i
    BY <1>0, <1>1 DEF MarkPaid
  <2>4. invoice[i] \in Invoices /\ invoice[i].payable /\ invoice[i].until # 0
    <3>1. invoice[i].payable
      BY <1>0, <1>1 DEF MarkPaid, RowsInv, BillingTypeOK
    <3> QED
      BY <1>0, <3>1 DEF RowsInv, Invoices
  <2>5. \A j \in Invoice : /\ invoice'[j] \in Invoices
                           /\ invoice'[j].payable = invoice[j].payable
                           /\ invoice'[j].until = invoice[j].until
                           /\ j # i => invoice'[j] = invoice[j]
    BY <1>0, <1>1 DEF MarkPaid, Invoices
  <2>6. invoice'[i].state = "paid"
    BY <1>0, <1>1 DEF MarkPaid, Invoices
  <2>7. invoice' \in [Invoice -> Invoices]
    <3>1. [invoice[i] EXCEPT !.state = "paid"] \in Invoices
      BY <2>4 DEF Invoices
    <3> QED
      BY <1>0, <1>1, <3>1 DEF MarkPaid
  <2>8. \A j \in Invoice : /\ invoice'[j].state = "paid" => invoice'[j].payable
                           /\ invoice'[j].payable => invoice'[j].state # "none"
                           /\ invoice'[j].state = "none" <=> invoice'[j].until = 0
    BY <2>4, <2>5, <2>6, <1>0 DEF RowsInv
  <2>9. BillingTypeOK'
    BY <1>0, <1>1, <2>1, <2>5, <2>7 DEF MarkPaid, RowsInv, BillingTypeOK, ShapeInv
  <2>10. RowsInv'
    BY <1>0, <1>1, <2>8, <2>9 DEF MarkPaid, RowsInv
  <2>11. \A g \in Hook : HookInv(g)'
    BY <2>1, <2>2, <2>3, <2>4, <2>5 DEF HookInv, ShapeInv
  <2>12. \A n \in Night : NightInv(n)' /\ night'[n] = night[n]
    BY <1>0, <1>1, <2>4, <2>5, <2>6 DEF MarkPaid, NightInv, ShapeInv
  <2>13. night' = night
    BY <1>1 DEF MarkPaid
  <2> QED
    BY <2>1, <2>10, <2>11, <2>12, <2>13 DEF ShapeInv
<1>2. CASE Extend(h)
  <2>1. hook' \in [Hook -> [at : HookAt, now : Nat, saw : Nat \cup Invoice]]
    BY <1>0, <1>2 DEF Extend, HookAt, HookInv
  <2>2. \A g \in Hook : g # h => hook'[g] = hook[g]
    BY <1>0, <1>2 DEF Extend
  <2>3. RowsInv'
    <3>1. IsFiniteSet(notices \ {hook[h].saw})
      BY <1>0, FS_RemoveElement DEF RowsInv
    <3>2. expiry' \in Nat
      BY <1>0, <1>2 DEF Extend
    <3>3. BillingTypeOK'
      BY <1>0, <1>2, <2>1, <3>2 DEF Extend, RowsInv, BillingTypeOK, Status, ShapeInv
    <3> QED
      BY <1>0, <1>2, <3>1, <3>3 DEF Extend, RowsInv
  <2>4. HookInv(h)'
    BY <1>0, <1>2, <2>1 DEF Extend, HookInv, HookAt
  <2>5. \A g \in Hook : g # h => HookInv(g)'
    BY <1>0, <1>2, <2>2 DEF Extend, HookInv, ShapeInv
  <2>6. \A n \in Night : NightInv(n)'
    BY <1>2 DEF Extend, NightInv, ShapeInv, Nobody
  <2>7. night' = night
    BY <1>2 DEF Extend
  <2> QED
    BY <2>1, <2>3, <2>4, <2>5, <2>6, <2>7 DEF ShapeInv
<1>3. CASE ExtendFails(h)
  <2>1. hook' \in [Hook -> [at : HookAt, now : Nat, saw : Nat \cup Invoice]]
    BY <1>0, <1>3 DEF ExtendFails, Mishap, HookAt, HookInv
  <2>2. \A g \in Hook : g # h => hook'[g] = hook[g]
    BY <1>0, <1>3 DEF ExtendFails, Mishap
  <2>3. RowsInv'
    BY <1>0, <1>3, <2>1 DEF ExtendFails, Mishap, RowsInv, BillingTypeOK, Status, ShapeInv
  <2>4. HookInv(h)'
    BY <1>0, <1>3, <2>1 DEF ExtendFails, Mishap, HookInv, HookAt
  <2>5. \A g \in Hook : g # h => HookInv(g)'
    BY <1>0, <1>3, <2>2 DEF ExtendFails, Mishap, HookInv, ShapeInv
  <2>6. \A n \in Night : NightInv(n)'
    BY <1>3 DEF ExtendFails, Mishap, NightInv, ShapeInv, Nobody
  <2>7. night' = night
    BY <1>3 DEF ExtendFails, Mishap
  <2> QED
    BY <2>1, <2>3, <2>4, <2>5, <2>6, <2>7 DEF ShapeInv
<1>4. CASE Claim(h)
  <2>0. UNCHANGED hook \/ hook' = [hook EXCEPT ![h] = [hook[h] EXCEPT !.at = "receive"]]
    BY <1>0, <1>4 DEF Claim, HookGoes
  <2>1. hook' \in [Hook -> [at : HookAt, now : Nat, saw : Nat \cup Invoice]]
    <3>1. [hook[h] EXCEPT !.at = "receive"] \in [at : HookAt, now : Nat, saw : Nat \cup Invoice]
      BY <1>0 DEF HookAt
    <3> QED
      BY <1>0, <2>0, <3>1
  <2>2. \A g \in Hook : g # h => hook'[g] = hook[g]
    BY <1>0, <1>4 DEF Claim, HookGoes
  <2>3. RowsInv'
    BY <1>0, <1>4, <2>1 DEF Claim, HookGoes, RowsInv, BillingTypeOK, Status, ShapeInv
  <2>4. HookInv(h)'
    <3>1. hook[h] = Resting
      BY <1>4 DEF Claim
    <3>2. CASE UNCHANGED hook
      BY <1>4, <3>1, <3>2 DEF Claim, HookInv
    <3>3. CASE hook' = [hook EXCEPT ![h] = [hook[h] EXCEPT !.at = "receive"]]
      <4>1. hook'[h].at = "receive"
        BY <1>0, <3>3
      <4> QED
        BY <4>1 DEF HookInv, Resting
    <3> QED
      BY <2>0, <3>2, <3>3
  <2>5. \A g \in Hook : g # h => HookInv(g)'
    BY <1>0, <1>4, <2>2 DEF Claim, HookGoes, HookInv, ShapeInv
  <2>6. \A n \in Night : NightInv(n)'
    BY <1>4 DEF Claim, HookGoes, NightInv, ShapeInv, Nobody
  <2>7. night' = night
    BY <1>4 DEF Claim, HookGoes
  <2> QED
    BY <2>1, <2>3, <2>4, <2>5, <2>6, <2>7 DEF ShapeInv
<1>5. CASE Receive(h)
  <2>1. hook' \in [Hook -> [at : HookAt, now : Nat, saw : Nat \cup Invoice]]
    BY <1>0, <1>5 DEF Receive, HookGoes, HookAt, HookInv
  <2>2. \A g \in Hook : g # h => hook'[g] = hook[g]
    BY <1>0, <1>5 DEF Receive, HookGoes
  <2>3. RowsInv'
    BY <1>0, <1>5, <2>1 DEF Receive, HookGoes, RowsInv, BillingTypeOK, Status, ShapeInv
  <2>4. HookInv(h)'
    BY <1>0, <1>5, <2>1 DEF Receive, HookGoes, HookInv, HookAt
  <2>5. \A g \in Hook : g # h => HookInv(g)'
    BY <1>0, <1>5, <2>2 DEF Receive, HookGoes, HookInv, ShapeInv
  <2>6. \A n \in Night : NightInv(n)'
    BY <1>5 DEF Receive, HookGoes, NightInv, ShapeInv, Nobody
  <2>7. night' = night
    BY <1>5 DEF Receive, HookGoes
  <2> QED
    BY <2>1, <2>3, <2>4, <2>5, <2>6, <2>7 DEF ShapeInv
<1>6. CASE Enqueue(h)
  <2>1. hook' \in [Hook -> [at : HookAt, now : Nat, saw : Nat \cup Invoice]]
    BY <1>0, <1>6 DEF Enqueue, HookAt, HookInv
  <2>2. \A g \in Hook : g # h => hook'[g] = hook[g]
    BY <1>0, <1>6 DEF Enqueue
  <2>3. RowsInv'
    BY <1>0, <1>6, <2>1 DEF Enqueue, RowsInv, BillingTypeOK, Status, ShapeInv
  <2>4. HookInv(h)'
    BY <1>0, <1>6, <2>1 DEF Enqueue, HookInv, HookAt
  <2>5. \A g \in Hook : g # h => HookInv(g)'
    BY <1>0, <1>6, <2>2 DEF Enqueue, HookInv, ShapeInv
  <2>6. \A n \in Night : NightInv(n)'
    BY <1>6 DEF Enqueue, NightInv, ShapeInv, Nobody
  <2>7. night' = night
    BY <1>6 DEF Enqueue
  <2> QED
    BY <2>1, <2>3, <2>4, <2>5, <2>6, <2>7 DEF ShapeInv
<1>7. CASE ClaimFails(h)
  <2>1. hook' \in [Hook -> [at : HookAt, now : Nat, saw : Nat \cup Invoice]]
    BY <1>0, <1>7 DEF ClaimFails, Mishap, HookAt, HookInv
  <2>2. \A g \in Hook : g # h => hook'[g] = hook[g]
    BY <1>0, <1>7 DEF ClaimFails, Mishap
  <2>3. RowsInv'
    BY <1>0, <1>7, <2>1 DEF ClaimFails, Mishap, RowsInv, BillingTypeOK, Status, ShapeInv
  <2>4. HookInv(h)'
    BY <1>0, <1>7, <2>1 DEF ClaimFails, Mishap, HookInv, HookAt
  <2>5. \A g \in Hook : g # h => HookInv(g)'
    BY <1>0, <1>7, <2>2 DEF ClaimFails, Mishap, HookInv, ShapeInv
  <2>6. \A n \in Night : NightInv(n)'
    BY <1>7 DEF ClaimFails, Mishap, NightInv, ShapeInv, Nobody
  <2>7. night' = night
    BY <1>7 DEF ClaimFails, Mishap
  <2> QED
    BY <2>1, <2>3, <2>4, <2>5, <2>6, <2>7 DEF ShapeInv
<1>8. CASE ReportIgnored(h)
  <2>1. UNCHANGED <<night, hook>>
    BY <1>8 DEF ReportIgnored
  <2>2. RowsInv'
    BY <1>8 DEF ReportIgnored, RowsInv, BillingTypeOK, Status, ShapeInv
  <2>3. \A g \in Hook : HookInv(g)'
    BY <1>8 DEF ReportIgnored, HookInv, ShapeInv
  <2>4. \A n \in Night : NightInv(n)'
    BY <1>8 DEF ReportIgnored, NightInv, ShapeInv, Nobody
  <2> QED
    BY <2>1, <2>2, <2>3, <2>4 DEF ShapeInv
<1> QED
  BY <1>1, <1>2, <1>3, <1>4, <1>5, <1>6, <1>7, <1>8 DEF HookStep

LEMMA ShapeStep == ShapeInv /\ BillingNext => ShapeInv'
  BY ShapeSigningUp, ShapeNight, ShapeChapa, ShapeHook, ShapeRest DEF BillingNext

-----------------------------------------------------------------------------
(***************************************************************************)
(* Time and what was paid for it.                                          *)
(***************************************************************************)

\* More periods take more time, and one more takes a period more.
LEMMA MonthsGrow ==
    \A c \in Int :
        /\ Months(c) \in Int
        /\ Months(c + 1) = Months(c) + Period
        /\ \A d \in Int : c <= d => Months(c) <= Months(d)
<1> SUFFICES ASSUME NEW c \in Int
             PROVE  /\ Months(c) \in Int
                    /\ Months(c + 1) = Months(c) + Period
                    /\ \A d \in Int : c <= d => Months(c) <= Months(d)
  OBVIOUS
<1>0. Period \in Nat
  BY BillingAssumption
<1>1. \A d \in Int : c <= d => Period * c <= Period * d
  <2> SUFFICES ASSUME NEW d \in Int, c <= d PROVE Period * c <= Period * d
    OBVIOUS
  <2>1. \A p, e \in Nat : p * e \in Nat
    OBVIOUS
  <2>2. d - c \in Nat /\ d = c + (d - c)
    OBVIOUS
  <2>3. Period * (d - c) \in Nat
    BY <1>0, <2>1, <2>2
  <2>4. Period * (d - c) = Period * d - Period * c
    BY <1>0
  <2> QED
    BY <1>0, <2>3, <2>4
<1>2. Period * (c + 1) = Period * c + Period
  BY <1>0
<1> QED
  BY <1>0, <1>1, <1>2 DEF Months

\* A notice more costs at most one, and one less is worth it.
LEMMA Notices ==
    ASSUME NEW S, IsFiniteSet(S), NEW x
    PROVE  /\ IsFiniteSet(S \cup {x}) /\ IsFiniteSet(S \ {x})
           /\ Cardinality(S) \in Nat /\ Cardinality(S \cup {x}) \in Nat
           /\ Cardinality(S \ {x}) = Cardinality(S \cup {x}) - 1
           /\ Cardinality(S) <= Cardinality(S \cup {x})
           /\ Cardinality(S \cup {x}) <= Cardinality(S) + 1
           /\ x \in S => Cardinality(S \cup {x}) = Cardinality(S)
<1>1. IsFiniteSet(S \cup {x}) /\ IsFiniteSet(S \ {x})
  BY FS_AddElement, FS_RemoveElement
<1>2. Cardinality(S) \in Nat /\ Cardinality(S \cup {x}) \in Nat
  BY <1>1, FS_CardinalityType
<1>3. CASE x \in S
  <2>1. S \cup {x} = S
    BY <1>3
  <2> QED
    BY <1>1, <1>2, <1>3, <2>1, FS_RemoveElement
<1>4. CASE x \notin S
  <2>1. S \ {x} = S
    BY <1>4
  <2>2. Cardinality(S \ {x}) = Cardinality(S)
    BY <2>1
  <2>3. Cardinality(S \cup {x}) = Cardinality(S) + 1
    BY <1>4, FS_AddElement
  <2> QED
    BY <1>1, <1>2, <1>4, <2>2, <2>3
<1> QED
  BY <1>3, <1>4

\* A step that neither gives time nor uses up a notice leaves the balance as it is.
LEMMA CreditKept ==
    ASSUME day \in Nat, day' \in Nat, sent \in Nat, sent' \in Nat, expiry \in Nat, expiry' \in Nat,
           Period \in Nat, ShapeInv, ShapeInv', CreditInv,
           day <= day', notices' = notices, sent <= sent',
           expiry' \in {Never, expiry} \/ expiry' <= day' + Period,
           \A h \in Hook : hook'[h].at = "extend" => hook'[h] = hook[h]
    PROVE  CreditInv'
<1> DEFINE c == sent + 1 - Cardinality(notices)
           k == sent' + 1 - Cardinality(notices)
<1>1. Cardinality(notices) \in Nat /\ Cardinality(notices) <= sent
  BY FS_CardinalityType DEF ShapeInv, RowsInv, CreditInv
<1>2. Months(1) = Period
  BY BillingAssumption DEF Months
<1>3. expiry' # Never => expiry' <= day' + Months(k)
  <2>0. c \in Int /\ k \in Int /\ 1 <= c /\ c <= k
    BY <1>1
  <2>1. expiry # Never => expiry <= day + Months(c)
    BY DEF CreditInv, Limit
  <2> HIDE DEF c, k
  <2>2. /\ Months(c) \in Int /\ Months(k) \in Int /\ Months(1) \in Int
        /\ Months(c) <= Months(k) /\ Months(1) <= Months(k)
    <3>1. 1 \in Int /\ 1 <= k
      BY <2>0
    <3> QED
      BY <2>0, <3>1, MonthsGrow
  <2>3. CASE expiry' <= day' + Period
    <3>1. ASSUME NEW v \in Nat, NEW e \in Nat, v <= e + Period PROVE v <= e + Months(k)
      BY <1>2, <2>2, <3>1
    <3> QED
      BY <2>3, <3>1
  <2>4. CASE expiry' = expiry
    BY <2>1, <2>2, <2>4
  <2> QED
    BY <2>3, <2>4
<1>4. ASSUME NEW h \in Hook, hook'[h].at = "extend"
      PROVE  hook'[h].now <= day' + Months(sent' + 1 - Cardinality(notices' \cup {hook'[h].saw}))
  <2> DEFINE C == Cardinality(notices \cup {hook[h].saw})
             a == sent + 1 - C
             b == sent' + 1 - C
  <2>1. hook'[h] = hook[h] /\ hook[h].now \in Nat
    BY <1>4 DEF ShapeInv
  <2>2. C \in Nat
    BY Notices DEF ShapeInv, RowsInv
  <2>3. hook[h].now <= day + Months(a)
    BY <1>4, <2>1 DEF CreditInv, Limit
  <2>4. a \in Int /\ b \in Int /\ a <= b
    BY <2>2
  <2>5. hook[h].now <= day' + Months(b)
    <3> HIDE DEF a, b
    <3>1. Months(a) \in Int /\ Months(b) \in Int /\ Months(a) <= Months(b)
      BY <2>4, MonthsGrow
    <3> QED
      BY <2>1, <2>3, <3>1
  <2> QED
    BY <2>1, <2>5
<1>5. Cardinality(notices') <= sent'
  BY <1>1
<1> QED
  BY <1>3, <1>4, <1>5 DEF CreditInv, Limit

\* Whatever happens, nobody has more time than Chapa has reported payments for.
LEMMA CreditStep == ShapeInv /\ ShapeInv' /\ CreditInv /\ BillingNext => CreditInv'
<1> SUFFICES ASSUME ShapeInv, ShapeInv', CreditInv, BillingNext PROVE CreditInv'
  OBVIOUS
<1>1. /\ day \in Nat /\ sent \in Nat /\ expiry \in Nat /\ IsFiniteSet(notices)
      /\ day' \in Nat /\ sent' \in Nat /\ expiry' \in Nat
      /\ hook \in [Hook -> [at : HookAt, now : Nat, saw : Nat \cup Invoice]]
      /\ Period \in Nat
  BY BillingAssumption DEF ShapeInv, RowsInv, BillingTypeOK
<1>2. Cardinality(notices) \in Nat /\ Cardinality(notices) <= sent
  BY <1>1, FS_CardinalityType DEF CreditInv
<1> USE DEF world, row, ledger, first, runs
<1>3. CASE SigningUp
  <2>1. /\ day' = day /\ notices' = notices /\ sent' = sent /\ hook' = hook
        /\ expiry' \in {Never, expiry} \/ expiry' = day + Period
    BY <1>3 DEF SigningUp, Provision, Checkout, Upgrade, Cancel, SetByHand
  <2>2. expiry' \in {Never, expiry} \/ expiry' <= day' + Period
    BY <1>1, <2>1
  <2> QED
    BY <1>1, <2>1, <2>2, CreditKept
<1>4. ASSUME NEW n \in Night, Midnight(n) \/ SimulateExpiry(n) \/ NightStep(n)
      PROVE  CreditInv'
  <2>1. /\ day' = day /\ notices' = notices /\ sent' = sent /\ hook' = hook
        /\ expiry' = expiry \/ expiry' = day - 1
    BY <1>4 DEF Midnight, SimulateExpiry, NightStep, FindExpired, SetPastDue, FindLate, Suspend,
                FindExpiring, CreateInvoice, StoreLink, NightDies
  <2>2. expiry' \in {Never, expiry} \/ expiry' <= day' + Period
    BY <1>1, <2>1
  <2> QED
    BY <1>1, <2>1, <2>2, CreditKept
<1>5. ASSUME NEW i \in Invoice, PayRenewal(i) \/ RepeatRenewal(i) PROVE CreditInv'
  <2>1. day' = day /\ notices' = notices \cup {i} /\ sent' = sent + 1 /\ hook' = hook /\ expiry' = expiry
    BY <1>5 DEF PayRenewal, RepeatRenewal
  <2>2. \A S : IsFiniteSet(S) =>
            /\ sent + 1 - Cardinality(S) \in Int
            /\ sent + 1 + 1 - Cardinality(S \cup {i}) \in Int
            /\ sent + 1 - Cardinality(S) <= sent + 1 + 1 - Cardinality(S \cup {i})
    <3> SUFFICES ASSUME NEW S, IsFiniteSet(S)
                 PROVE  /\ sent + 1 - Cardinality(S) \in Int
                        /\ sent + 1 + 1 - Cardinality(S \cup {i}) \in Int
                        /\ sent + 1 - Cardinality(S) <= sent + 1 + 1 - Cardinality(S \cup {i})
      OBVIOUS
    <3>1. /\ Cardinality(S) \in Nat /\ Cardinality(S \cup {i}) \in Nat
          /\ Cardinality(S \cup {i}) <= Cardinality(S) + 1
      BY Notices
    <3> QED
      BY <1>1, <3>1
  <2>3. ASSUME NEW S, IsFiniteSet(S), NEW v \in Nat, v <= day + Months(sent + 1 - Cardinality(S))
        PROVE  v <= day + Months(sent + 1 + 1 - Cardinality(S \cup {i}))
    <3> DEFINE c == sent + 1 - Cardinality(S)
               k == sent + 1 + 1 - Cardinality(S \cup {i})
    <3>1. c \in Int /\ k \in Int /\ c <= k
      BY <2>2, <2>3
    <3>2. v <= day + Months(c)
      BY <2>3
    <3> HIDE DEF c, k
    <3>3. Months(c) \in Int /\ Months(k) \in Int /\ Months(c) <= Months(k)
      BY <3>1, MonthsGrow
    <3>4. v <= day + Months(k)
      BY <1>1, <3>2, <3>3
    <3> QED
      BY <3>4 DEF k
  <2>4. Cardinality(notices \cup {i}) <= sent + 1
    <3>1. /\ Cardinality(notices \cup {i}) \in Nat
          /\ Cardinality(notices \cup {i}) <= Cardinality(notices) + 1
      BY <1>1, Notices
    <3> QED
      BY <1>1, <1>2, <3>1
  <2>5. expiry # Never => expiry <= day + Months(sent + 1 + 1 - Cardinality(notices \cup {i}))
    BY <1>1, <2>3 DEF CreditInv, Limit
  <2>6. ASSUME NEW h \in Hook, hook[h].at = "extend"
        PROVE  hook[h].now <=
                 day + Months(sent + 1 + 1 - Cardinality((notices \cup {i}) \cup {hook[h].saw}))
    <3>1. IsFiniteSet(notices \cup {hook[h].saw}) /\ hook[h].now \in Nat
      BY <1>1, Notices
    <3>2. (notices \cup {hook[h].saw}) \cup {i} = (notices \cup {i}) \cup {hook[h].saw}
      OBVIOUS
    <3>3. hook[h].now <= day + Months(sent + 1 - Cardinality(notices \cup {hook[h].saw}))
      BY <2>6 DEF CreditInv, Limit
    <3>4. hook[h].now <=
            day + Months(sent + 1 + 1 - Cardinality((notices \cup {hook[h].saw}) \cup {i}))
      BY <2>3, <3>1, <3>3
    <3> QED
      BY <3>2, <3>4
  <2> QED
    BY <2>1, <2>4, <2>5, <2>6 DEF CreditInv, Limit
<1>6. CASE PayFirst
  <2>1. day' = day /\ notices' = notices /\ sent' = sent + 1 /\ hook' = hook /\ expiry' = expiry
    BY <1>6 DEF PayFirst
  <2>2. day <= day' /\ sent <= sent'
    BY <1>1, <2>1
  <2> QED
    BY <1>1, <2>1, <2>2, CreditKept
<1>7. CASE Worker
  <2>1. /\ day' = day /\ notices' = notices /\ sent' = sent /\ hook' = hook
        /\ expiry' \in {Never, expiry} \/ expiry' = day + Period
    BY <1>7 DEF Worker, Verify, VerifyFails
  <2>2. expiry' \in {Never, expiry} \/ expiry' <= day' + Period
    BY <1>1, <2>1
  <2> QED
    BY <1>1, <2>1, <2>2, CreditKept
<1>8. CASE Tick
  <2>1. day' = day + 1 /\ notices' = notices /\ sent' = sent /\ hook' = hook /\ expiry' = expiry
    BY <1>8 DEF Tick
  <2>2. day <= day' /\ sent <= sent'
    BY <1>1, <2>1
  <2> QED
    BY <1>1, <2>1, <2>2, CreditKept
<1>9. ASSUME NEW h \in Hook,
             \/ ReportIgnored(h) \/ ExtendFails(h)
             \/ Claim(h) \/ Receive(h) \/ Enqueue(h) \/ ClaimFails(h)
      PROVE  CreditInv'
  <2>1. day' = day /\ notices' = notices /\ sent' = sent /\ expiry' = expiry
    BY <1>9 DEF ExtendFails, ReportIgnored, Claim, Receive, Enqueue, ClaimFails
  <2>2. \A g \in Hook : hook'[g].at = "extend" => hook'[g] = hook[g]
    <3>1. \/ hook' = hook
          \/ \E next \in {"receive", "enqueue"} : hook' = [hook EXCEPT ![h].at = next]
          \/ hook' = [hook EXCEPT ![h] = Resting]
      BY <1>9 DEF ExtendFails, ReportIgnored, Claim, Receive, Enqueue, ClaimFails, HookGoes
    <3> QED
      BY <1>1, <3>1 DEF Resting
  <2>3. day <= day' /\ sent <= sent'
    BY <1>1, <2>1
  <2> QED
    BY <1>1, <2>1, <2>2, <2>3, CreditKept

<1>10. ASSUME NEW h \in Hook, NEW i \in Invoice, MarkPaid(h, i) PROVE CreditInv'
  <2>1. /\ day' = day /\ notices' = notices /\ sent' = sent /\ expiry' = expiry /\ i \in notices
        /\ hook' = [hook EXCEPT ![h] = [at |-> "extend", now |-> Base(expiry), saw |-> i]]
    BY <1>10 DEF MarkPaid
  <2>2. notices \cup {i} = notices
    BY <2>1
  <2> DEFINE c == sent + 1 - Cardinality(notices)
  <2>3. Base(expiry) <= day + Months(c)
    <3>1. c \in Int /\ 1 <= c
      BY <1>1, <1>2
    <3>2. expiry # Never => expiry <= day + Months(c)
      BY DEF CreditInv, Limit
    <3> HIDE DEF c
    <3>3. Months(c) \in Int /\ Months(1) \in Int /\ Months(1) <= Months(c)
      BY <3>1, MonthsGrow
    <3>4. Months(1) \in Nat
      BY <1>1 DEF Months
    <3> QED
      BY <1>1, <3>2, <3>3, <3>4 DEF Base, Later
  <2>4. ASSUME NEW g \in Hook, hook'[g].at = "extend"
        PROVE  hook'[g].now <= day + Months(sent + 1 - Cardinality(notices \cup {hook'[g].saw}))
    <3>1. CASE g = h
      <4>1. hook'[g].now = Base(expiry) /\ hook'[g].saw = i
        BY <1>1, <2>1, <3>1
      <4> QED
        BY <2>2, <2>3, <4>1
    <3>2. CASE g # h
      <4>1. hook'[g] = hook[g]
        BY <1>1, <2>1, <3>2
      <4> QED
        BY <2>4, <4>1 DEF CreditInv, Limit
    <3> QED
      BY <3>1, <3>2
  <2> QED
    BY <1>2, <2>1, <2>4 DEF CreditInv, Limit
<1>11. ASSUME NEW h \in Hook, Extend(h) PROVE CreditInv'
  <2> DEFINE i == hook[h].saw
             now == hook[h].now
  <2>1. /\ day' = day /\ sent' = sent /\ hook[h].at = "extend"
        /\ notices' = notices \ {i} /\ expiry' = now + Period
        /\ hook' = [hook EXCEPT ![h] = Resting]
    BY <1>11 DEF Extend
  <2>2. now \in Nat
    BY <1>1
  <2>3. now <= day + Months(sent + 1 - Cardinality(notices \cup {i}))
    BY <2>1 DEF CreditInv, Limit
  <2> HIDE DEF i, now
  <2>4. /\ Cardinality(notices \cup {i}) \in Nat /\ IsFiniteSet(notices \ {i})
        /\ Cardinality(notices \ {i}) = Cardinality(notices \cup {i}) - 1
        /\ Cardinality(notices \cup {i}) <= Cardinality(notices) + 1
    BY <1>1, Notices
  <2>5. now + Period <= day + Months(sent + 1 - Cardinality(notices \ {i}))
    <3> DEFINE c == sent + 1 - Cardinality(notices \cup {i})
    <3>1. c \in Int /\ sent + 1 - Cardinality(notices \ {i}) = c + 1
      BY <1>1, <2>4
    <3>2. now <= day + Months(c)
      BY <2>3
    <3> HIDE DEF c
    <3>3. Months(c) \in Int /\ Months(c + 1) = Months(c) + Period
      BY <3>1, MonthsGrow
    <3> QED
      BY <1>1, <2>2, <3>1, <3>2, <3>3
  <2>6. ASSUME NEW g \in Hook, hook'[g].at = "extend"
        PROVE  /\ hook'[g] = hook[g]
               /\ hook[g].now <= day + Months(sent + 1 - Cardinality((notices \ {i}) \cup {hook[g].saw}))
    <3>1. hook'[g] = hook[g] /\ hook[g].now \in Nat
      BY <1>1, <2>1, <2>6 DEF Resting
    <3> DEFINE j == hook[g].saw
    <3>2. hook[g].now <= day + Months(sent + 1 - Cardinality(notices \cup {j}))
      BY <2>6, <3>1 DEF CreditInv, Limit
    <3> HIDE DEF j
    <3>3. /\ IsFiniteSet(notices \cup {j})
          /\ Cardinality(notices \cup {j}) \in Nat
      BY <1>1, Notices
    <3>4. (notices \ {i}) \cup {j} \in SUBSET (notices \cup {j})
      OBVIOUS
    <3>5. /\ IsFiniteSet((notices \ {i}) \cup {j})
          /\ Cardinality((notices \ {i}) \cup {j}) <= Cardinality(notices \cup {j})
      BY <3>3, <3>4, FS_Subset
    <3>6. Cardinality((notices \ {i}) \cup {j}) \in Nat
      BY <3>5, FS_CardinalityType
    <3> DEFINE c == sent + 1 - Cardinality(notices \cup {j})
               k == sent + 1 - Cardinality((notices \ {i}) \cup {j})
    <3>7. c \in Int /\ k \in Int /\ c <= k
      BY <1>1, <3>3, <3>5, <3>6
    <3>8. hook[g].now <= day + Months(c)
      BY <3>2
    <3>9. hook[g].now <= day + Months(k)
      <4> HIDE DEF c, k
      <4>1. Months(c) \in Int /\ Months(k) \in Int /\ Months(c) <= Months(k)
        BY <3>7, MonthsGrow
      <4> QED
        BY <1>1, <3>1, <3>8, <4>1
    <3> QED
      BY <3>1, <3>9 DEF j
  <2>7. Cardinality(notices \ {i}) <= sent
    <3>1. Cardinality(notices \ {i}) \in Nat
      BY <2>4, FS_CardinalityType
    <3> QED
      BY <1>1, <1>2, <2>4, <3>1
  <2> QED
    BY <2>1, <2>5, <2>6, <2>7 DEF CreditInv, Limit
<1> QED
  BY <1>3, <1>4, <1>5, <1>6, <1>7, <1>8, <1>9, <1>10, <1>11 DEF BillingNext, Chapa, HookStep


-----------------------------------------------------------------------------
(***************************************************************************)
(* Calm histories.                                                         *)
(***************************************************************************)

\* No step changes the kind of history or makes the server fail where nothing fails.
LEMMA CalmForGood ==
    ASSUME BillingNext
    PROVE  /\ history' = history
           /\ calm' = calm
           /\ mishaps' = mishaps \/ mishaps > 0
<1>1. history' = history
  BY DEF BillingNext, SigningUp, Provision, Checkout, Upgrade, Cancel, SetByHand, Midnight,
         SimulateExpiry, NightStep, FindExpired, SetPastDue, FindLate, Suspend, FindExpiring,
         CreateInvoice, StoreLink, NightDies, Chapa, PayRenewal, RepeatRenewal, PayFirst,
         HookStep, MarkPaid, Extend, ExtendFails, ReportIgnored, Claim, Receive, Enqueue, ClaimFails,
         Worker, Verify, VerifyFails, Tick, world
<1>2. mishaps' = mishaps \/ mishaps > 0
  BY DEF BillingNext, SigningUp, Provision, Checkout, Upgrade, Cancel, SetByHand, Midnight,
         SimulateExpiry, NightStep, FindExpired, SetPastDue, FindLate, Suspend, FindExpiring,
         CreateInvoice, StoreLink, NightDies, Chapa, PayRenewal, RepeatRenewal, PayFirst,
         HookStep, MarkPaid, Extend, ExtendFails, ReportIgnored, Claim, Receive, Enqueue, ClaimFails,
         Worker, Verify, VerifyFails, Tick, world, Mishap
<1> QED
  BY <1>1, <1>2 DEF calm

\* Nothing begins before what was under way has ended.
LEMMA CalmStep == ShapeInv /\ CalmInv /\ BillingNext => CalmInv'
<1> SUFFICES ASSUME ShapeInv, CalmInv, BillingNext, calm, calm' PROVE CalmInv'
  BY CalmForGood DEF CalmInv
<1>1. /\ day \in Nat /\ expiry \in Nat /\ Resting.at = "idle"
      /\ hook \in [Hook -> [at : HookAt, now : Nat, saw : Nat \cup Invoice]]
      /\ night \in [Night -> [at : NightAt, now : Nat, saw : Nat \cup Invoice]]
      /\ \A n \in Night : NightInv(n)
      /\ \A h \in Hook : HookInv(h)
  BY DEF ShapeInv, RowsInv, BillingTypeOK, Resting
<1>2. mishaps = 0 /\ mishaps' = 0
  BY CalmForGood DEF CalmInv
<1>3. ~Mishap
  BY <1>2 DEF Mishap
<1> USE DEF world, row, ledger, first, runs
<1>4. CASE SigningUp
  <2>1. UNCHANGED <<day, night, hook>>
    BY <1>4 DEF SigningUp, Provision, Checkout, Upgrade, Cancel, SetByHand
  <2>2. \A n \in Night : night[n].at = "create" => expiry' = expiry
    BY <1>1, <1>4 DEF SigningUp, Provision, Checkout, Upgrade, Cancel, SetByHand, NightInv
  <2> QED
    BY <1>2, <2>1, <2>2 DEF CalmInv, HooksRest
<1>5. ASSUME NEW n \in Night, Midnight(n) \/ SimulateExpiry(n) PROVE CalmInv'
  <2>1. NightsRest /\ HooksRest
    BY <1>5 DEF Midnight, SimulateExpiry, MayBegin
  <2>2. hook' = hook /\ day' = day
    BY <1>5 DEF Midnight, SimulateExpiry
  <2>3. \A m \in Night : m # n => night'[m] = Resting
    BY <1>1, <1>5, <2>1 DEF Midnight, SimulateExpiry, NightsRest
  <2>4. night'[n].at = "expire"
    BY <1>1, <1>5 DEF Midnight, SimulateExpiry
  <2> QED
    BY <1>1, <1>2, <2>1, <2>2, <2>3, <2>4 DEF CalmInv, HooksRest
<1>6. ASSUME NEW n \in Night, NightStep(n) PROVE CalmInv'
  <2>1. UNCHANGED <<day, hook, expiry>>
    BY <1>6 DEF NightStep, FindExpired, SetPastDue, FindLate, Suspend, FindExpiring,
                CreateInvoice, StoreLink, NightDies
  <2>2. night[n] # Resting
    BY <1>6 DEF NightStep, FindExpired, SetPastDue, FindLate, Suspend, FindExpiring,
                CreateInvoice, StoreLink, NightDies, Resting
  <2>3. \A m \in Night : m # n => night'[m] = night[m]
    BY <1>1, <1>6 DEF NightStep, FindExpired, SetPastDue, FindLate, Suspend, FindExpiring,
                      CreateInvoice, StoreLink, NightDies, NightGoes
  <2>4. \A m \in Night : m # n => night[m] = Resting
    BY <2>2 DEF CalmInv
  <2>5. HooksRest
    BY <2>2 DEF CalmInv
  <2>6. night'[n].at = "create" => night'[n].saw = expiry
    BY <1>1, <1>3, <1>6 DEF NightStep, FindExpired, SetPastDue, FindLate, Suspend, FindExpiring,
                      CreateInvoice, StoreLink, NightDies, NightGoes, Resting
  <2> QED
    BY <1>1, <1>2, <2>1, <2>3, <2>4, <2>5, <2>6 DEF CalmInv, HooksRest
<1>7. CASE Chapa \/ VerifyFails
  <2>1. UNCHANGED <<day, night, hook, expiry>>
    BY <1>7 DEF Chapa, PayRenewal, RepeatRenewal, PayFirst, VerifyFails
  <2> QED
    BY <1>2, <2>1 DEF CalmInv, HooksRest
<1>8. CASE Verify
  <2>1. UNCHANGED <<day, night, hook>> /\ NightsRest /\ HooksRest
    BY <1>8 DEF Verify, MayBegin
  <2> QED
    BY <1>1, <1>2, <2>1 DEF CalmInv, HooksRest, NightsRest
<1>9. CASE Tick
  <2>1. UNCHANGED <<night, hook, expiry>> /\ HooksRest
    BY <1>9 DEF Tick
  <2> QED
    BY <1>1, <1>2, <2>1 DEF CalmInv, HooksRest
<1>10. ASSUME NEW h \in Hook, NEW i \in Invoice, MarkPaid(h, i) PROVE CalmInv'
  <2>1. UNCHANGED <<day, night, expiry>> /\ NightsRest /\ HooksRest
    BY <1>10 DEF MarkPaid, MayBegin
  <2>2. \A g \in Hook : g # h => hook'[g] = Resting
    BY <1>1, <1>10, <2>1 DEF MarkPaid, HooksRest
  <2>3. hook'[h].now = Base(expiry)
    BY <1>1, <1>10 DEF MarkPaid
  <2>4. Base(expiry) >= day
    BY <1>1 DEF Base, Later
  <2> QED
    BY <1>1, <1>2, <2>1, <2>2, <2>3, <2>4 DEF CalmInv, NightsRest
<1>11. ASSUME NEW h \in Hook, Claim(h) PROVE CalmInv'
  <2>1. UNCHANGED <<day, night, expiry>> /\ NightsRest /\ HooksRest
    BY <1>11 DEF Claim, MayBegin
  <2>2. \A g \in Hook : g # h => hook'[g] = Resting
    BY <1>1, <1>11, <2>1 DEF Claim, HookGoes, HooksRest
  <2>3. hook'[h].at # "extend"
    BY <1>1, <1>11, <2>1 DEF Claim, HookGoes, HooksRest
  <2> QED
    BY <1>1, <1>2, <2>1, <2>2, <2>3 DEF CalmInv, NightsRest
<1>12. ASSUME NEW h \in Hook, Extend(h) \/ Receive(h) \/ Enqueue(h) PROVE CalmInv'
  <2>1. UNCHANGED <<day, night>> /\ hook[h] # Resting
    BY <1>12 DEF Extend, Receive, Enqueue, Resting
  <2>2. \A g \in Hook : g # h => hook'[g] = Resting
    <3>1. \A g \in Hook : g # h => hook'[g] = hook[g]
      BY <1>1, <1>12 DEF Extend, Receive, Enqueue, HookGoes
    <3> QED
      BY <2>1, <3>1 DEF CalmInv
  <2>3. hook'[h].at # "extend"
    BY <1>1, <1>12 DEF Extend, Receive, Enqueue, HookGoes
  <2>4. \A n \in Night : night[n] = Resting
    BY <2>1 DEF CalmInv, HooksRest
  <2> QED
    BY <1>1, <1>2, <2>1, <2>2, <2>3, <2>4 DEF CalmInv
<1>13. ASSUME NEW h \in Hook, ReportIgnored(h) PROVE CalmInv'
  <2>1. UNCHANGED <<day, night, hook, expiry>>
    BY <1>13 DEF ReportIgnored
  <2> QED
    BY <1>2, <2>1 DEF CalmInv, HooksRest
<1> QED
  BY <1>3, <1>4, <1>5, <1>6, <1>7, <1>8, <1>9, <1>10, <1>11, <1>12, <1>13
     DEF BillingNext, HookStep, Worker, ExtendFails, ClaimFails


\* No subscription that ends ends as late as one that does not.
LEMMA NeverIsFar == Never >= LastDay + Period
<1>1. Period \in Nat /\ LastDay \in Nat /\ MaxNotices \in Nat
  BY BillingAssumption
<1>2. /\ Months(1) \in Int /\ Months(MaxNotices + 2) \in Int
      /\ Months(1) <= Months(MaxNotices + 2)
  <2>1. 1 \in Int /\ MaxNotices + 2 \in Int /\ 1 <= MaxNotices + 2
    BY <1>1
  <2> QED
    BY <2>1, MonthsGrow
<1>3. Months(1) = Period /\ Months(MaxNotices + 2) = Period * (MaxNotices + 2)
  BY <1>1 DEF Months
<1> QED
  BY <1>1, <1>2, <1>3 DEF Never

\* A period that was billed is not billed again: what is unpaid covers it, and what is
\* paid has moved the expiry on.
LEMMA UniqueStep == ShapeInv /\ CalmInv /\ UniqueInv /\ BillingNext => UniqueInv'
<1> SUFFICES ASSUME ShapeInv, CalmInv, UniqueInv, BillingNext, calm, calm' PROVE UniqueInv'
  BY CalmForGood DEF UniqueInv
<1>1. /\ day \in Nat /\ expiry \in Nat /\ day <= LastDay
      /\ Period \in Nat /\ Notice \in Nat /\ LastDay \in Nat /\ Notice <= Period
      /\ invoice \in [Invoice -> Invoices]
      /\ \A i \in Invoice : invoice[i].until \in Nat
      /\ hook \in [Hook -> [at : HookAt, now : Nat, saw : Nat \cup Invoice]]
      /\ night \in [Night -> [at : NightAt, now : Nat, saw : Nat \cup Invoice]]
      /\ \A n \in Night : NightInv(n)
      /\ RowsInv
  BY BillingAssumption, NoticeAssumption DEF ShapeInv, RowsInv, BillingTypeOK, Invoices
<1>2. ~Mishap
  BY DEF Mishap, CalmInv
<1>3. \A i \in Invoice : invoice[i].state # "none" => invoice[i].until < day + Notice + Period
  BY DEF UniqueInv
<1>4. (\A h \in Hook : hook[h].at # "extend") /\ expiry >= day =>
        \A i \in Invoice : invoice[i].state = "paid" => invoice[i].until < expiry + Period
  BY DEF UniqueInv
<1>5. \A i, j \in Invoice : invoice[i].state # "none" /\ invoice[i].until = invoice[j].until => i = j
  BY DEF UniqueInv
<1> USE DEF world, row, ledger, first, runs
\* Time that a payment or the signing up gives reaches beyond every invoice.
<1>6. ASSUME day' = day, invoice' = invoice, expiry' \in Nat, expiry' >= day + Period PROVE UniqueInv'
  <2>1. ASSUME NEW i \in Invoice, invoice[i].state = "paid" PROVE invoice[i].until < expiry' + Period
    <3>1. invoice[i].until < day + Notice + Period
      BY <1>3, <2>1
    <3> QED
      BY <1>1, <1>6, <3>1
  <2> QED
    BY <1>3, <1>5, <1>6, <2>1 DEF UniqueInv
\* A step that leaves all of it alone.
<1>7. ASSUME UNCHANGED <<day, invoice, expiry>>,
             (\A h \in Hook : hook'[h].at # "extend") => \A h \in Hook : hook[h].at # "extend"
      PROVE  UniqueInv'
  BY <1>3, <1>4, <1>5, <1>7 DEF UniqueInv
<1>8. CASE SigningUp
  <2>1. CASE Provision
    BY <1>1, <1>6, <2>1, NeverIsADay, NeverIsFar DEF Provision
  <2>2. CASE Checkout
    BY <1>1, <1>6, <2>2 DEF Checkout
  <2>3. CASE Upgrade \/ Cancel \/ SetByHand
    BY <1>7, <2>3 DEF Upgrade, Cancel, SetByHand
  <2> QED
    BY <1>8, <2>1, <2>2, <2>3 DEF SigningUp
<1>9. ASSUME NEW n \in Night, Midnight(n) \/ SimulateExpiry(n) PROVE UniqueInv'
  <2>1. CASE Midnight(n)
    BY <1>7, <2>1 DEF Midnight
  <2>2. CASE SimulateExpiry(n)
    <3>1. day' = day /\ invoice' = invoice /\ expiry' = day - 1
      BY <2>2 DEF SimulateExpiry
    <3>2. ~(expiry' >= day')
      BY <1>1, <3>1
    <3> QED
      BY <1>3, <1>5, <3>1, <3>2 DEF UniqueInv
  <2> QED
    BY <1>9, <2>1, <2>2
<1>10. ASSUME NEW n \in Night, CreateInvoice(n) PROVE UniqueInv'
  <2>1. UNCHANGED <<day, expiry, hook>> /\ night[n].at = "create"
    BY <1>10 DEF CreateInvoice
  <2>2. night[n].saw = expiry /\ expiry >= day /\ expiry < day + Notice
    <3>1. night[n].saw = expiry /\ night[n].saw \in day .. day + Notice - 1
      BY <1>1, <2>1 DEF CalmInv, NightInv
    <3> QED
      BY <1>1, <3>1
  <2>3. \A h \in Hook : hook[h].at # "extend"
    BY <1>1, <2>1 DEF CalmInv, HooksRest, Resting
  <2>4. CASE Covered(night[n].saw)
    BY <1>7, <1>10, <2>1, <2>4 DEF CreateInvoice
  <2>5. CASE ~Covered(night[n].saw)
    <3> DEFINE new == [state |-> "draft", until |-> expiry + Period, payable |-> FALSE]
    <3>1. PICK i \in Invoice : invoice[i] = NoInvoice /\ invoice' = [invoice EXCEPT ![i] = new]
      BY <1>10, <2>2, <2>5 DEF CreateInvoice
    <3>2. invoice'[i] = new /\ \A j \in Invoice : j # i => invoice'[j] = invoice[j]
      BY <1>1, <3>1
    <3>3. \A j \in Invoice : invoice[j].state = "paid" => invoice[j].until < expiry + Period
      BY <1>4, <2>2, <2>3
    <3>4. ASSUME NEW j \in Invoice, j # i PROVE invoice[j].until # expiry + Period
      <4>1. expiry + Period \in Nat /\ expiry + Period # 0 /\ expiry + Period > expiry
        BY <1>1, BillingAssumption
      <4>2. CASE invoice[j].state = "none"
        BY <1>1, <4>1, <4>2 DEF RowsInv
      <4>3. CASE invoice[j].state = "paid"
        <5>1. invoice[j].until < expiry + Period
          BY <3>3, <4>3
        <5> QED
          BY <1>1, <4>1, <5>1
      <4>4. CASE invoice[j].state \in {"draft", "open"}
        <5>1. ~(invoice[j].until > expiry)
          BY <2>2, <2>5, <4>4 DEF Covered
        <5> QED
          BY <1>1, <4>1, <5>1
      <4> QED
        BY <1>1, <4>2, <4>3, <4>4 DEF Invoices
    <3>5. ASSUME NEW a \in Invoice, invoice'[a].state # "none"
          PROVE  invoice'[a].until < day + Notice + Period
      <4>1. expiry + Period < day + Notice + Period
        BY <1>1, <2>2
      <4> QED
        BY <1>3, <3>2, <3>5, <4>1
    <3>6. \A a \in Invoice : invoice'[a].state = "paid" => invoice'[a].until < expiry + Period
      BY <3>2, <3>3
    <3>7. ASSUME NEW a \in Invoice, NEW b \in Invoice,
                 invoice'[a].state # "none", invoice'[a].until = invoice'[b].until
          PROVE  a = b
      BY <1>5, <3>2, <3>4, <3>7
    <3> QED
      BY <2>1, <3>5, <3>6, <3>7 DEF UniqueInv
  <2> QED
    BY <2>4, <2>5
<1>11. ASSUME NEW n \in Night, StoreLink(n) PROVE UniqueInv'
  <2>1. UNCHANGED <<day, expiry, hook>>
        /\ invoice' = [invoice EXCEPT ![night[n].saw].state = "open", ![night[n].saw].payable = TRUE]
    BY <1>2, <1>11 DEF StoreLink
  <2>2. night[n].saw \in Invoice /\ invoice[night[n].saw].state # "none"
    BY <1>1, <1>11 DEF StoreLink, NightInv
  <2>3. \A i \in Invoice : /\ invoice'[i].until = invoice[i].until
                           /\ invoice'[i].state # "none" => invoice[i].state # "none"
                           /\ invoice'[i].state = "paid" => invoice[i].state = "paid"
    BY <1>1, <2>1, <2>2 DEF Invoices
  <2>4. \A i \in Invoice : invoice'[i].state # "none" => invoice'[i].until < day + Notice + Period
    BY <1>3, <2>3
  <2>5. (\A h \in Hook : hook[h].at # "extend") /\ expiry >= day =>
            \A i \in Invoice : invoice'[i].state = "paid" => invoice'[i].until < expiry + Period
    BY <1>4, <2>3
  <2>6. \A i, j \in Invoice :
            invoice'[i].state # "none" /\ invoice'[i].until = invoice'[j].until => i = j
    BY <1>5, <2>3
  <2>7. UNCHANGED <<day, expiry, hook>>
    BY <2>1
  <2> QED
    BY <2>4, <2>5, <2>6, <2>7 DEF UniqueInv
<1>12. ASSUME NEW n \in Night,
              FindExpired(n) \/ SetPastDue(n) \/ FindLate(n) \/ Suspend(n) \/ FindExpiring(n)
       PROVE  UniqueInv'
  BY <1>7, <1>12 DEF FindExpired, SetPastDue, FindLate, Suspend, FindExpiring
<1>13. CASE Chapa \/ VerifyFails
  BY <1>7, <1>13 DEF Chapa, PayRenewal, RepeatRenewal, PayFirst, VerifyFails
<1>14. CASE Verify
  BY <1>1, <1>6, <1>14 DEF Verify
<1>15. CASE Tick
  <2>1. UNCHANGED <<invoice, expiry, hook>> /\ day' = day + 1
    BY <1>15 DEF Tick
  <2>2. ASSUME NEW i \in Invoice, invoice[i].state # "none"
        PROVE  invoice[i].until < (day + 1) + Notice + Period
    BY <1>1, <1>3, <2>2
  <2>3. expiry >= day + 1 => expiry >= day
    BY <1>1
  <2> QED
    BY <1>4, <1>5, <2>1, <2>2, <2>3 DEF UniqueInv
<1>16. ASSUME NEW h \in Hook, NEW i \in Invoice, MarkPaid(h, i) PROVE UniqueInv'
  <2>1. UNCHANGED <<day, expiry>> /\ invoice' = [invoice EXCEPT ![i].state = "paid"] /\ i \in notices
    BY <1>16 DEF MarkPaid
  <2>2. hook'[h].at = "extend"
    BY <1>1, <1>16 DEF MarkPaid
  <2>3. invoice[i].state # "none"
    BY <1>1, <2>1 DEF RowsInv, BillingTypeOK
  <2>4. \A j \in Invoice : /\ invoice'[j].until = invoice[j].until
                           /\ invoice'[j].state # "none" => invoice[j].state # "none"
    BY <1>1, <2>1, <2>3 DEF Invoices
  <2> QED
    BY <1>3, <1>5, <2>1, <2>2, <2>4 DEF UniqueInv
<1>17. ASSUME NEW h \in Hook, Extend(h) PROVE UniqueInv'
  <2>1. day' = day /\ invoice' = invoice /\ expiry' = hook[h].now + Period /\ hook[h].at = "extend"
    BY <1>17 DEF Extend
  <2>2. hook[h].now \in Nat /\ hook[h].now >= day
    BY <1>1, <2>1 DEF CalmInv
  <2>3. hook[h].now + Period \in Nat /\ hook[h].now + Period >= day + Period
    BY <1>1, <2>2
  <2> QED
    BY <1>6, <2>1, <2>3
<1>18. ASSUME NEW h \in Hook, Claim(h) \/ Receive(h) \/ Enqueue(h) PROVE UniqueInv'
  <2>1. UNCHANGED <<day, expiry, invoice>> /\ hook[h].at # "extend"
    BY <1>18 DEF Claim, Receive, Enqueue, Resting
  <2>2. \A g \in Hook : g # h => hook'[g] = hook[g]
    BY <1>1, <1>18 DEF Claim, Receive, Enqueue, HookGoes
  <2> QED
    BY <1>7, <2>1, <2>2
<1>19. ASSUME NEW h \in Hook, ReportIgnored(h) PROVE UniqueInv'
  BY <1>7, <1>19 DEF ReportIgnored
<1> QED
  BY <1>2, <1>8, <1>9, <1>10, <1>11, <1>12, <1>13, <1>14, <1>15, <1>16, <1>17, <1>18, <1>19
     DEF BillingNext, HookStep, NightStep, Worker, ExtendFails, ClaimFails, NightDies


\* The run of the job puts the status right phase by phase, and what comes between two
\* runs does not put it wrong.
LEMMA StatusStep == ShapeInv /\ CalmInv /\ StatusInv /\ BillingNext => StatusInv'
<1> SUFFICES ASSUME ShapeInv, CalmInv, StatusInv, BillingNext, calm, ~byHand' PROVE StatusInv'
  BY CalmForGood DEF StatusInv
<1>1. /\ day \in Nat /\ expiry \in Nat /\ day <= LastDay /\ LastDay \in Nat
      /\ Period \in Nat /\ Grace \in Nat /\ Resting.at = "idle"
      /\ hook \in [Hook -> [at : HookAt, now : Nat, saw : Nat \cup Invoice]]
      /\ night \in [Night -> [at : NightAt, now : Nat, saw : Nat \cup Invoice]]
      /\ \A n \in Night : NightInv(n)
  BY BillingAssumption DEF ShapeInv, RowsInv, BillingTypeOK, Resting
<1>2. ~Mishap
  BY DEF Mishap, CalmInv
<1> USE DEF world, row, ledger, first, runs
<1>3. ~byHand /\ ~Cancel /\ ~SetByHand
  <2>1. byHand' = byHand \/ byHand' = TRUE
    BY DEF BillingNext, SigningUp, Provision, Checkout, Upgrade, Cancel, SetByHand, Midnight,
           SimulateExpiry, NightStep, FindExpired, SetPastDue, FindLate, Suspend, FindExpiring,
           CreateInvoice, StoreLink, NightDies, Chapa, PayRenewal, RepeatRenewal, PayFirst,
           HookStep, MarkPaid, Extend, ExtendFails, ReportIgnored, Claim, Receive, Enqueue, ClaimFails,
           Worker, Verify, VerifyFails, Tick
  <2> QED
    BY <2>1 DEF Cancel, SetByHand
<1>4. /\ status = "SUSPENDED" => expiry + Grace < day
      /\ slept /\ NightsRest => InTime /\ InGrace
      /\ \A n \in Night : PhaseInv(n)
  BY <1>3 DEF StatusInv
\* A step of one run, beside which none is under way.
<1>5. ASSUME NEW n \in Night, \A m \in Night : m # n => night'[m] = Resting,
             status' = "SUSPENDED" => expiry' + Grace < day',
             night'[n] = Resting => (InTime /\ InGrace)',
             PhaseInv(n)'
      PROVE  StatusInv'
  <2>1. ASSUME NEW m \in Night PROVE PhaseInv(m)'
    BY <1>1, <1>5 DEF PhaseInv
  <2> QED
    BY <1>5, <2>1 DEF StatusInv, NightsRest
\* A step that gives the tenant time, while no run is about to change its status.
<1>6. ASSUME UNCHANGED <<day, night, slept>>, expiry' \in Nat, expiry' >= day,
             status' \in {"ACTIVE", "PAST_DUE"},
             \A n \in Night : night[n].at # "grace" /\ (night[n].at = "suspend" => night[n].saw # 1)
      PROVE  StatusInv'
  <2>1. \A v \in Nat : v >= day => v + Grace >= day
    BY <1>1
  <2>2. expiry' >= day' /\ expiry' + Grace >= day'
    BY <1>6, <2>1
  <2>3. InTime' /\ InGrace' /\ status' # "SUSPENDED"
    BY <1>6, <2>2 DEF InTime, InGrace
  <2>4. ASSUME NEW n \in Night PROVE PhaseInv(n)'
    <3>1. night'[n].at # "grace" /\ (night'[n].at = "suspend" => night'[n].saw # 1)
      BY <1>6
    <3> QED
      BY <2>3, <3>1, Zenon DEF PhaseInv
  <2> QED
    BY <2>3, <2>4 DEF StatusInv
\* A step that leaves all of it alone.
<1>7. ASSUME UNCHANGED <<day, status, expiry, night, slept>> PROVE StatusInv'
  BY <1>4, <1>7 DEF StatusInv, PhaseInv, InTime, InGrace, NightsRest
<1>8. CASE SigningUp
  <2>1. CASE Provision
    <3>1. \A n \in Night : night[n].at # "grace" /\ (night[n].at = "suspend" => night[n].saw # 1)
      BY <1>4, <2>1 DEF Provision, PhaseInv, Nobody
    <3>2. expiry' \in Nat /\ expiry' >= day
      BY <1>1, <2>1, NeverIsADay, NeverIsFar DEF Provision
    <3> QED
      BY <1>6, <2>1, <3>1, <3>2 DEF Provision
  <2>2. CASE Checkout
    <3>1. \A n \in Night : night[n].at # "grace" /\ (night[n].at = "suspend" => night[n].saw # 1)
      BY <1>4, <2>2 DEF Checkout, PhaseInv, Nobody
    <3>2. expiry' \in Nat /\ expiry' >= day
      BY <1>1, <2>2 DEF Checkout
    <3> QED
      BY <1>6, <2>2, <3>1, <3>2 DEF Checkout
  <2>3. CASE Upgrade
    BY <1>7, <2>3 DEF Upgrade
  <2> QED
    BY <1>3, <1>8, <2>1, <2>2, <2>3 DEF SigningUp
<1>9. ASSUME NEW n \in Night, Midnight(n) \/ SimulateExpiry(n) PROVE StatusInv'
  <2>1. NightsRest /\ day' = day
    BY <1>9 DEF Midnight, SimulateExpiry, MayBegin
  <2>2. \A m \in Night : m # n => night'[m] = Resting
    BY <1>1, <1>9, <2>1 DEF Midnight, SimulateExpiry, NightsRest
  <2>3. night'[n].at = "expire"
    BY <1>1, <1>9 DEF Midnight, SimulateExpiry
  <2>4. status' = "SUSPENDED" => expiry' + Grace < day'
    BY <1>4, <1>9 DEF Midnight, SimulateExpiry
  <2> QED
    BY <1>1, <1>5, <2>2, <2>3, <2>4 DEF PhaseInv
<1>10. ASSUME NEW n \in Night, NightStep(n) PROVE StatusInv'
  <2>1. /\ day' = day /\ expiry' = expiry /\ night[n] # Resting
        /\ \A m \in Night : m # n => night'[m] = night[m]
    BY <1>1, <1>10 DEF NightStep, FindExpired, SetPastDue, FindLate, Suspend, FindExpiring,
                       CreateInvoice, StoreLink, NightDies, NightGoes, Resting
  <2>2. \A m \in Night : m # n => night'[m] = Resting
    BY <2>1 DEF CalmInv
  <2>3. PhaseInv(n) /\ NightInv(n) /\ night[n].now = day
    BY <1>1, <1>4, <2>1 DEF NightInv
  <2>4. CASE FindExpired(n)
    <3>1. status' = status /\ night'[n].at \in {"grace", "suspend"} /\ night'[n].saw = 0
      BY <1>1, <2>3, <2>4 DEF FindExpired, NightGoes, NightInv
    <3>2. IF status = "ACTIVE" /\ expiry < day THEN night'[n].at = "grace" ELSE night'[n].at = "suspend"
      BY <1>1, <2>3, <2>4 DEF FindExpired, NightGoes
    <3>3. PhaseInv(n)'
      BY <1>1, <2>1, <3>1, <3>2 DEF PhaseInv, InTime
    <3> QED
      BY <1>1, <1>4, <1>5, <2>1, <2>2, <3>1, <3>3
  <2>5. CASE SetPastDue(n)
    <3>1. status' = "PAST_DUE" /\ night'[n].at = "suspend" /\ night'[n].saw = 0
      BY <1>1, <2>3, <2>5 DEF SetPastDue, NightGoes, NightInv
    <3>2. PhaseInv(n)'
      BY <3>1 DEF PhaseInv, InTime
    <3> QED
      BY <1>1, <1>5, <2>2, <3>1, <3>2
  <2>6. CASE FindLate(n)
    <3>1. status' = status /\ InTime
      BY <2>3, <2>6 DEF FindLate, PhaseInv
    <3>2. CASE status = "PAST_DUE" /\ expiry + Grace < day
      <4>1. night'[n].at = "suspend"
        BY <1>1, <2>3, <2>6, <3>2 DEF FindLate
      <4>2. PhaseInv(n)'
        BY <2>1, <3>1, <3>2, <4>1 DEF PhaseInv, InTime
      <4> QED
        BY <1>1, <1>4, <1>5, <2>1, <2>2, <3>1, <4>1, <4>2
    <3>3. CASE ~(status = "PAST_DUE" /\ expiry + Grace < day)
      <4>1. night'[n].at = "find"
        BY <1>1, <2>3, <2>6, <3>3 DEF FindLate, NightGoes
      <4>2. InGrace
        BY <1>1, <3>3 DEF InGrace
      <4>3. PhaseInv(n)'
        BY <2>1, <3>1, <4>1, <4>2 DEF PhaseInv, InTime, InGrace
      <4> QED
        BY <1>1, <1>4, <1>5, <2>1, <2>2, <3>1, <4>1, <4>3
    <3> QED
      BY <3>2, <3>3
  <2>7. CASE Suspend(n)
    <3>1. status' = "SUSPENDED" /\ night'[n].at = "find" /\ expiry + Grace < day
      BY <1>1, <2>3, <2>7 DEF Suspend, PhaseInv
    <3>2. PhaseInv(n)'
      BY <3>1 DEF PhaseInv, InTime, InGrace
    <3> QED
      BY <1>1, <1>5, <2>1, <2>2, <3>1, <3>2
  <2>8. CASE FindExpiring(n) \/ CreateInvoice(n) \/ StoreLink(n)
    <3>1. status' = status /\ InTime /\ InGrace
      BY <2>3, <2>8 DEF FindExpiring, CreateInvoice, StoreLink, PhaseInv
    <3>2. InTime' /\ InGrace'
      BY <2>1, <3>1 DEF InTime, InGrace
    <3>3. night'[n].at \in {"idle", "create", "link"}
      BY <1>1, <2>3, <2>8 DEF FindExpiring, CreateInvoice, StoreLink
    <3>4. PhaseInv(n)'
      BY <3>2, <3>3 DEF PhaseInv
    <3> QED
      BY <1>4, <1>5, <2>1, <2>2, <3>1, <3>2, <3>4
  <2> QED
    BY <1>2, <1>10, <2>4, <2>5, <2>6, <2>7, <2>8 DEF NightStep, NightDies
<1>11. CASE Chapa \/ VerifyFails
  BY <1>7, <1>11 DEF Chapa, PayRenewal, RepeatRenewal, PayFirst, VerifyFails
<1>12. CASE Verify
  <2>1. NightsRest /\ UNCHANGED <<day, night, slept>> /\ status' = "ACTIVE" /\ expiry' = day + Period
    BY <1>12 DEF Verify, MayBegin
  <2>2. expiry' \in Nat /\ expiry' >= day
    BY <1>1, <2>1
  <2> QED
    BY <1>1, <1>6, <2>1, <2>2 DEF NightsRest
<1>13. CASE Tick
  <2>1. NightsRest /\ UNCHANGED <<status, expiry, night>> /\ day' = day + 1 /\ slept' = FALSE
    BY <1>13 DEF Tick
  <2>2. status = "SUSPENDED" => expiry + Grace < day + 1
    BY <1>1, <1>4
  <2>3. \A n \in Night : PhaseInv(n)'
    BY <1>1, <2>1 DEF PhaseInv, NightsRest
  <2> QED
    BY <2>1, <2>2, <2>3 DEF StatusInv
<1>14. ASSUME NEW h \in Hook, Extend(h) PROVE StatusInv'
  <2>1. /\ UNCHANGED <<day, night, slept>> /\ status' = "ACTIVE"
        /\ expiry' = hook[h].now + Period /\ hook[h].at = "extend"
    BY <1>14 DEF Extend
  <2>2. hook[h].now \in Nat /\ hook[h].now >= day
    BY <1>1, <2>1 DEF CalmInv
  <2>3. hook[h].now + Period \in Nat /\ hook[h].now + Period >= day
    BY <1>1, <2>2
  <2>4. NightsRest
    BY <1>1, <2>1 DEF CalmInv, HooksRest, NightsRest
  <2> QED
    BY <1>1, <1>6, <2>1, <2>3, <2>4 DEF NightsRest
<1>15. ASSUME NEW h \in Hook,
              \/ \E i \in Invoice : MarkPaid(h, i)
              \/ ReportIgnored(h) \/ Claim(h) \/ Receive(h) \/ Enqueue(h)
       PROVE  StatusInv'
  BY <1>7, <1>15 DEF MarkPaid, ReportIgnored, Claim, Receive, Enqueue
<1> QED
  BY <1>2, <1>8, <1>9, <1>10, <1>11, <1>12, <1>13, <1>14, <1>15
     DEF BillingNext, HookStep, Worker, ExtendFails, ClaimFails


-----------------------------------------------------------------------------
(***************************************************************************)
(* All of it together.                                                     *)
(***************************************************************************)

LEMMA BillingStutters == BillingInv /\ UNCHANGED billingVars => BillingInv'
<1> SUFFICES ASSUME BillingInv, UNCHANGED billingVars PROVE BillingInv'
  OBVIOUS
<1> USE DEF billingVars, world, row, ledger, first, runs, BillingInv
<1>1. ShapeInv'
  BY DEF ShapeInv, RowsInv, NightInv, HookInv, BillingTypeOK
<1>2. CreditInv'
  BY DEF CreditInv, Limit
<1>3. CalmInv' /\ UniqueInv'
  BY DEF CalmInv, UniqueInv, HooksRest, calm
<1>4. StatusInv'
  BY DEF StatusInv, PhaseInv, InTime, InGrace, NightsRest, calm
<1> QED
  BY <1>1, <1>2, <1>3, <1>4

THEOREM BillingInvariance == BillingSpec => []BillingInv
<1>1. BillingInv /\ [BillingNext]_billingVars => BillingInv'
  <2> SUFFICES ASSUME BillingInv, [BillingNext]_billingVars PROVE BillingInv'
    OBVIOUS
  <2>1. CASE BillingNext
    <3>1. BillingNext /\ ShapeInv /\ CreditInv /\ CalmInv /\ UniqueInv /\ StatusInv
      BY <2>1 DEF BillingInv
    <3>2. ShapeInv'
      BY <2>1, <3>1, ShapeStep
    <3> QED
      BY <2>1, <3>1, <3>2, CreditStep, CalmStep, UniqueStep, StatusStep DEF BillingInv
  <2>2. CASE UNCHANGED billingVars
    BY <2>2, BillingStutters
  <2> QED
    BY <2>1, <2>2
<1> QED
  BY InvInitially, <1>1, PTL DEF BillingSpec

\* The types of the tenant's row, its invoices and the counters hold: the updates of the
\* five places that write the row leave nothing out of range.
THEOREM BillingTypesHold == BillingSpec => []BillingTypeOK
<1>1. BillingInv => BillingTypeOK
  BY DEF BillingInv, ShapeInv, RowsInv
<1> QED
  BY <1>1, BillingInvariance, PTL

\* For any number of webhook calls at a time, lost, repeated and overlapping: a tenant has
\* no more time than Chapa has reported payments for.
THEOREM TimeIsPaidFor == BillingSpec => []NoFreeTime
<1>1. BillingInv => NoFreeTime
  <2> SUFFICES ASSUME BillingInv, expiry # Never PROVE expiry <= day + Period * (sent + 1)
    BY DEF NoFreeTime
  <2>1. sent \in Nat /\ day \in Nat /\ expiry \in Nat /\ Cardinality(notices) \in Nat
    BY FS_CardinalityType DEF BillingInv, ShapeInv, RowsInv, BillingTypeOK
  <2> DEFINE c == sent + 1 - Cardinality(notices)
             k == sent + 1
  <2>2. c \in Int /\ k \in Int /\ c <= k
    BY <2>1
  <2>3. expiry <= day + Months(c)
    BY DEF BillingInv, CreditInv, Limit
  <2>4. expiry <= day + Months(k)
    <3> HIDE DEF c, k
    <3>1. Months(c) \in Int /\ Months(k) \in Int /\ Months(c) <= Months(k)
      BY <2>2, MonthsGrow
    <3> QED
      BY <2>1, <2>3, <3>1
  <2> QED
    BY <2>4 DEF Months
<1> QED
  BY <1>1, BillingInvariance, PTL

\* Where nothing overlaps, the night's run leaves the status as the expiry has it, for any
\* lengths of the period, the grace period and the notice.
THEOREM StatusIsTrue == BillingSpec => []StatusFollowsExpiry
<1>1. BillingInv => StatusFollowsExpiry
  BY DEF BillingInv, StatusInv, StatusFollowsExpiry, InTime, InGrace
<1> QED
  BY <1>1, BillingInvariance, PTL

\* Where nothing overlaps, no period is billed twice.
THEOREM BilledOnce == BillingSpec => []BilledOncePerPeriod
<1>1. BillingInv => BilledOncePerPeriod
  BY DEF BillingInv, UniqueInv, BilledOncePerPeriod
<1> QED
  BY <1>1, BillingInvariance, PTL

=============================================================================

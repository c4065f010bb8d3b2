------------------------------ MODULE LeaveForms ------------------------------
(***************************************************************************)
(* The clients of LeaveService: the form of the dashboard and the leave    *)
(* screen of the mobile app (the overview of the dashboard is one of the   *)
(* lists of ClientLists), how the types of leave come into being, and the  *)
(* liability report.  What the server checks before it stores a request is *)
(* in LeaveRequests; here it does so or answers with an error.  The phone  *)
(* has an answer only if the guard takes the employee for a user           *)
(* (PhoneSessions); else its calls fail.                                   *)
(* Left out: reasons, colours, and the type of a request (free choice).    *)
(***************************************************************************)
EXTENDS LeaveRequests

CONSTANTS
    Applicant,   \* employees
    Pickable     \* days that are picked in the form (a bound)

ASSUME LeaveFormsAssumption == Applicant # {} /\ Pickable \subseteq 2 .. LastLeaveDay

VARIABLES
    ahead,     \* is the browser's clock ahead of UTC?
    chosen,    \* the form: the employee and the days; 0 is none
    card,      \* the employee whose balance it shows
    preview,   \* the days whose number it shows, as they were sent
    counting,  \* or that they are being counted
    formStage,     \* of the form, or "done"
    seeded,    \* leave_types: how many of AllTypes there are
    offered,   \* how many the form offers
    row,       \* a row of leave_requests, and what the client has been told of it
    phoneRow,  \* its status on the phone, or "mock" if that shows its samples
    phoneTypes, \* types of leave on the phone; 0 is its samples
    leaf,      \* the calls of the clients
    figures    \* an entitlement, in the liability report and in the form

leafVars == <<ahead, chosen, card, preview, counting, formStage, seeded, offered, row, phoneRow,
              phoneTypes, leaf, figures>>

NoApplicant == "nobody"
PhoneOwner == CHOOSE p \in Applicant : TRUE

\* Two stand for the six types of seedDefaultLeaveTypes.
AllTypes == 2

NoDays == <<0, 0>>
FormDays == {0} \cup 1 .. LastLeaveDay
RowStatus == {"none", "PENDING", "APPROVED", "REJECTED"}
NoChoice == [who |-> NoApplicant, first |-> 0, last |-> 0]
NoRow == [who |-> NoApplicant, from |-> "none", days |-> NoDays, seen |-> NoDays,
          status |-> "none", told |-> "none"]

NoLeafCall == [at |-> "idle", for |-> "none", who |-> NoApplicant, days |-> NoDays,
           seen |-> NoDays, got |-> "none", count |-> 0]

NoFigures == [report |-> 0, card |-> 0]

LeafAt == [h \in Handler |-> leaf[h].at]

LeaveFormsTypeOK ==
    /\ ahead \in BOOLEAN /\ counting \in BOOLEAN
    /\ chosen \in [who : Applicant \cup {NoApplicant}, first : FormDays, last : FormDays]
    /\ card \in Applicant \cup {NoApplicant}
    /\ preview \in FormDays \X FormDays
    /\ formStage \in {"form", "sending", "done"}
    /\ {seeded, offered, phoneTypes} \subseteq 0 .. AllTypes
    /\ row \in [who : Applicant \cup {NoApplicant}, from : {"none", "form", "phone"},
                days : FormDays \X FormDays, seen : FormDays \X FormDays,
                status : RowStatus, told : RowStatus]
    /\ phoneRow \in RowStatus \cup {"mock"}
    /\ figures \in [report : Nat, card : Nat]
    /\ leaf \in [Handler ->
           [at : {"idle", "asked", "seed", "answered", "failed"},
            for : {"none", "types", "balance", "preview", "submit",
                   "phoneTypes", "phoneList", "phoneSubmit"},
            who : Applicant \cup {NoApplicant},
            days : FormDays \X FormDays, seen : FormDays \X FormDays,
            got : RowStatus, count : 0 .. AllTypes]]
    /\ \A h \in Handler : leaf[h].at = "idle" => leaf[h] = NoLeafCall

LeaveFormsInit ==
    /\ ahead \in BOOLEAN
    /\ chosen = NoChoice
    /\ card = NoApplicant /\ preview = NoDays /\ counting = FALSE /\ formStage = "form"
    /\ seeded = 0 /\ offered = 0
    /\ row = NoRow /\ figures = NoFigures
    /\ phoneRow = "none" /\ phoneTypes = 0
    /\ leaf = [h \in Handler |-> NoLeafCall]

formOnly == <<chosen, card, preview, counting, formStage, offered>>
phoneOnly == <<phoneRow, phoneTypes>>

Ask(h, what, who, days, seen) ==
    leaf' = [leaf EXCEPT ![h] = [NoLeafCall EXCEPT !.at = "asked", !.for = what, !.who = who,
                                 !.days = days, !.seen = seen]]

AskFirst(h, what, who, days, seen) == MayTake(h, LeafAt) /\ Ask(h, what, who, days, seen)

CallEnds(h) == leaf' = [leaf EXCEPT ![h] = NoLeafCall]

UnderWay(what) == \E h \in Handler : leaf[h].for = what

-----------------------------------------------------------------------------
(***************************************************************************)
(* The form of the dashboard.                                              *)
(***************************************************************************)

\* When the form is opened.
AskTypes(h) ==
    /\ offered = 0 /\ chosen = NoChoice
    /\ AskFirst(h, "types", NoApplicant, NoDays, NoDays)
    /\ UNCHANGED <<ahead, formOnly, seeded, row, phoneOnly, figures, calm>>

\* A balance is fetched for every employee that is chosen; that of the last one stays until
\* it is there.
ChooseEmployee(h, p) ==
    /\ formStage # "done" /\ p # chosen.who
    /\ calm => ~UnderWay("balance")
    /\ chosen' = [chosen EXCEPT !.who = p]
    /\ IF p = NoApplicant
       THEN card' = NoApplicant /\ UNCHANGED leaf
       ELSE AskFirst(h, "balance", p, NoDays, NoDays) /\ UNCHANGED card
    /\ UNCHANGED <<ahead, preview, counting, formStage, offered, seeded, row, phoneOnly,
                   figures, calm>>

\* handleDayClick makes a date of local midnight, and the form writes it in UTC.
Sent(c) == IF ahead THEN <<c.first - 1, c.last - 1>> ELSE <<c.first, c.last>>

Complete(c) == c.first # 0 /\ c.last # 0

\* The working days are counted as soon as both days are there.
PickDay(h, which, d) ==
    /\ formStage # "done" /\ chosen[which] # d
    /\ chosen' = [chosen EXCEPT ![which] = d]
    /\ IF Complete(chosen')
       THEN /\ AskFirst(h, "preview", NoApplicant, Sent(chosen'), NoDays)
            /\ counting' = TRUE /\ UNCHANGED preview
       ELSE preview' = NoDays /\ UNCHANGED <<leaf, counting>>
    /\ UNCHANGED <<ahead, card, formStage, offered, seeded, row, phoneOnly, figures, calm>>

SubmitForm(h) ==
    /\ formStage = "form" /\ offered > 0 /\ chosen.who # NoApplicant /\ Complete(chosen)
    /\ AskFirst(h, "submit", chosen.who, Sent(chosen), IF counting THEN NoDays ELSE preview)
    /\ formStage' = "sending"
    /\ UNCHANGED <<ahead, chosen, card, preview, counting, offered, seeded, row,
                   phoneOnly, figures, calm>>

\* The employee stays chosen.
SubmitAnother ==
    /\ formStage = "done"
    /\ formStage' = "form" /\ preview' = NoDays
    /\ chosen' = [chosen EXCEPT !.first = 0, !.last = 0]
    /\ UNCHANGED <<ahead, card, counting, offered, seeded, row, phoneOnly, leaf, figures,
                   calm>>

\* An answer is there, and is taken however much has changed since the call.
Comes(h, what) == leaf[h].for = what /\ leaf[h].at \in {"answered", "failed"} /\ CallEnds(h)
Good(h) == leaf[h].at = "answered"

TypesCome(h) ==
    /\ Comes(h, "types")
    /\ offered' = IF Good(h) THEN leaf[h].count ELSE 0
    /\ UNCHANGED <<ahead, chosen, card, preview, counting, formStage, seeded, row,
                   phoneOnly, figures, calm>>

BalanceComes(h) ==
    /\ Comes(h, "balance")
    /\ card' = IF Good(h) THEN leaf[h].who ELSE NoApplicant
    /\ UNCHANGED <<ahead, chosen, preview, counting, formStage, offered, seeded, row,
                   phoneOnly, figures, calm>>

PreviewComes(h) ==
    /\ Comes(h, "preview")
    /\ preview' = IF Good(h) THEN leaf[h].days ELSE NoDays
    /\ counting' = FALSE
    /\ UNCHANGED <<ahead, chosen, card, formStage, offered, seeded, row, phoneOnly, figures,
                   calm>>

SubmitEnds(h) ==
    /\ Comes(h, "submit")
    /\ IF Good(h) THEN formStage' = "done" /\ row' = [row EXCEPT !.told = "PENDING"]
                  ELSE formStage' = "form" /\ UNCHANGED row
    /\ UNCHANGED <<ahead, chosen, card, preview, counting, offered, seeded, phoneOnly, figures,
                   calm>>

-----------------------------------------------------------------------------
(***************************************************************************)
(* The leave screen of the phone.                                          *)
(***************************************************************************)

otherThanList == <<ahead, formOnly, seeded, phoneTypes, figures, calm>>

PhoneAsks(h, what) ==
    /\ AskFirst(h, what, PhoneOwner, NoDays, NoDays)
    /\ UNCHANGED <<otherThanList, row, phoneRow>>

\* Without a token it shows its samples.
PhoneSignedOut ==
    /\ phoneRow' = "mock"
    /\ UNCHANGED <<otherThanList, row, leaf>>

\* A request needs a type of the server's.
PhoneSubmits(h, d) ==
    /\ phoneTypes > 0
    /\ AskFirst(h, "phoneSubmit", PhoneOwner, <<d, d>>, NoDays)
    /\ UNCHANGED <<otherThanList, row, phoneRow>>

PhoneSubmitEnds(h) ==
    /\ leaf[h].for = "phoneSubmit" /\ leaf[h].at \in {"answered", "failed"}
    /\ IF Good(h)
       THEN /\ Ask(h, "phoneList", PhoneOwner, NoDays, NoDays)
            /\ row' = [row EXCEPT !.told = "PENDING"]
       ELSE CallEnds(h) /\ UNCHANGED row
    /\ UNCHANGED <<otherThanList, phoneRow>>

PhoneListComes(h) ==
    /\ Comes(h, "phoneList")
    /\ phoneRow' = IF Good(h) THEN leaf[h].got ELSE "mock"
    /\ UNCHANGED <<otherThanList, row>>

\* If they do not come, the types shown before stay.
PhoneTypesCome(h) ==
    /\ Comes(h, "phoneTypes")
    /\ phoneTypes' = IF Good(h) THEN leaf[h].count ELSE phoneTypes
    /\ UNCHANGED <<ahead, formOnly, seeded, row, phoneRow, figures, calm>>

-----------------------------------------------------------------------------
(***************************************************************************)
(* The server.                                                             *)
(***************************************************************************)

clientSide == <<ahead, formOnly, phoneOnly, figures, calm>>

Says(h, got, count) ==
    leaf' = [leaf EXCEPT ![h] = [leaf[h] EXCEPT !.at = "answered", !.got = got, !.count = count]]

LeafAsked(h, kinds) == leaf[h].at = "asked" /\ leaf[h].for \in kinds

\* getLeaveTypes: the first to read them has them created.
ServeTypes(h) ==
    /\ LeafAsked(h, {"types", "phoneTypes"})
    /\ IF seeded > 0 THEN Says(h, "none", seeded)
       ELSE leaf' = [leaf EXCEPT ![h].at = "seed"]
    /\ UNCHANGED <<clientSide, seeded, row>>

\* seedDefaultLeaveTypes: one upsert after the other; then all there are are read.
ServeSeed(h) ==
    /\ leaf[h].at = "seed"
    /\ IF seeded < AllTypes THEN seeded' = seeded + 1 /\ UNCHANGED leaf
       ELSE Says(h, "none", seeded) /\ UNCHANGED seeded
    /\ UNCHANGED <<clientSide, row>>

\* getLeaveBalance and calculateWorkingDaysForRange
ServeFigures(h) ==
    /\ LeafAsked(h, {"balance", "preview"})
    /\ Says(h, "none", 0)
    /\ UNCHANGED <<clientSide, seeded, row>>

\* getLeaveRequests has the requests of all, and the phone takes out those of its owner.
ServeList(h) ==
    /\ LeafAsked(h, {"phoneList"})
    /\ Says(h, IF row.who = PhoneOwner THEN row.status ELSE "none", 0)
    /\ UNCHANGED <<clientSide, seeded, row>>

ServeRequest(h) ==
    /\ LeafAsked(h, {"submit", "phoneSubmit"})
    /\ row = NoRow /\ WorkingDays(leaf[h].days[1], leaf[h].days[2]) > 0
    /\ row' = [who |-> leaf[h].who, from |-> IF leaf[h].for = "submit" THEN "form" ELSE "phone",
               days |-> leaf[h].days, seen |-> leaf[h].seen, status |-> "PENDING",
               told |-> "none"]
    /\ Says(h, "none", 0)
    /\ UNCHANGED <<clientSide, seeded>>

\* Meanwhile somebody decides it, in the overview of the dashboard (ClientLists).
ServeDecision(verdict) ==
    /\ row.status = "PENDING"
    /\ row' = [row EXCEPT !.status = verdict]
    /\ UNCHANGED <<clientSide, seeded, leaf>>

\* A call is refused, broken off, or its answer is lost; what has been written stays.  In a
\* calm history nothing breaks off in the midst.
LeafFails(h) ==
    /\ leaf[h].at \in {"asked", "answered"} \cup (IF calm THEN {} ELSE {"seed"})
    /\ leaf' = [leaf EXCEPT ![h].at = "failed", ![h].got = "none", ![h].count = 0]
    /\ UNCHANGED <<clientSide, seeded, row>>

-----------------------------------------------------------------------------
(***************************************************************************)
(* Years of service.  Time since the day of hiring is counted in quarters  *)
(* of a day; there have been `leap` years since the last leap day then.    *)
(***************************************************************************)

Anniversary(n, leap) == 4 * (365 * n + (n + leap) \div 4)

\* generateLeaveLiabilityReport goes by the calendar, ...
CalendarYears(t, leap) ==
    Cardinality({n \in 1 .. t \div 1460 : Anniversary(n, leap) <= t})

\* ... getLeaveBalance by years of 365.25 days.
MeanYears(t) == t \div 1461

\* Somebody asks for both some quarters of a day before or after an anniversary; the answers
\* depend on nothing else, and LeaveFormsNext asks for them in an untouched world only.
AskLiability(n, leap, q) ==
    LET t == Anniversary(n, leap) + q - 2
    IN  /\ figures' = [report |-> AnnualLeaveEntitlement(CalendarYears(t, leap)),
                       card   |-> AnnualLeaveEntitlement(MeanYears(t))]
        /\ UNCHANGED <<ahead, formOnly, phoneOnly, seeded, row, leaf, calm>>

-----------------------------------------------------------------------------
LeaveFormsNext ==
    \/ \E h \in Handler :
          \/ AskTypes(h) \/ SubmitForm(h)
          \/ \E p \in Applicant \cup {NoApplicant} : ChooseEmployee(h, p)
          \/ \E which \in {"first", "last"}, d \in Pickable : PickDay(h, which, d)
          \/ TypesCome(h) \/ BalanceComes(h) \/ PreviewComes(h) \/ SubmitEnds(h)
          \/ PhoneAsks(h, "phoneTypes") \/ PhoneAsks(h, "phoneList")
          \/ \E d \in Pickable : PhoneSubmits(h, d)
          \/ PhoneSubmitEnds(h) \/ PhoneListComes(h) \/ PhoneTypesCome(h)
          \/ ServeTypes(h) \/ ServeSeed(h) \/ ServeFigures(h) \/ ServeList(h)
          \/ ServeRequest(h) \/ LeafFails(h)
    \/ SubmitAnother \/ PhoneSignedOut
    \/ ServeDecision("APPROVED") \/ ServeDecision("REJECTED")
    \/ LeaveFormsInit /\ \E n \in 1 .. 4, leap \in 0 .. 3, q \in 0 .. 5 : AskLiability(n, leap, q)

LeaveFormsSpec == CalmInit /\ LeaveFormsInit /\ [][LeaveFormsNext]_<<leafVars, calm>>

-----------------------------------------------------------------------------
(***************************************************************************)
(* Properties.                                                             *)
(***************************************************************************)

\* If calls do not overlap, whatever of them fails: the form shows the balance of nobody
\* but the chosen employee and counts no days but those it will send, and a request from it
\* is for the days that the client has seen counted, or for days of which none were.
FormShowsChoice ==
    calm =>
        /\ ~UnderWay("balance") => card \in {NoApplicant, chosen.who}
        /\ ~UnderWay("preview") => preview \in {NoDays, Sent(chosen)}
        /\ row.from = "form" => row.seen \in {NoDays, row.days}

\* If calls do not overlap, whatever of them fails: a request that was accepted from the
\* phone is in its list, as it was when the list was read, unless the phone shows samples.
PhoneShowsRequest ==
    calm /\ ~UnderWay("phoneList") /\ row.from = "phone" /\ row.told # "none"
        => phoneRow # "none"

\* If calls do not overlap, nobody is offered some of the types of leave and not the others,
\* though they are created while the first is waiting for them.
TypesComplete == calm => {offered, phoneTypes} \subseteq {0, AllTypes}

\* The two counts of years differ for hours around an anniversary, by which the liability
\* report and the form are never more than the two days of the second year apart.
FiguresAgree == figures.report <= figures.card + 2 /\ figures.card <= figures.report + 2

LeaveFormsSound == FormShowsChoice /\ PhoneShowsRequest /\ TypesComplete /\ FiguresAgree

=============================================================================

----------------------------- MODULE PayStatements -----------------------------
(***************************************************************************)
(* What becomes of the lines of payroll runs: the monthly sheets for the   *)
(* tax authority (ERCA) and the pension fund (POESSA), payslips, and the   *)
(* overtime that goes into a line.                                         *)
(* Time is counted in the moments that the code tells apart, five of each  *)
(* month: the first of the first day, the last millisecond of the day of   *)
(* the cut-off, the first of the last day, its last full second and its    *)
(* last millisecond.                                                       *)
(* Left out: layout, names and labels; the tenant column that lines lack,  *)
(* without which the database refuses every payslip (see PayrollSchema);   *)
(* the log of downloads.  A run has one line.                              *)
(***************************************************************************)
EXTENDS PayArithmetic, FiniteSets, Folds

CONSTANTS
    BookedPays, \* the pays of which runs are made (a bound)
    Shifts      \* the kinds of days that are worked (a bound)

Kind == {"work", "sunday", "holiday"}

ASSUME ShiftAssumption == Shifts \subseteq [from : 0 .. 23, hours : Nat, kind : Kind, days : Nat]

VARIABLES
    runs,    \* the payroll runs, at most two (a bound)
    paper,   \* the last document
    waiting, \* the PDF that is waited for, or "none"
    stretch  \* the days that an employee worked, in at most two kinds (a bound)

paperVars == <<runs, paper, waiting, stretch>>
statementVars == <<payVars, paperVars>>

Months == 1 .. 2

First(m) == 5 * m
Last(m)  == 5 * m + 4

NoPaper == [kind |-> "none", month |-> 0, runs |-> {}, gross |-> 0, pension |-> 0, rest |-> 0,
            sum |-> 0]

StatementsTypeOK ==
    /\ PayTypeOK
    /\ Cardinality(runs) <= 2
    /\ \A r, s \in runs : r.period = s.period => r = s
    /\ paper.kind \in {"none", "list", "erca", "poessa", "payslip"} /\ paper.runs \subseteq runs
    /\ waiting \in {"none", "payslip", "zip", "month"}
    /\ stretch \in Seq(Shifts)

StatementsInit ==
    PayInit /\ runs = {} /\ paper = NoPaper /\ waiting = "none" /\ stretch = << >>

-----------------------------------------------------------------------------
(***************************************************************************)
(* Runs.                                                                   *)
(***************************************************************************)

\* getCurrentPayPeriod of the web client: the first of the month to the day of the cut-off.
\* The dates are of the browser's clock and written in UTC: ahead of UTC, the day before.
ClientPeriod(m, late, ahead) ==
    [start |-> IF ahead THEN First(m) - 3 ELSE First(m),
     end   |-> IF late /\ ~ahead THEN Last(m) ELSE First(m) + 1]

\* parsePeriod: the whole month.
DraftPeriod(m) == [start |-> First(m), end |-> Last(m)]

\* A run is calculated by the job or drafted; no two have one period.
CloseRun ==
    /\ line # NoLine /\ pay \in BookedPays /\ Cardinality(runs) < 2 /\ stretch = << >>
    /\ \E m \in Months, late, ahead \in BOOLEAN,
          status \in {"COMPLETED", "DRAFT", "OWNER_APPROVED"} :
        LET period == IF way = "job" THEN ClientPeriod(m, late, ahead) ELSE DraftPeriod(m)
        IN  /\ (way = "job") = (status = "COMPLETED") /\ way \in {"job", "draft"}
            /\ \A r \in runs : r.period # period
            /\ runs' = runs \cup {[period |-> period, status |-> status, pay |-> pay,
                                   capped |-> way = "draft" \/ pay.capped, line |-> line]}
    /\ pay' = [base |-> 0, transport |-> 0, position |-> 0, capped |-> TRUE]
    /\ way' = "none" /\ line' = NoLine
    /\ UNCHANGED <<paper, waiting, stretch>>

\* The sum of a function's values.
Total(f) ==
    MapThenFoldSet(LAMBDA x, y : x + y, 0, LAMBDA x : f[x], LAMBDA T : CHOOSE x \in T : TRUE,
                   DOMAIN f)

-----------------------------------------------------------------------------
(***************************************************************************)
(* Documents.                                                              *)
(***************************************************************************)

\* The runs of which ErcaReportService and PoessaReportService take the lines, whatever
\* their status: those within a month, which ends for them with a full second.
ErcaRuns(m) == {r \in runs : r.period.start >= First(m) /\ r.period.end <= First(m) + 3}
PoessaRuns(m) == {r \in runs : r.period.start >= First(m) /\ r.period.end <= First(m) + 3}

ErcaSheet(m) ==
    LET S       == ErcaRuns(m)
        gross   == Total([r \in S |-> r.line.gross])
        pension == Total([r \in S |-> r.line.pension])
    IN  [kind |-> "erca", month |-> m, runs |-> S, gross |-> gross, pension |-> pension,
         rest |-> gross - pension, sum |-> Total([r \in S |-> r.line.tax])]

PoessaSheet(m) ==
    LET S        == PoessaRuns(m)
        pension  == Total([r \in S |-> r.line.pension])
        employer == Total([r \in S |-> r.line.employer])
    IN  [kind |-> "poessa", month |-> m, runs |-> S,
         gross |-> Total([r \in S |-> r.line.gross]), pension |-> pension,
         rest |-> employer, sum |-> pension + employer]

\* The month of which a run's sheets are made.
MonthOf(r) == r.period.start \div 5

\* GET reports/runs: drafts and failed runs are not listed.
Listed == {r \in runs : r.status \in {"COMPLETED", "OWNER_APPROVED", "PAID", "AI_AUDITED",
                                      "PROCESSING_PAYOUT"}}

ListRuns ==
    /\ paper' = [NoPaper EXCEPT !.kind = "list", !.runs = Listed]
    /\ UNCHANGED <<payVars, runs, waiting, stretch>>

\* The printable payslip shows the base salary as the gross, ...
Earnings(r) == r.pay.base

\* ... and the shares of the tax authority and of the pension fund.
Deductions(r) == r.line.tax + r.line.pension

Payslip(r) ==
    [kind |-> "payslip", month |-> 0, runs |-> {r}, gross |-> Earnings(r),
     pension |-> r.line.pension, rest |-> Deductions(r), sum |-> r.line.net]

\* The page of reports: of the runs listed one is chosen, and the payslip of its first line
\* or a sheet of its month is opened.
Open(document) ==
    /\ paper.kind = "list"
    /\ paper' = document
    /\ UNCHANGED <<payVars, runs, waiting, stretch>>

OpenPayslip  == \E r \in paper.runs : Open(Payslip(r))
ExportErca   == \E r \in paper.runs : Open(ErcaSheet(MonthOf(r)))
ExportPoessa == \E r \in paper.runs : Open(PoessaSheet(MonthOf(r)))

\* A PDF waits for the end of a document that would only be ended afterwards, so that no
\* answer comes: not for one payslip, ...
WaitFor(kind) ==
    /\ waiting = "none" /\ paper = NoPaper /\ runs # {}
    /\ waiting' = kind
    /\ UNCHANGED <<payVars, runs, paper, stretch>>

AskPayslip == WaitFor("payslip")

\* ... nor for all payslips of a run, ...
AskZip == WaitFor("zip")

\* ... nor for the summary of a month.
AskMonth == WaitFor("month")

-----------------------------------------------------------------------------
(***************************************************************************)
(* Overtime.  A shift says at which hour it began, how many hours it took, *)
(* whether the day was a holiday or a Sunday, and how many such days there *)
(* were in the month.  Pay is counted in hundredths of an hour's wage.     *)
(***************************************************************************)

Overtime(s) == IF s.hours > 8 THEN s.hours - 8 ELSE 0
Paid(s) == IF Overtime(s) > 2 THEN 2 ELSE Overtime(s)

\* The hour at which the shift ended makes it one of day or night.
Multiplier(s) ==
    LET hour == (s.from + s.hours) % 24
    IN  CASE s.kind = "holiday" -> 250
          [] s.kind = "sunday"  -> 200
          [] s.kind = "work"    -> IF hour >= 22 \/ hour < 6 THEN 175 ELSE 150

PaidFor(s) == s.days * Paid(s) * Multiplier(s)

\* calculateOvertime.
Calculated(days) ==
    LET total == Total([i \in DOMAIN days |-> days[i].days * Paid(days[i])])
    IN  [hours |-> total, pay |-> Total([i \in DOMAIN days |-> PaidFor(days[i])]),
         violations |-> {v \in {"DAILY_LIMIT", "MONTHLY_LIMIT"} :
             IF v = "DAILY_LIMIT" THEN \E i \in DOMAIN days : Overtime(days[i]) > 2
                                  ELSE total > 20}]

WorkDays(s) ==
    /\ line = NoLine /\ runs = {} /\ Len(stretch) < 2
    /\ stretch' = Append(stretch, s)
    /\ UNCHANGED <<payVars, runs, paper, waiting>>

-----------------------------------------------------------------------------
PayFirst ==
    /\ stretch = << >> /\ waiting = "none" /\ Cardinality(runs) < 2 /\ PayNext
    /\ runs # {} => pay' \in BookedPays
    /\ UNCHANGED paperVars

StatementsNext ==
    \/ PayFirst
    \/ CloseRun
    \/ ListRuns \/ OpenPayslip \/ ExportErca \/ ExportPoessa
    \/ AskPayslip \/ AskZip \/ AskMonth
    \/ \E s \in Shifts : WorkDays(s)

StatementsSpec == StatementsInit /\ [][StatementsNext]_statementVars

-----------------------------------------------------------------------------
(***************************************************************************)
(* Properties.                                                             *)
(***************************************************************************)

\* Nobody's tax is declared for two months, the tax authority and the pension fund hear of
\* the same lines, and a run that the browser of a client at UTC cut off before the end of
\* its month is in the sheets of that month.
DeclaredOnce ==
    /\ \A m, n \in Months : m # n => ErcaRuns(m) \cap ErcaRuns(n) = {}
    /\ \A m \in Months :
        /\ ErcaRuns(m) = PoessaRuns(m)
        /\ \A r \in runs : r.period = ClientPeriod(m, FALSE, FALSE) => r \in ErcaRuns(m)

\* What is sent to the pension fund is 18 percent of the insured salaries, but for the
\* rounding of each share.
FundGetsItsShare ==
    LET insured(r) == IF r.capped THEN AtMost(r.pay.base, PensionCap) ELSE r.pay.base
        due == Total([r \in paper.runs |-> Percent(insured(r), 18)])
    IN  paper.kind = "poessa" => paper.sum - due \in -2 * Santim .. 2 * Santim

\* A payslip of a pay without allowances adds up.
PayslipAddsUp ==
    paper.kind = "payslip" =>
        \A r \in paper.runs : r.pay.transport + r.pay.position = 0 =>
            paper.gross - paper.rest - paper.sum \in -Santim .. Santim

\* Whoever stays an hour longer gets no less, until six in the morning, when night turns
\* into day; and all of the overtime is paid unless a limit is reported as broken.
StayingPays ==
    \A i \in DOMAIN stretch :
        LET s == stretch[i]
            longer == [stretch EXCEPT ![i].hours = @ + 1]
        IN  /\ (s.from + s.hours + 1) % 24 # 6 => Calculated(longer).pay >= Calculated(stretch).pay
            /\ Calculated(stretch).violations = {} => Paid(s) = Overtime(s)

StatementsSound == DeclaredOnce /\ FundGetsItsShare /\ PayslipAddsUp /\ StayingPays

=============================================================================

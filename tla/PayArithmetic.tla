---------------------------- MODULE PayArithmetic ----------------------------
(***************************************************************************)
(* What one employee's pay comes to: in the background calculation (the    *)
(* job), in the draft run of generateCompletePayrollRun (the draft), in    *)
(* the tax engine that is to replace them, and in the preview of the web   *)
(* client.                                                                 *)
(* Amounts of money are whole numbers of hundredths of a santim; salaries  *)
(* come in steps of 20 santim, so that no product has a fraction.  What    *)
(* the tables store is rounded to the santim.  The draft computes with     *)
(* floating-point numbers in the code and exactly here.                    *)
(* Left out: pension rates other than 7 and 11 percent.                    *)
(***************************************************************************)
EXTENDS Integers, Sequences

CONSTANTS
    Salaries,  \* base salaries, in birr, tried with one step less and more (a bound)
    Allowances \* allowances for transport and for the position, in birr (a bound)

ASSUME PayAssumption == Salaries \subseteq Nat \ {0} /\ Allowances \subseteq Nat

VARIABLES
    pay, \* an employee's base salary and allowances, and whether the pension is capped
    way, \* how it is calculated
    line \* the payroll line, or NoLine

payVars == <<pay, way, line>>

Santim == 100
Birr   == 100 * Santim
Step   == 20 * Santim

Percent(n, p) == ((n \div 20) * p) \div 5
Rounded(n) == ((n + Santim \div 2) \div Santim) * Santim
AtMost(n, m) == IF n < m THEN n ELSE m

PensionCap == 15000 * Birr

NoLine == [gross |-> 0, tax |-> 0, pension |-> 0, employer |-> 0, net |-> 0]

PayTypeOK ==
    /\ pay \in [base : Nat, transport : Nat, position : Nat, capped : BOOLEAN]
    /\ way \in {"none", "job", "draft", "engine", "preview"}
    /\ line \in [{"gross", "tax", "pension", "employer", "net"} -> Nat]
    /\ line # NoLine => line.net <= line.gross

PayInit ==
    /\ pay = [base |-> 0, transport |-> 0, position |-> 0, capped |-> TRUE]
    /\ way = "none" /\ line = NoLine

-----------------------------------------------------------------------------
(***************************************************************************)
(* The schedules.                                                          *)
(***************************************************************************)

\* The bracket of an income is the first whose bound it does not exceed; the last
\* bracket has none.
Bracket(schedule, n) ==
    CHOOSE i \in DOMAIN schedule :
        /\ i = Len(schedule) \/ n <= schedule[i].max * Birr
        /\ \A j \in 1 .. i - 1 : n > schedule[j].max * Birr

\* ETHIOPIAN_INCOME_TAX_BRACKETS of the job; deductions in tenths of a birr.
JobSchedule == <<
    [max |-> 600,   rate |-> 0,  deduct |-> 0],
    [max |-> 1650,  rate |-> 10, deduct |-> 600],
    [max |-> 3200,  rate |-> 15, deduct |-> 1425],
    [max |-> 5250,  rate |-> 20, deduct |-> 3025],
    [max |-> 7800,  rate |-> 25, deduct |-> 5650],
    [max |-> 10900, rate |-> 30, deduct |-> 9550],
    [max |-> 0,     rate |-> 35, deduct |-> 15000]>>

\* calculateEthiopianTax of the web client.
PreviewSchedule == <<
    [max |-> 2000,  rate |-> 0,  deduct |-> 0],
    [max |-> 4000,  rate |-> 15, deduct |-> 3000],
    [max |-> 7000,  rate |-> 20, deduct |-> 5000],
    [max |-> 10000, rate |-> 25, deduct |-> 8500],
    [max |-> 14000, rate |-> 30, deduct |-> 13500],
    [max |-> 0,     rate |-> 35, deduct |-> 20500]>>

\* A rate on all of the income, less a deduction.
TaxByDeduction(schedule, n) ==
    LET b   == schedule[Bracket(schedule, n)]
        tax == Percent(n, b.rate) - b.deduct * (Birr \div 10)
    IN  IF tax > 0 THEN tax ELSE 0

\* Mutant: a bracket begins with less tax than the one before ends with.
DraftScheduleSlipped == <<
    [max |-> 2000,  rate |-> 0,  over |-> 0,     tax |-> 0],
    [max |-> 4000,  rate |-> 15, over |-> 2000,  tax |-> 0],
    [max |-> 7000,  rate |-> 20, over |-> 4000,  tax |-> 300],
    [max |-> 10000, rate |-> 25, over |-> 7000,  tax |-> 900],
    [max |-> 14000, rate |-> 30, over |-> 10000, tax |-> 1560],
    [max |-> 0,     rate |-> 35, over |-> 14000, tax |-> 2850]>>

\* calculateEthiopianIncomeTax of the draft.
DraftSchedule == <<
    [max |-> 2000,  rate |-> 0,  over |-> 0,     tax |-> 0],
    [max |-> 4000,  rate |-> 15, over |-> 2000,  tax |-> 0],
    [max |-> 7000,  rate |-> 20, over |-> 4000,  tax |-> 300],
    [max |-> 10000, rate |-> 25, over |-> 7000,  tax |-> 900],
    [max |-> 14000, rate |-> 30, over |-> 10000, tax |-> 1650],
    [max |-> 0,     rate |-> 35, over |-> 14000, tax |-> 2850]>>

\* A tax on what lies below the bracket, and a rate on the rest.
TaxByBand(schedule, n) ==
    LET b == schedule[Bracket(schedule, n)]
    IN  b.tax * Birr + Percent(n - b.over * Birr, b.rate)

-----------------------------------------------------------------------------
(***************************************************************************)
(* The lines.                                                              *)
(***************************************************************************)

\* PayrollProcessor: pension on the base salary, and tax on what remains of the whole
\* pay without the exempt part of the transport allowance.  The database rounds.
JobLine(p) ==
    LET exempt  == AtMost(p.transport, AtMost(p.base \div 4, 2200 * Birr))
        gross   == p.base + p.transport + p.position
        insured == IF p.capped THEN AtMost(p.base, PensionCap) ELSE p.base
        pension == Percent(insured, 7)
        tax     == TaxByDeduction(JobSchedule, gross - pension - exempt)
    IN  [gross |-> gross, tax |-> Rounded(tax), pension |-> Rounded(pension),
         employer |-> Rounded(Percent(insured, 11)), net |-> Rounded(gross - pension - tax)]

\* calculateNetSalary: the base salary only, and tax on all of it.
DraftLine(p) ==
    LET insured == AtMost(p.base, PensionCap)
        pension == Rounded(Percent(insured, 7))
        tax     == Rounded(TaxByBand(DraftSchedule, p.base))
    IN  [gross |-> p.base, tax |-> tax, pension |-> pension,
         employer |-> Rounded(Percent(insured, 11)), net |-> p.base - tax - pension]

\* ERCA_BRACKETS of the engine: the figures of the draft.
EngineSchedule == DraftSchedule

\* calculateErcaEmploymentTax: 600 birr of the transport allowance are exempt, the pension
\* lessens what is taxed, and each amount is rounded by itself.  The position allowance
\* stands for those for housing and overtime.
EngineLine(p) ==
    LET exempt  == AtMost(p.transport, 600 * Birr)
        gross   == p.base + p.transport + p.position
        insured == AtMost(p.base, PensionCap)
        pension == Rounded(Percent(insured, 7))
        tax     == Rounded(TaxByBand(EngineSchedule, gross - exempt - pension))
    IN  [gross |-> gross, tax |-> tax, pension |-> pension,
         employer |-> Rounded(Percent(insured, 11)), net |-> gross - tax - pension]

\* The ledger and the "wizard" of the payroll page: of the base salary only, with the cap
\* that the draft's pension has unless the settings say otherwise.  Nothing is rounded.
PreviewLine(p) ==
    LET insured == AtMost(p.base, PensionCap)
        pension == Percent(insured, 7)
        tax     == TaxByDeduction(PreviewSchedule, p.base - pension)
    IN  [gross |-> p.base, tax |-> tax, pension |-> pension,
         employer |-> Percent(insured, 11), net |-> p.base - pension - tax]

LineOf(w, p) ==
    CASE w = "job"     -> JobLine(p)
      [] w = "draft"   -> DraftLine(p)
      [] w = "engine"  -> EngineLine(p)
      [] w = "preview" -> PreviewLine(p)

\* The pay of one employee is calculated.
Calculate(w, p) ==
    /\ line = NoLine
    /\ pay' = p /\ way' = w
    /\ line' = LineOf(w, p)

PayNext ==
    \E w \in {"job", "draft", "engine", "preview"},
       salary \in Salaries, step \in {-Step, 0, Step}, transport, position \in Allowances, capped \in BOOLEAN :
        Calculate(w, [base |-> salary * Birr + step, transport |-> transport * Birr,
                      position |-> position * Birr, capped |-> capped])

PaySpec == PayInit /\ [][PayNext]_payVars

-----------------------------------------------------------------------------
(***************************************************************************)
(* Properties.                                                             *)
(***************************************************************************)

\* What the employee gets, owes and pays makes up the whole pay, but for the rounding of
\* each by itself: at most one santim.
AddsUp ==
    LET rest == line.gross - line.tax - line.pension - line.net
    IN  rest \in -Santim .. Santim

\* Whoever earns more gets no less, also where a bracket, the cap of the pension or the
\* exemption of the allowance begins and ends.
RaisePays ==
    \A more \in {Step, 500 * Birr} :
        /\ LineOf(way, [pay EXCEPT !.base = @ + more]).net >= line.net
        /\ LineOf(way, [pay EXCEPT !.transport = @ + more]).net >= line.net

\* The preview's formula, a rate less a deduction, is that of the draft, a tax on each band.
PreviewIsSchedule ==
    TaxByDeduction(PreviewSchedule, pay.base) = TaxByBand(DraftSchedule, pay.base)

PaySound == line # NoLine => AddsUp /\ RaisePays /\ PreviewIsSchedule

\* payroll.processor.ts:143 "Employment Income Tax (Proclamation 1395/2025 - Schedule A)"
\* and tax.calculator.ts:11 "defined in Proclamation No. 1395/2025 (Schedule A)".  So the
\* two charge the same income alike.
OneSchedule ==
    line # NoLine =>
        TaxByDeduction(JobSchedule, pay.base) = TaxByBand(DraftSchedule, pay.base)

=============================================================================

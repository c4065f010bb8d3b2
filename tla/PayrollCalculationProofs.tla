----------------------- MODULE PayrollCalculationProofs -----------------------
(***************************************************************************)
(* What holds of the calculation for any number of employees, calls,       *)
(* workers and stalls and any environment.                                 *)
(*                                                                         *)
(* Two arguments carry it.  The report of a run is unique and is never     *)
(* deleted, so at most one worker is ever past the audit, and what that    *)
(* worker still has to write together with what is written is one line     *)
(* each (LinesInv).  And until the queue takes the job back, it was        *)
(* started once, so one worker alone is responsible for the run (SoloInv). *)
(***************************************************************************)
EXTENDS PayrollCalculation, TLAPS

Expected == active \ flagged

\* Only one worker is past the audit; lines exist only after it.
LinesInv ==
    /\ ~report => /\ flagged = {}
                  /\ \A e \in Employee : rows[e] = 0
                  /\ \A w \in Worker : pc[w] # "lines"
    /\ \A v, w \in Worker : pc[v] = "lines" /\ pc[w] = "lines" => v = w
    /\ \A e \in Employee : rows[e] <= 1 /\ (rows[e] = 1 => e \in Expected)
    /\ \A w \in Worker : pc[w] = "lines" =>
          /\ todo[w] \subseteq Expected
          /\ \A e \in todo[w] : rows[e] = 0

\* Until the job is taken back, one worker has started it at most.
SoloInv ==
    stalls = 0 =>
        /\ \A v, w \in Worker : pc[v] # "idle" /\ pc[w] # "idle" => v = w
        /\ job \in {"none", "waiting"} =>
              /\ \A w \in Worker : pc[w] = "idle"
              /\ status # "COMPLETED"
        /\ \A w \in Worker : pc[w] \notin {"idle", "return"} => status # "COMPLETED"
        /\ \A w \in Worker : pc[w] = "lines" =>
              \A e \in Expected : e \in todo[w] \/ rows[e] = 1
        /\ status = "COMPLETED" => \A e \in Expected : rows[e] = 1

\* There is no job before there is a run.
TriggerInv ==
    status = NoRun =>
        /\ job = "none"
        /\ \A r \in Request : request[r] # "enqueue"
        /\ \A w \in Worker : pc[w] = "idle"

CalcInv == CalcTypeOK /\ LinesInv /\ SoloInv /\ TriggerInv

-----------------------------------------------------------------------------
(***************************************************************************)
(* CalcInv is inductive.                                                   *)
(***************************************************************************)

\* CalcInv holds before anybody asks for the run.
LEMMA CalcInvInit == CalcInit => CalcInv
  <1> SUFFICES ASSUME CalcInit PROVE CalcInv
    OBVIOUS
  <1>1. CalcTypeOK
    <2>1. /\ status = NoRun /\ report = FALSE /\ flagged \subseteq active
          /\ stalls \in 0..MaxStalls /\ job \in JobState /\ active \subseteq Employee
      BY CalculationAssumption DEF CalcInit, JobState
    <2>2. rows \in [Employee -> Nat]
      BY DEF CalcInit
    <2>3. request \in [Request -> RequestStep] /\ pc \in [Worker -> WorkerStep]
      BY DEF CalcInit, RequestStep, WorkerStep
    <2>4. todo \in [Worker -> SUBSET active]
      BY DEF CalcInit
    <2> QED BY <2>1, <2>2, <2>3, <2>4 DEF CalcTypeOK
  <1>2. LinesInv /\ TriggerInv
    BY DEF CalcInit, LinesInv, TriggerInv
  <1>3. SoloInv
    BY DEF CalcInit, SoloInv, NoRun
  <1> QED BY <1>1, <1>2, <1>3 DEF CalcInv

\* The endpoint keeps CalcInv, however its two calls are cut off.
LEMMA CallStep ==
  ASSUME CalcInv, NEW r \in Request, Trigger(r) \/ TriggerEnqueue(r) \/ TriggerDies(r)
  PROVE  CalcInv'
  <1> USE CalculationAssumption
      DEF CalcInv, CalcTypeOK, LinesInv, SoloInv, TriggerInv, Expected, NoRun,
          RequestStep, JobState, WorkerStep
  <1>1. CASE Trigger(r)
    BY <1>1 DEF Trigger
  <1>2. CASE TriggerEnqueue(r)
    BY <1>2 DEF TriggerEnqueue
  <1>3. CASE TriggerDies(r)
    BY <1>3 DEF TriggerDies
  <1> QED BY <1>1, <1>2, <1>3

\* A step of one worker keeps CalcInv, whatever the others are doing.
LEMMA ProcessStep == ASSUME CalcInv, NEW w \in Worker, Process(w) PROVE CalcInv'
  <1> USE CalculationAssumption
      DEF CalcInv, CalcTypeOK, LinesInv, SoloInv, TriggerInv, Expected, NoRun,
          RequestStep, JobState, WorkerStep, Goes, Release
  <1>1. CASE Start(w)
    BY <1>1 DEF Start
  <1>2. CASE CleanUp(w)
    BY <1>2 DEF CleanUp
  <1>3. CASE MarkProcessing(w)
    BY <1>3 DEF MarkProcessing
  <1>4. CASE Audit(w)
    BY <1>4 DEF Audit
  <1>5. CASE AuditConflict(w)
    BY <1>5 DEF AuditConflict
  <1>6. ASSUME NEW e \in Employee, CreateLine(w, e) PROVE CalcInv'
    BY <1>6 DEF CreateLine
  <1>7. CASE Complete(w)
    BY <1>7 DEF Complete
  <1>8. CASE Throw(w)
    BY <1>8 DEF Throw
  <1>9. CASE CatchCleanUp(w)
    BY <1>9 DEF CatchCleanUp
  <1>10. CASE MarkFailed(w)
    BY <1>10 DEF MarkFailed
  <1>11. CASE Return(w)
    BY <1>11 DEF Return
  <1>12. CASE MarkFailedThrows(w)
    BY <1>12 DEF MarkFailedThrows
  <1>13. CASE Die(w)
    BY <1>13 DEF Die
  <1>14. CASE Stalled(w)
    BY <1>14 DEF Stalled
  <1> QED
    BY <1>1, <1>2, <1>3, <1>4, <1>5, <1>6, <1>7, <1>8, <1>9, <1>10, <1>11,
       <1>12, <1>13, <1>14 DEF Process

\* CalcInv holds in every reachable state.
THEOREM CalcInvariance == CalcSpec => []CalcInv
  <1>1. CalcInv /\ [CalcNext]_calcVars => CalcInv'
    <2> SUFFICES ASSUME CalcInv, [CalcNext]_calcVars PROVE CalcInv'
      OBVIOUS
    <2>1. CASE UNCHANGED calcVars
      BY <2>1 DEF calcVars, CalcInv, CalcTypeOK, LinesInv, SoloInv, TriggerInv, Expected
    <2>2. CASE CalcNext
      BY <2>2, CallStep, ProcessStep DEF CalcNext
    <2> QED BY <2>1, <2>2
  <1> QED BY <1>1, CalcInvInit, PTL DEF CalcSpec

-----------------------------------------------------------------------------
(***************************************************************************)
(* What the runs of PayrollCalculation check on a small instance.          *)
(***************************************************************************)

\* Type correctness.
THEOREM CalcTypeCorrect == CalcSpec => []CalcTypeOK
  <1>1. CalcInv => CalcTypeOK
    BY DEF CalcInv
  <1> QED BY <1>1, CalcInvariance, PTL

\* Two workers that calculate one run at the same time write no line twice.
THEOREM OneLineEach == CalcSpec => []NoDuplicateLine
  <1>1. CalcInv => NoDuplicateLine
    BY DEF CalcInv, CalcTypeOK, LinesInv, Expected, NoDuplicateLine
  <1> QED BY <1>1, CalcInvariance, PTL

\* No salary is calculated before the audit's report is stored.
THEOREM AuditFirst == CalcSpec => []LinesAreAudited
  <1>1. CalcInv => LinesAreAudited
    BY DEF CalcInv, CalcTypeOK, LinesInv, LinesAreAudited
  <1> QED BY <1>1, CalcInvariance, PTL

\* As long as the job was not taken back, a completed run has exactly the lines
\* it should have.
THEOREM CompletionIsExact == CalcSpec => []CompletedIsExact
  <1>1. CalcInv => CompletedIsExact
    BY DEF CalcInv, CalcTypeOK, LinesInv, SoloInv, Expected, CompletedIsExact
  <1> QED BY <1>1, CalcInvariance, PTL

=============================================================================

---------------------------- MODULE WorkplaceProofs ----------------------------
(*************************************************************************)
(* That the modules that are run together are sound together, for any    *)
(* values of their constants.  They share no tables, so a step of the    *)
(* whole is one of the module at work, and leaves every other one as it  *)
(* is: StepsApart.  Hence the invariants of all of them hold at once,    *)
(* whichever is at work, and what is checked of them together follows    *)
(* from what each proof module shows of its own.                         *)
(*************************************************************************)
EXTENDS MCWorkplace, StaffProofs, AttendanceProofs, AccessProofs, PageProofs

\* What holds of each module, whether it is at work or not.
StaffInv  == DirectoryInv /\ MembersInv /\ AccessInv /\ StatementsInv
TimeInv   == FieldInv /\ UssdInv /\ LeaveInv /\ LeaveFormsInv
SignInInv == SessionInv /\ PhoneInv /\ PinInv /\ IdemInv /\ IsolationInv /\ GuardInv
PagesInv  == FormInv /\ ListInv /\ ScreenInv /\ AlertsInv

\* Together.
WorkplaceInv == StaffInv /\ TimeInv /\ SignInInv /\ PagesInv

\* The invariants hold initially, whatever is at work.
LEMMA InitialParts == WorkplaceInit => WorkplaceInv
<1> SUFFICES ASSUME WorkplaceInit PROVE WorkplaceInv
  OBVIOUS
<1>1. /\ CalmInit /\ DirectoryInit /\ LeaveInit /\ FieldInit /\ UssdInit /\ AccessInit
      /\ SessionInit /\ IdemInit /\ FormInit /\ ListInit /\ IsolationInit /\ ScreenInit
      /\ PinInit /\ PhoneInit /\ MembersInit /\ LeaveFormsInit /\ AlertsInit /\ StatementsInit
      /\ GuardInit
  BY DEF WorkplaceInit
<1>2. StaffInv
  BY <1>1, DirectoryInitially, MembersInitially, AccessInitially, StatementsInitially
  DEF StaffInv
<1>3. TimeInv
  BY <1>1, FieldInitially, UssdInitially, LeaveInitially, LeaveFormsInitially DEF TimeInv
<1>4. SignInInv
  BY <1>1, SessionInitially, PhoneInitially, PinInitially, IdemInvInitially,
     IsolationInitially, GuardInitially DEF SignInInv
<1>5. PagesInv
  BY <1>1, FormInitially, ListInitially, ScreenInitially, AlertsInitially DEF PagesInv
<1> QED
  BY <1>2, <1>3, <1>4, <1>5 DEF WorkplaceInv

\* No step changes what kind of history it is.
LEMMA WorkplaceCalm == WorkplaceNext => calm' = calm
<1> SUFFICES ASSUME WorkplaceNext PROVE calm' = calm
  OBVIOUS
<1>1. CASE focus = "pay"
  BY <1>1 DEF WorkplaceNext, OthersIdle
<1>2. CASE focus # "pay"
  BY <1>2, DirectoryCalm, LeaveCalm, FieldCalm, UssdCalm, AccessCalm, SessionCalm, IdemCalm,
     FormCalm, ListCalm, IsolationCalm, ScreenCalm, PinCalm, PhoneCalm, MembersCalm,
     LeaveFormsCalm, AlertsCalm, GuardCalm DEF WorkplaceNext
<1> QED
  BY <1>1, <1>2

\* A step of the whole is one of each module, or leaves the module as it is.
LEMMA StepsApart ==
    ASSUME [WorkplaceNext]_workplaceVars
    PROVE  /\ [DirectoryNext]_<<directoryVars, calm>> /\ [MembersNext]_<<calm, memberVars>>
           /\ [AccessNext]_<<accessVars, calm>> /\ [FieldNext]_<<fieldVars, calm>>
           /\ [UssdNext]_<<ussdVars, calm>> /\ [LeaveNext]_<<leaveVars, calm>>
           /\ [LeaveFormsNext]_<<leafVars, calm>> /\ [SessionNext]_<<sessionVars, calm>>
           /\ [PhoneNext]_<<calm, phoneVars>> /\ [PinNext]_<<calm, pinVars>>
           /\ [IdemNext]_<<idemVars, calm>> /\ [IsolationNext]_<<isolationVars, calm>>
           /\ [FormNext]_<<formVars, calm>> /\ [ListNext]_<<listVars, calm>>
           /\ [ScreenNext]_<<calm, screenVars>> /\ [AlertsNext]_<<alertVars, calm>>
           /\ [GuardNext]_<<guardVars, calm>> /\ [StatementsNext]_statementVars
<1>1. CASE WorkplaceNext
  <2>1. calm' = calm
    BY <1>1, WorkplaceCalm
  <2>2. OthersIdle
    BY <1>1 DEF WorkplaceNext
  <2>3. /\ focus = "directory" => DirectoryNext
        /\ focus = "members" => MembersNext
        /\ focus = "access" => AccessNext
        /\ focus = "field" => FieldNext
        /\ focus = "ussd" => UssdNext
        /\ focus = "leave" => LeaveNext
        /\ focus = "leave forms" => LeaveFormsNext
        /\ focus = "session" => SessionNext
        /\ focus = "phone" => PhoneNext
        /\ focus = "pins" => PinNext
        /\ focus = "idempotency" => IdemNext
        /\ focus = "isolation" => IsolationNext
        /\ focus = "settings" => FormNext
        /\ focus = "lists" => ListNext
        /\ focus = "screen" => ScreenNext
        /\ focus = "alerts" => AlertsNext
        /\ focus = "pay" => StatementsNext
        /\ focus = "guard" => GuardNext
    BY <1>1 DEF WorkplaceNext
  <2>4. /\ [DirectoryNext]_<<directoryVars, calm>> /\ [MembersNext]_<<calm, memberVars>>
        /\ [AccessNext]_<<accessVars, calm>> /\ [FieldNext]_<<fieldVars, calm>>
    BY <2>1, <2>2, <2>3 DEF OthersIdle
  <2>5. /\ [UssdNext]_<<ussdVars, calm>> /\ [LeaveNext]_<<leaveVars, calm>>
        /\ [LeaveFormsNext]_<<leafVars, calm>> /\ [SessionNext]_<<sessionVars, calm>>
    BY <2>1, <2>2, <2>3 DEF OthersIdle
  <2>6. /\ [PhoneNext]_<<calm, phoneVars>> /\ [PinNext]_<<calm, pinVars>>
        /\ [IdemNext]_<<idemVars, calm>> /\ [IsolationNext]_<<isolationVars, calm>>
    BY <2>1, <2>2, <2>3 DEF OthersIdle
  <2>7. /\ [FormNext]_<<formVars, calm>> /\ [ListNext]_<<listVars, calm>>
        /\ [ScreenNext]_<<calm, screenVars>> /\ [AlertsNext]_<<alertVars, calm>>
    BY <2>1, <2>2, <2>3 DEF OthersIdle
  <2>8. [GuardNext]_<<guardVars, calm>> /\ [StatementsNext]_statementVars
    BY <2>1, <2>2, <2>3 DEF OthersIdle
  <2> QED
    BY <2>4, <2>5, <2>6, <2>7, <2>8
<1>2. CASE UNCHANGED workplaceVars
  BY <1>2 DEF workplaceVars
<1> QED
  BY <1>1, <1>2

\* WorkplaceInv is inductive.
LEMMA WorkplaceStep == WorkplaceInv /\ [WorkplaceNext]_workplaceVars => WorkplaceInv'
<1> SUFFICES ASSUME WorkplaceInv, [WorkplaceNext]_workplaceVars PROVE WorkplaceInv'
  OBVIOUS
<1>1. StaffInv'
  BY StepsApart, DirectoryStep, MembersStep, AccessStep, StatementsStep, StatementsCalm
  DEF WorkplaceInv, StaffInv
<1>2. TimeInv'
  BY StepsApart, FieldStep, UssdStep, LeaveStep, LeaveFormsStep DEF WorkplaceInv, TimeInv
<1>3. SignInInv'
  BY StepsApart, SessionStep, PhoneStep, PinStep, IdemInvKept, IsolationStep, GuardStep
  DEF WorkplaceInv, SignInInv
<1>4. PagesInv'
  BY StepsApart, FormStep, ListStep, ScreenStep, AlertsStep DEF WorkplaceInv, PagesInv
<1> QED
  BY <1>1, <1>2, <1>3, <1>4 DEF WorkplaceInv

\* The invariants of all modules hold in every state, whichever is at work.
THEOREM WorkplaceInvariance == WorkplaceSpec => []WorkplaceInv
  BY InitialParts, WorkplaceStep, PTL DEF WorkplaceSpec

\* Everybody who works has a department that exists (EmployeeService), and everybody who
\* signs in has one workspace, and the role that was offered if requests do not overlap
\* (AuthService, InternalService).
THEOREM EverybodyBelongs == WorkplaceSpec => []EveryoneBelongs
<1>1. WorkplaceInv => EveryoneBelongs
  BY MembersImplied DEF WorkplaceInv, StaffInv, DirectoryInv, EveryoneBelongs
<1> QED
  BY <1>1, WorkplaceInvariance, PTL

\* If requests do not overlap, what the dashboard caches of the head count
\* (DashboardService.getTenantKPIs) and what RolesService caches of permissions is so.
THEOREM CachesAreCurrent == WorkplaceSpec => []CachesCurrent
<1>1. WorkplaceInv => CachesCurrent
  BY HeadCountKept, AccessImplied DEF WorkplaceInv, StaffInv, CachesCurrent
<1> QED
  BY <1>1, WorkplaceInvariance, PTL

\* LeaveService: if requests do not overlap, nobody has two leaves on one day and the
\* balance is what was granted; and the forms show what was chosen and requested.
THEOREM LeaveIsSound == WorkplaceSpec => []LeaveSound
<1>1. WorkplaceInv => LeaveSound
  BY LeaveImplied, LeaveFormsImplied DEF WorkplaceInv, TimeInv, LeaveSound
<1> QED
  BY <1>1, WorkplaceInvariance, PTL

\* If requests do not overlap, an event is one row of the log, sent again by the app
\* (AttendanceService.syncOfflineEvent) or pressed again in a session of the operator
\* (UssdService).
THEOREM EventsAreLoggedOnce == WorkplaceSpec => []EventLoggedOnce
<1>1. WorkplaceInv => EventLoggedOnce
  BY DEF WorkplaceInv, TimeInv, FieldInv, CalmInv, OneLog, LoggedOnce, UssdInv, EventLoggedOnce
<1> QED
  BY <1>1, WorkplaceInvariance, PTL

\* AuthService, useAuthStore and EmployeeService: where requests do not overlap, sessions
\* of the browser end for good and each has one way to go on, and the PIN that was issued
\* opens; the phone shows whose tokens it has, and what waits for a token is woken.
THEOREM SignInsAreSound == WorkplaceSpec => []SignInsSound
<1>1. WorkplaceInv => SignInsSound
  BY SessionsImplied, PhoneImplied, PinImplied DEF WorkplaceInv, SignInInv, SignInsSound
<1> QED
  BY <1>1, WorkplaceInvariance, PTL

\* DashboardProvider and the other pages that list rows, PayrollEngine and
\* NotificationsSettingsPage: at rest a list is what the server has, however polls and
\* changes have overlapped, unless what is listed or patched was overtaken or lost since
\* the last load that was not; the payroll page is not covered for good and says of a run
\* what is so; and forms without unsaved changes say what was stored.
THEOREM PagesAreSound == WorkplaceSpec => []PagesSound
<1>1. WorkplaceInv => PagesSound
  BY ListImplied, ScreenImplied, AlertsImplied DEF WorkplaceInv, PagesInv, PagesSound
<1> QED
  BY <1>1, WorkplaceInvariance, PTL

\* SettingsProvider: what the server shows in place of a key never becomes the key,
\* nothing is shown that is not stored, and between saves that do not overlap what is
\* shown is what is stored.
THEOREM FormsAreSound == WorkplaceSpec => []FormsSound
<1>1. WorkplaceInv => FormsSound
  BY FormImplied DEF WorkplaceInv, PagesInv
<1> QED
  BY <1>1, WorkplaceInvariance, PTL

\* Whichever way pay is calculated, lines are sound; and so are the documents that are
\* made of them and the overtime (ErcaReportService, PoessaReportService,
\* OvertimeService).
THEOREM WagesAreSound == WorkplaceSpec => []WagesSound
<1>1. WorkplaceInv => WagesSound
  BY StatementsImplied DEF WorkplaceInv, StaffInv, WagesSound
<1> QED
  BY <1>1, WorkplaceInvariance, PTL

\* It stays the same module that is at work.
LEMMA FocusKept == focus \in Focus /\ [WorkplaceNext]_workplaceVars => (focus \in Focus)'
  BY DEF WorkplaceNext, workplaceVars

\* The variables of every module have their types, of the one at work too.
THEOREM WorkplaceTyped == WorkplaceSpec => []WorkplaceTypeOK
<1>1. WorkplaceInit => focus \in Focus
  BY DEF WorkplaceInit
<1>2. WorkplaceInv =>
         /\ DirectoryTypeOK /\ MembersTypeOK /\ AccessTypeOK /\ StatementsTypeOK
         /\ FieldTypeOK /\ UssdTypeOK /\ LeaveTypeOK /\ LeaveFormsTypeOK
         /\ SessionTypeOK /\ PhoneTypeOK /\ PinTypeOK /\ IdemTypeOK /\ IsolationTypeOK
         /\ FormTypeOK /\ ListTypeOK /\ ScreenTypeOK /\ AlertsTypeOK /\ GuardTypeOK
  <2> SUFFICES ASSUME WorkplaceInv
               PROVE  /\ DirectoryTypeOK /\ MembersTypeOK /\ AccessTypeOK /\ StatementsTypeOK
                      /\ FieldTypeOK /\ UssdTypeOK /\ LeaveTypeOK /\ LeaveFormsTypeOK
                      /\ SessionTypeOK /\ PhoneTypeOK /\ PinTypeOK /\ IdemTypeOK
                      /\ IsolationTypeOK /\ GuardTypeOK
                      /\ FormTypeOK /\ ListTypeOK /\ ScreenTypeOK /\ AlertsTypeOK
    OBVIOUS
  <2>1. StaffInv /\ TimeInv /\ SignInInv /\ PagesInv
    BY DEF WorkplaceInv
  <2>2. DirectoryTypeOK /\ MembersTypeOK /\ AccessTypeOK
    BY <2>1 DEF StaffInv, DirectoryInv, MembersInv, AccessInv
  <2>3. StatementsTypeOK
    BY <2>1, StatementsTyped DEF StaffInv
  <2>4. FieldTypeOK /\ UssdTypeOK /\ LeaveTypeOK /\ LeaveFormsTypeOK
    BY <2>1 DEF TimeInv, FieldInv, UssdInv, LeaveInv, LeaveFormsInv
  <2>5. /\ SessionTypeOK /\ PhoneTypeOK /\ PinTypeOK /\ IdemTypeOK /\ IsolationTypeOK
        /\ GuardTypeOK
    BY <2>1 DEF SignInInv, SessionInv, PhoneInv, PinInv, IdemInv, IsolationInv, GuardInv
  <2>6. FormTypeOK /\ ListTypeOK /\ ScreenTypeOK /\ AlertsTypeOK
    BY <2>1 DEF PagesInv, FormInv, ListInv, ScreenInv, AlertsInv
  <2> QED
    BY <2>2, <2>3, <2>4, <2>5, <2>6
<1>3. focus \in Focus /\ WorkplaceInv => WorkplaceTypeOK
  BY <1>2 DEF Focus, WorkplaceTypeOK
<1> QED
  BY <1>1, <1>3, FocusKept, WorkplaceInvariance, PTL DEF WorkplaceSpec

===============================================================================

----------------------------- MODULE MCWorkplace -----------------------------
(***************************************************************************)
(* Instances of the modules about staff and about the client's settings    *)
(* and lists, one of them at a time: they share the server's way of        *)
(* handling requests and no tables, so the initial state chooses which of  *)
(* them works and the others stay as they are.                             *)
(***************************************************************************)
EXTENDS StaffDirectory, LeaveRequests, FieldAttendance, UssdSessions, RolePermissions,
        AuthSessions, IdempotentRequests, PayStatements, SettingsForms, ClientLists,
        TenantIsolation, PayrollScreen, EmployeePins, PhoneSessions, WorkspaceMembers,
        LeaveForms, NotificationForms, LifecycleGuard, TLC

VARIABLE focus

\* The queries of one context and of another: all rows, or one row by its key.
MCQueries ==
    LET context == Tenant \cup {Outside}
        one     == {{r} : r \in Row}
    IN  [context : context, op : {"findMany", "updateMany", "deleteMany"}, targets : {Row},
         claimed : {Outside}]
        \cup [context : context, op : {"findUnique", "update", "delete"}, targets : one,
              claimed : {Outside}]
        \cup [context : context, op : {"create", "upsert"}, targets : one, claimed : Tenant]
        \cup [context : context, op : {"createMany"}, targets : {Row}, claimed : Tenant]

\* A pay over the cap of the pension, and a low one with allowances.
MCBookedPays ==
    {[base |-> p.base * Birr, transport |-> p.transport * Birr, position |-> p.position * Birr,
      capped |-> TRUE] :
        p \in {[base |-> 17000, transport |-> 0, position |-> 0],
               [base |-> 4000, transport |-> 2200, position |-> 3000]}}

\* Days that end in time, with a little and with too much overtime, by day and by night.
MCShifts == [from : {6, 14, 22}, hours : {8, 10, 15}, kind : Kind, days : {1, 11}]

workplaceVars == <<focus, calm, directoryVars, leaveVars, fieldVars, ussdVars, accessVars,
                   sessionVars, idemVars, statementVars, formVars, listVars, isolationVars,
                   screenVars, pinVars, phoneVars, memberVars, leafVars, alertVars,
                   guardVars>>

Focus == {"directory", "leave", "field", "ussd", "access", "session", "idempotency", "pay",
          "settings", "lists", "isolation", "screen", "pins", "phone", "members",
          "leave forms", "alerts", "guard"}

\* What an idle module might choose at the start does not matter, nor which period the
\* payroll page opens with.
WorkplaceInit ==
    /\ focus \in Focus /\ CalmInit
    /\ focus = "pay" => calm
    /\ focus = "leave forms" => calm
    /\ focus = "isolation" => ~calm
    /\ DirectoryInit /\ LeaveInit
    /\ FieldInit /\ (focus # "field" => subject = "user")
    /\ UssdInit /\ AccessInit
    /\ SessionInit /\ (focus # "session" => ~shared)
    /\ IdemInit /\ (focus # "idempotency" => reachable /\ steady /\ prompt)
    /\ StatementsInit
    /\ FormInit
    /\ focus # "settings" =>
        /\ inUse \subseteq {"company", "integrations"} /\ longKey
        /\ stored["integrations"] = Absent
    /\ focus = "settings" /\ ~calm => stored["integrations"] # Absent
    /\ ListInit
    /\ focus # "lists" => listing = Branches /\ answer = [e \in Entry |-> "new"]
    /\ focus = "lists" /\ ~calm => listing \in {Branches, LeaveInbox}
    /\ IsolationInit /\ (focus # "isolation" => dataModel = EmployeeTable)
    /\ ScreenInit /\ period = (CHOOSE r \in Run : TRUE)
    /\ focus # "screen" => withSession
    /\ PinInit /\ (focus # "pins" => legacy = {} /\ issued = [e \in Employed |-> 1])
    /\ PhoneInit /\ (focus # "phone" => recognised)
    /\ focus = "phone" /\ ~calm => ~recognised
    /\ MembersInit
    /\ LeaveFormsInit /\ (focus # "leave forms" => ~ahead)
    /\ AlertsInit /\ (focus # "alerts" => mayManage)
    /\ focus = "alerts" /\ ~calm => ~mayManage
    /\ GuardInit /\ (focus # "guard" => standing = "ACTIVE")
    /\ focus = "guard" => ~calm

\* Bounds: where requests overlap, there is one leave, of one day, and one permission to
\* grant, as of these two modules only the types are asked there; one employee uses the
\* phone and nothing stops; one address is invited, by one link, and nobody browses; the
\* payroll page stays in one period; the dashboard is not opened; one USSD session is
\* used; the gateway has a key from the start; the guard takes no employee for a user, so
\* that tokens are renewed all the time; the company's alerts are closed; no clock runs
\* past its horizon.  Leave is requested from the form or from the phone.  One write at a
\* time is between the look for its row and the row.  A third person is employed only by
\* overlapping requests for one person each in one branch, while nobody is active without
\* a count of the seats or inactive.  Where loads and changes overlap, one row is listed,
\* and three of them are under way at most, on a page that changes its list by the
\* answers or one that loads it again; both load every twenty seconds.  The guard meets
\* two of the three statuses.
OneShortLeave ==
    LET one == CHOOSE r \in LeaveRequest : TRUE
    IN  /\ \A r \in LeaveRequest \ {one} : request[r] = NoRequest
        /\ request[one].first = request[one].last
OneHolder ==
    stops = 0 /\ \A h \in Handler : call[h].of \in {NoHolder, CHOOSE p \in Holder : TRUE}
NoDashboard == kpi = NoCount /\ fill = NoCount
Third == CHOOSE e \in Person : TRUE
TwoPeople == staff[Third] = "none" /\ \A h \in Handler : Third \notin who[h]
OneByOne ==
    /\ unchecked = {} /\ \A e \in Person : staff[e] # "INACTIVE"
    /\ Cardinality(branches) <= 1 /\ \A h \in Handler : Cardinality(who[h]) <= 1
FewPeople == IF calm THEN TwoPeople ELSE NoDashboard /\ (TwoPeople \/ OneByOne)
OneRow ==
    LET one == CHOOSE e \in Entry : TRUE
    IN  /\ \A e \in Entry \ {one} : table[e] = "new" /\ list[e] = <<>>
        /\ \E h \in Handler : load[h].at = "idle" \/ change[h].at = "idle"
        /\ \A h \in Handler : change[h].entry = one
FirstTicks == clock <= LastTick
OneSession == \A h \in Handler : ussdIn[h] \in {"none", CHOOSE s \in Session : TRUE}
OneInvitee ==
    LET one == CHOOSE a \in Address : TRUE
    IN  /\ \A i \in Workspace \X (Address \ {one}) : invites[i].status = None
        /\ Len(links) <= 1 /\ browser = NoBrowser
OneLeaveClient ==
    \/ phoneTypes = 0 /\ phoneRow = "none" /\ row.from # "phone"
       /\ row.status \in {"none", "PENDING"}
    \/ chosen = NoChoice /\ offered = 0 /\ ~ahead
AskedAtLast == figures = NoFigures
OnePermission ==
    /\ \A r \in Role : grants[r] \subseteq BuiltIn
    /\ \A h \in Handler : accessSet[h] \subseteq BuiltIn
TwoStandings == Cardinality(DOMAIN lastHad) <= 2
OnePendingWrite == Cardinality({h \in Handler : found[h] # NoQuery}) <= 1

\* Modules that do not work stay as they are.
OthersIdle ==
    /\ IF focus = "directory"   THEN TRUE ELSE UNCHANGED directoryVars
    /\ IF focus = "leave"       THEN TRUE ELSE UNCHANGED leaveVars
    /\ IF focus = "field"       THEN TRUE ELSE UNCHANGED fieldVars
    /\ IF focus = "ussd"        THEN TRUE ELSE UNCHANGED ussdVars
    /\ IF focus = "access"      THEN TRUE ELSE UNCHANGED accessVars
    /\ IF focus = "session"     THEN TRUE ELSE UNCHANGED sessionVars
    /\ IF focus = "idempotency" THEN TRUE ELSE UNCHANGED idemVars
    /\ IF focus = "pay"         THEN UNCHANGED calm ELSE UNCHANGED statementVars
    /\ IF focus = "settings"    THEN TRUE ELSE UNCHANGED formVars
    /\ IF focus = "lists"       THEN TRUE ELSE UNCHANGED listVars
    /\ IF focus = "isolation"   THEN TRUE ELSE UNCHANGED isolationVars
    /\ IF focus = "screen"      THEN TRUE ELSE UNCHANGED screenVars
    /\ IF focus = "pins"        THEN TRUE ELSE UNCHANGED pinVars
    /\ IF focus = "phone"       THEN TRUE ELSE UNCHANGED phoneVars
    /\ IF focus = "members"     THEN TRUE ELSE UNCHANGED memberVars
    /\ IF focus = "leave forms" THEN TRUE ELSE UNCHANGED leafVars
    /\ IF focus = "alerts"      THEN TRUE ELSE UNCHANGED alertVars
    /\ IF focus = "guard"       THEN TRUE ELSE UNCHANGED guardVars

WorkplaceNext ==
    /\ UNCHANGED focus
    /\ \/ focus = "directory"   /\ DirectoryNext /\ FewPeople'
       \/ focus = "leave"       /\ LeaveNext     /\ (calm \/ OneShortLeave)'
       \/ focus = "field"       /\ FieldNext
       \/ focus = "ussd"        /\ UssdNext      /\ (calm \/ OneSession)'
       \/ focus = "access"      /\ AccessNext    /\ (calm \/ OnePermission)'
       \/ focus = "session"     /\ SessionNext   /\ (calm \/ FirstTicks)'
       \/ focus = "idempotency" /\ IdemNext
       \/ focus = "pay"         /\ StatementsNext
       \/ focus = "settings"    /\ FormNext
       \/ focus = "lists"       /\ ListNext      /\ (calm \/ OneRow)'
       \/ focus = "isolation"   /\ IsolationNext /\ OnePendingWrite'
       \/ focus = "screen"      /\ ScreenNext    /\ (calm \/ UNCHANGED period)
       \/ focus = "pins"        /\ PinNext
       \/ focus = "phone"       /\ PhoneNext     /\ (calm \/ OneHolder)'
       \/ focus = "members"     /\ MembersNext   /\ (calm \/ OneInvitee)'
       \/ focus = "leave forms" /\ LeaveFormsNext /\ OneLeaveClient' /\ AskedAtLast
       \/ focus = "alerts"      /\ AlertsNext
       \/ focus = "guard"       /\ GuardNext     /\ TwoStandings'
    /\ OthersIdle

WorkplaceSpec == WorkplaceInit /\ [][WorkplaceNext]_workplaceVars

\* The variables of the module at work have their types.
WorkplaceTypeOK ==
    CASE focus = "directory"   -> DirectoryTypeOK
      [] focus = "leave"       -> LeaveTypeOK
      [] focus = "field"       -> FieldTypeOK
      [] focus = "ussd"        -> UssdTypeOK
      [] focus = "access"      -> AccessTypeOK
      [] focus = "session"     -> SessionTypeOK
      [] focus = "idempotency" -> IdemTypeOK
      [] focus = "pay"         -> StatementsTypeOK
      [] focus = "settings"    -> FormTypeOK
      [] focus = "lists"       -> ListTypeOK
      [] focus = "isolation"   -> IsolationTypeOK
      [] focus = "screen"      -> ScreenTypeOK
      [] focus = "pins"        -> PinTypeOK
      [] focus = "phone"       -> PhoneTypeOK
      [] focus = "members"     -> MembersTypeOK
      [] focus = "leave forms" -> LeaveFormsTypeOK
      [] focus = "alerts"      -> AlertsTypeOK
      [] focus = "guard"       -> GuardTypeOK

\* What is cached is current, if requests do not overlap: the head count of the dashboard
\* and every user's permissions.
CachesCurrent == KpiCurrent /\ PermissionsCurrent

\* If requests do not overlap, nobody has two leaves on one day, the balance is what was
\* granted, and the clients show what was chosen and requested.
LeaveSound == LeaveDisjoint /\ BalanceSound /\ LeaveFormsSound

\* An event of an employee is one row of the log, whether it is sent again from the phone
\* of the employee or pressed again in a session of the operator.
EventLoggedOnce == LoggedOnce /\ ClockInLoggedOnce

\* Everybody who works has a department, and everybody who signs in one workspace and the
\* role that was offered.
EveryoneBelongs == StaffHasWorkplace /\ MembersSound

\* Whoever may sign in can, and stays signed in for as long as that is meant to last: in
\* the browser, at the phone, and with the PIN that was issued.
SignInsSound == SessionsSound /\ PhoneSound /\ IssuedPinOpens

\* What the pages list, what the payroll page says of a run, and what the forms of the
\* notification settings say.
PagesSound == ListSound /\ ScreenSound /\ AlertsSound

\* Lines, and what is made of them.
WagesSound == PaySound /\ StatementsSound

WorkplaceSymmetry == Permutations(Handler)

=============================================================================

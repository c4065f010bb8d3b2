---------------------------- MODULE StaffDirectory ----------------------------
(***************************************************************************)
(* Employees, departments and branches of a tenant, the seats of its plan, *)
(* and the head count that the dashboard caches.                           *)
(* Left out: names, numbers and salaries; an employee's phone, company id  *)
(* and national id are unique in the database and stand for one identity.  *)
(***************************************************************************)
EXTENDS RequestHandling

CONSTANTS
    Person,      \* people a tenant may employ, by identity
    Branch, Department,  \* rows of branches and departments (bounds)
    MaxEmployees \* seats of the tenant's plan

ASSUME SeatAssumption ==
    MaxEmployees \in Nat /\ IsFiniteSet(Person) /\ IsFiniteSet(Handler) /\ Handler # {}

VARIABLES
    staff,     \* employees.status of each person
    place,     \* employees.departmentId
    branches,  \* the rows of branches
    home,      \* departments: the branch of each, or "none"
    at,        \* what each request does next
    who,       \* the people a request still has to employ
    where,     \* the department, or the branch, a request works with
    kpi,       \* kpi:<tenant> in Redis: the head count, or no entry
    fill,      \* a head count a dashboard request has read and not stored, or none
    unchecked  \* the active people who were made so without a count of the seats

directoryVars == <<staff, place, branches, home, at, who, where, kpi, fill, unchecked>>
rows  == <<staff, place, branches, home, unchecked>>
calls == <<at, who, where>>
cached == <<kpi, fill>>

NoCount == Cardinality(Person) + 1

Active == {e \in Person : staff[e] = "ACTIVE"}
Departments == {d \in Department : home[d] # "none"}
In(b) == {d \in Departments : home[d] = b}

Steps == {"idle", "resolve", "branch", "department", "insert", "update", "uncache",
          "bulk", "importBegin", "importBranch", "import",
          "branchCount", "branchDelete", "departmentCreate", "departmentDelete"}

DirectoryTypeOK ==
    /\ staff \in [Person -> {"none", "ACTIVE", "INACTIVE"}]
    /\ place \in [Person -> Department \cup {"none"}]
    /\ branches \subseteq Branch
    /\ home \in [Department -> branches \cup {"none"}]
    /\ at \in [Handler -> Steps]
    /\ who \in [Handler -> SUBSET Person]
    /\ kpi \in 0 .. NoCount /\ fill \in 0 .. NoCount
    /\ unchecked \subseteq Active

DirectoryInit ==
    /\ staff = [e \in Person |-> "none"] /\ place = [e \in Person |-> "none"]
    /\ branches = {} /\ home = [d \in Department |-> "none"]
    /\ at = [h \in Handler |-> "idle"]
    /\ who = [h \in Handler |-> {}] /\ where = [h \in Handler |-> "none"]
    /\ kpi = NoCount /\ fill = NoCount
    /\ unchecked = {}

Go(h, next) == at' = [at EXCEPT ![h] = next]

\* A request of kind step is taken, about some people, a department or a branch.
Take(h, step, people, target) ==
    /\ MayTake(h, at) /\ (calm => fill = NoCount)
    /\ Go(h, step)
    /\ who' = [who EXCEPT ![h] = people]
    /\ where' = [where EXCEPT ![h] = target]
    /\ UNCHANGED <<rows, cached, calm>>

\* A request is answered, well or with an error.
Answer(h) ==
    /\ Go(h, "idle")
    /\ who' = [who EXCEPT ![h] = {}]
    /\ where' = [where EXCEPT ![h] = "none"]

\* The branch found before may be gone; then the database refuses the department.
NewDepartment(h, next) ==
    IF where[h] \in branches
    THEN \E d \in Department \ Departments :
            /\ home' = [home EXCEPT ![d] = where[h]]
            /\ where' = [where EXCEPT ![h] = d]
            /\ Go(h, next)
            /\ UNCHANGED <<staff, place, branches, unchecked, who, cached, calm>>
    ELSE Answer(h) /\ UNCHANGED <<rows, cached, calm>>

\* The head office is created, though another request may have done so meanwhile.
NewBranch(h, next) ==
    /\ \E b \in Branch \ branches :
          /\ branches' = branches \cup {b}
          /\ where' = [where EXCEPT ![h] = b]
    /\ Go(h, next)
    /\ UNCHANGED <<staff, place, home, unchecked, who, cached, calm>>

\* The database takes new employees only once, and into a department there is.
Insertable(people, d) ==
    d \in Departments /\ \A e \in people : staff[e] = "none"

Employ(people, d) ==
    /\ staff' = [e \in Person |-> IF e \in people THEN "ACTIVE" ELSE staff[e]]
    /\ place' = [e \in Person |-> IF e \in people THEN d ELSE place[e]]

\* The database deletes no department that has employees.
Deserted(departments) == \A e \in Person : place[e] \notin departments

-----------------------------------------------------------------------------
(***************************************************************************)
(* EmployeeService.create and update.                                      *)
(***************************************************************************)

HasCapacity == Cardinality(Active) < MaxEmployees

\* Mutant: one seat too many.
CreateOffByOne(h, e) ==
    /\ Cardinality(Active) <= MaxEmployees
    /\ Take(h, "resolve", {e}, "none")

\* There is a seat left, so the request goes on.
Create(h, e) ==
    /\ HasCapacity
    /\ Take(h, "resolve", {e}, "none")

\* resolveDepartmentId: a department is found, or a branch to create one in, or neither.
CreateResolve(h) ==
    /\ at[h] = "resolve"
    /\ \/ \E d \in Departments : Go(h, "insert") /\ where' = [where EXCEPT ![h] = d]
       \/ \E b \in branches : Go(h, "department") /\ where' = [where EXCEPT ![h] = b]
       \/ branches = {} /\ Go(h, "branch") /\ UNCHANGED where
    /\ UNCHANGED <<rows, who, cached, calm>>

CreateBranchFor(h) == at[h] = "branch" /\ NewBranch(h, "department")

CreateDepartmentFor(h) == at[h] = "department" /\ NewDepartment(h, "insert")

\* The identity is looked up and the row inserted; the unique columns have the last word.
CreateInsert(h) ==
    /\ at[h] = "insert"
    /\ IF Insertable(who[h], where[h])
       THEN /\ Employ(who[h], where[h])
            /\ Go(h, "uncache")
            /\ UNCHANGED <<branches, home, unchecked, who, where, cached, calm>>
       ELSE Answer(h) /\ UNCHANGED <<rows, cached, calm>>

Update(h, e) ==
    /\ staff[e] # "none"
    /\ Take(h, "update", {e}, "none")

\* An employee gets another status or department; no seat is counted.
UpdateWrite(h) ==
    /\ at[h] = "update"
    /\ \E e \in who[h] :
          /\ \/ \E s \in {"ACTIVE", "INACTIVE"} \ {staff[e]} :
                   /\ staff' = [staff EXCEPT ![e] = s]
                   /\ unchecked' = IF s = "ACTIVE" THEN unchecked \cup {e} ELSE unchecked \ {e}
                   /\ UNCHANGED place
             \/ \E d \in Departments :
                   place' = [place EXCEPT ![e] = d] /\ UNCHANGED <<staff, unchecked>>
    /\ Go(h, "uncache")
    /\ UNCHANGED <<branches, home, who, where, cached, calm>>

\* Mutant: the dashboard keeps its figures.
UncacheNothing(h) ==
    /\ at[h] = "uncache"
    /\ UNCHANGED kpi
    /\ Answer(h)
    /\ UNCHANGED <<rows, fill, calm>>

\* invalidateTenantKPICache, after the write.
Uncache(h) ==
    /\ at[h] = "uncache"
    /\ kpi' = NoCount
    /\ Answer(h)
    /\ UNCHANGED <<rows, fill, calm>>

-----------------------------------------------------------------------------
(***************************************************************************)
(* EmployeeService.bulkUpload and OnboardingService.importEmployeesFromCSV.*)
(***************************************************************************)

\* A spreadsheet needs one free seat, however many rows it has.  Its rows are checked
\* against what the tables hold now.
BulkUpload(h, people, d) ==
    /\ HasCapacity
    /\ Insertable(people, d)
    /\ Take(h, "bulk", people, d)

\* All rows are inserted in one transaction, or none.
BulkCommit(h) ==
    /\ at[h] = "bulk"
    /\ IF Insertable(who[h], where[h])
       THEN /\ Employ(who[h], where[h])
            /\ \E e \in who[h] : unchecked' = unchecked \cup (who[h] \ {e})
            /\ Go(h, "uncache")
            /\ UNCHANGED <<branches, home, who, where, cached, calm>>
       ELSE Answer(h) /\ UNCHANGED <<rows, cached, calm>>

\* An import counts no seats.
Import(h, people) == Take(h, "importBegin", people, "none")

\* ensureDefaultWorkspace finds a branch, or finds none and creates one.
ImportBegin(h) ==
    /\ at[h] = "importBegin"
    /\ \/ \E b \in branches : Go(h, "import") /\ where' = [where EXCEPT ![h] = b]
       \/ branches = {} /\ Go(h, "importBranch") /\ UNCHANGED where
    /\ UNCHANGED <<rows, who, cached, calm>>

ImportBranch(h) == at[h] = "importBranch" /\ NewBranch(h, "import")

\* The department a row names is created.
ImportDepartment(h) ==
    /\ at[h] = "import"
    /\ who[h] # {}
    /\ where[h] \in branches
    /\ \E d \in Department \ Departments : home' = [home EXCEPT ![d] = where[h]]
    /\ UNCHANGED <<staff, place, branches, unchecked, calls, cached, calm>>

\* A row is inserted, each in a transaction of its own.
ImportRow(h) ==
    /\ at[h] = "import"
    /\ \E e \in who[h], d \in In(where[h]) :
          /\ Insertable({e}, d)
          /\ Employ({e}, d)
          /\ unchecked' = unchecked \cup {e}
          /\ who' = [who EXCEPT ![h] = @ \ {e}]
    /\ UNCHANGED <<branches, home, at, where, cached, calm>>

\* A row is refused, and the import goes on with the others.
ImportRowFails(h) ==
    /\ at[h] = "import"
    /\ \E e \in who[h] :
          /\ ~calm \/ staff[e] # "none"
          /\ who' = [who EXCEPT ![h] = @ \ {e}]
    /\ UNCHANGED <<rows, at, where, cached, calm>>

ImportEnds(h) ==
    /\ at[h] = "import" /\ who[h] = {}
    /\ Go(h, "uncache")
    /\ UNCHANGED <<rows, who, where, cached, calm>>

-----------------------------------------------------------------------------
(***************************************************************************)
(* WorkspaceService: branches and departments.                             *)
(***************************************************************************)

AddBranch(b) ==
    /\ b \notin branches
    /\ calm => \A h \in Handler : at[h] = "idle"
    /\ branches' = branches \cup {b}
    /\ UNCHANGED <<staff, place, home, unchecked, calls, cached, calm>>

\* The branch is read together with its departments and their employees.
DeleteBranch(h, b) ==
    /\ b \in branches
    /\ Deserted(In(b))
    /\ Take(h, "branchCount", {}, b)

\* The last branch stays.
BranchCount(h) ==
    /\ at[h] = "branchCount"
    /\ IF Cardinality(branches) > 1
       THEN Go(h, "branchDelete") /\ UNCHANGED <<who, where>>
       ELSE Answer(h)
    /\ UNCHANGED <<rows, cached, calm>>

\* Mutant: the departments go with the branch, their employees or not.
BranchDeleteAll(h) ==
    /\ at[h] = "branchDelete"
    /\ branches' = branches \ {where[h]}
    /\ home' = [d \in Department |-> IF home[d] = where[h] THEN "none" ELSE home[d]]
    /\ Answer(h)
    /\ UNCHANGED <<staff, place, unchecked, cached, calm>>

\* The branch and its departments are deleted, unless somebody works there by now.
BranchDelete(h) ==
    /\ at[h] = "branchDelete"
    /\ IF Deserted(In(where[h]))
       THEN /\ branches' = branches \ {where[h]}
            /\ home' = [d \in Department |-> IF home[d] = where[h] THEN "none" ELSE home[d]]
       ELSE UNCHANGED <<branches, home>>
    /\ Answer(h)
    /\ UNCHANGED <<staff, place, unchecked, cached, calm>>

CreateDepartment(h, b) == b \in branches /\ Take(h, "departmentCreate", {}, b)

CreateDepartmentWrite(h) ==
    /\ at[h] = "departmentCreate"
    /\ IF where[h] \in branches
       THEN \E d \in Department \ Departments : home' = [home EXCEPT ![d] = where[h]]
       ELSE UNCHANGED home
    /\ Answer(h)
    /\ UNCHANGED <<staff, place, branches, unchecked, cached, calm>>

DeleteDepartment(h, d) ==
    /\ d \in Departments /\ Deserted({d})
    /\ Take(h, "departmentDelete", {}, d)

DeleteDepartmentWrite(h) ==
    /\ at[h] = "departmentDelete"
    /\ home' = IF Deserted({where[h]}) THEN [home EXCEPT ![where[h]] = "none"] ELSE home
    /\ Answer(h)
    /\ UNCHANGED <<staff, place, branches, unchecked, cached, calm>>

\* An error or the end of the process leaves what was written, the cache included.
DirectoryBreaks(h) ==
    /\ MayBreak(h, at)
    /\ Answer(h)
    /\ UNCHANGED <<rows, cached, calm>>

-----------------------------------------------------------------------------
(***************************************************************************)
(* DashboardService.getTenantKPIs.                                         *)
(***************************************************************************)

\* No entry: the figures are read ...
KpiRead ==
    /\ kpi = NoCount /\ fill = NoCount
    /\ calm => \A h \in Handler : at[h] = "idle"
    /\ fill' = Cardinality(Active)
    /\ UNCHANGED <<rows, calls, kpi, calm>>

\* ... and stored, whatever has been invalidated since.
KpiStore ==
    /\ fill # NoCount
    /\ kpi' = fill /\ fill' = NoCount
    /\ UNCHANGED <<rows, calls, calm>>

\* Five minutes are over.
KpiExpire ==
    /\ kpi # NoCount
    /\ kpi' = NoCount
    /\ UNCHANGED <<rows, calls, fill, calm>>

-----------------------------------------------------------------------------
Staffing(h) ==
    \/ \E e \in Person : Create(h, e) \/ Update(h, e)
    \/ CreateResolve(h) \/ CreateBranchFor(h) \/ CreateDepartmentFor(h) \/ CreateInsert(h)
    \/ UpdateWrite(h) \/ Uncache(h)
    \/ \E p \in (SUBSET Person) \ {{}} :
          Import(h, p) \/ \E d \in Department : BulkUpload(h, p, d)
    \/ BulkCommit(h)
    \/ ImportBegin(h) \/ ImportBranch(h) \/ ImportDepartment(h)
    \/ ImportRow(h) \/ ImportRowFails(h) \/ ImportEnds(h)

Structuring(h) ==
    \/ \E b \in Branch : DeleteBranch(h, b) \/ CreateDepartment(h, b)
    \/ BranchCount(h) \/ BranchDelete(h) \/ CreateDepartmentWrite(h)
    \/ \E d \in Department : DeleteDepartment(h, d)
    \/ DeleteDepartmentWrite(h)

DirectoryNext ==
    \/ \E h \in Handler : Staffing(h) \/ Structuring(h) \/ DirectoryBreaks(h)
    \/ \E b \in Branch : AddBranch(b)
    \/ KpiRead \/ KpiStore \/ KpiExpire

DirectorySpec == CalmInit /\ DirectoryInit /\ [][DirectoryNext]_<<directoryVars, calm>>

-----------------------------------------------------------------------------
(***************************************************************************)
(* Properties.                                                             *)
(***************************************************************************)

\* Seats are counted long before the row is inserted.  Still the plan is exceeded by
\* no more people than there are requests at one time beside the first, apart from
\* those that came in by a path that counts no seats.
SeatsBounded ==
    Cardinality(Active \ unchecked)
        <= MaxEmployees + (IF calm THEN 0 ELSE Cardinality(Handler) - 1)

\* Whatever is deleted while others hire, everybody works in a department that exists.
StaffHasWorkplace ==
    \A e \in Person : staff[e] # "none" => place[e] \in Departments

\* Without overlap the dashboard shows the head count as it is, whichever of the six
\* paths has changed it.
KpiCurrent ==
    calm /\ (\A h \in Handler : at[h] = "idle") => kpi \in {NoCount, Cardinality(Active)}

=============================================================================

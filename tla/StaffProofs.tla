---------------------------- MODULE StaffProofs -----------------------------
(*************************************************************************)
(* What holds of a tenant's people: who is employed and where, who may   *)
(* sign in and in which workspace, what they are permitted and what      *)
(* their payslips, reports and overtime say, for any number of requests, *)
(* people, branches, departments, seats, addresses, users, roles, pays   *)
(* and shifts.                                                           *)
(*************************************************************************)
EXTENDS StaffDirectory, WorkspaceMembers, RolePermissions, PayStatements, FiniteSetTheorems,
        TLAPS

(*************************************************************************)
(* Employees, branches and departments.  A request that has counted the  *)
(* seats and has not inserted its row yet is as good as somebody         *)
(* employed: SeatInv adds up the two.  A plan is exceeded only because   *)
(* the others in flight are not counted.                                 *)
(*************************************************************************)

\* The people for whom a seat was counted, and the requests that hold one already.
Checked == Active \ unchecked

\* A request holds its seat from the count to the row.
Counted == {h \in Handler : at[h] \in {"resolve", "branch", "department", "insert", "bulk"}}

\* How far the seats may be exceeded: by the requests in flight beside the first.
Leeway == IF calm THEN 0 ELSE Cardinality(Handler) - 1

\* EmployeeService.create is about one person.
OneEach ==
    \A h \in Handler : at[h] \in {"resolve", "branch", "department", "insert"} =>
        \E e \in Person : who[h] = {e}

SeatInv ==
    /\ OneEach
    /\ Cardinality(Checked) + Cardinality(Counted) <= MaxEmployees + Leeway

\* Where requests do not overlap, only the one under way may have left the cached head
\* count behind, and figures that were read wait for nobody.
KpiInv ==
    calm =>
        /\ \A g, h \in Handler : at[g] # "idle" /\ at[h] # "idle" => g = h
        /\ fill # NoCount => fill = Cardinality(Active) /\ \A h \in Handler : at[h] = "idle"
        /\ (\A h \in Handler : at[h] \notin {"import", "uncache"}) =>
               kpi \in {NoCount, Cardinality(Active)}

\* EmployeeService.update is about somebody who is on the books, and nobody leaves them.
Hired == \A h \in Handler : at[h] = "update" => \A e \in who[h] : staff[e] # "none"

DirectoryInv == DirectoryTypeOK /\ SeatInv /\ Hired /\ StaffHasWorkplace /\ KpiInv

\* The sets that are counted are finite, and the counts are numbers.
LEMMA Heads ==
    /\ IsFiniteSet(Active) /\ Cardinality(Active) \in 0 .. Cardinality(Person)
    /\ Cardinality(Person) \in Nat /\ NoCount \in Nat
    /\ IsFiniteSet(Checked) /\ Cardinality(Checked) \in Nat
    /\ IsFiniteSet(Counted) /\ Cardinality(Counted) \in Nat
    /\ Cardinality(Handler) \in Nat \ {0} /\ Leeway \in Nat
<1>1. /\ IsFiniteSet(Active) /\ Cardinality(Active) <= Cardinality(Person)
      /\ Cardinality(Person) \in Nat /\ Cardinality(Active) \in Nat
  BY FS_Subset, FS_CardinalityType, SeatAssumption DEF Active
<1>2. IsFiniteSet(Checked) /\ Cardinality(Checked) \in Nat
  BY <1>1, FS_Subset, FS_CardinalityType DEF Checked
<1>3. IsFiniteSet(Counted) /\ Cardinality(Counted) \in Nat
  BY FS_Subset, FS_CardinalityType, SeatAssumption DEF Counted
<1>4. Cardinality(Handler) \in Nat \ {0}
  BY FS_CardinalityType, FS_EmptySet, SeatAssumption
<1>5. Leeway \in Nat
  BY <1>4 DEF Leeway
<1> QED
  BY <1>1, <1>2, <1>3, <1>4, <1>5 DEF NoCount

\* DirectoryInv holds of a tenant that begins.
LEMMA DirectoryInitially == CalmInit /\ DirectoryInit => DirectoryInv
<1> SUFFICES ASSUME CalmInit, DirectoryInit PROVE DirectoryInv
  OBVIOUS
<1>1. Active = {} /\ Checked = {} /\ Counted = {}
  BY DEF DirectoryInit, Active, Checked, Counted
<1>2. DirectoryTypeOK
  BY <1>1, Heads DEF DirectoryInit, DirectoryTypeOK, Steps
<1>3. SeatInv
  BY <1>1, Heads, FS_EmptySet, SeatAssumption DEF SeatInv, OneEach, DirectoryInit
<1>4. StaffHasWorkplace /\ Hired
  BY DEF DirectoryInit, StaffHasWorkplace, Hired
<1>5. KpiInv
  BY DEF DirectoryInit, KpiInv
<1> QED
  BY <1>2, <1>3, <1>4, <1>5 DEF DirectoryInv

\* What a request does to its own entry leaves the types as they are.
LEMMA CallTypes ==
    ASSUME DirectoryTypeOK, NEW h \in Handler
    PROVE  /\ \A step \in Steps : Go(h, step) => at' \in [Handler -> Steps]
           /\ Answer(h) => at' \in [Handler -> Steps] /\ who' \in [Handler -> SUBSET Person]
           /\ \A step \in Steps, people \in SUBSET Person : \A target :
                Take(h, step, people, target) =>
                    at' \in [Handler -> Steps] /\ who' \in [Handler -> SUBSET Person]
  BY DEF DirectoryTypeOK, Go, Answer, Take, Steps

\* Every step keeps the types.
LEMMA DirectoryTypeStep == DirectoryTypeOK /\ DirectoryNext => DirectoryTypeOK'
<1> SUFFICES ASSUME DirectoryTypeOK, DirectoryNext PROVE DirectoryTypeOK'
  OBVIOUS
<1> DEFINE Counts == 0 .. NoCount
           RowsType == /\ staff \in [Person -> {"none", "ACTIVE", "INACTIVE"}]
                       /\ place \in [Person -> Department \cup {"none"}]
                       /\ branches \subseteq Branch
                       /\ home \in [Department -> branches \cup {"none"}]
                       /\ unchecked \subseteq Active
           CallsType == at \in [Handler -> Steps] /\ who \in [Handler -> SUBSET Person]
           CachedType == kpi \in Counts /\ fill \in Counts
<1>0. RowsType /\ CallsType /\ CachedType
  BY DEF DirectoryTypeOK
<1>1. SUFFICES RowsType' /\ CallsType' /\ CachedType'
  BY DEF DirectoryTypeOK, NoCount
<1>2. NoCount \in Counts /\ Cardinality(Active) \in Counts
  BY Heads DEF NoCount
<1> HIDE DEF Counts
<1>3. UNCHANGED rows => RowsType'
  BY <1>0 DEF rows, Active
<1>4. UNCHANGED cached => CachedType'
  BY <1>0 DEF cached
<1>5. UNCHANGED calls => CallsType'
  BY <1>0 DEF calls
<1>6. UNCHANGED <<at, who>> => CallsType'
  BY <1>0
<1>7. ASSUME NEW h \in Handler, NEW e \in Person, Create(h, e) \/ Update(h, e)
      PROVE  RowsType' /\ CallsType' /\ CachedType'
  <2>1. \E step \in Steps : Take(h, step, {e}, "none")
    BY <1>7 DEF Create, Update, Steps
  <2>2. {e} \in SUBSET Person
    OBVIOUS
  <2>3. CallsType'
    BY <2>1, <2>2, CallTypes
  <2> QED
    BY <1>3, <1>4, <2>1, <2>3 DEF Take
<1>8. ASSUME NEW h \in Handler, CreateResolve(h) PROVE RowsType' /\ CallsType' /\ CachedType'
  BY <1>0, <1>3, <1>4, <1>8, CallTypes DEF CreateResolve, Steps
<1>9. ASSUME NEW h \in Handler, CreateBranchFor(h) \/ ImportBranch(h)
      PROVE  RowsType' /\ CallsType' /\ CachedType'
  <2>1. PICK b \in Branch \ branches : branches' = branches \cup {b}
    BY <1>9 DEF CreateBranchFor, ImportBranch, NewBranch
  <2>2. UNCHANGED <<staff, place, home, unchecked, who, cached>>
    BY <1>9 DEF CreateBranchFor, ImportBranch, NewBranch
  <2>3. RowsType'
    BY <1>0, <2>1, <2>2 DEF Active
  <2>4. at' \in [Handler -> Steps]
    BY <1>9, CallTypes DEF CreateBranchFor, ImportBranch, NewBranch, Steps
  <2> QED
    BY <1>0, <1>4, <2>2, <2>3, <2>4
<1>10. ASSUME NEW h \in Handler, CreateDepartmentFor(h)
       PROVE  RowsType' /\ CallsType' /\ CachedType'
  <2>1. CASE where[h] \in branches
    <3>1. PICK d \in Department : home' = [home EXCEPT ![d] = where[h]]
      BY <1>10, <2>1 DEF CreateDepartmentFor, NewDepartment
    <3>2. UNCHANGED <<staff, place, branches, unchecked, who, cached>> /\ Go(h, "insert")
      BY <1>10, <2>1 DEF CreateDepartmentFor, NewDepartment
    <3>3. RowsType'
      BY <1>0, <2>1, <3>1, <3>2 DEF Active
    <3>4. CallsType'
      BY <1>0, <3>2, CallTypes DEF Steps
    <3> QED
      BY <1>4, <3>2, <3>3, <3>4
  <2>2. CASE where[h] \notin branches
    BY <1>3, <1>4, <1>10, <2>2, CallTypes DEF CreateDepartmentFor, NewDepartment
  <2> QED
    BY <2>1, <2>2
<1>11. ASSUME NEW people \in SUBSET Person, NEW d, Insertable(people, d), Employ(people, d),
              UNCHANGED <<branches, home>>, unchecked' \subseteq unchecked \cup people
       PROVE  RowsType'
  <2>1. d \in Department
    BY <1>11 DEF Insertable, Departments
  <2>2. staff' \in [Person -> {"none", "ACTIVE", "INACTIVE"}]
      /\ place' \in [Person -> Department \cup {"none"}]
    BY <1>0, <1>11, <2>1 DEF Employ
  <2>3. unchecked' \subseteq Active'
    BY <1>0, <1>11 DEF Employ, Active
  <2> QED
    BY <1>0, <1>11, <2>2, <2>3
<1>12. ASSUME NEW h \in Handler, CreateInsert(h) \/ BulkCommit(h)
       PROVE  RowsType' /\ CallsType' /\ CachedType'
  <2>1. who[h] \in SUBSET Person
    BY <1>0
  <2>2. CASE Insertable(who[h], where[h])
    <3>1. /\ Employ(who[h], where[h]) /\ Go(h, "uncache")
          /\ UNCHANGED <<branches, home, who, where, cached>>
          /\ unchecked' \subseteq unchecked \cup who[h]
      BY <1>12, <2>2 DEF CreateInsert, BulkCommit
    <3>2. RowsType'
      BY <1>11, <2>1, <2>2, <3>1
    <3>3. CallsType'
      BY <1>0, <3>1, CallTypes DEF Steps
    <3> QED
      BY <1>4, <3>1, <3>2, <3>3
  <2>3. CASE ~Insertable(who[h], where[h])
    BY <1>3, <1>4, <1>12, <2>3, CallTypes DEF CreateInsert, BulkCommit
  <2> QED
    BY <2>2, <2>3
<1>13. ASSUME NEW h \in Handler, UpdateWrite(h) PROVE RowsType' /\ CallsType' /\ CachedType'
  <2>1. PICK e \in who[h] :
          \/ \E s \in {"ACTIVE", "INACTIVE"} \ {staff[e]} :
                /\ staff' = [staff EXCEPT ![e] = s]
                /\ unchecked' = IF s = "ACTIVE" THEN unchecked \cup {e} ELSE unchecked \ {e}
                /\ UNCHANGED place
          \/ \E d \in Departments :
                place' = [place EXCEPT ![e] = d] /\ UNCHANGED <<staff, unchecked>>
    BY <1>13 DEF UpdateWrite
  <2>2. e \in Person
    BY <1>0
  <2>3. UNCHANGED <<branches, home, who, cached>> /\ Go(h, "uncache")
    BY <1>13 DEF UpdateWrite
  <2>4. ASSUME NEW s \in {"ACTIVE", "INACTIVE"}, staff' = [staff EXCEPT ![e] = s],
               unchecked' = IF s = "ACTIVE" THEN unchecked \cup {e} ELSE unchecked \ {e}
        PROVE  unchecked' \subseteq Active'
    BY <1>0, <2>2, <2>4 DEF Active
  <2>5. unchecked' \subseteq Active'
    BY <1>0, <2>1, <2>4 DEF Active
  <2>6. RowsType'
    BY <1>0, <2>1, <2>2, <2>3, <2>5 DEF Departments
  <2> QED
    BY <1>0, <1>4, <2>3, <2>6, CallTypes DEF Steps
<1>14. ASSUME NEW h \in Handler, Uncache(h) PROVE RowsType' /\ CallsType' /\ CachedType'
  BY <1>0, <1>2, <1>3, <1>14, CallTypes DEF Uncache
<1>15. ASSUME NEW h \in Handler, NEW p \in SUBSET Person, NEW d \in Department,
              Import(h, p) \/ BulkUpload(h, p, d)
       PROVE  RowsType' /\ CallsType' /\ CachedType'
  BY <1>3, <1>4, <1>15, CallTypes DEF Import, BulkUpload, Take, Steps
<1>16. ASSUME NEW h \in Handler, NEW p \in SUBSET Person, Import(h, p)
       PROVE  RowsType' /\ CallsType' /\ CachedType'
  BY <1>3, <1>4, <1>16, CallTypes DEF Import, Take, Steps
<1>17. ASSUME NEW h \in Handler, ImportBegin(h) \/ ImportEnds(h)
       PROVE  RowsType' /\ CallsType' /\ CachedType'
  BY <1>0, <1>3, <1>4, <1>17, CallTypes DEF ImportBegin, ImportEnds, Steps
<1>18. ASSUME NEW h \in Handler, ImportDepartment(h) PROVE RowsType' /\ CallsType' /\ CachedType'
  <2>1. PICK d \in Department : home' = [home EXCEPT ![d] = where[h]]
    BY <1>18 DEF ImportDepartment
  <2>2. UNCHANGED <<staff, place, branches, unchecked, calls, cached>> /\ where[h] \in branches
    BY <1>18 DEF ImportDepartment
  <2>3. RowsType'
    BY <1>0, <2>1, <2>2 DEF Active
  <2> QED
    BY <1>4, <1>5, <2>2, <2>3
<1>19. ASSUME NEW h \in Handler, ImportRow(h) PROVE RowsType' /\ CallsType' /\ CachedType'
  <2>1. PICK e \in who[h], d \in In(where[h]) :
            /\ Insertable({e}, d) /\ Employ({e}, d)
            /\ unchecked' = unchecked \cup {e}
            /\ who' = [who EXCEPT ![h] = @ \ {e}]
    BY <1>19 DEF ImportRow
  <2>2. UNCHANGED <<branches, home, at, where, cached>> /\ {e} \in SUBSET Person
    BY <1>0, <1>19 DEF ImportRow
  <2>3. RowsType'
    BY <1>11, <2>1, <2>2
  <2>4. CallsType'
    BY <1>0, <2>1, <2>2
  <2> QED
    BY <1>4, <2>2, <2>3, <2>4
<1>20. ASSUME NEW h \in Handler, ImportRowFails(h) PROVE RowsType' /\ CallsType' /\ CachedType'
  <2>1. CallsType'
    BY <1>0, <1>20 DEF ImportRowFails
  <2> QED
    BY <1>3, <1>4, <1>20, <2>1 DEF ImportRowFails
<1>21. ASSUME NEW h \in Handler, NEW b \in Branch, DeleteBranch(h, b) \/ CreateDepartment(h, b)
       PROVE  RowsType' /\ CallsType' /\ CachedType'
  BY <1>3, <1>4, <1>21, CallTypes DEF DeleteBranch, CreateDepartment, Take, Steps
<1>22. ASSUME NEW h \in Handler, BranchCount(h) PROVE RowsType' /\ CallsType' /\ CachedType'
  BY <1>0, <1>3, <1>4, <1>22, CallTypes DEF BranchCount, Steps
<1>23. ASSUME NEW h \in Handler, BranchDelete(h) PROVE RowsType' /\ CallsType' /\ CachedType'
  <2>1. \/ /\ branches' = branches \ {where[h]}
           /\ home' = [d \in Department |-> IF home[d] = where[h] THEN "none" ELSE home[d]]
        \/ UNCHANGED <<branches, home>>
    BY <1>23 DEF BranchDelete
  <2>2. UNCHANGED <<staff, place, unchecked, cached>> /\ Answer(h)
    BY <1>23 DEF BranchDelete
  <2>3. RowsType'
    BY <1>0, <2>1, <2>2 DEF Active
  <2> QED
    BY <1>4, <2>2, <2>3, CallTypes
<1>24. ASSUME NEW h \in Handler, CreateDepartmentWrite(h) \/ DeleteDepartmentWrite(h)
       PROVE  RowsType' /\ CallsType' /\ CachedType'
  <2>1. \/ \E d \in Department : where[h] \in branches /\ home' = [home EXCEPT ![d] = where[h]]
        \/ home' = [home EXCEPT ![where[h]] = "none"]
        \/ home' = home
    BY <1>24 DEF CreateDepartmentWrite, DeleteDepartmentWrite
  <2>2. UNCHANGED <<staff, place, branches, unchecked, cached>> /\ Answer(h)
    BY <1>24 DEF CreateDepartmentWrite, DeleteDepartmentWrite
  <2>3. home' \in [Department -> branches \cup {"none"}]
    BY <1>0, <2>1
  <2>4. RowsType'
    BY <1>0, <2>2, <2>3 DEF Active
  <2> QED
    BY <1>4, <2>2, <2>4, CallTypes
<1>25. ASSUME NEW h \in Handler, NEW d \in Department, DeleteDepartment(h, d)
       PROVE  RowsType' /\ CallsType' /\ CachedType'
  BY <1>3, <1>4, <1>25, CallTypes DEF DeleteDepartment, Take, Steps
<1>26. ASSUME NEW h \in Handler, DirectoryBreaks(h) PROVE RowsType' /\ CallsType' /\ CachedType'
  BY <1>3, <1>4, <1>26, CallTypes DEF DirectoryBreaks
<1>27. ASSUME NEW b \in Branch, AddBranch(b) PROVE RowsType' /\ CallsType' /\ CachedType'
  <2>1. RowsType'
    BY <1>0, <1>27 DEF AddBranch, Active
  <2> QED
    BY <1>4, <1>5, <1>27, <2>1 DEF AddBranch
<1>28. CASE KpiRead \/ KpiStore \/ KpiExpire
  BY <1>0, <1>2, <1>3, <1>5, <1>28 DEF KpiRead, KpiStore, KpiExpire
<1> QED
  <2>1. ASSUME NEW h \in Handler, Staffing(h) PROVE RowsType' /\ CallsType' /\ CachedType'
    BY <1>7, <1>8, <1>9, <1>10, <1>12, <1>13, <1>14, <1>15, <1>16, <1>17, <1>18, <1>19, <1>20,
       <2>1
       DEF Staffing
  <2>2. ASSUME NEW h \in Handler, Structuring(h) PROVE RowsType' /\ CallsType' /\ CachedType'
    BY <1>21, <1>22, <1>23, <1>24, <1>25, <2>2 DEF Structuring
  <2> QED
    BY <1>26, <1>27, <1>28, <2>1, <2>2 DEF DirectoryNext

-----------------------------------------------------------------------------
\* Whoever leaves the people with a seat, or the requests that hold one, takes nothing.
LEMMA SeatsLeft ==
    ASSUME SeatInv, calm' = calm, Checked' \subseteq Checked, Counted' \subseteq Counted
    PROVE  Cardinality(Checked') + Cardinality(Counted') <= MaxEmployees + Leeway'
<1>1. Cardinality(Checked') <= Cardinality(Checked) /\ Cardinality(Checked') \in Nat
  BY Heads, FS_Subset, FS_CardinalityType
<1>2. Cardinality(Counted') <= Cardinality(Counted) /\ Cardinality(Counted') \in Nat
  BY Heads, FS_Subset, FS_CardinalityType
<1>3. Leeway' = Leeway
  BY DEF Leeway
<1> QED
  BY <1>1, <1>2, <1>3, Heads, SeatAssumption DEF SeatInv

\* HasCapacity counts everybody who is active, but not the requests under way.
LEMMA SeatsTaken ==
    ASSUME SeatInv, calm' = calm, HasCapacity, NEW h \in Handler, MayTake(h, at),
           Checked' \subseteq Checked, Counted' = Counted \cup {h}
    PROVE  Cardinality(Checked') + Cardinality(Counted') <= MaxEmployees + Leeway'
<1>1. Cardinality(Checked) <= Cardinality(Active)
  BY Heads, FS_Subset DEF Checked
<1>2. Cardinality(Checked') <= Cardinality(Checked) /\ Cardinality(Checked') \in Nat
  BY Heads, FS_Subset, FS_CardinalityType
<1>3. Leeway' = Leeway
  BY DEF Leeway
<1>4. h \notin Counted
  BY DEF MayTake, Counted
<1>5. Cardinality(Counted') = Cardinality(Counted) + 1
  BY <1>4, Heads, FS_AddElement
<1>6. Cardinality(Counted) <= Leeway
  <2>1. CASE calm
    <3>1. Counted = {}
      BY <2>1 DEF MayTake, Counted
    <3> QED
      BY <2>1, <3>1, FS_EmptySet DEF Leeway
  <2>2. CASE ~calm
    <3>1. Counted \subseteq Handler \ {h}
      BY <1>4 DEF Counted
    <3>2. IsFiniteSet(Handler \ {h}) /\ Cardinality(Handler \ {h}) = Cardinality(Handler) - 1
      BY FS_RemoveElement, SeatAssumption
    <3> QED
      BY <2>2, <3>1, <3>2, FS_Subset DEF Leeway
  <2> QED
    BY <2>1, <2>2
<1> QED
  BY <1>1, <1>2, <1>3, <1>5, <1>6, Heads, SeatAssumption DEF HasCapacity

\* A row is inserted for the seat that was counted.
LEMMA SeatUsed ==
    ASSUME SeatInv, calm' = calm, NEW h \in Counted, NEW e,
           Checked' \subseteq Checked \cup {e}, Counted' = Counted \ {h}
    PROVE  Cardinality(Checked') + Cardinality(Counted') <= MaxEmployees + Leeway'
<1>1. /\ IsFiniteSet(Checked \cup {e}) /\ Cardinality(Checked \cup {e}) \in Nat
      /\ Cardinality(Checked \cup {e}) <= Cardinality(Checked) + 1
  <2>1. CASE e \in Checked
    <3>1. Checked \cup {e} = Checked
      BY <2>1
    <3> QED
      BY <3>1, Heads
  <2>2. CASE e \notin Checked
    BY <2>2, Heads, FS_AddElement
  <2> QED
    BY <2>1, <2>2
<1>2. Cardinality(Checked') <= Cardinality(Checked \cup {e}) /\ Cardinality(Checked') \in Nat
  BY <1>1, FS_Subset, FS_CardinalityType
<1>3. Cardinality(Counted') = Cardinality(Counted) - 1
  BY Heads, FS_RemoveElement
<1>4. Leeway' = Leeway
  BY DEF Leeway
<1>5. Cardinality(Checked) + Cardinality(Counted) <= MaxEmployees + Leeway
  BY DEF SeatInv
<1> HIDE DEF Checked, Counted, Leeway
<1>6. ASSUME NEW c \in Nat, NEW c2 \in Nat, NEW n \in Nat, NEW n2, NEW x \in Nat, NEW m \in Nat,
             c2 <= x, x <= c + 1, n2 = n - 1, c + n <= m
      PROVE  c2 + n2 <= m
  BY <1>6
<1>7. MaxEmployees + Leeway \in Nat
  BY Heads, SeatAssumption
<1> QED
  BY <1>1, <1>2, <1>3, <1>4, <1>5, <1>6, <1>7, Heads

\* A request that goes on, is answered or is about something else holds no new seat.
LEMMA NoNewSeat ==
    ASSUME DirectoryTypeOK, OneEach, NEW h \in Handler
    PROVE  /\ Answer(h) => Counted' \subseteq Counted /\ h \notin Counted' /\ OneEach'
           /\ \A step \in Steps \ {"resolve", "branch", "department", "insert", "bulk"} :
                (Go(h, step) /\ UNCHANGED who) =>
                    Counted' \subseteq Counted /\ h \notin Counted' /\ OneEach'
           /\ \A step \in Steps \ {"resolve", "branch", "department", "insert", "bulk"} :
                \A people, target : Take(h, step, people, target) =>
                    Counted' \subseteq Counted /\ OneEach'
           /\ \A step \in {"branch", "department", "insert"} :
                (at[h] \in {"resolve", "branch", "department"} /\ Go(h, step) /\ UNCHANGED who) =>
                    Counted' \subseteq Counted /\ OneEach'
<1> USE DEF Counted, OneEach, DirectoryTypeOK
<1>1. Answer(h) => Counted' \subseteq Counted /\ h \notin Counted' /\ OneEach'
  BY DEF Answer, Go
<1>2. ASSUME NEW step \in Steps \ {"resolve", "branch", "department", "insert", "bulk"},
             Go(h, step), UNCHANGED who
      PROVE  Counted' \subseteq Counted /\ h \notin Counted' /\ OneEach'
  BY <1>2 DEF Go
<1>3. ASSUME NEW step \in Steps \ {"resolve", "branch", "department", "insert", "bulk"},
             NEW people, NEW target, Take(h, step, people, target)
      PROVE  Counted' \subseteq Counted /\ OneEach'
  BY <1>3 DEF Take, Go
<1>4. ASSUME NEW step \in {"branch", "department", "insert"},
             at[h] \in {"resolve", "branch", "department"}, Go(h, step), UNCHANGED who
      PROVE  Counted' \subseteq Counted /\ OneEach'
  BY <1>4 DEF Go
<1> QED
  BY <1>1, <1>2, <1>3, <1>4

\* Every step keeps SeatInv: a seat is taken by a request that counted, or left.
LEMMA SeatStep == DirectoryTypeOK /\ SeatInv /\ DirectoryNext => SeatInv'
<1> SUFFICES ASSUME DirectoryTypeOK, SeatInv, DirectoryNext PROVE SeatInv'
  OBVIOUS
<1> DEFINE Same == Checked' \subseteq Checked /\ calm' = calm
           Kept  == Same /\ Counted' \subseteq Counted /\ OneEach'
<1>1. OneEach
  BY DEF SeatInv
<1>2. Kept => SeatInv'
  BY SeatsLeft DEF SeatInv
<1>3. UNCHANGED <<staff, unchecked, calm>> => Same
  BY DEF Checked, Active
<1>4. UNCHANGED calls => Counted' \subseteq Counted /\ OneEach'
  BY <1>1 DEF calls, Counted, OneEach
<1> HIDE DEF Same
<1>5. ASSUME NEW h \in Handler, NEW step \in {"resolve", "bulk"}, NEW people, NEW target,
             HasCapacity, Take(h, step, people, target),
             step = "resolve" => \E e \in Person : people = {e}
      PROVE  SeatInv'
  <2>1. Same
    BY <1>3, <1>5 DEF Take, rows
  <2>2. Counted' = Counted \cup {h} /\ OneEach'
    BY <1>1, <1>5 DEF Take, Go, Counted, OneEach, DirectoryTypeOK
  <2> QED
    BY <1>5, <2>1, <2>2, SeatsTaken DEF SeatInv, Take, Same
<1>6. ASSUME NEW h \in Handler, NEW e \in Person, Create(h, e) PROVE SeatInv'
  BY <1>5, <1>6 DEF Create
<1>7. ASSUME NEW h \in Handler, NEW p \in SUBSET Person, NEW d \in Department, BulkUpload(h, p, d)
      PROVE  SeatInv'
  BY <1>5, <1>7 DEF BulkUpload
<1>8. ASSUME NEW h \in Handler,
             NEW step \in Steps \ {"resolve", "branch", "department", "insert", "bulk"},
             NEW people, NEW target, Take(h, step, people, target)
      PROVE  SeatInv'
  BY <1>1, <1>2, <1>3, <1>8, NoNewSeat DEF Take, rows
<1>9. ASSUME NEW h \in Handler, NEW e \in Person, Update(h, e) PROVE SeatInv'
  BY <1>8, <1>9 DEF Update, Steps
<1>10. ASSUME NEW h \in Handler, NEW p \in SUBSET Person, Import(h, p) PROVE SeatInv'
  BY <1>8, <1>10 DEF Import, Steps
<1>11. ASSUME NEW h \in Handler, NEW b \in Branch, DeleteBranch(h, b) \/ CreateDepartment(h, b)
       PROVE  SeatInv'
  BY <1>8, <1>11 DEF DeleteBranch, CreateDepartment, Steps
<1>12. ASSUME NEW h \in Handler, NEW d \in Department, DeleteDepartment(h, d) PROVE SeatInv'
  BY <1>8, <1>12 DEF DeleteDepartment, Steps
<1>13. ASSUME NEW h \in Handler,
              CreateResolve(h) \/ CreateBranchFor(h) \/ CreateDepartmentFor(h)
       PROVE  SeatInv'
  <2>1. UNCHANGED <<staff, unchecked, calm>>
    BY <1>13 DEF CreateResolve, CreateBranchFor, CreateDepartmentFor, NewBranch, NewDepartment,
       rows
  <2>2. at[h] \in {"resolve", "branch", "department"}
    BY <1>13 DEF CreateResolve, CreateBranchFor, CreateDepartmentFor
  <2>3. Answer(h) \/ \E step \in {"branch", "department", "insert"} : Go(h, step) /\ UNCHANGED who
    BY <1>13 DEF CreateResolve, CreateBranchFor, CreateDepartmentFor, NewBranch, NewDepartment
  <2> QED
    BY <1>1, <1>2, <1>3, <2>1, <2>2, <2>3, NoNewSeat
<1>14. ASSUME NEW h \in Handler, CreateInsert(h) \/ BulkCommit(h) PROVE SeatInv'
  <2>1. CASE Insertable(who[h], where[h])
    <3>1. /\ Employ(who[h], where[h]) /\ Go(h, "uncache")
          /\ at[h] \in {"insert", "bulk"} /\ UNCHANGED <<who, calm>>
      BY <1>14, <2>1 DEF CreateInsert, BulkCommit
    <3>2. \E e \in who[h] : unchecked' = unchecked \cup (who[h] \ {e})
      <4>1. CASE CreateInsert(h)
        <5>1. unchecked' = unchecked
          BY <2>1, <4>1 DEF CreateInsert
        <5>2. PICK e \in Person : who[h] = {e}
          BY <1>1, <4>1 DEF CreateInsert, OneEach
        <5> QED
          BY <5>1, <5>2
      <4>2. CASE BulkCommit(h)
        BY <2>1, <4>2 DEF BulkCommit
      <4> QED
        BY <1>14, <4>1, <4>2
    <3>3. PICK e \in who[h] : unchecked' = unchecked \cup (who[h] \ {e})
      BY <3>2
    <3>4. Checked' \subseteq Checked \cup {e}
      BY <3>1, <3>3 DEF Employ, Checked, Active
    <3>5. h \in Counted /\ OneEach'
      BY <1>1, <3>1, NoNewSeat DEF Counted, Steps
    <3>6. Counted' = Counted \ {h}
      BY <3>1 DEF Counted, Go, DirectoryTypeOK
    <3> QED
      BY <3>1, <3>4, <3>5, <3>6, SeatUsed DEF SeatInv
  <2>2. CASE ~Insertable(who[h], where[h])
    BY <1>1, <1>2, <1>3, <1>14, <2>2, NoNewSeat DEF CreateInsert, BulkCommit, rows
  <2> QED
    BY <2>1, <2>2
<1>15. ASSUME NEW h \in Handler, UpdateWrite(h) PROVE SeatInv'
  <2>1. PICK e \in who[h] :
          \/ \E s \in {"ACTIVE", "INACTIVE"} \ {staff[e]} :
                /\ staff' = [staff EXCEPT ![e] = s]
                /\ unchecked' = IF s = "ACTIVE" THEN unchecked \cup {e} ELSE unchecked \ {e}
          \/ UNCHANGED <<staff, unchecked>>
    BY <1>15 DEF UpdateWrite
  <2>2. Same
    BY <1>15, <2>1 DEF UpdateWrite, Same, Checked, Active, DirectoryTypeOK
  <2>3. Go(h, "uncache") /\ UNCHANGED who
    BY <1>15 DEF UpdateWrite
  <2> QED
    BY <1>1, <1>2, <2>2, <2>3, NoNewSeat DEF Steps
<1>16. ASSUME NEW h \in Handler,
              NEW step \in Steps \ {"resolve", "branch", "department", "insert", "bulk"},
              UNCHANGED <<staff, unchecked, calm>>, Answer(h) \/ (Go(h, step) /\ UNCHANGED who)
       PROVE  SeatInv'
  BY <1>1, <1>2, <1>3, <1>16, NoNewSeat
<1>17. ASSUME NEW h \in Handler,
              Uncache(h) \/ BranchCount(h) \/ BranchDelete(h) \/ CreateDepartmentWrite(h)
              \/ DeleteDepartmentWrite(h) \/ DirectoryBreaks(h)
       PROVE  SeatInv'
  <2>1. UNCHANGED <<staff, unchecked, calm>>
    BY <1>17 DEF Uncache, BranchCount, BranchDelete, CreateDepartmentWrite, DeleteDepartmentWrite,
                 DirectoryBreaks, rows
  <2>2. Answer(h) \/ (Go(h, "branchDelete") /\ UNCHANGED who)
    BY <1>17 DEF Uncache, BranchCount, BranchDelete, CreateDepartmentWrite, DeleteDepartmentWrite,
                 DirectoryBreaks
  <2> QED
    BY <1>16, <2>1, <2>2 DEF Steps
<1>18. ASSUME NEW h \in Handler, ImportBegin(h) \/ ImportBranch(h) \/ ImportEnds(h) PROVE SeatInv'
  <2>1. UNCHANGED <<staff, unchecked, calm>>
    BY <1>18 DEF ImportBegin, ImportBranch, ImportEnds, NewBranch, rows
  <2>2. \E step \in {"import", "importBranch", "uncache"} : Go(h, step) /\ UNCHANGED who
    BY <1>18 DEF ImportBegin, ImportBranch, ImportEnds, NewBranch
  <2> QED
    BY <1>16, <2>1, <2>2 DEF Steps
<1>19. ASSUME NEW h \in Handler, ImportRow(h) \/ ImportRowFails(h) PROVE SeatInv'
  <2>1. /\ at[h] = "import" /\ UNCHANGED <<at, calm>>
        /\ \E people : who' = [who EXCEPT ![h] = people]
    BY <1>19 DEF ImportRow, ImportRowFails
  <2>2. Counted' \subseteq Counted /\ OneEach'
    BY <1>1, <2>1 DEF Counted, OneEach, DirectoryTypeOK
  <2>3. \/ \E e \in Person : staff' = [x \in Person |-> IF x \in {e} THEN "ACTIVE" ELSE staff[x]]
                             /\ unchecked' = unchecked \cup {e}
        \/ UNCHANGED <<staff, unchecked>>
    BY <1>19 DEF ImportRow, ImportRowFails, Employ, rows, DirectoryTypeOK
  <2>4. Same
    BY <2>1, <2>3 DEF Same, Checked, Active
  <2> QED
    BY <1>2, <2>2, <2>4
<1>20. ASSUME NEW h \in Handler, ImportDepartment(h) PROVE SeatInv'
  BY <1>2, <1>3, <1>4, <1>20 DEF ImportDepartment
<1>21. CASE KpiRead \/ KpiStore \/ KpiExpire \/ \E b \in Branch : AddBranch(b)
  BY <1>2, <1>3, <1>4, <1>21 DEF KpiRead, KpiStore, KpiExpire, AddBranch, rows
<1> QED
  <2>1. ASSUME NEW h \in Handler, Staffing(h) PROVE SeatInv'
    BY <1>6, <1>7, <1>9, <1>10, <1>13, <1>14, <1>15, <1>17, <1>18, <1>19, <1>20, <2>1 DEF Staffing
  <2>2. ASSUME NEW h \in Handler, Structuring(h) PROVE SeatInv'
    BY <1>11, <1>12, <1>17, <2>2 DEF Structuring
  <2> QED
    BY <1>17, <1>21, <2>1, <2>2 DEF DirectoryNext

-----------------------------------------------------------------------------
\* A department is created in place of none, so the others stay.
LEMMA DepartmentsStay ==
    ASSUME DirectoryTypeOK, NEW d \in Department \ Departments, NEW b,
           home' = [home EXCEPT ![d] = b]
    PROVE  Departments \subseteq Departments'
  BY DEF DirectoryTypeOK, Departments

\* Whoever is updated stays on the books.
LEMMA HiredStep == DirectoryTypeOK /\ Hired /\ DirectoryNext => Hired'
<1> SUFFICES ASSUME DirectoryTypeOK, Hired, DirectoryNext PROVE Hired'
  OBVIOUS
<1> DEFINE Stays == \A e \in Person : staff[e] # "none" => staff'[e] # "none"
<1>1. ASSUME Stays, NEW h \in Handler, \A g \in Handler : g # h => at'[g] = at[g]
             /\ who'[g] = who[g],
             at'[h] # "update" \/ \A e \in who'[h] : staff[e] # "none"
      PROVE  Hired'
  <2>1. who \in [Handler -> SUBSET Person] /\ who' \in [Handler -> SUBSET Person]
    BY DirectoryTypeStep DEF DirectoryTypeOK
  <2> QED
    BY <1>1, <2>1 DEF Hired
<1> HIDE DEF Stays
<1>2. ASSUME NEW h \in Handler, Staffing(h) PROVE Hired'
  <2>1. UNCHANGED staff => Stays
    BY DEF Stays
  <2>2. \A people, d : Employ(people, d) => Stays
    BY DEF Employ, Stays
  <2>3. UpdateWrite(h) => Stays
    BY DEF UpdateWrite, Stays, DirectoryTypeOK
  <2>4. \A step, people, target : Take(h, step, people, target) =>
            /\ UNCHANGED staff /\ \A g \in Handler : g # h => at'[g] = at[g] /\ who'[g] = who[g]
            /\ at'[h] = step /\ who'[h] = people
    BY DEF Take, Go, rows, DirectoryTypeOK
  <2>5. ASSUME NEW e \in Person, Update(h, e) PROVE Hired'
    BY <1>1, <2>1, <2>4, <2>5 DEF Update
  <2>6. ASSUME NEW e \in Person, Create(h, e) PROVE Hired'
    BY <1>1, <2>1, <2>4, <2>6 DEF Create
  <2>7. ASSUME NEW p, Import(h, p) PROVE Hired'
    BY <1>1, <2>1, <2>4, <2>7 DEF Import
  <2>8. ASSUME NEW p, NEW d, BulkUpload(h, p, d) PROVE Hired'
    BY <1>1, <2>1, <2>4, <2>8 DEF BulkUpload
  <2>9. ASSUME Stays, Answer(h) \/ (\E step \in Steps \ {"update"} : Go(h, step) /\ UNCHANGED who)
        PROVE  Hired'
    BY <1>1, <2>9 DEF Answer, Go, DirectoryTypeOK
  <2>10. CASE CreateResolve(h) \/ CreateBranchFor(h) \/ CreateDepartmentFor(h) \/ CreateInsert(h)
    BY <2>1, <2>2, <2>9, <2>10 DEF CreateResolve, CreateBranchFor, CreateDepartmentFor,
       CreateInsert,
       NewBranch, NewDepartment, rows, Steps
  <2>11. CASE UpdateWrite(h) \/ Uncache(h) \/ BulkCommit(h)
    BY <2>1, <2>2, <2>3, <2>9, <2>11 DEF UpdateWrite, Uncache, BulkCommit, rows, Steps
  <2>12. CASE ImportBegin(h) \/ ImportBranch(h) \/ ImportEnds(h)
    BY <2>1, <2>9, <2>12 DEF ImportBegin, ImportBranch, ImportEnds, NewBranch, rows, Steps
  <2>13. CASE ImportDepartment(h) \/ ImportRow(h) \/ ImportRowFails(h)
    <3>1. Stays
      BY <2>1, <2>2, <2>13 DEF ImportDepartment, ImportRow, ImportRowFails, rows
    <3>2. /\ at[h] = "import" /\ UNCHANGED at
          /\ UNCHANGED who \/ \E people : who' = [who EXCEPT ![h] = people]
      BY <2>13 DEF ImportDepartment, ImportRow, ImportRowFails, calls
    <3> QED
      BY <1>1, <3>1, <3>2 DEF DirectoryTypeOK
  <2> QED
    BY <1>2, <2>5, <2>6, <2>7, <2>8, <2>10, <2>11, <2>12, <2>13 DEF Staffing
<1>3. ASSUME NEW h \in Handler, Structuring(h) \/ DirectoryBreaks(h) PROVE Hired'
  <2>1. Stays
    BY <1>3 DEF Structuring, DeleteBranch, CreateDepartment, BranchCount, BranchDelete,
       CreateDepartmentWrite, DeleteDepartment, DeleteDepartmentWrite, DirectoryBreaks, Take,
       rows, Stays
  <2>2. \/ Answer(h) \/ (Go(h, "branchDelete") /\ UNCHANGED who)
        \/ \E step \in {"branchCount", "departmentCreate", "departmentDelete"} :
              Go(h, step) /\ who' = [who EXCEPT ![h] = {}]
    BY <1>3 DEF Structuring, DeleteBranch, CreateDepartment, BranchCount, BranchDelete,
       CreateDepartmentWrite, DeleteDepartment, DeleteDepartmentWrite, DirectoryBreaks, Take
  <2> QED
    BY <1>1, <2>1, <2>2 DEF Answer, Go, DirectoryTypeOK
<1>4. CASE KpiRead \/ KpiStore \/ KpiExpire \/ \E b \in Branch : AddBranch(b)
  BY <1>4 DEF KpiRead, KpiStore, KpiExpire, AddBranch, rows, calls, Hired
<1> QED
  BY <1>2, <1>3, <1>4 DEF DirectoryNext

\* Every step leaves whoever is on the books a department that exists.
LEMMA PlaceStep == DirectoryTypeOK /\ Hired /\ StaffHasWorkplace /\ DirectoryNext
         => StaffHasWorkplace'
<1> SUFFICES ASSUME DirectoryTypeOK, Hired, StaffHasWorkplace, DirectoryNext
             PROVE  StaffHasWorkplace'
  OBVIOUS
<1>1. ASSUME UNCHANGED <<staff, place>>, Departments \subseteq Departments'
      PROVE  StaffHasWorkplace'
  BY <1>1 DEF StaffHasWorkplace
<1>2. UNCHANGED home => Departments \subseteq Departments'
  BY DEF Departments
<1>3. UNCHANGED rows => StaffHasWorkplace'
  BY <1>1, <1>2 DEF rows
<1>4. ASSUME NEW people, NEW d, Insertable(people, d), Employ(people, d), UNCHANGED home
      PROVE  StaffHasWorkplace'
  BY <1>4 DEF Insertable, Employ, StaffHasWorkplace, Departments
<1>5. ASSUME NEW h \in Handler, CreateInsert(h) \/ BulkCommit(h) PROVE StaffHasWorkplace'
  <2>1. CASE Insertable(who[h], where[h])
    BY <1>4, <1>5, <2>1 DEF CreateInsert, BulkCommit
  <2>2. CASE ~Insertable(who[h], where[h])
    BY <1>3, <1>5, <2>2 DEF CreateInsert, BulkCommit
  <2> QED
    BY <2>1, <2>2
<1>6. ASSUME NEW h \in Handler, UpdateWrite(h) PROVE StaffHasWorkplace'
  <2>1. PICK e \in who[h] :
          \/ \E s \in {"ACTIVE", "INACTIVE"} : staff' = [staff EXCEPT ![e] = s] /\ UNCHANGED place
          \/ \E d \in Departments : place' = [place EXCEPT ![e] = d] /\ UNCHANGED staff
    BY <1>6 DEF UpdateWrite
  <2>2. Departments' = Departments
    BY <1>6 DEF UpdateWrite, Departments
  <2>3. at[h] = "update" /\ UNCHANGED home
    BY <1>6 DEF UpdateWrite
  <2> QED
    BY <2>1, <2>2, <2>3 DEF StaffHasWorkplace, DirectoryTypeOK, Hired
<1>7. ASSUME NEW h \in Handler, ImportRow(h) PROVE StaffHasWorkplace'
  BY <1>4, <1>7 DEF ImportRow
<1>8. ASSUME NEW h \in Handler,
             CreateDepartmentFor(h) \/ ImportDepartment(h) \/ CreateDepartmentWrite(h)
      PROVE  StaffHasWorkplace'
  <2>1. UNCHANGED <<staff, place>>
    BY <1>8 DEF CreateDepartmentFor, NewDepartment, ImportDepartment, CreateDepartmentWrite, rows
  <2>2. UNCHANGED home
      \/ \E d \in Department \ Departments : \E b : home' = [home EXCEPT ![d] = b]
    BY <1>8 DEF CreateDepartmentFor, NewDepartment, ImportDepartment, CreateDepartmentWrite, rows
  <2> QED
    BY <1>1, <1>2, <2>1, <2>2, DepartmentsStay
<1>9. ASSUME NEW h \in Handler, BranchDelete(h) PROVE StaffHasWorkplace'
  <2>1. CASE Deserted(In(where[h]))
    <3>1. /\ home' = [d \in Department |-> IF home[d] = where[h] THEN "none" ELSE home[d]]
          /\ UNCHANGED <<staff, place>>
      BY <1>9, <2>1 DEF BranchDelete
    <3>2. Departments \ In(where[h]) \subseteq Departments'
      BY <3>1 DEF Departments, In
    <3> QED
      BY <2>1, <3>1, <3>2 DEF StaffHasWorkplace, Deserted
  <2>2. CASE ~Deserted(In(where[h]))
    BY <1>1, <1>2, <1>9, <2>2 DEF BranchDelete
  <2> QED
    BY <2>1, <2>2
<1>10. ASSUME NEW h \in Handler, DeleteDepartmentWrite(h) PROVE StaffHasWorkplace'
  <2>1. CASE Deserted({where[h]})
    <3>1. home' = [home EXCEPT ![where[h]] = "none"] /\ UNCHANGED <<staff, place>>
      BY <1>10, <2>1 DEF DeleteDepartmentWrite
    <3>2. Departments \ {where[h]} \subseteq Departments'
      BY <3>1 DEF Departments, DirectoryTypeOK
    <3> QED
      BY <2>1, <3>1, <3>2 DEF StaffHasWorkplace, Deserted
  <2>2. CASE ~Deserted({where[h]})
    BY <1>1, <1>2, <1>10, <2>2 DEF DeleteDepartmentWrite
  <2> QED
    BY <2>1, <2>2
<1>11. ASSUME NEW h \in Handler, Staffing(h) PROVE StaffHasWorkplace'
  <2>1. ASSUME ~CreateInsert(h), ~BulkCommit(h), ~UpdateWrite(h), ~ImportRow(h),
               ~CreateDepartmentFor(h), ~ImportDepartment(h)
        PROVE  UNCHANGED <<staff, place, home>>
    BY <1>11, <2>1 DEF Staffing, Create, Update, CreateResolve, CreateBranchFor, NewBranch,
       Uncache,
       Import, BulkUpload, ImportBegin, ImportBranch, ImportRowFails, ImportEnds, Take, rows
  <2> QED
    BY <1>1, <1>2, <1>5, <1>6, <1>7, <1>8, <2>1
<1>12. ASSUME NEW h \in Handler, Structuring(h) PROVE StaffHasWorkplace'
  <2>1. ASSUME ~BranchDelete(h), ~CreateDepartmentWrite(h), ~DeleteDepartmentWrite(h)
        PROVE  UNCHANGED rows
    BY <1>12, <2>1 DEF Structuring, DeleteBranch, CreateDepartment, BranchCount,
       DeleteDepartment, Take
  <2> QED
    BY <1>3, <1>8, <1>9, <1>10, <2>1
<1>13. ASSUME NEW h \in Handler, DirectoryBreaks(h) PROVE StaffHasWorkplace'
  BY <1>3, <1>13 DEF DirectoryBreaks
<1>14. CASE KpiRead \/ KpiStore \/ KpiExpire \/ \E b \in Branch : AddBranch(b)
  BY <1>1, <1>2, <1>14 DEF KpiRead, KpiStore, KpiExpire, AddBranch, rows
<1> QED
  BY <1>11, <1>12, <1>13, <1>14 DEF DirectoryNext

-----------------------------------------------------------------------------
\* Where requests do not overlap, nobody but the one under way does anything.
LEMMA OneAtATime ==
    ASSUME DirectoryTypeOK, KpiInv, calm, NEW h \in Handler
    PROVE  /\ at[h] # "idle" => fill = NoCount /\ \A g \in Handler : g # h => at[g] = "idle"
           /\ \A step, people, target : Take(h, step, people, target) =>
                fill = NoCount /\ \A g \in Handler : at[g] = "idle"
  BY DEF KpiInv, Take, MayTake

\* Every step that changes the head count forgets or forgoes the cached one.
LEMMA KpiStep == DirectoryTypeOK /\ KpiInv /\ DirectoryNext => KpiInv'
<1> SUFFICES ASSUME DirectoryTypeOK, KpiInv, DirectoryNext, calm' PROVE KpiInv'
  BY DEF KpiInv
<1>1. calm /\ NoCount' = NoCount
  <2>1. ASSUME NEW h \in Handler, Staffing(h) PROVE calm
    BY <2>1 DEF Staffing, Create, Update, CreateResolve, CreateBranchFor, NewBranch,
       CreateDepartmentFor, NewDepartment, CreateInsert, UpdateWrite, Uncache, Import, BulkUpload,
       BulkCommit, ImportBegin, ImportBranch, ImportDepartment, ImportRow, ImportRowFails,
       ImportEnds, Take
  <2>2. ASSUME NEW h \in Handler, Structuring(h) PROVE calm
    BY <2>2 DEF Structuring, DeleteBranch, CreateDepartment, BranchCount, BranchDelete,
       CreateDepartmentWrite, DeleteDepartment, DeleteDepartmentWrite, Take
  <2>3. ASSUME NEW h \in Handler, DirectoryBreaks(h) PROVE calm
    BY <2>3 DEF DirectoryBreaks
  <2>4. CASE KpiRead \/ KpiStore \/ KpiExpire \/ \E b \in Branch : AddBranch(b)
    BY <2>4 DEF KpiRead, KpiStore, KpiExpire, AddBranch
  <2> QED
    BY <2>1, <2>2, <2>3, <2>4 DEF DirectoryNext, NoCount
<1>2. /\ \A g, h \in Handler : at[g] # "idle" /\ at[h] # "idle" => g = h
      /\ fill # NoCount => fill = Cardinality(Active) /\ \A h \in Handler : at[h] = "idle"
      /\ (\A h \in Handler : at[h] \notin {"import", "uncache"}) =>
             kpi \in {NoCount, Cardinality(Active)}
  BY <1>1 DEF KpiInv
<1>3. at \in [Handler -> Steps]
  BY DEF DirectoryTypeOK
<1>4. UNCHANGED staff => Active' = Active
  BY DEF Active
\* A request begins, or goes on without having employed anybody yet.
<1>5. ASSUME NEW h \in Handler, UNCHANGED <<staff, cached, calm>>,
             at' = [at EXCEPT ![h] = "idle"] \/ \E step \in Steps : at' = [at EXCEPT ![h] = step],
             at[h] \notin {"import", "uncache"}, 
             fill = NoCount, \A g \in Handler : g # h => at[g] = "idle"
      PROVE  KpiInv'
  BY <1>1, <1>2, <1>3, <1>4, <1>5 DEF KpiInv, cached
\* A request has employed somebody, or may have, and has the cache still to clear.
<1>6. ASSUME NEW h \in Handler, UNCHANGED <<cached, calm>>, at[h] # "idle",
             at'[h] \in {"import", "uncache"}, \A g \in Handler : g # h => at'[g] = at[g]
      PROVE  KpiInv'
  BY <1>1, <1>2, <1>3, <1>6, OneAtATime DEF KpiInv, cached
<1>7. ASSUME NEW h \in Handler, NEW step \in Steps, NEW people, NEW target, Take(h, step, people,
             target)
      PROVE  KpiInv'
  <2>1. at[h] = "idle" /\ fill = NoCount /\ \A g \in Handler : at[g] = "idle"
    BY <1>1, <1>7, OneAtATime
  <2> QED
    BY <1>5, <1>7, <2>1 DEF Take, Go, rows
<1>8. ASSUME NEW h \in Handler, NEW e \in Person, Create(h, e) \/ Update(h, e) PROVE KpiInv'
  BY <1>7, <1>8 DEF Create, Update, Steps
<1>9. ASSUME NEW h \in Handler, NEW p, NEW d, Import(h, p) \/ BulkUpload(h, p, d) PROVE KpiInv'
  BY <1>7, <1>9 DEF Import, BulkUpload, Steps
<1>10. ASSUME NEW h \in Handler, NEW b, NEW d,
              DeleteBranch(h, b) \/ CreateDepartment(h, b) \/ DeleteDepartment(h, d)
       PROVE  KpiInv'
  BY <1>7, <1>10 DEF DeleteBranch, CreateDepartment, DeleteDepartment, Steps
<1>11. ASSUME NEW h \in Handler, UNCHANGED <<staff, cached, calm>>,
              Answer(h) \/ \E step \in Steps : Go(h, step),
              at[h] \notin {"idle", "import", "uncache"}
       PROVE  KpiInv'
  <2>1. fill = NoCount /\ \A g \in Handler : g # h => at[g] = "idle"
    BY <1>1, <1>11, OneAtATime
  <2> QED
    BY <1>5, <1>11, <2>1 DEF Answer, Go
<1>12. ASSUME NEW h \in Handler,
              CreateResolve(h) \/ CreateBranchFor(h) \/ CreateDepartmentFor(h)
              \/ ImportBegin(h) \/ ImportBranch(h)
       PROVE  KpiInv'
  <2>1. UNCHANGED <<staff, cached, calm>> /\ at[h] \notin {"idle", "import", "uncache"}
    BY <1>12 DEF CreateResolve, CreateBranchFor, CreateDepartmentFor, ImportBegin, ImportBranch,
                 NewBranch, NewDepartment, rows
  <2>2. Answer(h) \/ \E step \in Steps : Go(h, step)
    BY <1>12 DEF CreateResolve, CreateBranchFor, CreateDepartmentFor, ImportBegin, ImportBranch,
                 NewBranch, NewDepartment, Steps
  <2> QED
    BY <1>11, <2>1, <2>2
<1>13. ASSUME NEW h \in Handler,
              BranchCount(h) \/ BranchDelete(h) \/ CreateDepartmentWrite(h)
                  \/ DeleteDepartmentWrite(h)
       PROVE  KpiInv'
  <2>1. UNCHANGED <<staff, cached, calm>> /\ at[h] \notin {"idle", "import", "uncache"}
    BY <1>13 DEF BranchCount, BranchDelete, CreateDepartmentWrite, DeleteDepartmentWrite, rows
  <2>2. Answer(h) \/ \E step \in Steps : Go(h, step)
    BY <1>13 DEF BranchCount, BranchDelete, CreateDepartmentWrite, DeleteDepartmentWrite, Steps
  <2> QED
    BY <1>11, <2>1, <2>2
<1>14. ASSUME NEW h \in Handler, CreateInsert(h) \/ BulkCommit(h) PROVE KpiInv'
  <2>1. UNCHANGED <<cached, calm>> /\ at[h] \in {"insert", "bulk"}
    BY <1>14 DEF CreateInsert, BulkCommit
  <2>2. CASE Insertable(who[h], where[h])
    <3>1. Go(h, "uncache")
      BY <1>14, <2>2 DEF CreateInsert, BulkCommit
    <3> QED
      BY <1>3, <1>6, <2>1, <3>1 DEF Go
  <2>3. CASE ~Insertable(who[h], where[h])
    <3>1. Answer(h) /\ UNCHANGED rows
      BY <1>14, <2>3 DEF CreateInsert, BulkCommit
    <3> QED
      BY <1>11, <2>1, <3>1 DEF rows
  <2> QED
    BY <2>2, <2>3
<1>15. ASSUME NEW h \in Handler, UpdateWrite(h) PROVE KpiInv'
  BY <1>3, <1>6, <1>15 DEF UpdateWrite, Go
<1>16. ASSUME NEW h \in Handler,
              ImportDepartment(h) \/ ImportRow(h) \/ ImportRowFails(h) \/ ImportEnds(h)
       PROVE  KpiInv'
  <2>1. UNCHANGED <<cached, calm>> /\ at[h] = "import" /\ (at' = at \/ Go(h, "uncache"))
    BY <1>16 DEF ImportDepartment, ImportRow, ImportRowFails, ImportEnds, calls
  <2> QED
    BY <1>3, <1>6, <2>1 DEF Go
<1>17. ASSUME NEW h \in Handler, Uncache(h) PROVE KpiInv'
  <2>1. fill = NoCount /\ \A g \in Handler : g # h => at[g] = "idle"
    BY <1>1, <1>17, OneAtATime DEF Uncache
  <2> QED
    BY <1>1, <1>3, <1>17, <2>1 DEF Uncache, Answer, Go, KpiInv
<1>18. ASSUME NEW h \in Handler, DirectoryBreaks(h) PROVE FALSE
  BY <1>1, <1>18 DEF DirectoryBreaks, MayBreak
<1>19. ASSUME NEW b \in Branch, AddBranch(b) PROVE KpiInv'
  BY <1>1, <1>2, <1>4, <1>19 DEF AddBranch, KpiInv, calls, cached
<1>20. CASE KpiRead
  BY <1>1, <1>2, <1>4, <1>20 DEF KpiRead, KpiInv, rows, calls
<1>21. CASE KpiStore
  BY <1>1, <1>2, <1>4, <1>21 DEF KpiStore, KpiInv, rows, calls
<1>22. CASE KpiExpire
  BY <1>1, <1>2, <1>4, <1>22 DEF KpiExpire, KpiInv, rows, calls
<1> QED
  <2>1. ASSUME NEW h \in Handler, Staffing(h) PROVE KpiInv'
    BY <1>8, <1>9, <1>12, <1>14, <1>15, <1>16, <1>17, <2>1 DEF Staffing
  <2>2. ASSUME NEW h \in Handler, Structuring(h) PROVE KpiInv'
    BY <1>10, <1>13, <2>2 DEF Structuring
  <2> QED
    BY <1>18, <1>19, <1>20, <1>21, <1>22, <2>1, <2>2 DEF DirectoryNext

-----------------------------------------------------------------------------
\* No request and no timer changes what kind of history it is.
LEMMA DirectoryCalm == DirectoryNext => calm' = calm
  BY DEF DirectoryNext, Staffing, Structuring, DirectoryBreaks, Create, CreateResolve,
     CreateBranchFor,
     CreateDepartmentFor, CreateInsert, Update, UpdateWrite, Uncache, BulkUpload, BulkCommit,
     Import,
     ImportBegin, ImportBranch, ImportDepartment, ImportRow, ImportRowFails, ImportEnds,
     AddBranch,
     DeleteBranch, BranchCount, BranchDeleteAll, BranchDelete, CreateDepartment,
     CreateDepartmentWrite, DeleteDepartment, DeleteDepartmentWrite, KpiRead, KpiStore, KpiExpire,
     Take, NewDepartment, NewBranch

\* DirectoryInv is about nothing else than the variables of the module.
LEMMA DirectoryStutters == DirectoryInv /\ UNCHANGED <<directoryVars, calm>> => DirectoryInv'
  BY DEF DirectoryInv, DirectoryTypeOK, SeatInv, OneEach, Hired, StaffHasWorkplace, KpiInv,
     Checked, Counted,
     Leeway, Active, Departments, NoCount, directoryVars

\* DirectoryInv is inductive.
LEMMA DirectoryStep == DirectoryInv /\ [DirectoryNext]_<<directoryVars, calm>> => DirectoryInv'
  BY DirectoryTypeStep, SeatStep, HiredStep, PlaceStep, KpiStep, DirectoryStutters DEF
     DirectoryInv

\* The invariant holds in every state, whatever requests overlap or break off.
THEOREM DirectoryInvariance == DirectorySpec => []DirectoryInv
  BY DirectoryInitially, DirectoryStep, PTL DEF DirectorySpec

\* EmployeeService.create: the seats of a plan are exceeded by no more people than there
\* are requests at one time beside the first, and by nobody where they do not overlap.
THEOREM SeatsHold == DirectorySpec => []SeatsBounded
<1>1. DirectoryInv => SeatsBounded
  <2> SUFFICES ASSUME DirectoryInv PROVE SeatsBounded
    OBVIOUS
  <2>1. Cardinality(Checked) + Cardinality(Counted) <= MaxEmployees + Leeway
    BY DEF DirectoryInv, SeatInv
  <2>2. Cardinality(Checked) <= MaxEmployees + Leeway
    BY <2>1, Heads, SeatAssumption
  <2> QED
    BY <2>2 DEF SeatsBounded, Checked, Leeway
<1> QED
  BY <1>1, DirectoryInvariance, PTL

\* WorkspaceService deletes departments and branches while others hire; still everybody on
\* the books has a department that exists.
THEOREM EverybodyHasWorkplace == DirectorySpec => []StaffHasWorkplace
<1>1. DirectoryInv => StaffHasWorkplace
  BY DEF DirectoryInv
<1> QED
  BY <1>1, DirectoryInvariance, PTL

\* So the cached head count is the true one between requests.
LEMMA HeadCountKept == DirectoryInv => KpiCurrent
  BY DEF DirectoryInv, KpiInv, KpiCurrent

\* DashboardService.getTenantKPIs: between requests the cached head count is the true one.
THEOREM HeadCountCurrent == DirectorySpec => []KpiCurrent
  BY HeadCountKept, DirectoryInvariance, PTL

-----------------------------------------------------------------------------
(*************************************************************************)
(* Users and invitations.  Every write checks the keys of the tables,    *)
(* whatever a request has looked up; and what it has looked up is still  *)
(* so when it writes, if requests do not overlap.                        *)
(*************************************************************************)

\* A request that is under way is about an address, in a workspace.
Addressed ==
    \A h \in Handler : task[h].at # "idle" =>
        /\ task[h].workspace \in Workspace /\ task[h].address \in Address
        /\ task[h].at \in {"check", "find", "join"} => task[h].phone \in Phone

\* What a request has looked up is still so when it writes.
LookedUp(t) ==
    /\ t.at = "add" => Of(t.address) = {}
    /\ t.at \in {"find", "join"} => t.role = invites[<<t.workspace, t.address>>].role
    /\ t.at # "join" => t.found = {}
    /\ t.at = "join" =>
        \/ t.found = {} /\ Of(t.address) = {}
        \/ \E u \in Of(t.address) : t.found = {u.phone}

\* Without overlap one request is under way, and what it knows is so.
LookedUpInv ==
    calm =>
        /\ \A g, h \in Handler : task[g].at # "idle" /\ task[h].at # "idle" => g = h
        /\ \A h \in Handler : LookedUp(task[h])

\* What is always so, and what is so without overlap.
MembersInv ==
    MembersTypeOK /\ Addressed /\ Unique(users) /\ browser.named = browser.workspace
    /\ LookedUpInv /\ OneUserPerAddress /\ RoleAsInvited

\* A row of the table of users.
UserRow == [address : Address, phone : Address \X Phone, workspace : Workspace,
            role : Rank \cup {"OWNER"}]

\* MembersInv holds of workspaces that begin.
LEMMA MembersInitially == CalmInit /\ MembersInit => MembersInv
<1> SUFFICES ASSUME MembersInit PROVE MembersInv
  OBVIOUS
<1>1. MembersTypeOK
  BY LinkAssumption DEF MembersInit, MembersTypeOK, NoInvite, NoTask, NoBrowser, Rank, None
<1> QED
  BY <1>1 DEF MembersInit, MembersInv, Addressed, Unique, NoTask, NoBrowser, LookedUpInv,
     LookedUp, OneUserPerAddress, RoleAsInvited

\* No request changes what kind of history it is.
LEMMA MembersCalm == MembersNext => calm' = calm
  BY DEF MembersNext, Begin, Provisioned, OwnerLookedUp, OwnerAdded, CreateInvite, Invited,
     InviteExpires, Accept, InviteChecked, InviteeFound, Joined, MemberBreaks, WebLogin,
     PageLoaded, WebLogout

\* Every step keeps the types, and a request its address.
LEMMA MembersTypeStep == MembersTypeOK /\ Addressed /\ MembersNext => MembersTypeOK' /\ Addressed'
<1> SUFFICES ASSUME MembersTypeOK, Addressed, MembersNext PROVE MembersTypeOK' /\ Addressed'
  OBVIOUS
<1> DEFINE TaskType == [at : {"idle", "look", "add", "invite", "check", "find", "join"},
            workspace : Workspace \cup {None}, address : Address \cup {None},
            role : Rank, phone : Phone \cup {0}, found : SUBSET (Address \X Phone)]
           InviteType == [token : 0 .. MaxLinks, role : Rank,
                     status : {None, "PENDING", "EXPIRED", "ACCEPTED"}]
           LinkType == [workspace : Workspace, address : Address]
           Asked(t) == t.at # "idle" =>
                           /\ t.workspace \in Workspace /\ t.address \in Address
                           /\ t.at \in {"check", "find", "join"} => t.phone \in Phone
           Typed == /\ users \subseteq UserRow
                    /\ invites \in [Workspace \X Address -> InviteType]
                    /\ links \in Seq(LinkType) /\ Len(links) <= MaxLinks
                    /\ task \in [Handler -> TaskType]
                    /\ browser \in [address : Address \cup {None}, workspace : Workspace \cup {None},
                                    named : Workspace \cup {None}]
                    /\ \A h \in Handler : Asked(task[h])
<1>0. Typed /\ MaxLinks \in Nat
  BY LinkAssumption DEF MembersTypeOK, Addressed, UserRow
<1>1. NoTask \in TaskType /\ Asked(NoTask)
  BY DEF NoTask, Rank
<1>2. SUFFICES Typed'
  BY DEF MembersTypeOK, Addressed, UserRow
<1>20. ASSUME NEW i \in Workspace \X Address, NEW st \in {"EXPIRED", "ACCEPTED"}
       PROVE  [invites EXCEPT ![i].status = st] \in [Workspace \X Address -> InviteType]
  <2>1. invites[i] \in InviteType
    BY <1>0
  <2>2. [invites[i] EXCEPT !.status = st] \in InviteType
    BY <2>1
  <2> HIDE DEF InviteType
  <2> QED
    BY <1>0, <2>2
<1>3. ASSUME NEW h \in Handler, NEW t \in TaskType, Asked(t), Proceed(h, t)
      PROVE  task' \in [Handler -> TaskType] /\ \A g \in Handler : Asked(task'[g])
  <2>1. task' = [task EXCEPT ![h] = t]
    BY <1>3 DEF Proceed
  <2>2. task' \in [Handler -> TaskType]
    BY <1>0, <2>1
  <2>3. \A g \in Handler : task'[g] = IF g = h THEN t ELSE task[g]
    BY <1>0, <2>1
  <2> QED
    BY <1>0, <1>3, <2>2, <2>3
<1>4. ASSUME NEW h \in Handler, NEW t \in TaskType, Asked(t), Begin(h, t) PROVE Typed'
  <2>1. Proceed(h, t) /\ UNCHANGED <<users, invites, links, browser>>
    BY <1>4 DEF Begin, Proceed
  <2> HIDE DEF TaskType, InviteType, LinkType
  <2>2. task' \in [Handler -> TaskType] /\ \A g \in Handler : Asked(task'[g])
    BY <1>3, <1>4, <2>1
  <2> QED
    BY <1>0, <2>1, <2>2
<1> HIDE DEF TaskType, InviteType, LinkType, Asked
<1>5. ASSUME NEW h \in Handler, NEW t \in TaskType, Asked(t), Proceed(h, t),
             UNCHANGED <<users, invites, links, browser>>
      PROVE  Typed'
  BY <1>0, <1>3, <1>5
<1>6. ASSUME NEW h \in Handler, NEW w \in Workspace, NEW a \in Address, Provisioned(h, w, a)
      PROVE  Typed'
  <2> DEFINE t == [NoTask EXCEPT !.at = "look", !.workspace = w, !.address = a]
  <2>1. t \in TaskType /\ Asked(t)
    BY DEF NoTask, Rank, TaskType, Asked
  <2> QED
    BY <1>4, <1>6, <2>1 DEF Provisioned
<1>7. ASSUME NEW h \in Handler, NEW w \in Workspace, NEW a \in Address, NEW r \in Rank,
             CreateInvite(h, w, a, r)
      PROVE Typed'
  <2> DEFINE t == [NoTask EXCEPT !.at = "invite", !.workspace = w, !.address = a, !.role = r]
  <2>1. t \in TaskType /\ Asked(t)
    BY DEF NoTask, Rank, TaskType, Asked
  <2> QED
    BY <1>4, <1>7, <2>1 DEF CreateInvite
<1>8. ASSUME NEW h \in Handler, NEW l \in 1 .. Len(links), NEW p \in Phone, Accept(h, l, p)
      PROVE  Typed'
  <2>1. links[l] \in LinkType
    BY <1>0
  <2> DEFINE r == invites[<<links[l].workspace, links[l].address>>].role
  <2>2. r \in Rank
    BY <1>0, <2>1 DEF InviteType, LinkType, TaskType, Asked
  <2> DEFINE t == [NoTask EXCEPT !.at = "check", !.workspace = links[l].workspace,
                               !.address = links[l].address, !.phone = p, !.role = r]
  <2>3. t \in TaskType /\ Asked(t)
    BY <2>1, <2>2 DEF NoTask, Rank, TaskType, Asked, LinkType
  <2> QED
    BY <1>4, <1>8, <2>3 DEF Accept
<1>9. ASSUME NEW h \in Handler, OwnerLookedUp(h) PROVE Typed'
  <2>1. task[h] \in TaskType /\ task[h].at = "look" /\ Asked(task[h])
    BY <1>0, <1>9, Zenon DEF OwnerLookedUp
  <2>2. [task[h] EXCEPT !.at = "add"] \in TaskType /\ Asked([task[h] EXCEPT !.at = "add"])
    BY <2>1 DEF TaskType, Asked
  <2> QED
    BY <1>1, <1>5, <1>9, <2>2 DEF OwnerLookedUp
<1>10. ASSUME NEW h \in Handler, InviteChecked(h) PROVE Typed'
  <2> DEFINE r == invites[<<task[h].workspace, task[h].address>>].role
             t == [task[h] EXCEPT !.at = "find", !.role = r]
  <2>1. task[h] \in TaskType /\ task[h].at = "check" /\ Asked(task[h])
    BY <1>0, <1>10 DEF InviteChecked
  <2>2. r \in Rank
    BY <1>0, <2>1 DEF InviteType, LinkType, TaskType, Asked
  <2>3. t \in TaskType /\ Asked(t)
    BY <2>1, <2>2 DEF TaskType, Asked
  <2>4. Proceed(h, t) \/ Proceed(h, NoTask)
    BY <1>10 DEF InviteChecked
  <2>5. UNCHANGED <<users, invites, links, browser>>
    BY <1>10 DEF InviteChecked
  <2> HIDE DEF t
  <2> QED
    BY <1>1, <1>5, <2>3, <2>4, <2>5
<1>11. ASSUME NEW h \in Handler, InviteeFound(h) PROVE Typed'
  <2>1. task[h] \in TaskType /\ task[h].at = "find" /\ Asked(task[h])
    BY <1>0, <1>11 DEF InviteeFound
  <2>2. PICK S \in SUBSET (Address \X Phone) :
            Proceed(h, [task[h] EXCEPT !.at = "join", !.found = S])
    <3>1. CASE Proceed(h, [task[h] EXCEPT !.at = "join"])
      <4>1. [task[h] EXCEPT !.at = "join"] = [task[h] EXCEPT !.at = "join", !.found = task[h].found]
        BY <2>1 DEF TaskType
      <4>2. task[h].found \in SUBSET (Address \X Phone)
        BY <2>1 DEF TaskType
      <4> QED
        BY <3>1, <4>1, <4>2
    <3>2. ASSUME NEW u \in Of(task[h].address),
                 Proceed(h, [task[h] EXCEPT !.at = "join", !.found = {u.phone}])
          PROVE  \E S \in SUBSET (Address \X Phone) :
                    Proceed(h, [task[h] EXCEPT !.at = "join", !.found = S])
      <4>1. {u.phone} \in SUBSET (Address \X Phone)
        BY <1>0 DEF Of, UserRow
      <4> QED
        BY <3>2, <4>1
    <3> QED
      BY <1>11, <3>1, <3>2 DEF InviteeFound
  <2> DEFINE t == [task[h] EXCEPT !.at = "join", !.found = S]
  <2>3. t \in TaskType /\ Asked(t)
    BY <2>1 DEF TaskType, Asked
  <2>4. UNCHANGED <<users, invites, links, browser>>
    BY <1>11 DEF InviteeFound
  <2>5. Proceed(h, t)
    BY <2>2
  <2> HIDE DEF t
  <2> QED
    BY <1>5, <2>3, <2>4, <2>5
<1>12. ASSUME NEW h \in Handler, MemberBreaks(h) PROVE Typed'
  BY <1>1, <1>5, <1>12 DEF MemberBreaks
<1>13. ASSUME NEW h \in Handler, NEW p \in Phone, OwnerAdded(h, p) PROVE Typed'
  <2>1. task[h].address \in Address /\ task[h].workspace \in Workspace
    BY <1>0, <1>13 DEF OwnerAdded, Asked
  <2>2. [address |-> task[h].address, phone |-> <<task[h].address, p>>,
         workspace |-> task[h].workspace, role |-> "OWNER"] \in UserRow
    BY <2>1 DEF UserRow
  <2>3. users' \subseteq UserRow
    BY <1>0, <1>13, <2>2 DEF OwnerAdded, RowsAfter
  <2> QED
    BY <1>0, <1>1, <1>3, <1>13, <2>3 DEF OwnerAdded
<1>14. ASSUME NEW h \in Handler, Joined(h) PROVE Typed'
  <2>1. task[h] \in TaskType /\ task[h].address \in Address /\ task[h].workspace \in Workspace
        /\ task[h].phone \in Phone
    BY <1>0, <1>14 DEF Joined, Asked
  <2>2. [address |-> task[h].address, phone |-> <<task[h].address, task[h].phone>>,
         workspace |-> task[h].workspace, role |-> task[h].role] \in UserRow
    BY <2>1 DEF UserRow, TaskType
  <2>3. ASSUME NEW u \in users
        PROVE  [u EXCEPT !.workspace = task[h].workspace, !.role = task[h].role] \in UserRow
    <3>1. u \in UserRow /\ task[h].role \in Rank
      BY <1>0, <2>1 DEF TaskType
    <3> QED
      BY <2>1, <3>1 DEF UserRow
  <2>4. WithInvited(task[h], task[h].role) \subseteq UserRow
    <3>1. CASE task[h].found = {}
      BY <1>0, <2>2, <3>1 DEF WithInvited
    <3>2. CASE task[h].found # {}
      <4>1. WithInvited(task[h], task[h].role) =
              {IF u.phone \in task[h].found
               THEN [u EXCEPT !.workspace = task[h].workspace, !.role = task[h].role]
               ELSE u : u \in users}
        BY <3>2 DEF WithInvited
      <4> QED
        BY <1>0, <2>3, <4>1
    <3> QED
      BY <3>1, <3>2
  <2>5. users' \subseteq UserRow
    BY <1>0, <1>14, <2>4 DEF Joined, RowsAfter
  <2>6. invites' \in [Workspace \X Address -> InviteType]
    <3>1. <<task[h].workspace, task[h].address>> \in Workspace \X Address
      BY <2>1
    <3> QED
      BY <1>0, <1>14, <1>20, <3>1 DEF Joined
  <2>7. UNCHANGED <<links, browser>> /\ Proceed(h, NoTask)
    BY <1>14 DEF Joined
  <2> QED
    BY <1>0, <1>1, <1>3, <2>5, <2>6, <2>7
<1>15. ASSUME NEW h \in Handler, Invited(h) PROVE Typed'
  <2>1. task[h] \in TaskType /\ task[h].address \in Address /\ task[h].workspace \in Workspace
    BY <1>0, <1>15 DEF Invited, Asked
  <2> DEFINE l == [workspace |-> task[h].workspace, address |-> task[h].address]
  <2>2. l \in LinkType
    BY <2>1 DEF LinkType
  <2>3. links' = Append(links, l) /\ Len(links) < MaxLinks
    BY <1>15 DEF Invited
  <2>4. links' \in Seq(LinkType) /\ Len(links') = Len(links) + 1 /\ Len(links') <= MaxLinks
        /\ Len(links') \in 0 .. MaxLinks
    BY <1>0, <2>2, <2>3
  <2>5. [token |-> Len(links'), role |-> task[h].role, status |-> "PENDING"] \in InviteType
    BY <2>1, <2>4 DEF InviteType, TaskType
  <2>6. invites' \in [Workspace \X Address -> InviteType]
    BY <1>0, <1>15, <2>5 DEF Invited
  <2> QED
    BY <1>0, <1>1, <1>3, <1>15, <2>4, <2>6 DEF Invited
<1>16. ASSUME NEW i \in Workspace \X Address, InviteExpires(i) PROVE Typed'
  BY <1>0, <1>16, <1>20 DEF InviteExpires
<1>17. ASSUME NEW a \in Address, WebLogin(a) PROVE Typed'
  BY <1>0, <1>17 DEF WebLogin, SignedIn, Of, UserRow
<1>18. CASE PageLoaded
  <2>1. ASSUME NEW u \in GetMe(browser), browser' = [browser EXCEPT !.workspace = u.workspace]
        PROVE Typed'
    BY <1>0, <1>18, <2>1 DEF PageLoaded, GetMe, Of, UserRow
  <2> QED
    BY <1>0, <1>18, <2>1 DEF PageLoaded, NoBrowser
<1>19. CASE WebLogout
  BY <1>0, <1>19 DEF WebLogout, NoBrowser
<1> QED
  BY <1>6, <1>7, <1>8, <1>9, <1>10, <1>11, <1>12, <1>13, <1>14, <1>15, <1>16, <1>17, <1>18, <1>19
     DEF MembersNext

\* The numbers and the browser: whatever a request writes, the keys are checked.
LEMMA MembersKeysStep ==
    ASSUME MembersTypeOK, Unique(users), browser.named = browser.workspace, MembersNext
    PROVE  Unique(users)' /\ (browser.named = browser.workspace)'
<1>1. users' = users \/ Unique(users')
  BY DEF MembersNext, Begin, Provisioned, OwnerLookedUp, OwnerAdded, CreateInvite, Invited,
     InviteExpires, Accept, InviteChecked, InviteeFound, Joined, MemberBreaks, WebLogin,
     PageLoaded, WebLogout, RowsAfter
<1>2. Unique(users)'
  BY <1>1 DEF Unique
<1>3. ASSUME PageLoaded PROVE browser'.named = browser'.workspace
  <2>1. \A u \in GetMe(browser) : browser.named = u.workspace
    BY DEF GetMe
  <2> QED
    BY <1>3, <2>1 DEF PageLoaded, NoBrowser, MembersTypeOK
<1>4. (\E a \in Address : WebLogin(a)) \/ PageLoaded \/ WebLogout \/ browser' = browser
  BY DEF MembersNext, Begin, Provisioned, OwnerLookedUp, OwnerAdded, CreateInvite, Invited,
     InviteExpires, Accept, InviteChecked, InviteeFound, Joined, MemberBreaks
<1> QED
  BY <1>2, <1>3, <1>4 DEF WebLogin, SignedIn, WebLogout, NoBrowser

\* Without overlap, what a request has looked up is still so after every step; one user
\* has an address, and the role that was offered.
LEMMA MembersCalmStep ==
    ASSUME MembersInv, MembersNext
    PROVE  (LookedUpInv /\ OneUserPerAddress /\ RoleAsInvited)'
<1> SUFFICES ASSUME calm PROVE (LookedUpInv /\ OneUserPerAddress /\ RoleAsInvited)'
  BY MembersCalm DEF LookedUpInv, OneUserPerAddress, RoleAsInvited
<1> DEFINE One(many) == \A u, v \in many : u.address = v.address => u = v
           Ranked(many, kept) == \A u \in many :
                kept[<<u.workspace, u.address>>].status = "ACCEPTED" =>
                    u.role \in {kept[<<u.workspace, u.address>>].role, "OWNER"}
           Alone == \A g, h \in Handler : task[g].at # "idle" /\ task[h].at # "idle" => g = h
           Sound == /\ Alone /\ \A h \in Handler : LookedUp(task[h])
                    /\ One(users) /\ Ranked(users, invites)
<1>0. /\ Alone /\ \A h \in Handler : LookedUp(task[h])
      /\ One(users) /\ Ranked(users, invites)
      /\ task \in [Handler -> [at : {"idle", "look", "add", "invite", "check", "find", "join"},
            workspace : Workspace \cup {None}, address : Address \cup {None},
            role : Rank, phone : Phone \cup {0}, found : SUBSET (Address \X Phone)]]
      /\ users \subseteq UserRow
  BY DEF MembersInv, LookedUpInv, OneUserPerAddress, RoleAsInvited, MembersTypeOK, UserRow
<1>1. SUFFICES Sound'
  BY DEF LookedUpInv, OneUserPerAddress, RoleAsInvited
<1>2. ASSUME NEW h \in Handler, NEW t, Proceed(h, t), \A g \in Handler : g # h
             => task[g].at = "idle"
      PROVE  /\ Alone'
             /\ \A g \in Handler : g # h => LookedUp(task[g])'
             /\ task'[h] = t
  <2>1. \A g \in Handler : task'[g] = IF g = h THEN t ELSE task[g]
    BY <1>0, <1>2 DEF Proceed
  <2>2. Alone'
    BY <1>2, <2>1
  <2>3. ASSUME NEW g \in Handler, g # h PROVE LookedUp(task[g])'
    BY <1>0, <1>2, <2>1, <2>3 DEF LookedUp
  <2> QED
    BY <1>0, <1>2, <2>1, <2>2, <2>3
<1>3. ASSUME NEW h \in Handler, task[h].at # "idle"
      PROVE \A g \in Handler : g # h => task[g].at = "idle"
  BY <1>0, <1>3
<1>4. LookedUp(NoTask)'
  BY DEF LookedUp, NoTask
\* Beginning, or ending without a change of the tables.
<1>5. ASSUME NEW h \in Handler, NEW t, Begin(h, t), t.at \in {"look", "invite", "check"},
             t.found = {}
      PROVE  Sound'
  <2>1. \A g \in Handler : g # h => task[g].at = "idle"
    BY <1>5 DEF Begin, MayTake, TaskAt
  <2>2. Proceed(h, t) /\ UNCHANGED <<users, invites>>
    BY <1>5 DEF Begin, Proceed
  <2>3. LookedUp(t)'
    BY <1>5 DEF LookedUp
  <2> QED
    BY <1>0, <1>2, <2>1, <2>2, <2>3
<1>6. ASSUME NEW h \in Handler, task[h].at # "idle", Proceed(h, NoTask),
             One(users'), Ranked(users', invites')
      PROVE  Sound'
  BY <1>2, <1>3, <1>4, <1>6
<1>7. ASSUME NEW h \in Handler, task[h].at # "idle", NEW t, Proceed(h, t), LookedUp(t),
             UNCHANGED <<users, invites>>
      PROVE  Sound'
  <2>1. LookedUp(t)'
    BY <1>7 DEF LookedUp, Of
  <2> QED
    BY <1>0, <1>2, <1>3, <1>7, <2>1
<1>8. LookedUp(NoTask)
  BY DEF LookedUp, NoTask
<1>9. ASSUME NEW h \in Handler, NEW w \in Workspace, NEW a \in Address,
             Provisioned(h, w, a) \/ \E r \in Rank : CreateInvite(h, w, a, r)
      PROVE  Sound'
  BY <1>5, <1>9 DEF Provisioned, CreateInvite, NoTask
<1>10. ASSUME NEW h \in Handler, NEW l \in 1 .. Len(links), NEW p \in Phone, Accept(h, l, p)
       PROVE  Sound'
  BY <1>5, <1>10 DEF Accept, NoTask
<1>11. ASSUME NEW h \in Handler, OwnerLookedUp(h) PROVE Sound'
  <2>1. task[h].at = "look" /\ UNCHANGED <<users, invites>>
    BY <1>11 DEF OwnerLookedUp
  <2>2. CASE Of(task[h].address) = {}
    <3>1. Proceed(h, [task[h] EXCEPT !.at = "add"])
      BY <1>11, <2>2 DEF OwnerLookedUp
    <3> DEFINE t == [task[h] EXCEPT !.at = "add"]
    <3>2. t.at = "add" /\ t.address = task[h].address /\ t.found = task[h].found
      BY <1>0
    <3> HIDE DEF t
    <3>3. LookedUp(t)
      BY <1>0, <2>1, <2>2, <3>2 DEF LookedUp
    <3>4. Proceed(h, t)
      BY <3>1 DEF t
    <3> QED
      BY <1>7, <2>1, <3>3, <3>4
  <2>3. CASE Of(task[h].address) # {}
    BY <1>0, <1>6, <1>11, <2>1, <2>3 DEF OwnerLookedUp
  <2> QED
    BY <2>2, <2>3
<1>12. ASSUME NEW h \in Handler, NEW p \in Phone, OwnerAdded(h, p) PROVE Sound'
  <2> DEFINE new == [address |-> task[h].address, phone |-> <<task[h].address, p>>,
                     workspace |-> task[h].workspace, role |-> "OWNER"]
  <2>1. /\ task[h].at = "add" /\ Proceed(h, NoTask) /\ invites' = invites
        /\ users' = users \/ users' = users \cup {new}
    BY <1>12 DEF OwnerAdded, RowsAfter
  <2>2. \A u \in users : u.address # new.address
    BY <1>0, <2>1 DEF LookedUp, Of
  <2>3. One(users') /\ Ranked(users', invites')
    <3>1. new.address = task[h].address /\ new.role = "OWNER"
      OBVIOUS
    <3> HIDE DEF new
    <3> QED
      BY <1>0, <2>1, <2>2, <3>1
  <2> QED
    BY <1>6, <2>1, <2>3
<1>13. ASSUME NEW h \in Handler, Invited(h) PROVE Sound'
  <2> DEFINE key == <<task[h].workspace, task[h].address>>
             row == [token |-> Len(links'), role |-> task[h].role, status |-> "PENDING"]
  <2>1. /\ task[h].at = "invite" /\ Proceed(h, NoTask) /\ users' = users
        /\ invites' = [invites EXCEPT ![key] = row] /\ row.status = "PENDING"
    BY <1>13 DEF Invited
  <2> HIDE DEF key, row
  <2>2. \A i \in Workspace \X Address : invites'[i] = IF i = key THEN row ELSE invites[i]
    BY <2>1 DEF MembersInv, MembersTypeOK
  <2>3. \A u \in users : <<u.workspace, u.address>> \in Workspace \X Address
    BY <1>0 DEF UserRow
  <2>4. Ranked(users', invites')
    BY <1>0, <2>1, <2>2, <2>3
  <2> QED
    BY <1>0, <1>6, <2>1, <2>4
<1>14. ASSUME NEW i \in Workspace \X Address, InviteExpires(i) PROVE Sound'
  <2>1. /\ task' = task /\ users' = users
        /\ invites' = [invites EXCEPT ![i].status = "EXPIRED"]
    BY <1>14 DEF InviteExpires
  <2>2. invites \in [Workspace \X Address -> [token : 0 .. MaxLinks, role : Rank,
                     status : {None, "PENDING", "EXPIRED", "ACCEPTED"}]]
    BY DEF MembersInv, MembersTypeOK
  <2>3. \A j \in Workspace \X Address :
            invites'[j].role = invites[j].role
                /\ invites'[j].status \in {invites[j].status, "EXPIRED"}
    BY <2>1, <2>2
  <2>4. \A u \in users : <<u.workspace, u.address>> \in Workspace \X Address
    BY <1>0 DEF UserRow
  <2>5. Ranked(users', invites')
    BY <1>0, <2>1, <2>3, <2>4
  <2>6. ASSUME NEW h \in Handler PROVE LookedUp(task[h])'
    <3>1. task[h].at # "idle" => <<task[h].workspace, task[h].address>> \in Workspace \X Address
      BY DEF MembersInv, Addressed
    <3> QED
      BY <1>0, <2>1, <2>3, <3>1 DEF LookedUp, Of
  <2> QED
    BY <1>0, <2>1, <2>5, <2>6
<1>15. ASSUME NEW h \in Handler, InviteChecked(h) PROVE Sound'
  <2> DEFINE i == invites[<<task[h].workspace, task[h].address>>]
             t == [task[h] EXCEPT !.at = "find", !.role = i.role]
  <2>1. task[h].at = "check" /\ UNCHANGED <<users, invites>> /\ (Proceed(h, t) \/ Proceed(h,
      NoTask))
    BY <1>15 DEF InviteChecked
  <2>3. /\ t.at = "find" /\ t.role = i.role /\ t.found = task[h].found
        /\ <<t.workspace, t.address>> = <<task[h].workspace, task[h].address>>
    BY <1>0
  <2> HIDE DEF t
  <2>2. LookedUp(t)
    BY <1>0, <2>1, <2>3 DEF LookedUp
  <2> QED
    BY <1>0, <1>6, <1>7, <2>1, <2>2
<1>16. ASSUME NEW h \in Handler, InviteeFound(h) PROVE Sound'
  <2>1. /\ task[h].at = "find" /\ UNCHANGED <<users, invites>> /\ LookedUp(task[h])
        /\ task[h] \in [at : {"idle", "look", "add", "invite", "check", "find", "join"},
              workspace : Workspace \cup {None}, address : Address \cup {None},
              role : Rank, phone : Phone \cup {0}, found : SUBSET (Address \X Phone)]
    BY <1>0, <1>16 DEF InviteeFound
  <2>2. CASE Of(task[h].address) = {} /\ Proceed(h, [task[h] EXCEPT !.at = "join"])
    <3>1. task[h].found = {}
      BY <2>1 DEF LookedUp
    <3>2. LookedUp([task[h] EXCEPT !.at = "join"])
      BY <2>1, <2>2, <3>1 DEF LookedUp
    <3> QED
      BY <1>7, <2>1, <2>2, <3>2
  <2>3. ASSUME NEW u \in Of(task[h].address),
               Proceed(h, [task[h] EXCEPT !.at = "join", !.found = {u.phone}])
        PROVE  Sound'
    <3>1. LookedUp([task[h] EXCEPT !.at = "join", !.found = {u.phone}])
      BY <2>1, <2>3 DEF LookedUp
    <3> QED
      BY <1>7, <2>1, <2>3, <3>1
  <2> QED
    BY <1>16, <2>2, <2>3 DEF InviteeFound
<1>17. ASSUME NEW h \in Handler, Joined(h) PROVE Sound'
  <2> DEFINE t == task[h]
             key == <<t.workspace, t.address>>
             many == WithInvited(t, t.role)
  <2>1. /\ t.at = "join" /\ Proceed(h, NoTask) /\ LookedUp(t)
        /\ IF Unique(many) THEN users' = many
            /\ invites' = [invites EXCEPT ![key].status = "ACCEPTED"]
           ELSE users' = users /\ invites' = invites
    BY <1>0, <1>17 DEF Joined, RowsAfter
  <2>2. CASE ~Unique(many)
    BY <1>0, <1>6, <2>1, <2>2
  <2>3. CASE Unique(many)
    <3>1. users' = many /\ invites' = [invites EXCEPT ![key].status = "ACCEPTED"]
      BY <2>1, <2>3
    <3>2. invites \in [Workspace \X Address -> [token : 0 .. MaxLinks, role : Rank,
                       status : {None, "PENDING", "EXPIRED", "ACCEPTED"}]]
          /\ key \in Workspace \X Address
      BY <2>1 DEF MembersInv, MembersTypeOK, Addressed
    <3>3. \A i \in Workspace \X Address :
              /\ invites'[i].role = invites[i].role
              /\ invites'[i].status = IF i = key THEN "ACCEPTED" ELSE invites[i].status
      BY <3>1, <3>2
    <3>4. \A u \in users : <<u.workspace, u.address>> \in Workspace \X Address
      BY <1>0 DEF UserRow
    <3>5. t.role = invites[key].role
      BY <2>1 DEF LookedUp
    <3>6. CASE t.found = {}
      <4> DEFINE new == [address |-> t.address, phone |-> <<t.address, t.phone>>,
                         workspace |-> t.workspace, role |-> t.role]
      <4>1. users' = users \cup {new}
        BY <3>1, <3>6 DEF WithInvited
      <4>2. new.role = t.role /\ new.address = t.address /\ <<new.workspace, new.address>> = key
        OBVIOUS
      <4>3. \A u \in users : u.address # t.address
        BY <2>1, <3>6 DEF LookedUp, Of
      <4> HIDE DEF new
      <4>4. One(users')
        BY <1>0, <4>1, <4>2, <4>3
      <4>5. ASSUME NEW u \in users PROVE <<u.workspace, u.address>> # key
        BY <4>3, <4>5
      <4> HIDE DEF key
      <4>6. Ranked(users', invites')
        BY <1>0, <3>2, <3>3, <3>4, <3>5, <4>1, <4>2, <4>5
      <4> QED
        BY <1>6, <2>1, <4>4, <4>6
    <3>7. CASE t.found # {}
      <4> DEFINE Moved(u) == [u EXCEPT !.workspace = t.workspace, !.role = t.role]
                 Now(u) == IF u.phone \in t.found THEN Moved(u) ELSE u
      <4>1. users' = {Now(u) : u \in users}
        BY <3>1, <3>7 DEF WithInvited
      <4>2. PICK v \in users : v.address = t.address /\ t.found = {v.phone}
        BY <2>1, <3>7 DEF LookedUp, Of
      <4>3. \A u \in users : u.phone \in t.found <=> u = v
        BY <4>2 DEF MembersInv, Unique
      <4>4. ASSUME NEW u \in users
            PROVE  Moved(u).address = u.address /\ Moved(u).workspace = t.workspace
                /\ Moved(u).role = t.role
        BY <1>0 DEF UserRow
      <4> HIDE DEF Moved
      <4>5. \A u \in users : Now(u) = IF u = v THEN Moved(v) ELSE u
        BY <4>3
      <4> HIDE DEF Now
      <4>6. \A u \in users : Now(u).address = u.address
        BY <4>4, <4>5
      <4>7. One(users')
        BY <1>0, <4>1, <4>6
      <4>8. ASSUME NEW u \in users, u # v PROVE <<u.workspace, u.address>> # key
        BY <1>0, <4>2, <4>8
      <4>9. <<Moved(v).workspace, Moved(v).address>> = key /\ Moved(v).role = t.role
        BY <4>2, <4>4
      <4> HIDE DEF key
      <4>10. Ranked(users', invites')
        <5> SUFFICES ASSUME NEW u \in users,
                            invites'[<<Now(u).workspace, Now(u).address>>].status = "ACCEPTED"
                     PROVE  Now(u).role \in {invites'[<<Now(u).workspace, Now(u).address>>].role, "OWNER"}
          BY <4>1
        <5>1. CASE u = v
          BY <3>2, <3>3, <3>5, <4>5, <4>9, <5>1
        <5>2. CASE u # v
          <6>1. Now(u) = u
            BY <4>5, <5>2
          <6> QED
            BY <1>0, <3>3, <3>4, <4>8, <5>2, <6>1
        <5> QED
          BY <5>1, <5>2
      <4> QED
        BY <1>6, <2>1, <4>7, <4>10
    <3> QED
      BY <3>6, <3>7
  <2> QED
    BY <2>2, <2>3
<1>18. ASSUME NEW h \in Handler PROVE ~MemberBreaks(h)
  BY DEF MemberBreaks, MayBreak
<1>19. (\E a \in Address : WebLogin(a)) \/ PageLoaded \/ WebLogout => UNCHANGED <<users, invites,
                                                                                  task>>
  BY DEF WebLogin, PageLoaded, WebLogout
<1>20. ASSUME UNCHANGED <<users, invites, task>> PROVE Sound'
  BY <1>0, <1>20 DEF LookedUp, Of
<1> QED
  BY <1>9, <1>10, <1>11, <1>12, <1>13, <1>14, <1>15, <1>16, <1>17, <1>18, <1>19, <1>20 DEF
     MembersNext

\* MembersInv is inductive.
LEMMA MembersStep == MembersInv /\ [MembersNext]_<<calm, memberVars>> => MembersInv'
<1> SUFFICES ASSUME MembersInv, [MembersNext]_<<calm, memberVars>> PROVE MembersInv'
  OBVIOUS
<1>1. CASE MembersNext
  BY <1>1, MembersTypeStep, MembersKeysStep, MembersCalmStep DEF MembersInv
<1>2. CASE UNCHANGED <<calm, memberVars>>
  BY <1>2 DEF MembersInv, MembersTypeOK, Addressed, Unique, LookedUpInv, LookedUp,
     OneUserPerAddress, RoleAsInvited, Of, memberVars
<1> QED
  BY <1>1, <1>2

\* It implies what the run checks.
LEMMA MembersImplied == MembersInv => MembersSound
  BY DEF MembersInv, MembersSound, MembersApart, Unique

\* However invitations, sign-ups and deletions overlap, MembersInv holds (AuthService,
\* InternalService).
THEOREM MembersInvariance == MembersSpec => []MembersInv
  BY MembersInitially, MembersStep, PTL DEF MembersSpec

\* For any addresses, users and invitations, where requests do not overlap: nobody who
\* was invited or provisioned becomes two users, an accepted invitation gives the role it
\* offers, and a browser names the workspace it shows (TenantInvitationService,
\* WorkspaceContext).
THEOREM MembersStaySound == MembersSpec => []MembersSound
  BY MembersImplied, MembersInvariance, PTL

-----------------------------------------------------------------------------
(*************************************************************************)
(* Roles and the cache of permissions.  A cached entry is what the       *)
(* tables say, unless a request that has changed what the user may do is *)
(* about to forget it: those are the users that Unsettled names.         *)
(*************************************************************************)

\* Where requests do not overlap, only a request that has changed what the user may do,
\* and is about to forget the entry, leaves an entry that says otherwise; and what a
\* request goes on with is what the tables say.
Unsettled(h, u) ==
    \/ accessAt[h] = "holders" /\ roleOf[u] = accessRole[h]
    \/ accessAt[h] = "forget" /\ u \in accessFor[h]

\* Nobody but whom a request is about to see to has an entry that is wrong.
GrantsInv ==
    calm =>
        /\ \A g, h \in Handler : accessAt[g] # "idle" /\ accessAt[h] # "idle" => g = h
        /\ \A u \in User :
            (\A h \in Handler : ~Unsettled(h, u)) => cachedFor[u] \in {NoEntry, Effective(u)}
        /\ \A h \in Handler :
            /\ accessAt[h] = "readGrants" =>
                accessRole[h] # "none" /\ \A u \in accessFor[h] : roleOf[u] = accessRole[h]
            /\ accessAt[h] = "store" => \A u \in accessFor[h] : accessSet[h] = Effective(u)
            /\ accessAt[h] \in {"dropGrants", "dropRole"}
                => \A u \in User : roleOf[u] # accessRole[h]

\* A request that deals with a role has one.
RoleInv ==
    \A h \in Handler : accessAt[h] \in {"replace", "holders", "dropGrants", "dropRole"} =>
        accessRole[h] # "none"

\* Types, the roles of requests, and the cached entries.
AccessInv == AccessTypeOK /\ RoleInv /\ GrantsInv

\* AccessInv holds of roles nobody has cached.
LEMMA AccessInitially == CalmInit /\ AccessInit => AccessInv
  BY RoleAssumption DEF AccessInit, AccessInv, AccessTypeOK, GrantsInv, RoleInv, NoEntry

\* No request changes what kind of history it is.
LEMMA AccessCalm == AccessNext => calm' = calm
<1> USE DEF AccessTake, AccessAnswer
<1> QED
  BY DEF AccessNext, Resolve, ReadGrants, StorePermissions, UpdateRole, ReplaceGrants, Holders,
     Forget, DeleteRole, DropGrants, DropRole, AssignUserRole, Assign, AccessBreaks,
     PermissionsExpire, CreateRole

\* Every step keeps the types and the roles of requests.
LEMMA AccessTypeStep == AccessTypeOK /\ RoleInv /\ AccessNext => AccessTypeOK' /\ RoleInv'
<1> SUFFICES ASSUME AccessTypeOK, RoleInv, AccessNext PROVE AccessTypeOK' /\ RoleInv'
  OBVIOUS
<1> USE RoleAssumption DEF AccessTypeOK, RoleInv, AccessGo, Holds, accessRows, accessCalls
<1>1. ASSUME NEW h \in Handler, NEW u \in User, Resolve(h, u) PROVE AccessTypeOK' /\ RoleInv'
  BY <1>1 DEF Resolve, AccessTake
<1>2. ASSUME NEW h \in Handler, ReadGrants(h) PROVE AccessTypeOK' /\ RoleInv'
  BY <1>2 DEF ReadGrants
<1>3. ASSUME NEW h \in Handler, StorePermissions(h) PROVE AccessTypeOK' /\ RoleInv'
  BY <1>3 DEF StorePermissions, AccessAnswer
<1>4. ASSUME NEW h \in Handler, NEW r \in Role, NEW given \in SUBSET Permission, UpdateRole(h, r,
             given)
      PROVE AccessTypeOK' /\ RoleInv'
  BY <1>4 DEF UpdateRole, AccessTake
<1>5. ASSUME NEW h \in Handler, ReplaceGrants(h) PROVE AccessTypeOK' /\ RoleInv'
  BY <1>5 DEF ReplaceGrants, AccessAnswer
<1>6. ASSUME NEW h \in Handler, Holders(h) PROVE AccessTypeOK' /\ RoleInv'
  BY <1>6 DEF Holders
<1>7. ASSUME NEW h \in Handler, Forget(h) PROVE AccessTypeOK' /\ RoleInv'
  BY <1>7 DEF Forget, AccessAnswer
<1>8. ASSUME NEW h \in Handler, NEW r \in Role, DeleteRole(h, r) PROVE AccessTypeOK' /\ RoleInv'
  BY <1>8 DEF DeleteRole, AccessTake
<1>9. ASSUME NEW h \in Handler, DropGrants(h) PROVE AccessTypeOK' /\ RoleInv'
  BY <1>9 DEF DropGrants
<1>10. ASSUME NEW h \in Handler, DropRole(h) PROVE AccessTypeOK' /\ RoleInv'
  BY <1>10 DEF DropRole, AccessAnswer
<1>11. ASSUME NEW h \in Handler, NEW u \in User, NEW r \in Role \cup {"none"}, AssignUserRole(h,
              u, r)
       PROVE AccessTypeOK' /\ RoleInv'
  BY <1>11 DEF AssignUserRole, AccessTake
<1>12. ASSUME NEW h \in Handler, Assign(h) PROVE AccessTypeOK' /\ RoleInv'
  BY <1>12 DEF Assign, AccessAnswer
<1>13. ASSUME NEW h \in Handler, AccessBreaks(h) PROVE AccessTypeOK' /\ RoleInv'
  BY <1>13 DEF AccessBreaks, AccessAnswer
<1>14. ASSUME NEW u \in User, PermissionsExpire(u) PROVE AccessTypeOK' /\ RoleInv'
  BY <1>14 DEF PermissionsExpire
<1>15. ASSUME NEW r \in Role, NEW given \in SUBSET Permission, CreateRole(r, given)
       PROVE AccessTypeOK' /\ RoleInv'
  BY <1>15 DEF CreateRole
<1>16. Asking \subseteq User
  BY DEF Asking
<1> QED
  BY <1>1, <1>2, <1>3, <1>4, <1>5, <1>6, <1>7, <1>8, <1>9, <1>10, <1>11, <1>12, <1>13, <1>14,
     <1>15, <1>16 DEF AccessNext

\* Without overlap a step that changes what a user may do leaves the user unsettled, and
\* one that settles the user has forgotten the entry.
LEMMA GrantsStep == AccessInv /\ AccessNext => GrantsInv'
<1> SUFFICES ASSUME AccessTypeOK, RoleInv, GrantsInv, AccessNext, calm PROVE GrantsInv'
  BY AccessCalm DEF AccessInv, GrantsInv
<1>0. /\ \A g, h \in Handler : accessAt[g] # "idle" /\ accessAt[h] # "idle" => g = h
      /\ \A u \in User :
            (\A h \in Handler : ~Unsettled(h, u)) => cachedFor[u] \in {NoEntry, Effective(u)}
      /\ \A h \in Handler :
            /\ accessAt[h] = "readGrants" =>
                accessRole[h] # "none" /\ \A u \in accessFor[h] : roleOf[u] = accessRole[h]
            /\ accessAt[h] = "store" => \A u \in accessFor[h] : accessSet[h] = Effective(u)
            /\ accessAt[h] \in {"dropGrants", "dropRole"}
                => \A u \in User : roleOf[u] # accessRole[h]
  BY DEF GrantsInv
<1> USE RoleAssumption DEF AccessTypeOK, RoleInv, AccessGo, Holds, accessRows, accessCalls,
GrantsInv, Unsettled, Effective
<1>1. ASSUME NEW h \in Handler, NEW u \in User, Resolve(h, u) PROVE GrantsInv'
  BY <1>0, <1>1 DEF Resolve, AccessTake, MayTake
<1>2. ASSUME NEW h \in Handler, ReadGrants(h) PROVE GrantsInv'
  BY <1>0, <1>2 DEF ReadGrants
<1>3. ASSUME NEW h \in Handler, StorePermissions(h) PROVE GrantsInv'
  BY <1>0, <1>3 DEF StorePermissions, AccessAnswer
<1>4. ASSUME NEW h \in Handler, NEW r \in Role, NEW given \in SUBSET Permission, UpdateRole(h, r,
             given)
      PROVE  GrantsInv'
  BY <1>0, <1>4 DEF UpdateRole, AccessTake, MayTake
<1>5. ASSUME NEW h \in Handler, ReplaceGrants(h) PROVE GrantsInv'
  BY <1>0, <1>5 DEF ReplaceGrants, AccessAnswer
<1>6. ASSUME NEW h \in Handler, Holders(h) PROVE GrantsInv'
  BY <1>0, <1>6 DEF Holders
<1>7. ASSUME NEW h \in Handler, Forget(h) PROVE GrantsInv'
  BY <1>0, <1>7 DEF Forget, AccessAnswer
<1>8. ASSUME NEW h \in Handler, NEW r \in Role, DeleteRole(h, r) PROVE GrantsInv'
  BY <1>0, <1>8 DEF DeleteRole, AccessTake, MayTake
<1>9. ASSUME NEW h \in Handler, DropGrants(h) PROVE GrantsInv'
  BY <1>0, <1>9 DEF DropGrants
<1>10. ASSUME NEW h \in Handler, DropRole(h) PROVE GrantsInv'
  BY <1>0, <1>10 DEF DropRole, AccessAnswer
<1>11. ASSUME NEW h \in Handler, NEW u \in User, NEW r \in Role \cup {"none"}, AssignUserRole(h,
              u, r)
       PROVE  GrantsInv'
  BY <1>0, <1>11 DEF AssignUserRole, AccessTake, MayTake
<1>12. ASSUME NEW h \in Handler, Assign(h) PROVE GrantsInv'
  BY <1>0, <1>12 DEF Assign, AccessAnswer
<1>13. ASSUME NEW u \in User, PermissionsExpire(u) PROVE GrantsInv'
  BY <1>0, <1>13 DEF PermissionsExpire
<1>14. ASSUME NEW r \in Role, NEW given \in SUBSET Permission, CreateRole(r, given)
       PROVE  GrantsInv'
  BY <1>0, <1>14 DEF CreateRole
<1>15. ASSUME NEW h \in Handler PROVE ~AccessBreaks(h)
  BY DEF AccessBreaks, MayBreak
<1>16. Asking \subseteq User
  BY DEF Asking
<1> QED
  BY <1>1, <1>2, <1>3, <1>4, <1>5, <1>6, <1>7, <1>8, <1>9, <1>10, <1>11, <1>12, <1>13, <1>14,
     <1>15, <1>16 DEF AccessNext


\* AccessInv is inductive.
LEMMA AccessStep == AccessInv /\ [AccessNext]_<<accessVars, calm>> => AccessInv'
<1> SUFFICES ASSUME AccessInv, [AccessNext]_<<accessVars, calm>> PROVE AccessInv'
  OBVIOUS
<1>1. CASE AccessNext
  BY <1>1, AccessTypeStep, GrantsStep DEF AccessInv
<1>2. CASE UNCHANGED <<accessVars, calm>>
  BY <1>2 DEF AccessInv, AccessTypeOK, RoleInv, GrantsInv, Unsettled, Effective, Holds,
     accessVars, accessRows, accessCalls
<1> QED
  BY <1>1, <1>2

\* It implies that cached permissions are current between requests.
LEMMA AccessImplied == AccessInv => PermissionsCurrent
  BY DEF AccessInv, GrantsInv, PermissionsCurrent, Unsettled

\* However roles are changed and read, AccessInv holds (RolesService).
THEOREM RoleInvariance == AccessSpec => []AccessInv
  BY AccessInitially, AccessStep, PTL DEF AccessSpec

\* For any users, roles and permissions: between requests that do not overlap, a cached
\* entry is what the tables say (RolesService).
THEOREM PermissionsStayCurrent == AccessSpec => []PermissionsCurrent
  BY AccessImplied, RoleInvariance, PTL

-----------------------------------------------------------------------------
(*************************************************************************)
(* Pay.  A line of pay is calculated for every pay that is a whole       *)
(* number of steps of 20 santim, a document adds up to two lines, and    *)
(* overtime adds up what the shifts of an employee say.  A sum over at   *)
(* most two things is found by exhibiting the function that the fold of  *)
(* it is made of; a longer one would take an induction.                  *)
(*************************************************************************)

\* Percentages of amounts that have no fractions of them.
LEMMA Percents ==
    ASSUME NEW k \in Nat
    PROVE  /\ Percent(20 * k, 0) = 0 /\ Percent(20 * k, 10) = 2 * k
           /\ Percent(20 * k, 15) = 3 * k /\ Percent(20 * k, 20) = 4 * k
           /\ Percent(20 * k, 25) = 5 * k /\ Percent(20 * k, 30) = 6 * k
           /\ Percent(20 * k, 35) = 7 * k
<1>1. (20 * k) \div 20 = k
  OBVIOUS
<1>2. /\ (k * 0) \div 5 = 0 /\ (k * 10) \div 5 = 2 * k /\ (k * 15) \div 5 = 3 * k
      /\ (k * 20) \div 5 = 4 * k /\ (k * 25) \div 5 = 5 * k /\ (k * 30) \div 5 = 6 * k
      /\ (k * 35) \div 5 = 7 * k
  OBVIOUS
<1> QED
  BY <1>1, <1>2 DEF Percent

\* Of a salary of whole steps the shares of the fund are whole hundredths of a santim.
LEMMA Shares ==
    ASSUME NEW c \in Nat
    PROVE  /\ Percent(2000 * c, 7) = 140 * c /\ Percent(2000 * c, 11) = 220 * c
           /\ Percent(2000 * c, 18) = 360 * c
<1>1. (2000 * c) \div 20 = 100 * c
  OBVIOUS
<1>2. /\ (100 * c * 7) \div 5 = 140 * c /\ (100 * c * 11) \div 5 = 220 * c
      /\ (100 * c * 18) \div 5 = 360 * c
  OBVIOUS
<1> QED
  BY <1>1, <1>2 DEF Percent

\* Rounding to a santim takes the nearest one, upwards from a half.
LEMMA RoundsTo ==
    ASSUME NEW x \in Nat
    PROVE  \E q \in Nat : Rounded(x) = 100 * q /\ 100 * q <= x + 50 /\ x + 50 < 100 * q + 100
<1> DEFINE q == (x + 50) \div 100
<1>1. q \in Nat /\ 100 * q <= x + 50 /\ x + 50 < 100 * q + 100
  OBVIOUS
<1>2. 100 \div 2 = 50
  OBVIOUS
<1>3. Rounded(x) = q * 100
  BY <1>2 DEF Rounded, Santim
<1> HIDE DEF q
<1> QED
  BY <1>1, <1>3

\* A schedule has one bracket for each income.
LEMMA BracketIs ==
    ASSUME NEW s, NEW n \in Int, NEW top \in Nat, DOMAIN s = 1 .. top, Len(s) = top,
           \A j \in 1 .. top : s[j].max \in Nat,
           NEW i \in 1 .. top, i = top \/ n <= s[i].max * Birr,
           \A j \in 1 .. i - 1 : n > s[j].max * Birr
    PROVE  Bracket(s, n) = i
<1> DEFINE Fits(j) == /\ j = Len(s) \/ n <= s[j].max * Birr
                      /\ \A l \in 1 .. j - 1 : n > s[l].max * Birr
<1>1. Fits(i)
  OBVIOUS
<1>2. ASSUME NEW j \in 1 .. top, Fits(j) PROVE j = i
  <2>1. ~(j < i)
    <3> SUFFICES ASSUME j < i PROVE FALSE
      OBVIOUS
    <3>1. j \in 1 .. i - 1 /\ j # top
      OBVIOUS
    <3>2. n > s[j].max * Birr /\ n <= s[j].max * Birr
      BY <1>2, <3>1
    <3>3. s[j].max * Birr \in Int
      BY DEF Birr, Santim
    <3> QED
      BY <3>2, <3>3
  <2>2. ~(i < j)
    <3> SUFFICES ASSUME i < j PROVE FALSE
      OBVIOUS
    <3>1. i \in 1 .. j - 1 /\ i # top
      OBVIOUS
    <3>2. n > s[i].max * Birr /\ n <= s[i].max * Birr
      BY <1>2, <3>1
    <3>3. s[i].max * Birr \in Int
      BY DEF Birr, Santim
    <3> QED
      BY <3>2, <3>3
  <2> QED
    BY <2>1, <2>2
<1>3. Bracket(s, n) = CHOOSE j \in DOMAIN s : Fits(j)
  BY DEF Bracket
<1> HIDE DEF Fits
<1> QED
  BY <1>1, <1>2, <1>3

-----------------------------------------------------------------------------
\* The taxes of the job and of the draft as scales: of an income of k times 20 hundredths
\* of a santim, t is due.
JobScale(k, t) ==
    /\ k <= 300000 => t = 0
    /\ 300000 < k /\ k <= 825000 => t = 2 * k - 600000
    /\ 825000 < k /\ k <= 1600000 => t = 3 * k - 1425000
    /\ 1600000 < k /\ k <= 2625000 => t = 4 * k - 3025000
    /\ 2625000 < k /\ k <= 3900000 => t = 5 * k - 5650000
    /\ 3900000 < k /\ k <= 5450000 => t = 6 * k - 9550000
    /\ 5450000 < k => t = 7 * k - 15000000

\* The same for the schedule of drafts, which the preview has in another form.
DraftScale(k, t) ==
    /\ k <= 1000000 => t = 0
    /\ 1000000 < k /\ k <= 2000000 => t = 3 * k - 3000000
    /\ 2000000 < k /\ k <= 3500000 => t = 4 * k - 5000000
    /\ 3500000 < k /\ k <= 5000000 => t = 5 * k - 8500000
    /\ 5000000 < k /\ k <= 7000000 => t = 6 * k - 13500000
    /\ 7000000 < k => t = 7 * k - 20500000

\* What the background job's schedule makes of an income.
LEMMA JobTax == ASSUME NEW k \in Nat PROVE JobScale(k, TaxByDeduction(JobSchedule, 20 * k))
<1> DEFINE s == JobSchedule
<1>1. /\ DOMAIN s = 1 .. 7 /\ Len(s) = 7
      /\ s[1] = [max |-> 600, rate |-> 0, deduct |-> 0]
      /\ s[2] = [max |-> 1650, rate |-> 10, deduct |-> 600]
      /\ s[3] = [max |-> 3200, rate |-> 15, deduct |-> 1425]
      /\ s[4] = [max |-> 5250, rate |-> 20, deduct |-> 3025]
      /\ s[5] = [max |-> 7800, rate |-> 25, deduct |-> 5650]
      /\ s[6] = [max |-> 10900, rate |-> 30, deduct |-> 9550]
      /\ s[7] = [max |-> 0, rate |-> 35, deduct |-> 15000]
  BY DEF JobSchedule
<1> HIDE DEF s
<1>2. Birr = 10000 /\ Birr \div 10 = 1000
  BY DEF Birr, Santim
<1>3. /\ s[1].max = 600 /\ s[2].max = 1650 /\ s[3].max = 3200 /\ s[4].max = 5250
      /\ s[5].max = 7800 /\ s[6].max = 10900 /\ s[7].max = 0
  BY <1>1
<1>4. \A j \in 1 .. 7 : s[j].max \in Nat
  BY <1>3
<1>5. ASSUME NEW i \in 1 .. 7, i = 7 \/ 20 * k <= s[i].max * Birr,
             \A j \in 1 .. i - 1 : 20 * k > s[j].max * Birr
      PROVE  Bracket(s, 20 * k) = i
  <2>1. PICK n \in Int : n = 20 * k
    OBVIOUS
  <2>2. /\ DOMAIN s = 1 .. 7 /\ Len(s) = 7 /\ 7 \in Nat
        /\ i = 7 \/ n <= s[i].max * Birr
        /\ \A j \in 1 .. i - 1 : n > s[j].max * Birr
    BY <1>1, <1>5, <2>1
  <2>3. Bracket(s, n) = i
    BY <1>4, <2>2, BracketIs
  <2> QED
    BY <2>1, <2>3
<1>6. ASSUME NEW i \in 1 .. 7, Bracket(s, 20 * k) = i, NEW tax \in Int,
             tax = Percent(20 * k, s[i].rate) - s[i].deduct * 1000, tax >= 0
      PROVE  TaxByDeduction(s, 20 * k) = tax
  BY <1>2, <1>6 DEF TaxByDeduction
<1>11. ASSUME k <= 300000 PROVE TaxByDeduction(s, 20 * k) = 0
  <2>1. Bracket(s, 20 * k) = 1
    BY <1>2, <1>3, <1>5, <1>11
  <2> QED
    BY <1>1, <1>6, <1>11, <2>1, Percents
<1>12. ASSUME 300000 < k, k <= 825000 PROVE TaxByDeduction(s, 20 * k) = 2 * k - 600000
  <2>1. Bracket(s, 20 * k) = 2
    BY <1>2, <1>3, <1>5, <1>12
  <2> QED
    BY <1>1, <1>6, <1>12, <2>1, Percents
<1>13. ASSUME 825000 < k, k <= 1600000 PROVE TaxByDeduction(s, 20 * k) = 3 * k - 1425000
  <2>1. Bracket(s, 20 * k) = 3
    BY <1>2, <1>3, <1>5, <1>13
  <2> QED
    BY <1>1, <1>6, <1>13, <2>1, Percents
<1>14. ASSUME 1600000 < k, k <= 2625000 PROVE TaxByDeduction(s, 20 * k) = 4 * k - 3025000
  <2>1. Bracket(s, 20 * k) = 4
    BY <1>2, <1>3, <1>5, <1>14
  <2> QED
    BY <1>1, <1>6, <1>14, <2>1, Percents
<1>15. ASSUME 2625000 < k, k <= 3900000 PROVE TaxByDeduction(s, 20 * k) = 5 * k - 5650000
  <2>1. Bracket(s, 20 * k) = 5
    BY <1>2, <1>3, <1>5, <1>15
  <2> QED
    BY <1>1, <1>6, <1>15, <2>1, Percents
<1>16. ASSUME 3900000 < k, k <= 5450000 PROVE TaxByDeduction(s, 20 * k) = 6 * k - 9550000
  <2>1. Bracket(s, 20 * k) = 6
    BY <1>2, <1>3, <1>5, <1>16
  <2> QED
    BY <1>1, <1>6, <1>16, <2>1, Percents
<1>17. ASSUME 5450000 < k PROVE TaxByDeduction(s, 20 * k) = 7 * k - 15000000
  <2>1. Bracket(s, 20 * k) = 7
    BY <1>2, <1>3, <1>5, <1>17
  <2> QED
    BY <1>1, <1>6, <1>17, <2>1, Percents
<1> QED
  BY <1>11, <1>12, <1>13, <1>14, <1>15, <1>16, <1>17 DEF s, JobScale

\* What the preview's schedule makes of it.
LEMMA PreviewTax == ASSUME NEW k \in Nat
                    PROVE  DraftScale(k, TaxByDeduction(PreviewSchedule, 20 * k))
<1> DEFINE s == PreviewSchedule
<1>1. /\ DOMAIN s = 1 .. 6 /\ Len(s) = 6
      /\ s[1] = [max |-> 2000, rate |-> 0, deduct |-> 0]
      /\ s[2] = [max |-> 4000, rate |-> 15, deduct |-> 3000]
      /\ s[3] = [max |-> 7000, rate |-> 20, deduct |-> 5000]
      /\ s[4] = [max |-> 10000, rate |-> 25, deduct |-> 8500]
      /\ s[5] = [max |-> 14000, rate |-> 30, deduct |-> 13500]
      /\ s[6] = [max |-> 0, rate |-> 35, deduct |-> 20500]
  BY DEF PreviewSchedule
<1> HIDE DEF s
<1>2. Birr = 10000 /\ Birr \div 10 = 1000
  BY DEF Birr, Santim
<1>3. /\ s[1].max = 2000 /\ s[2].max = 4000 /\ s[3].max = 7000 /\ s[4].max = 10000
      /\ s[5].max = 14000 /\ s[6].max = 0
  BY <1>1
<1>4. \A j \in 1 .. 6 : s[j].max \in Nat
  BY <1>3
<1>5. ASSUME NEW i \in 1 .. 6, i = 6 \/ 20 * k <= s[i].max * Birr,
             \A j \in 1 .. i - 1 : 20 * k > s[j].max * Birr
      PROVE  Bracket(s, 20 * k) = i
  <2>1. PICK n \in Int : n = 20 * k
    OBVIOUS
  <2>2. /\ DOMAIN s = 1 .. 6 /\ Len(s) = 6 /\ 6 \in Nat
        /\ i = 6 \/ n <= s[i].max * Birr
        /\ \A j \in 1 .. i - 1 : n > s[j].max * Birr
    BY <1>1, <1>5, <2>1
  <2>3. Bracket(s, n) = i
    BY <1>4, <2>2, BracketIs
  <2> QED
    BY <2>1, <2>3
<1>6. ASSUME NEW i \in 1 .. 6, Bracket(s, 20 * k) = i, NEW tax \in Int,
             tax = Percent(20 * k, s[i].rate) - s[i].deduct * 1000, tax >= 0
      PROVE  TaxByDeduction(s, 20 * k) = tax
  BY <1>2, <1>6 DEF TaxByDeduction
<1>11. ASSUME k <= 1000000 PROVE TaxByDeduction(s, 20 * k) = 0
  <2>1. Bracket(s, 20 * k) = 1
    BY <1>2, <1>3, <1>5, <1>11
  <2> QED
    BY <1>1, <1>6, <1>11, <2>1, Percents
<1>12. ASSUME 1000000 < k, k <= 2000000 PROVE TaxByDeduction(s, 20 * k) = 3 * k - 3000000
  <2>1. Bracket(s, 20 * k) = 2
    BY <1>2, <1>3, <1>5, <1>12
  <2> QED
    BY <1>1, <1>6, <1>12, <2>1, Percents
<1>13. ASSUME 2000000 < k, k <= 3500000 PROVE TaxByDeduction(s, 20 * k) = 4 * k - 5000000
  <2>1. Bracket(s, 20 * k) = 3
    BY <1>2, <1>3, <1>5, <1>13
  <2> QED
    BY <1>1, <1>6, <1>13, <2>1, Percents
<1>14. ASSUME 3500000 < k, k <= 5000000 PROVE TaxByDeduction(s, 20 * k) = 5 * k - 8500000
  <2>1. Bracket(s, 20 * k) = 4
    BY <1>2, <1>3, <1>5, <1>14
  <2> QED
    BY <1>1, <1>6, <1>14, <2>1, Percents
<1>15. ASSUME 5000000 < k, k <= 7000000 PROVE TaxByDeduction(s, 20 * k) = 6 * k - 13500000
  <2>1. Bracket(s, 20 * k) = 5
    BY <1>2, <1>3, <1>5, <1>15
  <2> QED
    BY <1>1, <1>6, <1>15, <2>1, Percents
<1>16. ASSUME 7000000 < k PROVE TaxByDeduction(s, 20 * k) = 7 * k - 20500000
  <2>1. Bracket(s, 20 * k) = 6
    BY <1>2, <1>3, <1>5, <1>16
  <2> QED
    BY <1>1, <1>6, <1>16, <2>1, Percents
<1> QED
  BY <1>11, <1>12, <1>13, <1>14, <1>15, <1>16 DEF s, DraftScale

\* What the draft's bands make of it.
LEMMA DraftTax == ASSUME NEW k \in Nat PROVE DraftScale(k, TaxByBand(DraftSchedule, 20 * k))
<1> DEFINE s == DraftSchedule
<1>1. /\ DOMAIN s = 1 .. 6 /\ Len(s) = 6
      /\ s[1] = [max |-> 2000, rate |-> 0, over |-> 0, tax |-> 0]
      /\ s[2] = [max |-> 4000, rate |-> 15, over |-> 2000, tax |-> 0]
      /\ s[3] = [max |-> 7000, rate |-> 20, over |-> 4000, tax |-> 300]
      /\ s[4] = [max |-> 10000, rate |-> 25, over |-> 7000, tax |-> 900]
      /\ s[5] = [max |-> 14000, rate |-> 30, over |-> 10000, tax |-> 1650]
      /\ s[6] = [max |-> 0, rate |-> 35, over |-> 14000, tax |-> 2850]
  BY DEF DraftSchedule
<1> HIDE DEF s
<1>2. Birr = 10000 /\ Birr \div 10 = 1000
  BY DEF Birr, Santim
<1>3. /\ s[1].max = 2000 /\ s[2].max = 4000 /\ s[3].max = 7000 /\ s[4].max = 10000
      /\ s[5].max = 14000 /\ s[6].max = 0
  BY <1>1
<1>4. \A j \in 1 .. 6 : s[j].max \in Nat
  BY <1>3
<1>5. ASSUME NEW i \in 1 .. 6, i = 6 \/ 20 * k <= s[i].max * Birr,
             \A j \in 1 .. i - 1 : 20 * k > s[j].max * Birr
      PROVE  Bracket(s, 20 * k) = i
  <2>1. PICK n \in Int : n = 20 * k
    OBVIOUS
  <2>2. /\ DOMAIN s = 1 .. 6 /\ Len(s) = 6 /\ 6 \in Nat
        /\ i = 6 \/ n <= s[i].max * Birr
        /\ \A j \in 1 .. i - 1 : n > s[j].max * Birr
    BY <1>1, <1>5, <2>1
  <2>3. Bracket(s, n) = i
    BY <1>4, <2>2, BracketIs
  <2> QED
    BY <2>1, <2>3
<1>11. ASSUME k <= 1000000 PROVE TaxByBand(s, 20 * k) = 0
  <2>1. Bracket(s, 20 * k) = 1
    BY <1>2, <1>3, <1>5, <1>11
  <2>2. PICK j \in Nat : j = k - 0 /\ 20 * k - 0 * Birr = 20 * j
    BY <1>2, <1>11
  <2>3. Percent(20 * j, 0) = 0 * j
    BY Percents
  <2>4. s[1].rate = 0 /\ s[1].over = 0 /\ s[1].tax = 0
    BY <1>1
  <2>5. TaxByBand(s, 20 * k) = 0 * Birr + 0 * j
    BY <2>1, <2>2, <2>3, <2>4 DEF TaxByBand
  <2> QED
    BY <1>2, <1>11, <2>2, <2>5
<1>12. ASSUME 1000000 < k, k <= 2000000 PROVE TaxByBand(s, 20 * k) = 3 * k - 3000000
  <2>1. Bracket(s, 20 * k) = 2
    BY <1>2, <1>3, <1>5, <1>12
  <2>2. PICK j \in Nat : j = k - 1000000 /\ 20 * k - 2000 * Birr = 20 * j
    BY <1>2, <1>12
  <2>3. Percent(20 * j, 15) = 3 * j
    BY Percents
  <2>4. s[2].rate = 15 /\ s[2].over = 2000 /\ s[2].tax = 0
    BY <1>1
  <2>5. TaxByBand(s, 20 * k) = 0 * Birr + 3 * j
    BY <2>1, <2>2, <2>3, <2>4 DEF TaxByBand
  <2> QED
    BY <1>2, <1>12, <2>2, <2>5
<1>13. ASSUME 2000000 < k, k <= 3500000 PROVE TaxByBand(s, 20 * k) = 4 * k - 5000000
  <2>1. Bracket(s, 20 * k) = 3
    BY <1>2, <1>3, <1>5, <1>13
  <2>2. PICK j \in Nat : j = k - 2000000 /\ 20 * k - 4000 * Birr = 20 * j
    BY <1>2, <1>13
  <2>3. Percent(20 * j, 20) = 4 * j
    BY Percents
  <2>4. s[3].rate = 20 /\ s[3].over = 4000 /\ s[3].tax = 300
    BY <1>1
  <2>5. TaxByBand(s, 20 * k) = 300 * Birr + 4 * j
    BY <2>1, <2>2, <2>3, <2>4 DEF TaxByBand
  <2> QED
    BY <1>2, <1>13, <2>2, <2>5
<1>14. ASSUME 3500000 < k, k <= 5000000 PROVE TaxByBand(s, 20 * k) = 5 * k - 8500000
  <2>1. Bracket(s, 20 * k) = 4
    BY <1>2, <1>3, <1>5, <1>14
  <2>2. PICK j \in Nat : j = k - 3500000 /\ 20 * k - 7000 * Birr = 20 * j
    BY <1>2, <1>14
  <2>3. Percent(20 * j, 25) = 5 * j
    BY Percents
  <2>4. s[4].rate = 25 /\ s[4].over = 7000 /\ s[4].tax = 900
    BY <1>1
  <2>5. TaxByBand(s, 20 * k) = 900 * Birr + 5 * j
    BY <2>1, <2>2, <2>3, <2>4 DEF TaxByBand
  <2> QED
    BY <1>2, <1>14, <2>2, <2>5
<1>15. ASSUME 5000000 < k, k <= 7000000 PROVE TaxByBand(s, 20 * k) = 6 * k - 13500000
  <2>1. Bracket(s, 20 * k) = 5
    BY <1>2, <1>3, <1>5, <1>15
  <2>2. PICK j \in Nat : j = k - 5000000 /\ 20 * k - 10000 * Birr = 20 * j
    BY <1>2, <1>15
  <2>3. Percent(20 * j, 30) = 6 * j
    BY Percents
  <2>4. s[5].rate = 30 /\ s[5].over = 10000 /\ s[5].tax = 1650
    BY <1>1
  <2>5. TaxByBand(s, 20 * k) = 1650 * Birr + 6 * j
    BY <2>1, <2>2, <2>3, <2>4 DEF TaxByBand
  <2> QED
    BY <1>2, <1>15, <2>2, <2>5
<1>16. ASSUME 7000000 < k PROVE TaxByBand(s, 20 * k) = 7 * k - 20500000
  <2>1. Bracket(s, 20 * k) = 6
    BY <1>2, <1>3, <1>5, <1>16
  <2>2. PICK j \in Nat : j = k - 7000000 /\ 20 * k - 14000 * Birr = 20 * j
    BY <1>2, <1>16
  <2>3. Percent(20 * j, 35) = 7 * j
    BY Percents
  <2>4. s[6].rate = 35 /\ s[6].over = 14000 /\ s[6].tax = 2850
    BY <1>1
  <2>5. TaxByBand(s, 20 * k) = 2850 * Birr + 7 * j
    BY <2>1, <2>2, <2>3, <2>4 DEF TaxByBand
  <2> QED
    BY <1>2, <1>16, <2>2, <2>5
<1> QED
  BY <1>11, <1>12, <1>13, <1>14, <1>15, <1>16 DEF s, DraftScale

\* Of more income more is due, and no more than 35 percent of the difference.
LEMMA JobSlope ==
    ASSUME NEW k \in Nat, NEW m \in Nat, k <= m, NEW t, JobScale(k, t), NEW u, JobScale(m, u)
    PROVE  t \in Nat /\ u \in Nat /\ t <= u /\ u - t <= 7 * (m - k) /\ t <= 7 * k
  BY DEF JobScale

\* The same holds of drafts and the preview.
LEMMA DraftSlope ==
    ASSUME NEW k \in Nat, NEW m \in Nat, k <= m, NEW t, DraftScale(k, t), NEW u, DraftScale(m, u)
    PROVE  t \in Nat /\ u \in Nat /\ t <= u /\ u - t <= 7 * (m - k) /\ t <= 7 * k
  BY DEF DraftScale

\* The preview taxes as the draft does, whatever the income.
LEMMA OneTax ==
    ASSUME NEW k \in Nat
    PROVE  TaxByDeduction(PreviewSchedule, 20 * k) = TaxByBand(DraftSchedule, 20 * k)
  BY PreviewTax, DraftTax DEF DraftScale

-----------------------------------------------------------------------------
\* Of a base salary of b steps, the part that is insured, and of an allowance of t steps
\* for transport, the part that is exempt, in hundredths of a step.
Capped(b) == IF b > 75000 THEN 75000 ELSE b

\* Only some ways cap what is insured.
Insured(p, b) == IF p.capped THEN Capped(b) ELSE b

\* Transport is exempt up to a quarter of the base salary and 2200 Birr,
Exempt(b, t) == LET most == IF 25 * b < 1100000 THEN 25 * b ELSE 1100000
                IN  IF 100 * t < most THEN 100 * t ELSE most

\* or, in the engine, up to 600 Birr.
EngineExempt(t) == IF 2000 * t < 6000000 THEN 100 * t ELSE 300000

\* Pays come in steps.
InSteps(p, b, t, s) ==
    /\ p.base = 2000 * b /\ p.transport = 2000 * t /\ p.position = 2000 * s
    /\ p.capped \in BOOLEAN

\* The capped part grows with the salary and no faster.
LEMMA CappedPart ==
    ASSUME NEW b \in Nat
    PROVE  /\ Capped(b) \in Nat /\ Capped(b) <= b
           /\ \A d \in Nat : Capped(b) <= Capped(b + d) /\ Capped(b + d) <= Capped(b) + d
  BY DEF Capped

\* So does the insured part.
LEMMA InsuredPart ==
    ASSUME NEW p, NEW b \in Nat
    PROVE  /\ Insured(p, b) \in Nat /\ Insured(p, b) <= b
           /\ \A d \in Nat : Insured(p, b) <= Insured(p, b + d) /\ Insured(p,
               b + d) <= Insured(p, b) + d
<1>1. CASE p.capped
  BY <1>1, CappedPart DEF Insured
<1>2. CASE ~p.capped
  BY <1>2 DEF Insured
<1> QED
  BY <1>1, <1>2

\* The capped part is what the code computes.
LEMMA CappedOf ==
    ASSUME NEW p, NEW b \in Nat, NEW t, NEW s, InSteps(p, b, t, s)
    PROVE  AtMost(p.base, PensionCap) = 2000 * Capped(b)
<1>1. PensionCap = 150000000
  BY DEF PensionCap, Birr, Santim
<1> QED
  BY <1>1 DEF InSteps, AtMost, Capped

\* The insured part is what the code computes.
LEMMA InsuredOf ==
    ASSUME NEW p, NEW b \in Nat, NEW t, NEW s, InSteps(p, b, t, s)
    PROVE  (IF p.capped THEN AtMost(p.base, PensionCap) ELSE p.base) = 2000 * Insured(p, b)
<1>1. CASE p.capped
  BY <1>1, CappedOf DEF Insured
<1>2. CASE ~p.capped
  BY <1>2 DEF Insured, InSteps
<1> QED
  BY <1>1, <1>2

\* The exempt part grows with the salary and with the allowance, and no faster.
LEMMA ExemptPart ==
    ASSUME NEW b \in Nat, NEW t \in Nat
    PROVE  /\ Exempt(b, t) \in Nat /\ Exempt(b, t) <= 100 * t
           /\ \A d \in Nat : /\ Exempt(b, t) <= Exempt(b + d, t) /\ Exempt(b + d, t) <= Exempt(b,
                                t) + 25 * d
                             /\ Exempt(b, t) <= Exempt(b, t + d) /\ Exempt(b, t + d) <= Exempt(b,
                                 t) + 100 * d
           /\ EngineExempt(t) \in Nat /\ EngineExempt(t) <= 100 * t
           /\ \A d \in Nat : /\ EngineExempt(t) <= EngineExempt(t + d)
                             /\ EngineExempt(t + d) <= EngineExempt(t) + 100 * d
  BY DEF Exempt, EngineExempt

\* The exempt parts are what the code computes.
LEMMA ExemptOf ==
    ASSUME NEW p, NEW b \in Nat, NEW t \in Nat, NEW s, InSteps(p, b, t, s)
    PROVE  /\ AtMost(p.transport, AtMost(p.base \div 4, 2200 * Birr)) = 20 * Exempt(b, t)
           /\ AtMost(p.transport, 600 * Birr) = 20 * EngineExempt(t)
<1>1. p.base \div 4 = 500 * b
  BY DEF InSteps
<1>2. Birr = 10000
  BY DEF Birr, Santim
<1> QED
  BY <1>1, <1>2 DEF InSteps, AtMost, Exempt, EngineExempt

\* Rounding keeps the order.
LEMMA RoundedGrows ==
    ASSUME NEW x \in Nat, NEW y \in Nat, x <= y
    PROVE  Rounded(x) <= Rounded(y)
<1>1. PICK q \in Nat : Rounded(x) = 100 * q /\ 100 * q <= x + 50 /\ x + 50 < 100 * q + 100
  BY RoundsTo
<1>2. PICK r \in Nat : Rounded(y) = 100 * r /\ 100 * r <= y + 50 /\ y + 50 < 100 * r + 100
  BY RoundsTo
<1> QED
  BY <1>1, <1>2

\* A line of the background job in terms of its steps.
LEMMA JobLineIs ==
    ASSUME NEW p, NEW b \in Nat, NEW t \in Nat, NEW s \in Nat, InSteps(p, b, t, s),
           NEW c, c = Insured(p, b), NEW x, x = Exempt(b, t),
           NEW k, k = 100 * (b + t + s) - 7 * c - x
    PROVE  /\ c \in Nat /\ x \in Nat /\ k \in Nat
           /\ \E tax \in Nat :
                /\ JobScale(k, tax) /\ tax <= 7 * k
                /\ JobLine(p) = [gross |-> 2000 * (b + t + s), tax |-> Rounded(tax),
                                 pension |-> Rounded(140 * c), employer |-> Rounded(220 * c),
                                 net |-> Rounded(2000 * (b + t + s) - 140 * c - tax)]
<1>1. /\ c \in Nat /\ c <= b /\ x \in Nat /\ x <= 100 * t
  BY InsuredPart, ExemptPart DEF InSteps
<1>2. k \in Nat
  BY <1>1
<1>3. PICK tax : tax = TaxByDeduction(JobSchedule, 20 * k)
  OBVIOUS
<1>4. JobScale(k, tax)
  BY <1>2, <1>3, JobTax
<1>5. tax \in Nat /\ tax <= 7 * k
  BY <1>2, <1>4, JobSlope
<1>6. PICK gross \in Nat : gross = 2000 * (b + t + s)
  OBVIOUS
<1>7. p.base + p.transport + p.position = gross
  BY <1>6 DEF InSteps
<1>8. gross - 140 * c - 20 * x = 20 * k
  BY <1>1, <1>6
<1>9. Percent(2000 * c, 7) = 140 * c /\ Percent(2000 * c, 11) = 220 * c
  BY <1>1, Shares
<1>10. JobLine(p) = [gross |-> gross, tax |-> Rounded(tax), pension |-> Rounded(140 * c),
                     employer |-> Rounded(220 * c), net |-> Rounded(gross - 140 * c - tax)]
  BY <1>3, <1>7, <1>8, <1>9, InsuredOf, ExemptOf DEF JobLine
<1> QED
  BY <1>1, <1>2, <1>4, <1>5, <1>6, <1>10

\* A line of a draft in terms of its steps.
LEMMA DraftLineIs ==
    ASSUME NEW p, NEW b \in Nat, NEW t \in Nat, NEW s \in Nat, InSteps(p, b, t, s),
           NEW c, c = Capped(b)
    PROVE  /\ c \in Nat
           /\ \E tax \in Nat :
                /\ DraftScale(100 * b, tax) /\ tax <= 700 * b
                /\ DraftLine(p) = [gross |-> 2000 * b, tax |-> Rounded(tax),
                                   pension |-> Rounded(140 * c), employer |-> Rounded(220 * c),
                                   net |-> 2000 * b - Rounded(tax) - Rounded(140 * c)]
<1>1. c \in Nat /\ c <= b
  BY CappedPart
<1>2. PICK k \in Nat : k = 100 * b
  OBVIOUS
<1>3. PICK tax : tax = TaxByBand(DraftSchedule, 20 * k)
  OBVIOUS
<1>4. DraftScale(k, tax)
  BY <1>2, <1>3, DraftTax
<1>5. tax \in Nat /\ tax <= 7 * k
  BY <1>2, <1>4, DraftSlope
<1>6. p.base = 20 * k /\ p.base = 2000 * b
  BY <1>2 DEF InSteps
<1>9. Percent(2000 * c, 7) = 140 * c /\ Percent(2000 * c, 11) = 220 * c
  BY <1>1, Shares
<1>10. DraftLine(p) = [gross |-> 2000 * b, tax |-> Rounded(tax), pension |-> Rounded(140 * c),
                       employer |-> Rounded(220 * c),
                           net |-> 2000 * b - Rounded(tax) - Rounded(140 * c)]
  <2>1. AtMost(p.base, PensionCap) = 2000 * c
    BY CappedOf
  <2>2. TaxByBand(DraftSchedule, p.base) = tax
    BY <1>3, <1>6
  <2>3. /\ Percent(AtMost(p.base, PensionCap), 7) = 140 * c
        /\ Percent(AtMost(p.base, PensionCap), 11) = 220 * c
    BY <1>9, <2>1
  <2> QED
    BY <1>6, <2>2, <2>3 DEF DraftLine
<1> QED
  BY <1>1, <1>2, <1>4, <1>5, <1>10

\* A line of the engine, which taxes what the rounded share of the employee leaves.
LEMMA EngineLineIs ==
    ASSUME NEW p, NEW b \in Nat, NEW t \in Nat, NEW s \in Nat, InSteps(p, b, t, s),
           NEW c, c = Capped(b), NEW x, x = EngineExempt(t), NEW r \in Nat,
           Rounded(140 * c) = 100 * r, NEW k, k = 100 * (b + t + s) - 5 * r - x
    PROVE  /\ c \in Nat /\ x \in Nat /\ k \in Nat
           /\ \E tax \in Nat :
                /\ DraftScale(k, tax) /\ tax <= 7 * k
                /\ EngineLine(p) = [gross |-> 2000 * (b + t + s), tax |-> Rounded(tax),
                                    pension |-> 100 * r, employer |-> Rounded(220 * c),
                                    net |-> 2000 * (b + t + s) - Rounded(tax) - 100 * r]
<1>1. /\ c \in Nat /\ c <= b /\ x \in Nat /\ x <= 100 * t
  BY CappedPart, ExemptPart
<1>2. PICK q \in Nat : Rounded(140 * c) = 100 * q /\ 100 * q <= 140 * c + 50
                       /\ 140 * c + 50 < 100 * q + 100
  BY <1>1, RoundsTo
<1>0. k \in Nat
  BY <1>1, <1>2
<1>3. PICK tax : tax = TaxByBand(DraftSchedule, 20 * k)
  OBVIOUS
<1>4. DraftScale(k, tax)
  BY <1>0, <1>3, DraftTax
<1>5. tax \in Nat /\ tax <= 7 * k
  BY <1>0, <1>4, DraftSlope
<1>6. PICK gross \in Nat : gross = 2000 * (b + t + s)
  OBVIOUS
<1>7. p.base + p.transport + p.position = gross
  BY <1>6 DEF InSteps
<1>8. gross - 20 * x - 100 * r = 20 * k
  BY <1>1, <1>6
<1>9. Percent(2000 * c, 7) = 140 * c /\ Percent(2000 * c, 11) = 220 * c
  BY <1>1, Shares
<1>10. EngineLine(p) = [gross |-> gross, tax |-> Rounded(tax), pension |-> 100 * r,
                     employer |-> Rounded(220 * c), net |-> gross - Rounded(tax) - 100 * r]
  <2>1. AtMost(p.base, PensionCap) = 2000 * c
    BY CappedOf
  <2>2. AtMost(p.transport, 600 * Birr) = 20 * x
    BY ExemptOf
  <2>3. /\ Percent(AtMost(p.base, PensionCap), 7) = 140 * c
        /\ Percent(AtMost(p.base, PensionCap), 11) = 220 * c
    BY <1>9, <2>1
  <2>4. TaxByBand(EngineSchedule, gross - 20 * x - 100 * r) = tax
    BY <1>3, <1>8 DEF EngineSchedule
  <2> QED
    BY <1>7, <2>2, <2>3, <2>4 DEF EngineLine
<1> QED
  BY <1>0, <1>1, <1>4, <1>5, <1>6, <1>10

\* A line of the preview in terms of its steps.
LEMMA PreviewLineIs ==
    ASSUME NEW p, NEW b \in Nat, NEW t \in Nat, NEW s \in Nat, InSteps(p, b, t, s),
           NEW c, c = Capped(b), NEW k, k = 100 * b - 7 * c
    PROVE  /\ c \in Nat /\ k \in Nat
           /\ \E tax \in Nat :
                /\ DraftScale(k, tax) /\ tax <= 7 * k
                /\ PreviewLine(p) = [gross |-> 2000 * b, tax |-> tax, pension |-> 140 * c,
                                     employer |-> 220 * c, net |-> 2000 * b - 140 * c - tax]
<1>1. c \in Nat /\ c <= b
  BY CappedPart
<1>2. k \in Nat
  BY <1>1
<1>3. PICK tax : tax = TaxByDeduction(PreviewSchedule, 20 * k)
  OBVIOUS
<1>4. DraftScale(k, tax)
  BY <1>2, <1>3, PreviewTax
<1>5. tax \in Nat /\ tax <= 7 * k
  BY <1>2, <1>4, DraftSlope
<1>6. p.base = 2000 * b /\ 2000 * b - 140 * c = 20 * k
  BY <1>1 DEF InSteps
<1>9. Percent(2000 * c, 7) = 140 * c /\ Percent(2000 * c, 11) = 220 * c
  BY <1>1, Shares
<1>10. PreviewLine(p) = [gross |-> 2000 * b, tax |-> tax, pension |-> 140 * c,
                       employer |-> 220 * c, net |-> 2000 * b - 140 * c - tax]
  BY <1>3, <1>6, <1>9, CappedOf DEF PreviewLine
<1> QED
  BY <1>1, <1>2, <1>4, <1>5, <1>10

-----------------------------------------------------------------------------
\* What a payroll line has to be.
Ways == {"job", "draft", "engine", "preview"}

\* No amount is negative, and nobody gets more than was earned.
IsLine(l) == l \in [{"gross", "tax", "pension", "employer", "net"} -> Nat] /\ l.net <= l.gross

\* What was earned is what is paid and kept back, but for a santim of rounding.
Balanced(l) == l.gross - l.tax - l.pension - l.net \in -Santim .. Santim

\* Of the background job.
LEMMA JobLineSound ==
    ASSUME NEW p, NEW b \in Nat, NEW t \in Nat, NEW s \in Nat, InSteps(p, b, t, s)
    PROVE  IsLine(JobLine(p)) /\ Balanced(JobLine(p))
<1>1. PICK c, x, k : c = Insured(p, b) /\ x = Exempt(b, t) /\ k = 100 * (b + t + s) - 7 * c - x
  OBVIOUS
<1>2. /\ c \in Nat /\ x \in Nat /\ k \in Nat /\ c <= b
  BY <1>1, JobLineIs, InsuredPart
<1>3. PICK tax \in Nat :
        /\ JobScale(k, tax) /\ tax <= 7 * k
        /\ JobLine(p) = [gross |-> 2000 * (b + t + s), tax |-> Rounded(tax),
                         pension |-> Rounded(140 * c), employer |-> Rounded(220 * c),
                         net |-> Rounded(2000 * (b + t + s) - 140 * c - tax)]
  BY <1>1, JobLineIs
<1>4. PICK n \in Nat : n = b + t + s
  OBVIOUS
<1>5. PICK net \in Nat : net = 2000 * n - 140 * c - tax
  <2>1. 2000 * n - 140 * c - tax \in Nat
    BY <1>1, <1>2, <1>3, <1>4
  <2> QED
    BY <2>1
<1>6. PICK q1 \in Nat : Rounded(tax) = 100 * q1 /\ 100 * q1 <= tax + 50
         /\ tax + 50 < 100 * q1 + 100
  BY RoundsTo
<1>7. PICK q2 \in Nat :
        Rounded(140 * c) = 100 * q2 /\ 100 * q2 <= 140 * c + 50 /\ 140 * c + 50 < 100 * q2 + 100
  BY <1>2, RoundsTo
<1>8. PICK q3 \in Nat : Rounded(net) = 100 * q3 /\ 100 * q3 <= net + 50
         /\ net + 50 < 100 * q3 + 100
  BY RoundsTo
<1>9. PICK q4 \in Nat : Rounded(220 * c) = 100 * q4
  BY <1>2, RoundsTo
<1>10. JobLine(p) = [gross |-> 2000 * n, tax |-> 100 * q1, pension |-> 100 * q2,
                     employer |-> 100 * q4, net |-> 100 * q3]
  BY <1>3, <1>4, <1>5, <1>6, <1>7, <1>8, <1>9
<1>11. 100 * q3 <= 2000 * n
  BY <1>2, <1>5, <1>8
<1>12. PICK z : z = 20 * n - q1 - q2 - q3
  OBVIOUS
<1>13. z \in Int /\ 2000 * n - 100 * q1 - 100 * q2 - 100 * q3 = 100 * z
  BY <1>12
<1>14. 100 * z \in -100 .. 100
  BY <1>2, <1>5, <1>6, <1>7, <1>8, <1>13
<1> QED
  BY <1>10, <1>11, <1>13, <1>14 DEF IsLine, Balanced, Santim

\* Of drafts.
LEMMA DraftLineSound ==
    ASSUME NEW p, NEW b \in Nat, NEW t \in Nat, NEW s \in Nat, InSteps(p, b, t, s)
    PROVE  IsLine(DraftLine(p)) /\ Balanced(DraftLine(p))
<1>1. PICK c : c = Capped(b)
  OBVIOUS
<1>2. c \in Nat /\ c <= b
  BY <1>1, CappedPart
<1>3. PICK tax \in Nat :
        /\ tax <= 700 * b
        /\ DraftLine(p) = [gross |-> 2000 * b, tax |-> Rounded(tax),
                           pension |-> Rounded(140 * c), employer |-> Rounded(220 * c),
                           net |-> 2000 * b - Rounded(tax) - Rounded(140 * c)]
  BY <1>1, DraftLineIs
<1>4. PICK q1 \in Nat : Rounded(tax) = 100 * q1 /\ 100 * q1 <= tax + 50
  BY RoundsTo
<1>5. PICK q2 \in Nat : Rounded(140 * c) = 100 * q2 /\ 100 * q2 <= 140 * c + 50
  BY <1>2, RoundsTo
<1>6. PICK q4 \in Nat : Rounded(220 * c) = 100 * q4
  BY <1>2, RoundsTo
<1>7. PICK net : net = 2000 * b - 100 * q1 - 100 * q2
  OBVIOUS
<1>8. DraftLine(p) = [gross |-> 2000 * b, tax |-> 100 * q1, pension |-> 100 * q2,
                      employer |-> 100 * q4, net |-> net]
  BY <1>3, <1>4, <1>5, <1>6, <1>7
<1>9. net \in Nat /\ net <= 2000 * b /\ 2000 * b - 100 * q1 - 100 * q2 - net = 0
  BY <1>2, <1>3, <1>4, <1>5, <1>7
<1> QED
  BY <1>8, <1>9 DEF IsLine, Balanced, Santim

\* Of the engine.
LEMMA EngineLineSound ==
    ASSUME NEW p, NEW b \in Nat, NEW t \in Nat, NEW s \in Nat, InSteps(p, b, t, s)
    PROVE  IsLine(EngineLine(p)) /\ Balanced(EngineLine(p))
<1>1. PICK c, x : c = Capped(b) /\ x = EngineExempt(t)
  OBVIOUS
<1>2. c \in Nat /\ c <= b /\ x \in Nat
  BY <1>1, CappedPart, ExemptPart
<1>3. PICK r \in Nat : Rounded(140 * c) = 100 * r /\ 100 * r <= 140 * c + 50
  BY <1>2, RoundsTo
<1>4. PICK k : k = 100 * (b + t + s) - 5 * r - x
  OBVIOUS
<1>5. PICK tax \in Nat :
        /\ tax <= 7 * k
        /\ EngineLine(p) = [gross |-> 2000 * (b + t + s), tax |-> Rounded(tax),
                            pension |-> 100 * r, employer |-> Rounded(220 * c),
                            net |-> 2000 * (b + t + s) - Rounded(tax) - 100 * r]
  BY <1>1, <1>3, <1>4, EngineLineIs
<1>6. PICK n \in Nat : n = b + t + s
  OBVIOUS
<1>7. PICK q1 \in Nat : Rounded(tax) = 100 * q1 /\ 100 * q1 <= tax + 50
  BY RoundsTo
<1>8. PICK q4 \in Nat : Rounded(220 * c) = 100 * q4
  BY <1>2, RoundsTo
<1>9. PICK net : net = 2000 * n - 100 * q1 - 100 * r
  OBVIOUS
<1>10. EngineLine(p) = [gross |-> 2000 * n, tax |-> 100 * q1, pension |-> 100 * r,
                        employer |-> 100 * q4, net |-> net]
  BY <1>5, <1>6, <1>7, <1>8, <1>9
<1>11. net \in Nat /\ net <= 2000 * n /\ 2000 * n - 100 * q1 - 100 * r - net = 0
  BY <1>2, <1>3, <1>4, <1>5, <1>6, <1>7, <1>9
<1> QED
  BY <1>10, <1>11 DEF IsLine, Balanced, Santim

\* Of the preview.
LEMMA PreviewLineSound ==
    ASSUME NEW p, NEW b \in Nat, NEW t \in Nat, NEW s \in Nat, InSteps(p, b, t, s)
    PROVE  IsLine(PreviewLine(p)) /\ Balanced(PreviewLine(p))
<1>1. PICK c, k : c = Capped(b) /\ k = 100 * b - 7 * c
  OBVIOUS
<1>2. c \in Nat /\ c <= b /\ k \in Nat
  <2>1. c \in Nat /\ c <= b
    BY <1>1, CappedPart
  <2> QED
    BY <1>1, <2>1
<1>3. PICK tax \in Nat :
        /\ tax <= 7 * k
        /\ PreviewLine(p) = [gross |-> 2000 * b, tax |-> tax, pension |-> 140 * c,
                             employer |-> 220 * c, net |-> 2000 * b - 140 * c - tax]
  BY <1>1, PreviewLineIs
<1>4. PICK net \in Nat : net = 2000 * b - 140 * c - tax
  <2>1. 2000 * b - 140 * c - tax \in Nat
    BY <1>1, <1>2, <1>3
  <2> QED
    BY <2>1
<1>5. PICK pension \in Nat, employer \in Nat : pension = 140 * c /\ employer = 220 * c
  BY <1>2
<1>6. PreviewLine(p) = [gross |-> 2000 * b, tax |-> tax, pension |-> pension,
                        employer |-> employer, net |-> net]
  BY <1>3, <1>4, <1>5
<1>7. net <= 2000 * b /\ 2000 * b - tax - pension - net = 0
  BY <1>4, <1>5
<1> QED
  BY <1>6, <1>7 DEF IsLine, Balanced, Santim

-----------------------------------------------------------------------------
\* Of a raise of the base salary by d steps and of the transport allowance by e, something
\* is left.  So much is left of the gross because tax and pension together take less than
\* half of a raise.
LEMMA JobGrows ==
    ASSUME NEW p, NEW b \in Nat, NEW t \in Nat, NEW s \in Nat, InSteps(p, b, t, s),
           NEW d \in Nat, NEW e \in Nat, NEW q, InSteps(q, b + d, t + e, s), q.capped = p.capped
    PROVE  JobLine(p).net <= JobLine(q).net
<1>1. PICK c, x, k : c = Insured(p, b) /\ x = Exempt(b, t) /\ k = 100 * (b + t + s) - 7 * c - x
  OBVIOUS
<1>2. PICK b2 \in Nat, t2 \in Nat : b2 = b + d /\ t2 = t + e
  OBVIOUS
<1>3. PICK c2, x2, k2 : c2 = Insured(q, b2) /\ x2 = Exempt(b2, t2)
         /\ k2 = 100 * (b2 + t2 + s) - 7 * c2 - x2
  OBVIOUS
<1>4. Insured(q, b2) = Insured(p, b2)
  BY DEF Insured
<1>5. c \in Nat /\ c2 \in Nat /\ c <= b /\ c <= c2 /\ c2 <= c + d
  BY <1>1, <1>2, <1>3, <1>4, InsuredPart
<1>6. x \in Nat /\ x2 \in Nat /\ x <= 100 * t /\ x <= x2 /\ x2 <= x + 25 * d + 100 * e
  <2>1. PICK y : y = Exempt(b2, t)
    OBVIOUS
  <2>2. x \in Nat /\ y \in Nat /\ x <= 100 * t /\ x <= y /\ y <= x + 25 * d
    BY <1>1, <1>2, <2>1, ExemptPart
  <2>3. x2 \in Nat /\ y <= x2 /\ x2 <= y + 100 * e
    BY <1>2, <1>3, <2>1, ExemptPart
  <2> QED
    BY <2>2, <2>3
<1>7. k \in Nat /\ k2 \in Nat /\ k <= k2
  BY <1>1, <1>2, <1>3, <1>5, <1>6
<1>8. PICK tax \in Nat :
        /\ JobScale(k, tax) /\ tax <= 7 * k
        /\ JobLine(p) = [gross |-> 2000 * (b + t + s), tax |-> Rounded(tax),
                         pension |-> Rounded(140 * c), employer |-> Rounded(220 * c),
                         net |-> Rounded(2000 * (b + t + s) - 140 * c - tax)]
  BY <1>1, JobLineIs
<1>9. InSteps(q, b2, t2, s)
  BY <1>2
<1>10. PICK tax2 \in Nat :
        /\ JobScale(k2, tax2) /\ tax2 <= 7 * k2
        /\ JobLine(q) = [gross |-> 2000 * (b2 + t2 + s), tax |-> Rounded(tax2),
                         pension |-> Rounded(140 * c2), employer |-> Rounded(220 * c2),
                         net |-> Rounded(2000 * (b2 + t2 + s) - 140 * c2 - tax2)]
  BY <1>3, <1>9, JobLineIs
<1>11. tax2 - tax <= 7 * (k2 - k)
  BY <1>7, <1>8, <1>10, JobSlope
<1>12. PICK n \in Nat, n2 \in Nat : /\ n = 2000 * (b + t + s) - 140 * c - tax
                                    /\ n2 = 2000 * (b2 + t2 + s) - 140 * c2 - tax2
  <2>1. 2000 * (b + t + s) - 140 * c - tax \in Nat
    BY <1>1, <1>5, <1>6, <1>8
  <2>2. 2000 * (b2 + t2 + s) - 140 * c2 - tax2 \in Nat
    BY <1>2, <1>3, <1>5, <1>6, <1>10
  <2> QED
    BY <2>1, <2>2
<1>13. n <= n2
  <2>1. k2 - k <= 100 * d + 100 * e + x - x2
    BY <1>1, <1>2, <1>3, <1>5, <1>6
  <2>2. tax2 - tax <= 700 * d + 700 * e
    BY <1>6, <1>7, <1>11, <2>1
  <2>3. 140 * c2 - 140 * c <= 140 * d
    BY <1>5
  <2>4. n2 - n = 2000 * d + 2000 * e - (140 * c2 - 140 * c) - (tax2 - tax)
    BY <1>2, <1>5, <1>12
  <2> QED
    BY <1>5, <1>12, <2>2, <2>3, <2>4
<1>14. JobLine(p).net = Rounded(n) /\ JobLine(q).net = Rounded(n2)
  BY <1>8, <1>10, <1>12
<1> QED
  BY <1>13, <1>14, RoundedGrows

\* The same of a draft.
LEMMA DraftGrows ==
    ASSUME NEW p, NEW b \in Nat, NEW t \in Nat, NEW s \in Nat, InSteps(p, b, t, s),
           NEW d \in Nat, NEW e \in Nat, NEW q, InSteps(q, b + d, t + e, s)
    PROVE  DraftLine(p).net <= DraftLine(q).net
<1>1. PICK b2 \in Nat, t2 \in Nat : b2 = b + d /\ t2 = t + e
  OBVIOUS
<1>2. PICK c, c2 : c = Capped(b) /\ c2 = Capped(b2)
  OBVIOUS
<1>3. c \in Nat /\ c2 \in Nat /\ c <= c2 /\ c2 <= c + d
  BY <1>1, <1>2, CappedPart
<1>4. PICK tax \in Nat :
        /\ DraftScale(100 * b, tax)
        /\ DraftLine(p) = [gross |-> 2000 * b, tax |-> Rounded(tax),
                           pension |-> Rounded(140 * c), employer |-> Rounded(220 * c),
                           net |-> 2000 * b - Rounded(tax) - Rounded(140 * c)]
  BY <1>2, DraftLineIs
<1>5. InSteps(q, b2, t2, s)
  BY <1>1
<1>6. PICK tax2 \in Nat :
        /\ DraftScale(100 * b2, tax2)
        /\ DraftLine(q) = [gross |-> 2000 * b2, tax |-> Rounded(tax2),
                           pension |-> Rounded(140 * c2), employer |-> Rounded(220 * c2),
                           net |-> 2000 * b2 - Rounded(tax2) - Rounded(140 * c2)]
  BY <1>2, <1>5, DraftLineIs
<1>7. PICK k \in Nat, k2 \in Nat : k = 100 * b /\ k2 = 100 * b2
  OBVIOUS
<1>8. tax <= tax2 /\ tax2 - tax <= 7 * (k2 - k)
  BY <1>1, <1>4, <1>6, <1>7, DraftSlope
<1>9. tax2 <= tax + 700 * d
  BY <1>1, <1>7, <1>8
<1>10. PICK q1 \in Nat : Rounded(tax) = 100 * q1 /\ 100 * q1 <= tax + 50
         /\ tax + 50 < 100 * q1 + 100
  BY RoundsTo
<1>11. PICK q2 \in Nat :
        Rounded(140 * c) = 100 * q2 /\ 100 * q2 <= 140 * c + 50 /\ 140 * c + 50 < 100 * q2 + 100
  BY <1>3, RoundsTo
<1>13. PICK r1 \in Nat :
        Rounded(tax2) = 100 * r1 /\ 100 * r1 <= tax2 + 50 /\ tax2 + 50 < 100 * r1 + 100
  BY RoundsTo
<1>14. PICK r2 \in Nat :
        Rounded(140 * c2) = 100 * r2 /\ 100 * r2 <= 140 * c2 + 50
            /\ 140 * c2 + 50 < 100 * r2 + 100
  BY <1>3, RoundsTo
<1>12. 2000 * b - 100 * q1 - 100 * q2 <= 2000 * b2 - 100 * r1 - 100 * r2
  <2>1. CASE d = 0
    BY <1>1, <1>3, <1>8, <1>9, <1>10, <1>11, <1>13, <1>14, <2>1
  <2>2. CASE d >= 1
    BY <1>1, <1>3, <1>8, <1>9, <1>10, <1>11, <1>13, <1>14, <2>2
  <2> QED
    BY <2>1, <2>2
<1> QED
  BY <1>4, <1>6, <1>10, <1>11, <1>12, <1>13, <1>14

\* The same of the engine.
LEMMA EngineGrows ==
    ASSUME NEW p, NEW b \in Nat, NEW t \in Nat, NEW s \in Nat, InSteps(p, b, t, s),
           NEW d \in Nat, NEW e \in Nat, NEW q, InSteps(q, b + d, t + e, s)
    PROVE  EngineLine(p).net <= EngineLine(q).net
<1>1. PICK b2 \in Nat, t2 \in Nat : b2 = b + d /\ t2 = t + e
  OBVIOUS
<1>2. PICK c, c2, x, x2 : /\ c = Capped(b) /\ c2 = Capped(b2)
                          /\ x = EngineExempt(t) /\ x2 = EngineExempt(t2)
  OBVIOUS
<1>3. c \in Nat /\ c2 \in Nat /\ c <= c2 /\ c2 <= c + d
  BY <1>1, <1>2, CappedPart
<1>4. x \in Nat /\ x2 \in Nat /\ x <= x2 /\ x2 <= x + 100 * e
  BY <1>1, <1>2, ExemptPart
<1>5. PICK r \in Nat :
        Rounded(140 * c) = 100 * r /\ 100 * r <= 140 * c + 50 /\ 140 * c + 50 < 100 * r + 100
  BY <1>3, RoundsTo
<1>6. PICK r2 \in Nat :
        Rounded(140 * c2) = 100 * r2 /\ 100 * r2 <= 140 * c2 + 50
            /\ 140 * c2 + 50 < 100 * r2 + 100
  BY <1>3, RoundsTo
<1>7. r <= r2 /\ 100 * r2 <= 100 * r + 140 * d + 99
  BY <1>3, <1>5, <1>6
<1>8. PICK k, k2 : k = 100 * (b + t + s) - 5 * r - x /\ k2 = 100 * (b2 + t2 + s) - 5 * r2 - x2
  OBVIOUS
<1>9. InSteps(q, b2, t2, s)
  BY <1>1
<1>10. k \in Nat /\ k2 \in Nat
  <2>1. c <= b /\ c2 <= b2 /\ x <= 100 * t /\ x2 <= 100 * t2
    BY <1>1, <1>2, CappedPart, ExemptPart
  <2>2. k \in Nat
    BY <1>3, <1>4, <1>5, <1>8, <2>1
  <2>3. k2 \in Nat
    BY <1>3, <1>4, <1>6, <1>8, <2>1
  <2> QED
    BY <2>2, <2>3
<1>11. k <= k2
  <2>1. CASE d = 0
    <3>1. c2 = c
      BY <1>1, <1>2, <2>1
    <3>2. r2 = r
      BY <1>5, <1>6, <3>1
    <3> QED
      BY <1>1, <1>4, <1>8, <2>1, <3>2
  <2>2. CASE d >= 1
    BY <1>1, <1>4, <1>7, <1>8, <2>2
  <2> QED
    BY <2>1, <2>2
<1>12. PICK tax \in Nat :
        /\ DraftScale(k, tax)
        /\ EngineLine(p) = [gross |-> 2000 * (b + t + s), tax |-> Rounded(tax),
                            pension |-> 100 * r, employer |-> Rounded(220 * c),
                            net |-> 2000 * (b + t + s) - Rounded(tax) - 100 * r]
  BY <1>2, <1>5, <1>8, EngineLineIs
<1>13. PICK tax2 \in Nat :
        /\ DraftScale(k2, tax2)
        /\ EngineLine(q) = [gross |-> 2000 * (b2 + t2 + s), tax |-> Rounded(tax2),
                            pension |-> 100 * r2, employer |-> Rounded(220 * c2),
                            net |-> 2000 * (b2 + t2 + s) - Rounded(tax2) - 100 * r2]
  BY <1>2, <1>6, <1>8, <1>9, EngineLineIs
<1>14. tax <= tax2 /\ tax2 - tax <= 7 * (k2 - k)
  BY <1>10, <1>11, <1>12, <1>13, DraftSlope
<1>15. tax2 <= tax + 700 * d + 700 * e
  BY <1>1, <1>4, <1>7, <1>8, <1>14
<1>16. PICK q1 \in Nat : Rounded(tax) = 100 * q1 /\ 100 * q1 <= tax + 50
         /\ tax + 50 < 100 * q1 + 100
  BY RoundsTo
<1>17. PICK q2 \in Nat :
        Rounded(tax2) = 100 * q2 /\ 100 * q2 <= tax2 + 50 /\ tax2 + 50 < 100 * q2 + 100
  BY RoundsTo
<1>18. 2000 * (b + t + s) - 100 * q1 - 100 * r <= 2000 * (b2 + t2 + s) - 100 * q2 - 100 * r2
  <2>1. CASE d = 0 /\ e = 0
    <3>1. c2 = c
      BY <1>1, <1>2, <2>1
    <3>2. r2 = r
      BY <1>5, <1>6, <3>1
    <3>3. q2 = q1
      BY <1>14, <1>15, <1>16, <1>17, <2>1
    <3> QED
      BY <1>1, <2>1, <3>2, <3>3
  <2>2. CASE d = 0 /\ e >= 1
    <3>1. c2 = c
      BY <1>1, <1>2, <2>2
    <3>2. r2 = r
      BY <1>5, <1>6, <3>1
    <3> QED
      BY <1>1, <1>15, <1>16, <1>17, <2>2, <3>2
  <2>3. CASE d >= 1
    BY <1>1, <1>7, <1>15, <1>16, <1>17, <2>3
  <2> QED
    BY <2>1, <2>2, <2>3
<1> QED
  BY <1>12, <1>13, <1>16, <1>17, <1>18

\* The same of the preview.
LEMMA PreviewGrows ==
    ASSUME NEW p, NEW b \in Nat, NEW t \in Nat, NEW s \in Nat, InSteps(p, b, t, s),
           NEW d \in Nat, NEW e \in Nat, NEW q, InSteps(q, b + d, t + e, s)
    PROVE  PreviewLine(p).net <= PreviewLine(q).net
<1>1. PICK b2 \in Nat, t2 \in Nat : b2 = b + d /\ t2 = t + e
  OBVIOUS
<1>2. PICK c, c2, k, k2 : /\ c = Capped(b) /\ c2 = Capped(b2)
                          /\ k = 100 * b - 7 * c /\ k2 = 100 * b2 - 7 * c2
  OBVIOUS
<1>3. c \in Nat /\ c2 \in Nat /\ c <= b /\ c <= c2 /\ c2 <= c + d
  BY <1>1, <1>2, CappedPart
<1>4. k \in Nat /\ k2 \in Nat /\ k <= k2
  BY <1>1, <1>2, <1>3
<1>5. PICK tax \in Nat :
        /\ DraftScale(k, tax)
        /\ PreviewLine(p) = [gross |-> 2000 * b, tax |-> tax, pension |-> 140 * c,
                             employer |-> 220 * c, net |-> 2000 * b - 140 * c - tax]
  BY <1>2, PreviewLineIs
<1>6. InSteps(q, b2, t2, s)
  BY <1>1
<1>7. PICK tax2 \in Nat :
        /\ DraftScale(k2, tax2)
        /\ PreviewLine(q) = [gross |-> 2000 * b2, tax |-> tax2, pension |-> 140 * c2,
                             employer |-> 220 * c2, net |-> 2000 * b2 - 140 * c2 - tax2]
  BY <1>2, <1>6, PreviewLineIs
<1>8. tax2 - tax <= 7 * (k2 - k)
  BY <1>4, <1>5, <1>7, DraftSlope
<1>9. 2000 * b - 140 * c - tax <= 2000 * b2 - 140 * c2 - tax2
  BY <1>1, <1>2, <1>3, <1>8
<1> QED
  BY <1>5, <1>7, <1>9

\* Whichever way it is calculated, a line is sound.
LEMMA LineSound ==
    ASSUME NEW w \in Ways, NEW p, NEW b \in Nat, NEW t \in Nat, NEW s \in Nat, InSteps(p, b, t, s)
    PROVE  IsLine(LineOf(w, p)) /\ Balanced(LineOf(w, p))
<1>1. CASE w = "job"
  BY <1>1, JobLineSound DEF LineOf
<1>2. CASE w = "draft"
  BY <1>2, DraftLineSound DEF LineOf
<1>3. CASE w = "engine"
  BY <1>3, EngineLineSound DEF LineOf
<1>4. CASE w = "preview"
  BY <1>4, PreviewLineSound DEF LineOf
<1> QED
  BY <1>1, <1>2, <1>3, <1>4 DEF Ways

\* Whichever way it is calculated, a raise does not lower the net pay.
LEMMA LineGrows ==
    ASSUME NEW w \in Ways, NEW p, NEW b \in Nat, NEW t \in Nat, NEW s \in Nat, InSteps(p, b, t,
           s),
           NEW d \in Nat, NEW e \in Nat, NEW q, InSteps(q, b + d, t + e, s), q.capped = p.capped
    PROVE  LineOf(w, p).net <= LineOf(w, q).net
<1>1. CASE w = "job"
  BY <1>1, JobGrows DEF LineOf
<1>2. CASE w = "draft"
  BY <1>2, DraftGrows DEF LineOf
<1>3. CASE w = "engine"
  BY <1>3, EngineGrows DEF LineOf
<1>4. CASE w = "preview"
  BY <1>4, PreviewGrows DEF LineOf
<1> QED
  BY <1>1, <1>2, <1>3, <1>4 DEF Ways

-----------------------------------------------------------------------------
\* Of sums over at most two things.  A sum is a fold, which is a function that is chosen to
\* satisfy its recursive equation: to know the sum of a few things, show a function that
\* does.
One(s) == CHOOSE x \in s : TRUE

\* An addition, and a step of the sum, that provers leave folded.
Plus(x, y) == x + y

\* The sum over s by way of g, which has the sums over smaller sets.
Summand(f, g, s) == IF s = {} THEN 0 ELSE Plus(f[One(s)], g[s \ {One(s)}])

\* One step for each part of S.
Folded(S, f, g) == [s \in SUBSET S |-> Summand(f, g, s)]

\* What the fold of the community modules makes of the values of f over S.
SumOver(S, f) == (CHOOSE g : g = Folded(S, f, g))[S]

\* Total is that fold.
LEMMA TotalIs ==
    ASSUME NEW f
    PROVE  Total(f) = SumOver(DOMAIN f, f)
  BY DEF Total, MapThenFoldSet, SumOver, Folded, Summand, One, Plus

\* A step at one part.
LEMMA FoldedAt ==
    ASSUME NEW S, NEW f, NEW g, NEW s \in SUBSET S
    PROVE  Folded(S, f, g)[s] = Summand(f, g, s)
  BY DEF Folded

\* An element of a pair is one of the two.
LEMMA OneOf == (\A a : One({a}) = a) /\ (\A a, b : One({a, b}) \in {a, b})
  BY DEF One

\* Where some function satisfies the recursion, the fold is the value of one that does.
LEMMA SumFolds ==
    ASSUME NEW S, NEW f, NEW w, w = Folded(S, f, w)
    PROVE  \E h : h = Folded(S, f, h) /\ SumOver(S, f) = h[S]
<1>1. PICK h : h = (CHOOSE g : g = Folded(S, f, g))
  OBVIOUS
<1>2. h = Folded(S, f, h)
  BY <1>1
<1>3. SumOver(S, f) = h[S]
  BY <1>1 DEF SumOver
<1> QED
  BY <1>2, <1>3

\* Whatever satisfies the recursion satisfies it at each part.
LEMMA FixedAt ==
    ASSUME NEW S, NEW f, NEW h, h = Folded(S, f, h), NEW s \in SUBSET S
    PROVE  h[s] = Summand(f, h, s)
<1>1. h[s] = Folded(S, f, h)[s]
  OBVIOUS
<1> QED
  BY <1>1, FoldedAt

\* The sum over nothing, shown by exhibiting the function that is chosen.
LEMMA SumOfNone ==
    ASSUME NEW f, NEW S, S = {}
    PROVE  SumOver(S, f) = 0
<1>1. PICK w : w = [s \in SUBSET S |-> 0]
  OBVIOUS
<1>2. w = [s \in SUBSET S |-> w[s]] /\ w[{}] = 0
  BY <1>1
<1>3. ASSUME NEW s \in SUBSET S PROVE w[s] = Folded(S, f, w)[s]
  <2>1. s = {}
    OBVIOUS
  <2>2. Folded(S, f, w)[s] = Summand(f, w, s)
    BY FoldedAt
  <2> QED
    BY <1>2, <2>1, <2>2 DEF Summand
<1>4. Folded(S, f, w) = [s \in SUBSET S |-> Folded(S, f, w)[s]]
  BY DEF Folded
<1>5. w = Folded(S, f, w)
  BY <1>2, <1>3, <1>4
<1>6. PICK h : h = Folded(S, f, h) /\ SumOver(S, f) = h[S]
  BY <1>5, SumFolds
<1>7. h[S] = Summand(f, h, S)
  BY <1>6, FixedAt
<1> QED
  BY <1>6, <1>7 DEF Summand

\* The sum over one thing.
LEMMA SumOfOne ==
    ASSUME NEW f, NEW a, NEW S, S = {a}, f[a] \in Int
    PROVE  SumOver(S, f) = f[a]
<1>1. PICK w : w = [s \in SUBSET S |-> IF s = {} THEN 0 ELSE f[a]]
  OBVIOUS
<1>2. w = [s \in SUBSET S |-> w[s]] /\ w[{}] = 0 /\ w[S] = f[a]
  BY <1>1
<1>3. S # {} /\ One(S) = a /\ S \ {a} = {}
  BY OneOf
<1>4. ASSUME NEW s \in SUBSET S PROVE w[s] = Folded(S, f, w)[s]
  <2>1. Folded(S, f, w)[s] = Summand(f, w, s)
    BY FoldedAt
  <2>2. CASE s = {}
    BY <1>2, <2>1, <2>2 DEF Summand
  <2>3. CASE s = S
    <3>1. One(s) = a /\ s \ {One(s)} = {} /\ s # {}
      BY <1>3, <2>3
    <3>2. Folded(S, f, w)[s] = Plus(f[a], 0)
      BY <1>2, <2>1, <3>1 DEF Summand
    <3> QED
      BY <1>2, <2>3, <3>2 DEF Plus
  <2> QED
    BY <2>2, <2>3
<1>5. Folded(S, f, w) = [s \in SUBSET S |-> Folded(S, f, w)[s]]
  BY DEF Folded
<1>6. w = Folded(S, f, w)
  BY <1>2, <1>4, <1>5
<1>7. PICK h : h = Folded(S, f, h) /\ SumOver(S, f) = h[S]
  BY <1>6, SumFolds
<1>8. h[{}] = Summand(f, h, {})
  BY <1>7, FixedAt
<1>9. h[S] = Summand(f, h, S)
  BY <1>7, FixedAt
<1>10. h[S] = Plus(f[a], 0)
  BY <1>3, <1>8, <1>9 DEF Summand
<1> QED
  BY <1>7, <1>10 DEF Plus

\* The sum over two things.
LEMMA SumOfTwo ==
    ASSUME NEW f, NEW a, NEW b, a # b, NEW S, S = {a, b}, f[a] \in Int, f[b] \in Int
    PROVE  SumOver(S, f) = f[a] + f[b]
<1>1. PICK w : w = [s \in SUBSET S |-> IF s = {} THEN 0
                                       ELSE IF s = {a} THEN f[a]
                                       ELSE IF s = {b} THEN f[b]
                                       ELSE f[a] + f[b]]
  OBVIOUS
<1>2. w = [s \in SUBSET S |-> w[s]]
  BY <1>1
<1>3. SUBSET S = {{}, {a}, {b}, S}
  OBVIOUS
<1>4. {} # {a} /\ {} # {b} /\ {a} # {b} /\ S # {} /\ S # {a} /\ S # {b}
  OBVIOUS
<1>5. {a} \ {a} = {} /\ {b} \ {b} = {} /\ S \ {a} = {b} /\ S \ {b} = {a}
  OBVIOUS
<1>6. One({a}) = a /\ One({b}) = b /\ One(S) \in {a, b}
  BY OneOf
<1>7. w[{}] = 0 /\ w[{a}] = f[a] /\ w[{b}] = f[b] /\ w[S] = f[a] + f[b]
  BY <1>1, <1>3, <1>4
<1>8. ASSUME NEW s \in SUBSET S PROVE w[s] = Folded(S, f, w)[s]
  <2>1. Folded(S, f, w)[s] = Summand(f, w, s)
    BY FoldedAt
  <2>2. CASE s = {}
    BY <1>7, <2>1, <2>2 DEF Summand
  <2>3. CASE s = {a}
    <3>1. One(s) = a /\ s \ {One(s)} = {} /\ s # {}
      BY <1>4, <1>5, <1>6, <2>3
    <3>2. Folded(S, f, w)[s] = Plus(f[a], 0)
      BY <1>7, <2>1, <3>1 DEF Summand
    <3> QED
      BY <1>7, <2>3, <3>2 DEF Plus
  <2>4. CASE s = {b}
    <3>1. One(s) = b /\ s \ {One(s)} = {} /\ s # {}
      BY <1>4, <1>5, <1>6, <2>4
    <3>2. Folded(S, f, w)[s] = Plus(f[b], 0)
      BY <1>7, <2>1, <3>1 DEF Summand
    <3> QED
      BY <1>7, <2>4, <3>2 DEF Plus
  <2>5. CASE s = S
    <3>1. /\ s # {}
          /\ \/ One(s) = a /\ s \ {One(s)} = {b}
             \/ One(s) = b /\ s \ {One(s)} = {a}
      BY <1>4, <1>5, <1>6, <2>5
    <3>2. \/ Folded(S, f, w)[s] = Plus(f[a], f[b])
          \/ Folded(S, f, w)[s] = Plus(f[b], f[a])
      BY <1>7, <2>1, <3>1 DEF Summand
    <3> QED
      BY <1>7, <2>5, <3>2 DEF Plus
  <2> QED
    BY <1>3, <2>2, <2>3, <2>4, <2>5
<1>9. Folded(S, f, w) = [s \in SUBSET S |-> Folded(S, f, w)[s]]
  BY DEF Folded
<1>10. w = Folded(S, f, w)
  BY <1>2, <1>8, <1>9
<1>11. PICK h : h = Folded(S, f, h) /\ SumOver(S, f) = h[S]
  BY <1>10, SumFolds
<1>12. h[{}] = Summand(f, h, {})
  BY <1>11, FixedAt
<1>13. h[{a}] = f[a]
  <2>1. h[{a}] = Summand(f, h, {a})
    BY <1>11, FixedAt
  <2>2. h[{a}] = Plus(f[a], 0)
    BY <1>4, <1>5, <1>6, <1>12, <2>1 DEF Summand
  <2> QED
    BY <2>2 DEF Plus
<1>14. h[{b}] = f[b]
  <2>1. h[{b}] = Summand(f, h, {b})
    BY <1>11, FixedAt
  <2>2. h[{b}] = Plus(f[b], 0)
    BY <1>4, <1>5, <1>6, <1>12, <2>1 DEF Summand
  <2> QED
    BY <2>2 DEF Plus
<1>15. h[S] = Summand(f, h, S)
  BY <1>11, FixedAt
<1>16. h[S] = f[a] + f[b]
  <2>1. CASE One(S) = a
    BY <1>4, <1>5, <1>14, <1>15, <2>1 DEF Summand, Plus
  <2>2. CASE One(S) = b
    <3>1. h[S] = Plus(f[b], f[a])
      BY <1>4, <1>5, <1>13, <1>15, <2>2 DEF Summand
    <3> QED
      BY <3>1 DEF Plus
  <2> QED
    BY <1>6, <2>1, <2>2
<1> QED
  BY <1>11, <1>16

\* So Total of nothing is 0,
LEMMA TotalOfNone ==
    ASSUME NEW f, DOMAIN f = {}
    PROVE  Total(f) = 0
  BY TotalIs, SumOfNone

\* of one thing its value,
LEMMA TotalOfOne ==
    ASSUME NEW f, NEW a, DOMAIN f = {a}, f[a] \in Int
    PROVE  Total(f) = f[a]
  BY TotalIs, SumOfOne

\* of two things the sum of theirs.
LEMMA TotalOfTwo ==
    ASSUME NEW f, NEW a, NEW b, a # b, DOMAIN f = {a, b}, f[a] \in Int, f[b] \in Int
    PROVE  Total(f) = f[a] + f[b]
  BY TotalIs, SumOfTwo

\* A set of at most two things is one of these.
LEMMA UpToTwo ==
    ASSUME NEW S, IsFiniteSet(S), Cardinality(S) <= 2
    PROVE  \/ S = {}
           \/ \E a : S = {a}
           \/ \E a, b : a # b /\ S = {a, b}
<1>1. CASE S # {}
  <2>1. PICK a : a \in S
    BY <1>1
  <2>2. Cardinality(S) \in Nat
    BY FS_CardinalityType
  <2>3. IsFiniteSet(S \ {a}) /\ Cardinality(S \ {a}) = Cardinality(S) - 1
    BY <2>1, FS_RemoveElement
  <2>4. CASE S \ {a} # {}
    <3>1. PICK b : b \in S \ {a}
      BY <2>4
    <3>2. /\ IsFiniteSet((S \ {a}) \ {b})
          /\ Cardinality((S \ {a}) \ {b}) = Cardinality(S \ {a}) - 1
      BY <2>3, <3>1, FS_RemoveElement
    <3>3. Cardinality((S \ {a}) \ {b}) \in Nat
      BY <3>2, FS_CardinalityType
    <3>4. Cardinality((S \ {a}) \ {b}) = 0
      BY <2>2, <2>3, <3>2, <3>3
    <3>5. (S \ {a}) \ {b} = {}
      BY <3>2, <3>4, FS_EmptySet
    <3> QED
      BY <2>1, <3>1, <3>5
  <2>5. CASE S \ {a} = {}
    BY <2>1, <2>5
  <2> QED
    BY <2>4, <2>5
<1> QED
  BY <1>1

\* A sum of integers is one.
LEMMA TotalIsInt ==
    ASSUME NEW f, IsFiniteSet(DOMAIN f), Cardinality(DOMAIN f) <= 2,
           \A x \in DOMAIN f : f[x] \in Int
    PROVE  Total(f) \in Int
<1>1. CASE DOMAIN f = {}
  BY <1>1, TotalOfNone
<1>2. ASSUME NEW a, DOMAIN f = {a} PROVE Total(f) \in Int
  BY <1>2, TotalOfOne
<1>3. ASSUME NEW a, NEW b, a # b, DOMAIN f = {a, b} PROVE Total(f) \in Int
  <2>1. Total(f) = f[a] + f[b] /\ f[a] \in Int /\ f[b] \in Int
    BY <1>3, TotalOfTwo
  <2> QED
    BY <2>1
<1> QED
  BY <1>1, <1>2, <1>3, UpToTwo

\* Larger things have a larger sum.
LEMMA TotalGrows ==
    ASSUME NEW f, NEW g, DOMAIN g = DOMAIN f, IsFiniteSet(DOMAIN f), Cardinality(DOMAIN f) <= 2,
           \A x \in DOMAIN f : f[x] \in Int /\ g[x] \in Int /\ f[x] <= g[x]
    PROVE  Total(f) <= Total(g)
<1>1. CASE DOMAIN f = {}
  <2>1. Total(f) = 0 /\ Total(g) = 0
    BY <1>1, TotalOfNone
  <2> QED
    BY <2>1
<1>2. ASSUME NEW a, DOMAIN f = {a} PROVE Total(f) <= Total(g)
  <2>1. Total(f) = f[a] /\ Total(g) = g[a]
    BY <1>2, TotalOfOne
  <2> QED
    BY <1>2, <2>1
<1>3. ASSUME NEW a, NEW b, a # b, DOMAIN f = {a, b} PROVE Total(f) <= Total(g)
  <2>1. Total(f) = f[a] + f[b]
    BY <1>3, TotalOfTwo
  <2>2. Total(g) = g[a] + g[b]
    BY <1>3, TotalOfTwo
  <2>3. f[a] \in Int /\ g[a] \in Int /\ f[a] <= g[a] /\ f[b] \in Int /\ g[b] \in Int
      /\ f[b] <= g[b]
    BY <1>3
  <2> QED
    BY <2>1, <2>2, <2>3
<1>4. \/ DOMAIN f = {}
      \/ \E a : DOMAIN f = {a}
      \/ \E a, b : a # b /\ DOMAIN f = {a, b}
  BY UpToTwo
<1> QED
  BY <1>1, <1>2, <1>3, <1>4

\* A sum of two parts differs by no more than each thing's two parts do.
LEMMA TotalsAgree ==
    ASSUME NEW f, NEW g, NEW h, DOMAIN g = DOMAIN f, DOMAIN h = DOMAIN f,
           IsFiniteSet(DOMAIN f), Cardinality(DOMAIN f) <= 2,
           \A x \in DOMAIN f : /\ f[x] \in Int /\ g[x] \in Int /\ h[x] \in Int
                               /\ f[x] + g[x] - h[x] \in -100 .. 100
    PROVE  Total(f) + Total(g) - Total(h) \in -200 .. 200
<1>1. CASE DOMAIN f = {}
  <2>1. Total(f) = 0 /\ Total(g) = 0 /\ Total(h) = 0
    BY <1>1, TotalOfNone
  <2> QED
    BY <2>1
<1>2. ASSUME NEW a, DOMAIN f = {a} PROVE Total(f) + Total(g) - Total(h) \in -200 .. 200
  <2>1. Total(f) = f[a] /\ Total(g) = g[a] /\ Total(h) = h[a]
    BY <1>2, TotalOfOne
  <2> QED
    BY <1>2, <2>1
<1>3. ASSUME NEW a, NEW b, a # b, DOMAIN f = {a, b}
      PROVE  Total(f) + Total(g) - Total(h) \in -200 .. 200
  <2>1. Total(f) = f[a] + f[b]
    BY <1>3, TotalOfTwo
  <2>2. Total(g) = g[a] + g[b]
    BY <1>3, TotalOfTwo
  <2>3. Total(h) = h[a] + h[b]
    BY <1>3, TotalOfTwo
  <2>4. /\ f[a] \in Int /\ g[a] \in Int /\ h[a] \in Int /\ f[a] + g[a] - h[a] \in -100 .. 100
        /\ f[b] \in Int /\ g[b] \in Int /\ h[b] \in Int /\ f[b] + g[b] - h[b] \in -100 .. 100
    BY <1>3
  <2> QED
    BY <2>1, <2>2, <2>3, <2>4
<1>4. \/ DOMAIN f = {}
      \/ \E a : DOMAIN f = {a}
      \/ \E a, b : a # b /\ DOMAIN f = {a, b}
  BY UpToTwo
<1>5. CASE \E a : DOMAIN f = {a}
  <2>1. PICK a : DOMAIN f = {a}
    BY <1>5
  <2> QED
    BY <1>2, <2>1
<1>6. CASE \E a, b : a # b /\ DOMAIN f = {a, b}
  <2>1. PICK a, b : a # b /\ DOMAIN f = {a, b}
    BY <1>6
  <2> QED
    BY <1>3, <2>1
<1> QED
  BY <1>1, <1>4, <1>5, <1>6

-----------------------------------------------------------------------------
\* Of overtime.
LEMMA Products ==
    ASSUME NEW d \in Nat, NEW p \in 0 .. 2, NEW q \in 0 .. 2, p <= q,
           NEW m \in {150, 175, 200, 250}, NEW n \in {150, 175, 200, 250}, m <= n
    PROVE  d * p * m \in Int /\ d * q * n \in Int /\ d * p * m <= d * q * n
<1>1. PICK x, y : x = d * p /\ y = d * q
  OBVIOUS
<1>2. x \in Nat /\ y \in Nat /\ x <= y
  <2>1. p \in {0, 1, 2} /\ q \in {0, 1, 2}
    OBVIOUS
  <2> QED
    BY <1>1, <2>1
<1>3. x * m \in Int /\ y * n \in Int /\ x * m <= y * n
  BY <1>2
<1>4. d * p * m = x * m /\ d * q * n = y * n
  BY <1>1
<1>5. d * p * m \in Int /\ d * q * n \in Int
  BY <1>3, <1>4
<1>6. d * p * m <= d * q * n
  BY <1>3, <1>4
<1> QED
  BY <1>5, <1>6

\* More hours at no lower a rate pay no less.
LEMMA PaysMore ==
    ASSUME NEW s, NEW l, s.days \in Nat, l.days = s.days,
           Paid(s) \in 0 .. 2, Paid(l) \in 0 .. 2, Paid(s) <= Paid(l),
           Multiplier(s) \in {150, 175, 200, 250}, Multiplier(l) \in {150, 175, 200, 250},
           Multiplier(s) <= Multiplier(l)
    PROVE  PaidFor(s) <= PaidFor(l)
<1>1. PICK d \in Nat : d = s.days
  OBVIOUS
<1>2. PICK p \in 0 .. 2, q \in 0 .. 2 : p = Paid(s) /\ q = Paid(l)
  OBVIOUS
<1>3. PICK m \in {150, 175, 200, 250} : m = Multiplier(s)
  OBVIOUS
<1>4. PICK n \in {150, 175, 200, 250} : n = Multiplier(l)
  OBVIOUS
<1>5. d * p * m <= d * q * n
  BY <1>2, <1>3, <1>4, Products
<1>6. PaidFor(s) = d * p * m /\ PaidFor(l) = d * q * n
  BY <1>1, <1>2, <1>3, <1>4 DEF PaidFor
<1> QED
  BY <1>5, <1>6

\* The hour after 23 is 0.
LEMMA NextHour ==
    ASSUME NEW n \in Nat
    PROVE  n % 24 \in 0 .. 23 /\ (n + 1) % 24 = IF n % 24 = 23 THEN 0 ELSE (n % 24) + 1
  OBVIOUS

\* One hour more pays no less, unless the shift then ends at 6 in the morning and is no
\* night shift any more.
LEMMA StayedLonger ==
    ASSUME NEW s \in [from : 0 .. 23, hours : Nat, kind : Kind, days : Nat],
           NEW l, l = [s EXCEPT !.hours = @ + 1]
    PROVE  /\ PaidFor(s) \in Int /\ PaidFor(l) \in Int
           /\ (s.from + s.hours + 1) % 24 # 6 => PaidFor(s) <= PaidFor(l)
<1>1. /\ s.from \in 0 .. 23 /\ s.hours \in Nat /\ s.kind \in Kind /\ s.days \in Nat
      /\ l.from = s.from /\ l.hours = s.hours + 1 /\ l.kind = s.kind /\ l.days = s.days
  OBVIOUS
<1>2. Paid(s) \in 0 .. 2 /\ Paid(l) \in 0 .. 2 /\ Paid(s) <= Paid(l)
  BY <1>1 DEF Paid, Overtime
<1>3. PICK h \in Nat, k \in Nat : h = (s.from + s.hours) % 24 /\ k = (s.from + s.hours + 1) % 24
  <2>1. s.from + s.hours \in Nat /\ s.from + s.hours + 1 \in Nat
    BY <1>1
  <2>2. (s.from + s.hours) % 24 \in Nat /\ (s.from + s.hours + 1) % 24 \in Nat
    BY <2>1
  <2> QED
    BY <2>2
<1>4. h < 24 /\ k = IF h = 23 THEN 0 ELSE h + 1
  <2>1. PICK n \in Nat : n = s.from + s.hours
    BY <1>1
  <2>2. h = n % 24 /\ k = (n + 1) % 24
    BY <1>3, <2>1
  <2> QED
    BY <2>2, NextHour
<1>5. (l.from + l.hours) % 24 = k
  <2>1. l.from + l.hours = s.from + s.hours + 1
    BY <1>1
  <2> QED
    BY <1>3, <2>1
<1>6. /\ Multiplier(s) \in {150, 175, 200, 250} /\ Multiplier(l) \in {150, 175, 200, 250}
      /\ k # 6 => Multiplier(s) <= Multiplier(l)
  <2>1. CASE s.kind = "holiday"
    <3>1. Multiplier(s) = 250 /\ Multiplier(l) = 250
      BY <1>1, <2>1 DEF Multiplier
    <3> QED
      BY <3>1
  <2>2. CASE s.kind = "sunday"
    <3>1. Multiplier(s) = 200 /\ Multiplier(l) = 200
      BY <1>1, <2>2 DEF Multiplier
    <3> QED
      BY <3>1
  <2>3. CASE s.kind = "work"
    <3>1. Multiplier(s) = IF h >= 22 \/ h < 6 THEN 175 ELSE 150
      BY <1>3, <2>3 DEF Multiplier
    <3>2. Multiplier(l) = IF k >= 22 \/ k < 6 THEN 175 ELSE 150
      BY <1>1, <1>5, <2>3 DEF Multiplier
    <3> QED
      BY <1>4, <3>1, <3>2
  <2> QED
    BY <1>1, <2>1, <2>2, <2>3 DEF Kind
<1>7. k # 6 => PaidFor(s) <= PaidFor(l)
  BY <1>1, <1>2, <1>6, PaysMore
<1>8. PaidFor(s) \in Int /\ PaidFor(l) \in Int
  BY <1>1, <1>2, <1>6 DEF PaidFor
<1> QED
  BY <1>3, <1>7, <1>8

\* Without allowances the gross is the base salary.
LEMMA LineGross ==
    ASSUME NEW w \in {"job", "draft"}, NEW p, NEW b \in Nat, NEW t \in Nat, NEW s \in Nat,
           InSteps(p, b, t, s), p.transport + p.position = 0
    PROVE  LineOf(w, p).gross = p.base
<1>1. t = 0 /\ s = 0
  BY DEF InSteps
<1>2. CASE w = "job"
  <2>1. PICK c, x, k : c = Insured(p, b) /\ x = Exempt(b, t) /\ k = 100 * (b + t + s) - 7 * c - x
    OBVIOUS
  <2>2. PICK tax \in Nat :
          JobLine(p) = [gross |-> 2000 * (b + t + s), tax |-> Rounded(tax),
                        pension |-> Rounded(140 * c), employer |-> Rounded(220 * c),
                        net |-> Rounded(2000 * (b + t + s) - 140 * c - tax)]
    BY <2>1, JobLineIs
  <2>3. JobLine(p).gross = 2000 * (b + t + s)
    BY <2>2
  <2> QED
    BY <1>1, <1>2, <2>3 DEF LineOf, InSteps
<1>3. CASE w = "draft"
  BY <1>3 DEF LineOf, DraftLine
<1> QED
  BY <1>2, <1>3

\* Of the insured salary 7 and 11 percent go to the fund, each rounded by itself.
SharesOf(i, p, l) ==
    \E c \in Nat : /\ (IF i THEN AtMost(p.base, PensionCap) ELSE p.base) = 2000 * c
                   /\ l.pension = Rounded(140 * c) /\ l.employer = Rounded(220 * c)

\* The shares of a line are what the base salary, capped or not, gives.
LEMMA LineShares ==
    ASSUME NEW w \in {"job", "draft"}, NEW p, NEW b \in Nat, NEW t \in Nat, NEW s \in Nat,
           InSteps(p, b, t, s), NEW i, i = (w = "draft" \/ p.capped)
    PROVE  SharesOf(i, p, LineOf(w, p))
<1>1. CASE w = "job"
  <2>1. PICK c, x, k : c = Insured(p, b) /\ x = Exempt(b, t) /\ k = 100 * (b + t + s) - 7 * c - x
    OBVIOUS
  <2>2. c \in Nat
    BY <2>1, InsuredPart
  <2>3. PICK tax \in Nat :
          JobLine(p) = [gross |-> 2000 * (b + t + s), tax |-> Rounded(tax),
                        pension |-> Rounded(140 * c), employer |-> Rounded(220 * c),
                        net |-> Rounded(2000 * (b + t + s) - 140 * c - tax)]
    BY <2>1, JobLineIs
  <2>4. JobLine(p).pension = Rounded(140 * c) /\ JobLine(p).employer = Rounded(220 * c)
    BY <2>3
  <2>5. i = p.capped
    BY <1>1 DEF InSteps
  <2>6. (IF i THEN AtMost(p.base, PensionCap) ELSE p.base) = 2000 * c
    BY <2>1, <2>5, InsuredOf
  <2>7. LineOf(w, p) = JobLine(p)
    BY <1>1 DEF LineOf
  <2> QED
    BY <2>2, <2>4, <2>6, <2>7 DEF SharesOf
<1>2. CASE w = "draft"
  <2>1. PICK c : c = Capped(b)
    OBVIOUS
  <2>2. c \in Nat
    BY <2>1, CappedPart
  <2>3. PICK tax \in Nat :
          DraftLine(p) = [gross |-> 2000 * b, tax |-> Rounded(tax),
                          pension |-> Rounded(140 * c), employer |-> Rounded(220 * c),
                          net |-> 2000 * b - Rounded(tax) - Rounded(140 * c)]
    BY <2>1, DraftLineIs
  <2>4. DraftLine(p).pension = Rounded(140 * c) /\ DraftLine(p).employer = Rounded(220 * c)
    BY <2>3
  <2>5. i = TRUE
    BY <1>2
  <2>6. (IF i THEN AtMost(p.base, PensionCap) ELSE p.base) = 2000 * c
    BY <2>1, <2>5, CappedOf
  <2>7. LineOf(w, p) = DraftLine(p)
    BY <1>2 DEF LineOf
  <2> QED
    BY <2>2, <2>4, <2>6, <2>7 DEF SharesOf
<1> QED
  BY <1>1, <1>2

-----------------------------------------------------------------------------
\* A pay consists of whole steps, and a line is what was calculated of it.
PayForm ==
    /\ pay \in [base : Nat, transport : Nat, position : Nat, capped : BOOLEAN]
    /\ way \in Ways \cup {"none"}

\* The pay that is calculated is one of whole steps.
WholeSteps == \E b, t, s \in Nat : InSteps(pay, b, t, s)

\* A line that is shown was calculated from the pay that is.
OfThePay == line # NoLine => way \in Ways /\ line = LineOf(way, pay)

\* Together.
PayInv == PayForm /\ WholeSteps /\ OfThePay

\* PayInv holds before anything is calculated.
LEMMA PayInitially == PayInit => PayInv
<1> SUFFICES ASSUME PayInit PROVE PayInv
  OBVIOUS
<1>1. PayForm /\ OfThePay
  BY DEF PayInit, PayForm, OfThePay
<1>2. InSteps(pay, 0, 0, 0)
  BY DEF PayInit, InSteps
<1>3. WholeSteps
  BY <1>2 DEF WholeSteps
<1> QED
  BY <1>1, <1>3 DEF PayInv

\* Every calculation keeps it.
LEMMA PayStep == PayNext => PayInv'
<1> SUFFICES ASSUME PayNext PROVE PayInv'
  OBVIOUS
<1>1. PICK w \in Ways, salary \in Salaries, step \in {-Step, 0, Step},
           transport \in Allowances, position \in Allowances, capped \in BOOLEAN :
        Calculate(w, [base |-> salary * Birr + step, transport |-> transport * Birr,
                      position |-> position * Birr, capped |-> capped])
  BY DEF PayNext, Ways
<1>2. Birr = 10000 /\ Step = 2000
  BY DEF Birr, Step, Santim
<1>3. /\ salary \in Nat /\ salary > 0 /\ transport \in Nat /\ position \in Nat
  BY PayAssumption
<1>4. pay' = [base |-> salary * 10000 + step, transport |-> transport * 10000,
              position |-> position * 10000, capped |-> capped] /\ way' = w
  BY <1>1, <1>2 DEF Calculate
<1>5. line' = LineOf(way', pay')
  BY <1>1, <1>4 DEF Calculate
<1>6. PICK b \in Nat, t \in Nat, s \in Nat :
        salary * 10000 + step = 2000 * b /\ transport * 10000 = 2000 * t
            /\ position * 10000 = 2000 * s
  <2>1. \E b \in Nat : salary * 10000 + step = 2000 * b
    <3>1. CASE step = -2000
      <4>1. 5 * salary - 1 \in Nat /\ salary * 10000 + step = 2000 * (5 * salary - 1)
        BY <1>3, <3>1
      <4> QED
        BY <4>1
    <3>2. CASE step = 0
      <4>1. 5 * salary \in Nat /\ salary * 10000 + step = 2000 * (5 * salary)
        BY <1>3, <3>2
      <4> QED
        BY <4>1
    <3>3. CASE step = 2000
      <4>1. 5 * salary + 1 \in Nat /\ salary * 10000 + step = 2000 * (5 * salary + 1)
        BY <1>3, <3>3
      <4> QED
        BY <4>1
    <3> QED
      BY <1>2, <3>1, <3>2, <3>3
  <2>2. \E t \in Nat : transport * 10000 = 2000 * t
    <3>1. 5 * transport \in Nat /\ transport * 10000 = 2000 * (5 * transport)
      BY <1>3
    <3> QED
      BY <3>1
  <2>3. \E s \in Nat : position * 10000 = 2000 * s
    <3>1. 5 * position \in Nat /\ position * 10000 = 2000 * (5 * position)
      BY <1>3
    <3> QED
      BY <3>1
  <2> QED
    BY <2>1, <2>2, <2>3
<1>7. InSteps(pay', b, t, s)
  BY <1>4, <1>6 DEF InSteps
<1>8. WholeSteps'
  BY <1>7 DEF WholeSteps
<1>9. PayForm'
  BY <1>4, <1>6 DEF PayForm
<1>10. OfThePay'
  BY <1>4, <1>5 DEF OfThePay
<1> QED
  BY <1>8, <1>9, <1>10 DEF PayInv

\* It is about nothing else than the variables of the module.
LEMMA PayCalm == PayInv /\ UNCHANGED payVars => PayInv'
  BY DEF PayInv, PayForm, WholeSteps, OfThePay, payVars

\* What follows for a line.
LEMMA LineOfPay ==
    ASSUME PayInv, line # NoLine
    PROVE  IsLine(line) /\ Balanced(line)
<1>1. PICK b \in Nat, t \in Nat, s \in Nat : InSteps(pay, b, t, s)
  BY DEF PayInv, WholeSteps
<1>2. way \in Ways /\ line = LineOf(way, pay)
  BY DEF PayInv, OfThePay
<1> QED
  BY <1>1, <1>2, LineSound

\* It implies the types.
LEMMA PayTyped == PayInv => PayTypeOK
<1> SUFFICES ASSUME PayInv PROVE PayTypeOK
  OBVIOUS
<1>1. CASE line = NoLine
  BY <1>1 DEF PayInv, PayForm, PayTypeOK, NoLine, Ways
<1>2. CASE line # NoLine
  BY <1>2, LineOfPay DEF PayInv, PayForm, PayTypeOK, IsLine, Ways
<1> QED
  BY <1>1, <1>2

\* It implies what is promised of a line.
LEMMA PayIsSound == PayInv => PaySound
<1> SUFFICES ASSUME PayInv, line # NoLine PROVE AddsUp /\ RaisePays /\ PreviewIsSchedule
  BY DEF PaySound
<1>1. PICK b \in Nat, t \in Nat, s \in Nat : InSteps(pay, b, t, s)
  BY DEF PayInv, WholeSteps
<1>2. way \in Ways /\ line = LineOf(way, pay)
  BY DEF PayInv, OfThePay
<1>3. pay \in [base : Nat, transport : Nat, position : Nat, capped : BOOLEAN]
  BY DEF PayInv, PayForm
<1>4. AddsUp
  BY LineOfPay DEF AddsUp, Balanced
<1>5. ASSUME NEW more \in {Step, 500 * Birr}
      PROVE  /\ LineOf(way, [pay EXCEPT !.base = @ + more]).net >= line.net
             /\ LineOf(way, [pay EXCEPT !.transport = @ + more]).net >= line.net
  <2>0. PICK d \in Nat : more = 2000 * d
    <3>1. more = 2000 * 1 \/ more = 2000 * 2500
      BY DEF Step, Birr, Santim
    <3> QED
      BY <3>1
  <2>1. PICK p, q : p = [pay EXCEPT !.base = @ + more] /\ q = [pay EXCEPT !.transport = @ + more]
    OBVIOUS
  <2>2. /\ p.base = pay.base + more /\ p.transport = pay.transport /\ p.position = pay.position
        /\ p.capped = pay.capped
    BY <1>3, <2>1
  <2>3. /\ q.base = pay.base /\ q.transport = pay.transport + more /\ q.position = pay.position
        /\ q.capped = pay.capped
    BY <1>3, <2>1
  <2>4. InSteps(p, b + d, t + 0, s)
    BY <1>1, <2>0, <2>2 DEF InSteps
  <2>5. InSteps(q, b + 0, t + d, s)
    BY <1>1, <2>0, <2>3 DEF InSteps
  <2>6. line.net <= LineOf(way, p).net
    BY <1>1, <1>2, <2>2, <2>4, LineGrows
  <2>7. line.net <= LineOf(way, q).net
    BY <1>1, <1>2, <2>3, <2>5, LineGrows
  <2>8. line.net \in Nat /\ LineOf(way, p).net \in Nat /\ LineOf(way, q).net \in Nat
    <3>1. IsLine(LineOf(way, pay))
      BY <1>1, <1>2, LineSound
    <3>2. IsLine(LineOf(way, p))
      BY <1>2, <2>4, LineSound
    <3>3. IsLine(LineOf(way, q))
      BY <1>2, <2>5, LineSound
    <3> QED
      BY <1>2, <3>1, <3>2, <3>3 DEF IsLine
  <2> QED
    BY <2>1, <2>6, <2>7, <2>8
<1>6. RaisePays
  BY <1>5 DEF RaisePays
<1>7. PreviewIsSchedule
  <2>1. PICK k \in Nat : k = 100 * b
    OBVIOUS
  <2>2. pay.base = 20 * k
    BY <1>1, <2>1 DEF InSteps
  <2> QED
    BY <2>2, OneTax DEF PreviewIsSchedule
<1> QED
  BY <1>4, <1>6, <1>7

\* PaySound holds of every pay: what an employee gets, owes and pays makes up the pay, a
\* raise leaves more in each of the four calculations, and the preview's formula is that of
\* the draft (calculateNetSalary, PayrollProcessor, calculateErcaEmploymentTax,
\* calculateEthiopianTax).
THEOREM PayIsCalculated == PaySpec => [](PayTypeOK /\ PaySound)
<1>1. PayInit => PayInv
  BY PayInitially
<1>2. PayInv /\ [PayNext]_payVars => PayInv'
  BY PayStep, PayCalm
<1>3. PayInv => PayTypeOK /\ PaySound
  BY PayTyped, PayIsSound
<1> QED
  BY <1>1, <1>2, <1>3, PTL DEF PaySpec

-----------------------------------------------------------------------------
\* A run's line is sound and its period does not end before it begins; the last document
\* is of runs that there are, and a sheet for the pension fund has the sum of their shares.
SoundRun(r) ==
    /\ IsLine(r.line) /\ Balanced(r.line)
    /\ r.pay \in [base : Nat, transport : Nat, position : Nat, capped : BOOLEAN]
    /\ r.pay.transport + r.pay.position = 0 => r.line.gross = r.pay.base
    /\ SharesOf(r.capped, r.pay, r.line)
    /\ r.period.start \in Int /\ r.period.end \in Int /\ r.period.start <= r.period.end

\* What the pension fund gets of some runs.
FundSum(T) == Total([r \in T |-> r.line.pension]) + Total([r \in T |-> r.line.employer])

\* Runs are closed with sound lines, and of two there are no more.
RunsSound ==
    /\ IsFiniteSet(runs) /\ Cardinality(runs) <= 2
    /\ \A r \in runs : SoundRun(r)
    /\ \A r, s \in runs : r.period = s.period => r = s

\* A document says what its runs say.
PaperSound ==
    /\ paper.kind \in {"none", "list", "erca", "poessa", "payslip"} /\ paper.runs \subseteq runs
    /\ paper.kind = "payslip" => \E r \in runs : paper = Payslip(r)
    /\ paper.kind = "poessa" => paper.sum = FundSum(paper.runs)

\* A stretch of shifts has two at most.
DaysForm ==
    waiting \in {"none", "payslip", "zip", "month"} /\ stretch \in Seq(Shifts)
        /\ Len(stretch) <= 2

\* Together, with what holds of the pay.
StatementsInv == PayInv /\ RunsSound /\ PaperSound /\ DaysForm

\* StatementsInv holds before there is a run.
LEMMA StatementsInitially == StatementsInit => StatementsInv
<1> SUFFICES ASSUME StatementsInit PROVE StatementsInv
  OBVIOUS
<1>1. PayInv
  BY PayInitially DEF StatementsInit
<1>2. RunsSound
  <2>1. runs = {}
    BY DEF StatementsInit
  <2> QED
    BY <2>1, FS_EmptySet DEF RunsSound
<1>3. PaperSound /\ DaysForm
  BY DEF StatementsInit, PaperSound, DaysForm, NoPaper
<1> QED
  BY <1>1, <1>2, <1>3 DEF StatementsInv

\* A run that is closed is sound, because the line that was calculated is.
LEMMA RunIsClosed ==
    ASSUME StatementsInv, CloseRun
    PROVE  StatementsInv'
<1>0. /\ PayInv /\ RunsSound /\ PaperSound /\ DaysForm
  BY DEF StatementsInv
<1>1. /\ line # NoLine /\ Cardinality(runs) < 2
      /\ pay' = [base |-> 0, transport |-> 0, position |-> 0, capped |-> TRUE]
      /\ way' = "none" /\ line' = NoLine
      /\ UNCHANGED <<paper, waiting, stretch>>
  BY DEF CloseRun
<1>2. PICK m \in Months, late \in BOOLEAN, ahead \in BOOLEAN,
           status \in {"COMPLETED", "DRAFT", "OWNER_APPROVED"} :
        LET period == IF way = "job" THEN ClientPeriod(m, late, ahead) ELSE DraftPeriod(m)
        IN  /\ (way = "job") = (status = "COMPLETED") /\ way \in {"job", "draft"}
            /\ \A r \in runs : r.period # period
            /\ runs' = runs \cup {[period |-> period, status |-> status, pay |-> pay,
                                   capped |-> way = "draft" \/ pay.capped, line |-> line]}
  BY DEF CloseRun
<1>3. PICK period : period = IF way = "job" THEN ClientPeriod(m, late, ahead) ELSE DraftPeriod(m)
  OBVIOUS
<1>4. PICK insured : insured = (way = "draft" \/ pay.capped)
  OBVIOUS
<1>5. PICK run : run = [period |-> period, status |-> status, pay |-> pay,
                        capped |-> insured, line |-> line]
  OBVIOUS
<1>6. /\ way \in {"job", "draft"}
      /\ \A r \in runs : r.period # period
      /\ runs' = runs \cup {run}
  BY <1>2, <1>3, <1>4, <1>5
<1>7. /\ run.period = period /\ run.pay = pay /\ run.line = line /\ run.capped = insured
  BY <1>5
<1>8. period.start \in Int /\ period.end \in Int /\ period.start <= period.end
  <2>1. m \in Int
    BY DEF Months
  <2>2. /\ ClientPeriod(m, late, ahead).start \in Int /\ ClientPeriod(m, late, ahead).end \in Int
        /\ ClientPeriod(m, late, ahead).start <= ClientPeriod(m, late, ahead).end
    BY <2>1 DEF ClientPeriod, First, Last
  <2>3. /\ DraftPeriod(m).start \in Int /\ DraftPeriod(m).end \in Int
        /\ DraftPeriod(m).start <= DraftPeriod(m).end
    BY <2>1 DEF DraftPeriod, First, Last
  <2> QED
    BY <1>3, <2>2, <2>3
<1>9. PICK b \in Nat, t \in Nat, s \in Nat : InSteps(pay, b, t, s)
  BY <1>0 DEF PayInv, WholeSteps
<1>10. line = LineOf(way, pay)
  BY <1>0, <1>1 DEF PayInv, OfThePay
<1>11. pay.transport + pay.position = 0 => line.gross = pay.base
  BY <1>6, <1>9, <1>10, LineGross
<1>12. SoundRun(run)
  <2>1. IsLine(line) /\ Balanced(line)
    BY <1>0, <1>1, LineOfPay
  <2>2. pay \in [base : Nat, transport : Nat, position : Nat, capped : BOOLEAN]
    BY <1>0 DEF PayInv, PayForm
  <2>3. SharesOf(insured, pay, line)
    BY <1>4, <1>6, <1>9, <1>10, LineShares
  <2>4. SharesOf(run.capped, run.pay, run.line)
    BY <1>7, <2>3
  <2> QED
    BY <1>7, <1>8, <1>11, <2>1, <2>2, <2>4 DEF SoundRun
<1>13. RunsSound'
  <2>1. IsFiniteSet(runs') /\ Cardinality(runs') <= 2
    <3>1. IsFiniteSet(runs)
      BY <1>0 DEF RunsSound
    <3>2. Cardinality(runs) \in Nat
      BY <3>1, FS_CardinalityType
    <3>3. /\ IsFiniteSet(runs')
          /\ Cardinality(runs') = Cardinality(runs) \/ Cardinality(runs') = Cardinality(runs) + 1
      BY <1>6, <3>1, FS_AddElement
    <3> QED
      BY <1>1, <3>2, <3>3
  <2>2. \A r \in runs' : SoundRun(r)
    BY <1>0, <1>6, <1>12 DEF RunsSound
  <2>3. \A r, s2 \in runs' : r.period = s2.period => r = s2
    BY <1>0, <1>6, <1>7 DEF RunsSound
  <2> QED
    BY <2>1, <2>2, <2>3 DEF RunsSound
<1>14. PaperSound'
  BY <1>0, <1>1, <1>6 DEF PaperSound, FundSum, Payslip, Earnings, Deductions
<1>15. DaysForm'
  BY <1>0, <1>1 DEF DaysForm
<1>16. PayInv'
  <2>1. InSteps(pay', 0, 0, 0)
    BY <1>1 DEF InSteps
  <2> QED
    BY <1>1, <2>1 DEF PayInv, PayForm, WholeSteps, OfThePay
<1> QED
  BY <1>13, <1>14, <1>15, <1>16 DEF StatementsInv

\* A document is opened.
LEMMA DocumentIsOpen ==
    ASSUME StatementsInv, NEW doc, Open(doc), doc.runs \subseteq runs,
           doc.kind \in {"none", "list", "erca", "poessa", "payslip"},
           doc.kind = "payslip" => \E r \in runs : doc = Payslip(r),
           doc.kind = "poessa" => doc.sum = FundSum(doc.runs)
    PROVE  StatementsInv'
<1>1. paper' = doc /\ UNCHANGED <<payVars, runs, waiting, stretch>>
  BY DEF Open
<1>2. PayInv'
  BY <1>1, PayCalm DEF StatementsInv
<1>3. RunsSound' /\ DaysForm'
  BY <1>1 DEF StatementsInv, RunsSound, DaysForm
<1>4. PaperSound'
  BY <1>1 DEF PaperSound, FundSum, Payslip, Earnings, Deductions
<1> QED
  BY <1>2, <1>3, <1>4 DEF StatementsInv

\* Every step keeps StatementsInv.
LEMMA StatementsStep ==
    ASSUME StatementsInv, StatementsNext
    PROVE  StatementsInv'
<1>0. /\ PayInv /\ RunsSound /\ PaperSound /\ DaysForm
  BY DEF StatementsInv
<1>1. CASE PayFirst
  <2>1. PayInv'
    BY <1>1, PayStep DEF PayFirst
  <2>2. UNCHANGED <<runs, paper, waiting, stretch>>
    BY <1>1 DEF PayFirst, paperVars
  <2>3. RunsSound' /\ DaysForm' /\ PaperSound'
    BY <1>0, <2>2 DEF RunsSound, DaysForm, PaperSound, FundSum, Payslip, Earnings, Deductions
  <2> QED
    BY <2>1, <2>3 DEF StatementsInv
<1>2. CASE CloseRun
  BY <1>2, RunIsClosed
<1>3. CASE ListRuns
  <2>1. paper' = [NoPaper EXCEPT !.kind = "list", !.runs = Listed]
        /\ UNCHANGED <<payVars, runs, waiting, stretch>>
    BY <1>3 DEF ListRuns
  <2>2. PayInv'
    BY <1>0, <2>1, PayCalm
  <2>3. RunsSound' /\ DaysForm'
    BY <1>0, <2>1 DEF RunsSound, DaysForm
  <2>4. paper'.kind = "list" /\ paper'.runs \subseteq runs
    BY <2>1 DEF NoPaper, Listed
  <2>5. PaperSound'
    BY <2>1, <2>4 DEF PaperSound
  <2> QED
    BY <2>2, <2>3, <2>5 DEF StatementsInv
<1>4. CASE OpenPayslip
  <2>1. PICK r \in paper.runs : Open(Payslip(r))
    BY <1>4 DEF OpenPayslip
  <2>2. r \in runs
    BY <1>0, <2>1 DEF PaperSound
  <2>3. Payslip(r).kind = "payslip" /\ Payslip(r).runs = {r}
    BY DEF Payslip
  <2> QED
    BY <2>1, <2>2, <2>3, DocumentIsOpen
<1>5. CASE ExportErca
  <2>1. PICK r \in paper.runs : Open(ErcaSheet(MonthOf(r)))
    BY <1>5 DEF ExportErca
  <2>2. ErcaSheet(MonthOf(r)).kind = "erca" /\ ErcaSheet(MonthOf(r)).runs \subseteq runs
    BY DEF ErcaSheet, ErcaRuns
  <2> QED
    BY <2>1, <2>2, DocumentIsOpen
<1>6. CASE ExportPoessa
  <2>1. PICK r \in paper.runs : Open(PoessaSheet(MonthOf(r)))
    BY <1>6 DEF ExportPoessa
  <2>2. PICK sheet : sheet = PoessaSheet(MonthOf(r))
    OBVIOUS
  <2>3. sheet.kind = "poessa" /\ sheet.runs = PoessaRuns(MonthOf(r))
    BY <2>2 DEF PoessaSheet
  <2>4. sheet.sum = FundSum(PoessaRuns(MonthOf(r)))
    BY <2>2 DEF PoessaSheet, FundSum
  <2>5. sheet.runs \subseteq runs
    BY <2>3 DEF PoessaRuns
  <2> QED
    BY <2>1, <2>2, <2>3, <2>4, <2>5, DocumentIsOpen
<1>7. ASSUME NEW kind \in {"payslip", "zip", "month"}, WaitFor(kind) PROVE StatementsInv'
  <2>1. waiting' = kind /\ UNCHANGED <<payVars, runs, paper, stretch>>
    BY <1>7 DEF WaitFor
  <2>2. PayInv'
    BY <1>0, <2>1, PayCalm
  <2>3. RunsSound' /\ DaysForm' /\ PaperSound'
    BY <1>0, <2>1 DEF RunsSound, DaysForm, PaperSound, FundSum, Payslip, Earnings, Deductions
  <2> QED
    BY <2>2, <2>3 DEF StatementsInv
<1>8. ASSUME NEW s \in Shifts, WorkDays(s) PROVE StatementsInv'
  <2>1. /\ stretch' = Append(stretch, s) /\ Len(stretch) < 2
        /\ UNCHANGED <<payVars, runs, paper, waiting>>
    BY <1>8 DEF WorkDays
  <2>2. PayInv'
    BY <1>0, <2>1, PayCalm
  <2>3. RunsSound' /\ DaysForm' /\ PaperSound'
    BY <1>0, <2>1 DEF RunsSound, DaysForm, PaperSound, FundSum, Payslip, Earnings, Deductions
  <2> QED
    BY <2>2, <2>3 DEF StatementsInv
<1> QED
  BY <1>1, <1>2, <1>3, <1>4, <1>5, <1>6, <1>7, <1>8
  DEF StatementsNext, AskPayslip, AskZip, AskMonth

\* It is about nothing else than the variables of the module.
LEMMA StatementsCalm == StatementsInv /\ UNCHANGED statementVars => StatementsInv'
<1> SUFFICES ASSUME StatementsInv, UNCHANGED statementVars PROVE StatementsInv'
  OBVIOUS
<1>1. UNCHANGED payVars /\ UNCHANGED <<runs, paper, waiting, stretch>>
  BY DEF statementVars, paperVars
<1>2. PayInv'
  BY <1>1, PayCalm DEF StatementsInv
<1>3. RunsSound' /\ DaysForm' /\ PaperSound'
  BY <1>1 DEF StatementsInv, RunsSound, DaysForm, PaperSound, FundSum, Payslip, Earnings,
     Deductions
<1> QED
  BY <1>2, <1>3 DEF StatementsInv

\* It implies the types.
LEMMA StatementsTyped == StatementsInv => StatementsTypeOK
  BY PayTyped DEF StatementsInv, RunsSound, PaperSound, DaysForm, StatementsTypeOK

\* It implies that no run is declared for two months and both authorities hear of the
\* same runs.
LEMMA StatementsDeclare == StatementsInv => DeclaredOnce
<1> SUFFICES ASSUME StatementsInv PROVE DeclaredOnce
  OBVIOUS
<1>1. \A r \in runs : /\ r.period.start \in Int /\ r.period.end \in Int
                      /\ r.period.start <= r.period.end
  BY DEF StatementsInv, RunsSound, SoundRun
<1>2. ASSUME NEW m \in Months, NEW n \in Months, m # n
      PROVE  ErcaRuns(m) \cap ErcaRuns(n) = {}
  BY <1>1, <1>2 DEF ErcaRuns, First, Months
<1>3. ASSUME NEW m \in Months PROVE ErcaRuns(m) = PoessaRuns(m)
  BY DEF ErcaRuns, PoessaRuns
<1>4. ASSUME NEW m \in Months, NEW r \in runs, r.period = ClientPeriod(m, FALSE, FALSE)
      PROVE  r \in ErcaRuns(m)
  <2>1. r.period.start = First(m) /\ r.period.end = First(m) + 1
    BY <1>4 DEF ClientPeriod
  <2>2. First(m) \in Int
    BY DEF First, Months
  <2>3. r.period.start >= First(m) /\ r.period.end <= First(m) + 3
    BY <2>1, <2>2
  <2> QED
    BY <2>3 DEF ErcaRuns
<1> QED
  BY <1>2, <1>3, <1>4 DEF DeclaredOnce

\* It implies that payslips add up.
LEMMA StatementsAddUp == StatementsInv => PayslipAddsUp
<1> SUFFICES ASSUME StatementsInv, paper.kind = "payslip", NEW r \in paper.runs,
                    r.pay.transport + r.pay.position = 0
             PROVE  paper.gross - paper.rest - paper.sum \in -Santim .. Santim
  BY DEF PayslipAddsUp
<1>1. PICK s \in runs : paper = Payslip(s)
  BY DEF StatementsInv, PaperSound
<1>2. r = s
  BY <1>1 DEF Payslip
<1>3. /\ paper.gross = s.pay.base /\ paper.rest = s.line.tax + s.line.pension
      /\ paper.sum = s.line.net
  BY <1>1 DEF Payslip, Earnings, Deductions
<1>4. SoundRun(s)
  BY <1>1 DEF StatementsInv, RunsSound
<1>5. /\ s.line.gross = s.pay.base
      /\ s.line.gross - s.line.tax - s.line.pension - s.line.net \in -Santim .. Santim
      /\ s.line \in [{"gross", "tax", "pension", "employer", "net"} -> Nat]
  BY <1>2, <1>4 DEF SoundRun, Balanced, IsLine
<1>6. s.line.gross \in Nat /\ s.line.tax \in Nat /\ s.line.pension \in Nat /\ s.line.net \in Nat
  BY <1>5
<1> QED
  BY <1>3, <1>5, <1>6 DEF Santim

\* The two shares of one insured salary, each rounded, differ from 18 percent of it by no
\* more than a santim.
LEMMA FundShare ==
    ASSUME NEW i, NEW p, NEW l, SharesOf(i, p, l)
    PROVE  LET due == Percent(IF i THEN AtMost(p.base, PensionCap) ELSE p.base, 18)
           IN  /\ l.pension \in Int /\ l.employer \in Int /\ due \in Int
               /\ l.pension + l.employer - due \in -100 .. 100
<1>1. PICK c \in Nat : /\ (IF i THEN AtMost(p.base, PensionCap) ELSE p.base) = 2000 * c
                       /\ l.pension = Rounded(140 * c) /\ l.employer = Rounded(220 * c)
  BY DEF SharesOf
<1>2. PICK q1 \in Nat :
        Rounded(140 * c) = 100 * q1 /\ 100 * q1 <= 140 * c + 50 /\ 140 * c + 50 < 100 * q1 + 100
  BY RoundsTo
<1>3. PICK q2 \in Nat :
        Rounded(220 * c) = 100 * q2 /\ 100 * q2 <= 220 * c + 50 /\ 220 * c + 50 < 100 * q2 + 100
  BY RoundsTo
<1>4. PICK due : due = Percent(IF i THEN AtMost(p.base, PensionCap) ELSE p.base, 18)
  OBVIOUS
<1>5. due = 360 * c
  BY <1>1, <1>4, Shares
<1>6. l.pension \in Int /\ l.employer \in Int /\ due \in Int
  BY <1>1, <1>2, <1>3, <1>5
<1>7. l.pension + l.employer - due \in -100 .. 100
  BY <1>1, <1>2, <1>3, <1>5
<1> QED
  BY <1>4, <1>6, <1>7

\* It implies that the fund gets its share, but for the rounding of two lines.
LEMMA StatementsFund == StatementsInv => FundGetsItsShare
<1> SUFFICES ASSUME StatementsInv, paper.kind = "poessa"
             PROVE  paper.sum - Total([r \in paper.runs |->
                        Percent(IF r.capped THEN AtMost(r.pay.base,
                            PensionCap) ELSE r.pay.base, 18)])
                    \in -2 * Santim .. 2 * Santim
  BY DEF FundGetsItsShare
<1>1. PICK T : T = paper.runs
  OBVIOUS
<1>2. PICK f, g : f = [r \in T |-> r.line.pension] /\ g = [r \in T |-> r.line.employer]
  OBVIOUS
<1>3. PICK h : h = [r \in T |-> Percent(IF r.capped THEN AtMost(r.pay.base, PensionCap)
                                        ELSE r.pay.base, 18)]
  OBVIOUS
<1>4. T \subseteq runs /\ IsFiniteSet(runs) /\ Cardinality(runs) <= 2
  BY <1>1 DEF StatementsInv, RunsSound, PaperSound
<1>5. IsFiniteSet(T) /\ Cardinality(T) <= 2
  <2>1. IsFiniteSet(T) /\ Cardinality(T) <= Cardinality(runs)
    BY <1>4, FS_Subset
  <2>2. Cardinality(T) \in Nat /\ Cardinality(runs) \in Nat
    BY <1>4, <2>1, FS_CardinalityType
  <2> QED
    BY <1>4, <2>1, <2>2
<1>6. DOMAIN f = T /\ DOMAIN g = T /\ DOMAIN h = T
  BY <1>2, <1>3
<1>7. ASSUME NEW r \in T
      PROVE  f[r] \in Int /\ g[r] \in Int /\ h[r] \in Int /\ f[r] + g[r] - h[r] \in -100 .. 100
  <2>1. SharesOf(r.capped, r.pay, r.line)
    BY <1>4, <1>7 DEF StatementsInv, RunsSound, SoundRun
  <2>2. PICK due : due = Percent(IF r.capped THEN AtMost(r.pay.base, PensionCap)
                                 ELSE r.pay.base, 18)
    OBVIOUS
  <2>3. /\ r.line.pension \in Int /\ r.line.employer \in Int /\ due \in Int
        /\ r.line.pension + r.line.employer - due \in -100 .. 100
    BY <2>1, <2>2, FundShare
  <2>4. f[r] = r.line.pension /\ g[r] = r.line.employer
    BY <1>2, <1>7
  <2>5. h[r] = due
    BY <1>3, <1>7, <2>2
  <2> QED
    BY <2>3, <2>4, <2>5
<1>8. Total(f) + Total(g) - Total(h) \in -200 .. 200
  BY <1>5, <1>6, <1>7, TotalsAgree
<1>9. paper.sum = Total(f) + Total(g)
  BY <1>1, <1>2 DEF StatementsInv, PaperSound, FundSum
<1>10. -2 * Santim = -200 /\ 2 * Santim = 200
  BY DEF Santim
<1>11. paper.sum - Total(h) \in -2 * Santim .. 2 * Santim
  <2>1. Total(f) \in Int /\ Total(g) \in Int /\ Total(h) \in Int
    BY <1>5, <1>6, <1>7, TotalIsInt
  <2>2. paper.sum - Total(h) \in -200 .. 200
    BY <1>8, <1>9, <2>1
  <2> QED
    BY <1>10, <2>2
<1>12. h = [r \in paper.runs |-> Percent(IF r.capped THEN AtMost(r.pay.base, PensionCap)
                                         ELSE r.pay.base, 18)]
  BY <1>1, <1>3
<1> QED
  BY <1>11, <1>12

\* It implies that staying longer pays no less.
LEMMA StatementsPay == StatementsInv => StayingPays
<1> SUFFICES ASSUME StatementsInv, NEW i \in DOMAIN stretch
             PROVE  LET s == stretch[i]
                        longer == [stretch EXCEPT ![i].hours = @ + 1]
                    IN  /\ (s.from + s.hours + 1) % 24 # 6 =>
                              Calculated(longer).pay >= Calculated(stretch).pay
                        /\ Calculated(stretch).violations = {} => Paid(s) = Overtime(s)
  BY DEF StayingPays
<1>1. PICK Shift : Shift = [from : 0 .. 23, hours : Nat, kind : Kind, days : Nat]
  OBVIOUS
<1>2. stretch \in Seq(Shifts) /\ Len(stretch) <= 2 /\ Shifts \subseteq Shift
  <2>1. stretch \in Seq(Shifts) /\ Len(stretch) <= 2
    BY DEF StatementsInv, DaysForm
  <2> QED
    BY <1>1, <2>1, ShiftAssumption
<1>3. PICK D : D = DOMAIN stretch
  OBVIOUS
<1>4. D = 1 .. Len(stretch) /\ Len(stretch) \in Nat /\ \A j \in D : stretch[j] \in Shift
  BY <1>2, <1>3
<1>5. IsFiniteSet(D) /\ Cardinality(D) <= 2
  BY <1>2, <1>4, FS_Interval
<1>6. PICK s, longer, more :
        /\ s = stretch[i] /\ longer = [stretch EXCEPT ![i].hours = @ + 1]
        /\ more = [s EXCEPT !.hours = @ + 1]
  OBVIOUS
<1>7. /\ DOMAIN longer = D /\ longer[i] = more
      /\ \A j \in D : j # i => longer[j] = stretch[j]
  BY <1>3, <1>4, <1>6
<1>8. s \in Shift
  BY <1>3, <1>4, <1>6
<1>9. ASSUME (s.from + s.hours + 1) % 24 # 6
      PROVE  Calculated(longer).pay >= Calculated(stretch).pay
  <2>1. PICK f, g : f = [j \in D |-> PaidFor(stretch[j])] /\ g = [j \in D |-> PaidFor(longer[j])]
    OBVIOUS
  <2>2. DOMAIN f = D /\ DOMAIN g = D
    BY <2>1
  <2>3. ASSUME NEW j \in D PROVE f[j] \in Int /\ g[j] \in Int /\ f[j] <= g[j]
    <3>1. f[j] = PaidFor(stretch[j]) /\ g[j] = PaidFor(longer[j])
      BY <2>1, <2>3
    <3>2. CASE j = i
      <4>1. PaidFor(s) \in Int /\ PaidFor(more) \in Int /\ PaidFor(s) <= PaidFor(more)
        BY <1>1, <1>6, <1>8, <1>9, StayedLonger
      <4> QED
        BY <1>6, <1>7, <3>1, <3>2, <4>1
    <3>3. CASE j # i
      <4>1. PICK l : l = [stretch[j] EXCEPT !.hours = @ + 1]
        OBVIOUS
      <4>2. PaidFor(stretch[j]) \in Int
        BY <1>1, <1>4, <4>1, StayedLonger
      <4> QED
        BY <1>7, <3>1, <3>3, <4>2
    <3> QED
      BY <3>2, <3>3
  <2>4. Total(f) <= Total(g)
    BY <1>5, <2>2, <2>3, TotalGrows
  <2>5. Calculated(stretch).pay = Total(f) /\ Calculated(longer).pay = Total(g)
    BY <1>3, <1>7, <2>1 DEF Calculated
  <2>6. Total(f) \in Int /\ Total(g) \in Int
    BY <1>5, <2>2, <2>3, TotalIsInt
  <2> QED
    BY <2>4, <2>5, <2>6
<1>10. ASSUME Calculated(stretch).violations = {} PROVE Paid(s) = Overtime(s)
  <2>1. ~ \E j \in D : Overtime(stretch[j]) > 2
    <3>1. SUFFICES ASSUME \E j \in D : Overtime(stretch[j]) > 2
                   PROVE  "DAILY_LIMIT" \in Calculated(stretch).violations
      BY <1>10
    <3> QED
      BY <1>3, <3>1 DEF Calculated
  <2>2. Overtime(s) \in Nat
    BY <1>1, <1>8 DEF Overtime
  <2>3. ~(Overtime(s) > 2)
    BY <1>3, <1>6, <2>1
  <2> QED
    BY <2>2, <2>3 DEF Paid
<1> QED
  BY <1>6, <1>9, <1>10

\* It implies what the run checks.
LEMMA StatementsImplied == StatementsInv => PaySound /\ StatementsSound
<1>1. StatementsInv => PaySound
  BY PayIsSound DEF StatementsInv
<1>2. StatementsInv => StatementsSound
  BY StatementsDeclare, StatementsFund, StatementsAddUp, StatementsPay DEF StatementsSound
<1> QED
  BY <1>1, <1>2

\* Of the documents and of overtime: nobody's tax is declared for two months, the tax
\* authority and the pension fund hear of the same lines, the fund gets 18 percent of the
\* insured salaries but for the rounding (ErcaReportService, PoessaReportService), a payslip
\* of a pay without allowances adds up, and whoever stays longer gets no less
\* (OvertimeService.calculateOvertime).
THEOREM StatementsInvariance ==
    StatementsSpec => [](StatementsTypeOK /\ PaySound /\ StatementsSound)
<1>1. StatementsInit => StatementsInv
  BY StatementsInitially
<1>2. StatementsInv /\ [StatementsNext]_statementVars => StatementsInv'
  BY StatementsStep, StatementsCalm
<1>3. StatementsInv => StatementsTypeOK /\ PaySound /\ StatementsSound
  BY StatementsImplied, StatementsTyped
<1> QED
  BY <1>1, <1>2, <1>3, PTL DEF StatementsSpec

=============================================================================

----------------------------- MODULE LeaveRequests -----------------------------
(***************************************************************************)
(* LeaveService: the leave requests of one employee, and the days of annual *)
(* leave the employee has used.                                            *)
(* Left out: reasons, messages, the types of leave other than annual leave *)
(* (no rule tells them apart), and the dashboard's figures (StaffDirectory *)
(* has the head count; leave does not enter it).                           *)
(***************************************************************************)
EXTENDS RequestHandling

CONSTANTS
    LeaveRequest,  \* rows of leave_requests (a bound)
    LastLeaveDay,  \* requests concern the days 1 .. LastLeaveDay (a bound)
    RestDays,      \* Sundays and public holidays among them
    UsedBefore     \* leave_balance_used when the history begins

\* The history begins within the entitlement of the first year.
ASSUME LeaveAssumption ==
    /\ IsFiniteSet(LeaveRequest) /\ "none" \notin LeaveRequest
    /\ LastLeaveDay \in Nat \ {0} /\ RestDays \subseteq 1 .. LastLeaveDay
    /\ UsedBefore \in 0 .. 16

VARIABLES
    request,      \* the rows; a draft is a request still being validated
    years,        \* full years since the employee was hired
    used,         \* employees.leave_balance_used
    leaveAt,      \* what each handler does next
    leaveOf,      \* the request it works on, or "none"
    usedRead,     \* the balance it has read
    crowded       \* annual leave has been requested while such a request was open

leaveVars == <<request, years, used, leaveAt, leaveOf, usedRead, crowded>>

LeaveStatus == {"none", "draft", "PENDING", "APPROVED", "REJECTED"}
NoRequest == [status |-> "none", first |-> 1, last |-> 1, annual |-> FALSE]

\* calculateWorkingDays
WorkingDays(first, last) == Cardinality((first .. last) \ RestDays)

DaysOf(r) == WorkingDays(request[r].first, request[r].last)

\* getAnnualLeaveEntitlement
AnnualLeaveEntitlement(y) ==
    IF y <= 1 THEN 16 ELSE IF y = 2 THEN 18 ELSE IF 17 + y < 30 THEN 17 + y ELSE 30

Overlaps(r, q) ==
    request[r].first <= request[q].last /\ request[q].first <= request[r].last

AnnualOpen(q) == request[q].annual /\ request[q].status = "PENDING"

LeaveTypeOK ==
    /\ request \in [LeaveRequest ->
           [status : LeaveStatus, first : 1 .. LastLeaveDay, last : 1 .. LastLeaveDay,
            annual : BOOLEAN]]
    /\ years \in Nat /\ used \in Nat
    /\ leaveAt \in [Handler -> {"idle", "balance", "overlap", "create",
                                "approveRead", "approve", "deduct", "reject"}]
    /\ leaveOf \in [Handler -> LeaveRequest \cup {"none"}]
    /\ usedRead \in [Handler -> Nat] /\ crowded \in BOOLEAN
    /\ \A h \in Handler : leaveAt[h] = "idle" <=> leaveOf[h] = "none"

LeaveInit ==
    /\ request = [r \in LeaveRequest |-> NoRequest]
    /\ years = 1 /\ used = UsedBefore
    /\ leaveAt = [h \in Handler |-> "idle"]
    /\ leaveOf = [h \in Handler |-> "none"]
    /\ usedRead = [h \in Handler |-> 0] /\ crowded = FALSE

LeaveGo(h, next) == leaveAt' = [leaveAt EXCEPT ![h] = next]

LeaveTake(h, step, r) ==
    /\ MayTake(h, leaveAt)
    /\ LeaveGo(h, step)
    /\ leaveOf' = [leaveOf EXCEPT ![h] = r]

LeaveAnswer(h) ==
    /\ LeaveGo(h, "idle")
    /\ leaveOf' = [leaveOf EXCEPT ![h] = "none"]
    /\ usedRead' = [usedRead EXCEPT ![h] = 0]

\* A request that is refused leaves no row.
Refuse(h) ==
    /\ LeaveAnswer(h)
    /\ request' = [request EXCEPT ![leaveOf[h]] = NoRequest]

-----------------------------------------------------------------------------
(***************************************************************************)
(* requestLeave.                                                           *)
(***************************************************************************)

\* The period must hold a working day.
RequestLeave(h, r, first, last, annual) ==
    /\ request[r].status = "none"
    /\ WorkingDays(first, last) > 0
    /\ LeaveTake(h, IF annual THEN "balance" ELSE "overlap", r)
    /\ request' = [request EXCEPT ![r] =
                      [status |-> "draft", first |-> first, last |-> last, annual |-> annual]]
    /\ UNCHANGED <<years, used, usedRead, crowded, calm>>

\* validateLeaveBalance: what others have asked for and not been granted does not count.
LeaveBalance(h) ==
    /\ leaveAt[h] = "balance"
    /\ IF DaysOf(leaveOf[h]) <= AnnualLeaveEntitlement(years) - used
       THEN LeaveGo(h, "overlap") /\ UNCHANGED <<request, leaveOf, usedRead>>
       ELSE Refuse(h)
    /\ UNCHANGED <<years, used, crowded, calm>>

\* Mutant: only a request that has been granted is in the way.
LeaveOverlapGranted(h) ==
    /\ leaveAt[h] = "overlap"
    /\ IF \E q \in LeaveRequest : request[q].status = "APPROVED" /\ Overlaps(leaveOf[h], q)
       THEN Refuse(h)
       ELSE LeaveGo(h, "create") /\ UNCHANGED <<request, leaveOf, usedRead>>
    /\ UNCHANGED <<years, used, crowded, calm>>

\* No day may be part of another request that is open or granted.
LeaveOverlap(h) ==
    /\ leaveAt[h] = "overlap"
    /\ IF \E q \in LeaveRequest :
              request[q].status \in {"PENDING", "APPROVED"} /\ Overlaps(leaveOf[h], q)
       THEN Refuse(h)
       ELSE LeaveGo(h, "create") /\ UNCHANGED <<request, leaveOf, usedRead>>
    /\ UNCHANGED <<years, used, crowded, calm>>

LeaveCreate(h) ==
    /\ leaveAt[h] = "create"
    /\ request' = [request EXCEPT ![leaveOf[h]].status = "PENDING"]
    /\ crowded' = (crowded \/ \E q \in LeaveRequest : request[leaveOf[h]].annual /\ AnnualOpen(q))
    /\ LeaveAnswer(h)
    /\ UNCHANGED <<years, used, calm>>

-----------------------------------------------------------------------------
(***************************************************************************)
(* approveLeave and rejectLeave.                                           *)
(***************************************************************************)

\* The request is read; only a pending one can be granted.
ApproveLeave(h, r) ==
    /\ request[r].status = "PENDING"
    /\ LeaveTake(h, "approveRead", r)
    /\ UNCHANGED <<request, years, used, usedRead, crowded, calm>>

\* The employee that belongs to it is read by a query of its own.
ApproveRead(h) ==
    /\ leaveAt[h] = "approveRead"
    /\ usedRead' = [usedRead EXCEPT ![h] = used]
    /\ LeaveGo(h, "approve")
    /\ UNCHANGED <<request, years, used, leaveOf, crowded, calm>>

\* Whatever has become of the request since, it is granted now.
Approve(h) ==
    /\ leaveAt[h] = "approve"
    /\ request' = [request EXCEPT ![leaveOf[h]].status = "APPROVED"]
    /\ IF request[leaveOf[h]].annual
       THEN LeaveGo(h, "deduct") /\ UNCHANGED <<leaveOf, usedRead>>
       ELSE LeaveAnswer(h)
    /\ UNCHANGED <<years, used, crowded, calm>>

\* The days are added to the balance read before.
Deduct(h) ==
    /\ leaveAt[h] = "deduct"
    /\ used' = usedRead[h] + DaysOf(leaveOf[h])
    /\ LeaveAnswer(h)
    /\ UNCHANGED <<request, years, crowded, calm>>

RejectLeave(h, r) ==
    /\ request[r].status = "PENDING"
    /\ LeaveTake(h, "reject", r)
    /\ UNCHANGED <<request, years, used, usedRead, crowded, calm>>

Reject(h) ==
    /\ leaveAt[h] = "reject"
    /\ request' = [request EXCEPT ![leaveOf[h]].status = "REJECTED"]
    /\ LeaveAnswer(h)
    /\ UNCHANGED <<years, used, crowded, calm>>

\* An error or the end of the process: a draft is forgotten, what was written stays.
LeaveBreaks(h) ==
    /\ MayBreak(h, leaveAt)
    /\ IF request[leaveOf[h]].status = "draft" THEN Refuse(h)
       ELSE LeaveAnswer(h) /\ UNCHANGED request
    /\ UNCHANGED <<years, used, crowded, calm>>

\* A year of service more (one, as a bound); the balance used is not reset.
YearPasses ==
    /\ years = 1
    /\ years' = 2
    /\ UNCHANGED <<request, used, leaveAt, leaveOf, usedRead, crowded, calm>>

-----------------------------------------------------------------------------
LeaveNext ==
    \/ \E h \in Handler :
          \/ \E r \in LeaveRequest, first, last \in 1 .. LastLeaveDay, annual \in BOOLEAN :
                RequestLeave(h, r, first, last, annual)
          \/ LeaveBalance(h) \/ LeaveOverlap(h) \/ LeaveCreate(h)
          \/ \E r \in LeaveRequest : ApproveLeave(h, r) \/ RejectLeave(h, r)
          \/ ApproveRead(h) \/ Approve(h) \/ Deduct(h) \/ Reject(h)
          \/ LeaveBreaks(h)
    \/ YearPasses

LeaveSpec == CalmInit /\ LeaveInit /\ [][LeaveNext]_<<leaveVars, calm>>

-----------------------------------------------------------------------------
(***************************************************************************)
(* Properties.                                                             *)
(***************************************************************************)

LeaveOpenOrGranted(r) == request[r].status \in {"PENDING", "APPROVED"}

\* Without overlap of requests an employee is never away, or waiting for leave, twice
\* on one day, however periods are asked for, granted and refused.
LeaveDisjoint ==
    calm => \A r, q \in LeaveRequest :
        r # q /\ LeaveOpenOrGranted(r) /\ LeaveOpenOrGranted(q) => ~Overlaps(r, q)

\* The working days of annual leave that have been granted.
GrantedDays ==
    {granted \in LeaveRequest \X ((1 .. LastLeaveDay) \ RestDays) :
        LET r == request[granted[1]]
        IN  r.status = "APPROVED" /\ r.annual /\ granted[2] \in r.first .. r.last}

\* Between requests the balance is what it was and the working days of the annual leave
\* granted since, each counted once.
UsedIsGranted ==
    (\A h \in Handler : leaveAt[h] = "idle") => used = UsedBefore + Cardinality(GrantedDays)

\* No more days are granted than the employee is entitled to, as long as no annual leave
\* is asked for while another such request is open: the check does not count that one,
\* and the approval checks nothing.
UsedWithinEntitlement == ~crowded => used <= AnnualLeaveEntitlement(years)

\* Without overlap of requests the balance is right and kept within the entitlement.
BalanceSound == calm => UsedIsGranted /\ UsedWithinEntitlement

=============================================================================

---------------------------- MODULE LifecycleGuard ----------------------------
(***************************************************************************)
(* The guard before every handler: it admits a user's request by the       *)
(* status of the tenant, which it remembers for a minute in its process.   *)
(* Requests overlap, the status changes meanwhile, and a read of it may    *)
(* be answered late.                                                       *)
(* One tenant that exists, in one process.  USSD, users without a tenant   *)
(* and super admins pass unasked and are left out.                         *)
(***************************************************************************)
EXTENDS RequestHandling

CONSTANTS
    EntryLife,   \* CACHE_TTL_MS, in instants
    LastInstant  \* the horizon (a bound)

ASSUME GuardAssumption == EntryLife \in Nat \ {0} /\ LastInstant \in Nat

VARIABLES
    instant,   \* the time
    standing,  \* the tenant's status
    remembered,  \* the guard's entry of the tenant, the last one stored
    ask,       \* requests that wait for the database, and what they have read of the status
    verdict,   \* what the guard last said in this instant
    lastHad,   \* when the tenant last had each status that it has had
    longest    \* the longest that a read has been under way after it saw the row

guardVars == <<instant, standing, remembered, ask, verdict, lastHad, longest>>

Standing == {"ACTIVE", "PAST_DUE", "SUSPENDED"}
\* GET and calls under /billing, and all others.
GuardWay == {"read", "write"}

\* An active tenant may do everything, one past due may read and pay, a suspended one
\* nothing.
Opens(s, way) == s = "ACTIVE" \/ (s = "PAST_DUE" /\ way = "read")

NotRemembered == [status |-> "none", expires |-> 0]
NoAsk         == [at |-> "idle", status |-> "none", since |-> 0]
NoVerdict     == [way |-> "none", admitted |-> FALSE]

GuardTypeOK ==
    /\ instant \in 0 .. LastInstant /\ longest \in 0 .. LastInstant
    /\ standing \in Standing
    /\ remembered \in [status : Standing \cup {"none"}, expires : Nat]
    /\ ask \in [Handler -> [at : {"idle", "asked", "read"}, status : Standing \cup {"none"},
                            since : 0 .. LastInstant]]
    /\ verdict \in [way : GuardWay \cup {"none"}, admitted : BOOLEAN]
    /\ DOMAIN lastHad \subseteq Standing
    /\ \A s \in DOMAIN lastHad : lastHad[s] \in 0 .. LastInstant

GuardInit ==
    /\ instant = 0 /\ standing \in Standing
    /\ remembered = NotRemembered /\ ask = [h \in Handler |-> NoAsk]
    /\ verdict = NoVerdict /\ longest = 0
    /\ lastHad = [s \in {standing} |-> 0]

AskAt == [h \in Handler |-> ask[h].at]

\* The status at an instant is noted.
Note(s, t) == lastHad' = [x \in DOMAIN lastHad \cup {s} |-> IF x = s THEN t ELSE lastHad[x]]

DecideBy(s) == \E way \in GuardWay : verdict' = [way |-> way, admitted |-> Opens(s, way)]

-----------------------------------------------------------------------------
\* Billing, or the operator, gives the tenant another status, and the guard is not told.
Restate ==
    /\ calm => \A h \in Handler : ask[h].at = "idle"
    /\ standing' \in Standing \ {standing}
    /\ Note(standing', instant)
    /\ UNCHANGED <<instant, remembered, ask, verdict, longest, calm>>

\* Mutant: an entry that is used lives on for another minute.
RememberedAndRenewed(h) ==
    /\ MayTake(h, AskAt)
    /\ remembered.expires > instant
    /\ DecideBy(remembered.status)
    /\ remembered' = [remembered EXCEPT !.expires = instant + EntryLife]
    /\ UNCHANGED <<instant, standing, ask, lastHad, longest, calm>>

\* A request is decided by the entry ...
Remembered(h) ==
    /\ MayTake(h, AskAt)
    /\ remembered.expires > instant
    /\ DecideBy(remembered.status)
    /\ UNCHANGED <<instant, standing, remembered, ask, lastHad, longest, calm>>

\* ... or, if there is none or its minute is over, asks for the row ...
LookUp(h) ==
    /\ MayTake(h, AskAt)
    /\ remembered.expires <= instant
    /\ ask' = [ask EXCEPT ![h].at = "asked"]
    /\ UNCHANGED <<instant, standing, remembered, verdict, lastHad, longest, calm>>

\* ... which is read ...
RowRead(h) ==
    /\ ask[h].at = "asked"
    /\ ask' = [ask EXCEPT ![h] = [at |-> "read", status |-> standing, since |-> instant]]
    /\ UNCHANGED <<instant, standing, remembered, verdict, lastHad, longest, calm>>

\* ... and comes back: whatever is so by then, and whatever has been stored by requests
\* that asked later, it is stored for a minute from now, and decides.
Remember(h) ==
    /\ ask[h].at = "read"
    /\ remembered' = [status |-> ask[h].status, expires |-> instant + EntryLife]
    /\ longest' = IF instant - ask[h].since > longest THEN instant - ask[h].since ELSE longest
    /\ DecideBy(ask[h].status)
    /\ ask' = [ask EXCEPT ![h] = NoAsk]
    /\ UNCHANGED <<instant, standing, lastHad, calm>>

\* The database fails, and the request with it.
LookUpFails(h) ==
    /\ MayBreak(h, AskAt)
    /\ ask' = [ask EXCEPT ![h] = NoAsk]
    /\ UNCHANGED <<instant, standing, remembered, verdict, lastHad, longest, calm>>

\* Time passes, while a read is under way too.
Later ==
    /\ instant < LastInstant
    /\ instant' = instant + 1
    /\ Note(standing, instant')
    /\ verdict' = NoVerdict
    /\ UNCHANGED <<standing, remembered, ask, longest, calm>>

-----------------------------------------------------------------------------
GuardNext ==
    \/ Restate \/ Later
    \/ \E h \in Handler :
        Remembered(h) \/ LookUp(h) \/ RowRead(h) \/ Remember(h) \/ LookUpFails(h)

GuardSpec == CalmInit /\ GuardInit /\ [][GuardNext]_<<guardVars, calm>>

-----------------------------------------------------------------------------
\* The guard admits or refuses a request as a status says that the tenant still had less
\* than a minute ago, or as much longer ago as some read of it took to come back:
\* however requests overlap, entries are stored late and over later ones, and the status
\* changes.  So a tenant that was suspended is locked out after that time, and one that
\* has paid is let in.
GuardLag ==
    verdict # NoVerdict =>
        \E s \in DOMAIN lastHad :
            /\ instant < lastHad[s] + EntryLife + longest
            /\ verdict.admitted = Opens(s, verdict.way)

=============================================================================

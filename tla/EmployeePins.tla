------------------------------ MODULE EmployeePins ------------------------------
(***************************************************************************)
(* The four-digit PIN with which an employee signs in at the phone: HR     *)
(* issues it, the server keeps it in the clear and as a hash, and accounts *)
(* from before the hash get one at the first sign-in.  A PIN and its hash  *)
(* are one value here, since bcrypt tells PINs apart.                      *)
(* Left out: the import, which issues PINs as the creation does, and the   *)
(* menu by code, which keeps a copy of the hash (UssdSessions).            *)
(***************************************************************************)
EXTENDS RequestHandling

CONSTANT Employed \* employees with an account (a bound)

ASSUME PinAssumption == Employed # {}

Pin   == {1, 2}
NoPin == 0

VARIABLES
    issued,  \* the PIN last given to each employee
    ussdPin, \* the column ussdPin, or what a script has made of it
    pinHash, \* the column ussdPinHash
    legacy,  \* accounts from before the hash that HR has issued no PIN for since
    pinAt,   \* what each request does next
    pinOf    \* what it is about, and the PIN sent or issued with it

pinVars == <<issued, ussdPin, pinHash, legacy, pinAt, pinOf>>
Hashed == 3  \* a hash, in the column of the PIN: no PIN equals it

PinTypeOK ==
    /\ issued \in [Employed -> Pin]
    /\ ussdPin \in [Employed -> Pin \cup {NoPin, Hashed}]
    /\ pinHash \in [Employed -> Pin \cup {NoPin}]
    /\ legacy \subseteq Employed
    /\ pinAt \in [Handler -> {"idle", "find", "migrate", "answer", "reset"}]
    /\ pinOf \in [Handler -> [employee : Employed, pin : Pin \cup {NoPin}, valid : BOOLEAN]]

NoAttempt == [employee |-> CHOOSE e \in Employed : TRUE, pin |-> NoPin, valid |-> FALSE]

PinInit ==
    /\ issued \in [Employed -> Pin] /\ ussdPin = issued
    /\ legacy \in SUBSET Employed
    /\ pinHash = [e \in Employed |-> IF e \in legacy THEN NoPin ELSE issued[e]]
    /\ pinAt = [h \in Handler |-> "idle"] /\ pinOf = [h \in Handler |-> NoAttempt]

PinGo(h, step) == pinAt' = [pinAt EXCEPT ![h] = step]
PinEnds(h)     == PinGo(h, "idle") /\ pinOf' = [pinOf EXCEPT ![h] = NoAttempt]

PinTake(h, step, e, pin) ==
    /\ MayTake(h, pinAt)
    /\ PinGo(h, step)
    /\ pinOf' = [pinOf EXCEPT ![h] = [employee |-> e, pin |-> pin, valid |-> FALSE]]
    /\ UNCHANGED <<issued, ussdPin, pinHash, legacy, calm>>

\* AuthService.employeeLogin, with some PIN.
EmployeeLogin(h, e, pin) == PinTake(h, "find", e, pin)

\* The employee is read, and the PIN compared.
EmployeeFound(h) ==
    LET e == pinOf[h].employee
    IN  /\ pinAt[h] = "find"
        /\ IF pinHash[e] # NoPin
           THEN /\ pinOf' = [pinOf EXCEPT ![h].valid = pinHash[e] = pinOf[h].pin]
                /\ PinGo(h, "answer")
           ELSE IF ussdPin[e] # NoPin
           THEN /\ pinOf' = [pinOf EXCEPT ![h].valid = ussdPin[e] = pinOf[h].pin]
                /\ PinGo(h, "migrate")
           ELSE PinGo(h, "answer") /\ UNCHANGED pinOf
        /\ UNCHANGED <<issued, ussdPin, pinHash, legacy, calm>>

\* An account without a hash gets that of the PIN that was sent.
Migrated(h) ==
    /\ pinAt[h] = "migrate"
    /\ pinHash' = [pinHash EXCEPT ![pinOf[h].employee] = pinOf[h].pin]
    /\ PinGo(h, "answer")
    /\ UNCHANGED <<issued, ussdPin, legacy, pinOf, calm>>

\* Signed in, or refused.
LoginAnswered(h) ==
    /\ pinAt[h] = "answer"
    /\ PinEnds(h)
    /\ UNCHANGED <<issued, ussdPin, pinHash, legacy, calm>>

\* Mutant: the hash stays that of the PIN before.
PinWrittenInTheClear(h) ==
    LET e == pinOf[h].employee
    IN  /\ pinAt[h] = "reset"
        /\ issued' = [issued EXCEPT ![e] = pinOf[h].pin]
        /\ ussdPin' = [ussdPin EXCEPT ![e] = pinOf[h].pin]
        /\ legacy' = legacy \ {e}
        /\ PinEnds(h)
        /\ UNCHANGED <<pinHash, calm>>

\* EmployeeService.resetMobilePin: hashed, then written and told.
ResetMobilePin(h, e, pin) == PinTake(h, "reset", e, pin)

PinWritten(h) ==
    LET e == pinOf[h].employee
    IN  /\ pinAt[h] = "reset"
        /\ issued' = [issued EXCEPT ![e] = pinOf[h].pin]
        /\ ussdPin' = [ussdPin EXCEPT ![e] = pinOf[h].pin]
        /\ pinHash' = [pinHash EXCEPT ![e] = pinOf[h].pin]
        /\ legacy' = legacy \ {e}
        /\ PinEnds(h)
        /\ UNCHANGED calm

\* prisma/scripts/rehash-legacy-pins: a new PIN for each account without a hash, printed
\* for HR.  Run by hand, while nobody signs in.
PinsReissued ==
    /\ \A h \in Handler : pinAt[h] = "idle"
    /\ \E pin \in [Employed -> Pin] :
        LET bare == {e \in Employed : ussdPin[e] # NoPin /\ pinHash[e] = NoPin}
        IN  /\ bare # {} /\ \A e \in Employed \ bare : pin[e] = issued[e]
            /\ issued' = pin
            /\ ussdPin' = [e \in Employed |-> IF e \in bare THEN NoPin ELSE ussdPin[e]]
            /\ pinHash' = [e \in Employed |-> IF e \in bare THEN pin[e] ELSE pinHash[e]]
            /\ legacy' = legacy \ bare
    /\ UNCHANGED <<pinAt, pinOf, calm>>

\* ussd/rehash-legacy-pins puts the hash in the place of the PIN.
PinsHashedInPlace ==
    /\ \A h \in Handler : pinAt[h] = "idle"
    /\ ussdPin' = [e \in Employed |-> IF ussdPin[e] = NoPin THEN NoPin ELSE Hashed]
    /\ UNCHANGED <<issued, pinHash, legacy, pinAt, pinOf, calm>>

PinBreaks(h) ==
    /\ MayBreak(h, pinAt)
    /\ PinEnds(h)
    /\ UNCHANGED <<issued, ussdPin, pinHash, legacy, calm>>

PinNext ==
    \/ PinsReissued \/ PinsHashedInPlace
    \/ \E h \in Handler :
        \/ EmployeeFound(h) \/ Migrated(h) \/ LoginAnswered(h) \/ PinWritten(h) \/ PinBreaks(h)
        \/ \E e \in Employed, pin \in Pin : EmployeeLogin(h, e, pin) \/ ResetMobilePin(h, e, pin)

PinSpec == CalmInit /\ PinInit /\ [][PinNext]_<<calm, pinVars>>

-----------------------------------------------------------------------------
(***************************************************************************)
(* Properties.                                                             *)
(***************************************************************************)

\* Where requests do not overlap, an employee who was issued a PIN signs in with that and
\* no other.  Accounts from before the hash are excepted: a wrong PIN at their first
\* sign-in becomes theirs (auth.service.ts:309).  Where requests overlap such a sign-in can
\* also write over the hash of a PIN issued meanwhile.
IssuedPinOpens ==
    /\ calm => \A e \in Employed \ legacy : pinHash[e] = issued[e]
    /\ calm => \A h \in Handler :
        pinAt[h] = "answer" /\ pinOf[h].employee \notin legacy =>
            pinOf[h].valid = (pinOf[h].pin = issued[pinOf[h].employee])

=============================================================================

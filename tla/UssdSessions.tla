----------------------------- MODULE UssdSessions -----------------------------
(***************************************************************************)
(* UssdService.processUssd: one employee dials, chooses to clock in or out *)
(* and enters a PIN.  Sessions live in Redis, each for 90 seconds; a copy  *)
(* of the last one lives for 300, so that a session which has run out can  *)
(* be taken up again under another id.                                     *)
(* Left out: wording, and which PIN it is: a request brings the right one  *)
(* or not.  The log is written without waiting for it; a failure is only   *)
(* noted, so here it counts as written.                                    *)
(***************************************************************************)
EXTENDS RequestHandling

CONSTANTS
    Session,    \* session ids the gateway uses (a bound)
    MaxChoices  \* how often an action is chosen (a bound)

\* An action may be chosen once at least.
ASSUME UssdAssumption == MaxChoices \in Nat \ {0}

\* Lifetimes in units of 100 seconds, rounded up.
SessionTTL == 1
RecentTTL  == 3
GuardTTL   == 3

VARIABLES
    employed,   \* employees.status = ACTIVE
    known,      \* demoz:ussd:employee:<phone>: the status as cached, or none
    session,    \* ussd:session:<id>
    recent,     \* ussd:recent:<phone>
    guarded,    \* time left of ussd:clockin:<employee>
    choices,    \* the action chosen each time a menu is answered
    written,    \* attendance logs written for each choice, counted up to 2
    ussdAt,     \* what each request does next
    ussdIn,     \* its session id, or "none"
    ussdHolds   \* the session it has read

redis == <<known, session, recent, guarded>>
ussdCalls == <<ussdAt, ussdIn, ussdHolds>>
ussdVars == <<employed, redis, choices, written, ussdCalls>>

Blank == [state |-> "none", choice |-> 0, left |-> 0]
UssdAction == {"CLOCK_IN", "CLOCK_OUT"}
Choice == 1 .. MaxChoices
\* Where requests overlap, one action is chosen, the employee stays employed and no time
\* passes (bounds).
ChoiceBound == IF calm THEN MaxChoices ELSE 1
SessionRow == [state : {"none", "WELCOME", "AWAITING_PIN", "COMPLETE"},
               choice : 0 .. MaxChoices, left : 0 .. RecentTTL]

UssdTypeOK ==
    /\ employed \in BOOLEAN /\ known \in {"none", "ACTIVE", "INACTIVE"}
    /\ session \in [Session -> SessionRow] /\ recent \in SessionRow
    /\ guarded \in 0 .. GuardTTL
    /\ choices \in [Choice -> UssdAction \cup {"none"}]
    /\ written \in [Choice -> 0 .. 2]
    /\ ussdAt \in [Handler -> {"idle", "route", "choose", "remember",
                               "guard", "protect", "log", "complete"}]
    /\ ussdIn \in [Handler -> Session \cup {"none"}]
    /\ ussdHolds \in [Handler -> SessionRow]
    /\ recent.left > 0 => recent.state = "AWAITING_PIN"
    /\ \A s \in Session : session[s].left = 0 <=> session[s] = Blank

UssdInit ==
    /\ employed = TRUE /\ known = "none"
    /\ session = [s \in Session |-> Blank] /\ recent = Blank /\ guarded = 0
    /\ choices = [c \in Choice |-> "none"] /\ written = [c \in Choice |-> 0]
    /\ ussdAt = [h \in Handler |-> "idle"]
    /\ ussdIn = [h \in Handler |-> "none"]
    /\ ussdHolds = [h \in Handler |-> Blank]

UssdGo(h, next) == ussdAt' = [ussdAt EXCEPT ![h] = next]

UssdAnswer(h) ==
    /\ UssdGo(h, "idle")
    /\ ussdIn' = [ussdIn EXCEPT ![h] = "none"]
    /\ ussdHolds' = [ussdHolds EXCEPT ![h] = Blank]

-----------------------------------------------------------------------------
\* The employee is looked up, in the cache or else in the database; whatever status is
\* found there is cached for an hour.
Dial(h, s) ==
    /\ MayTake(h, ussdAt)
    /\ known' = IF known # "none" THEN known ELSE IF employed THEN "ACTIVE" ELSE "INACTIVE"
    /\ IF known' = "ACTIVE"
       THEN UssdGo(h, "route") /\ ussdIn' = [ussdIn EXCEPT ![h] = s]
       ELSE UNCHANGED <<ussdAt, ussdIn>>
    /\ UNCHANGED <<employed, session, recent, guarded, choices, written, ussdHolds, calm>>

\* The session is read; if there is none, a recent one that waits for a PIN stands in
\* for it, unless the employee has only just dialled.  Then the input decides; an action
\* counts as one only within the bound.
UssdRoute(h, dialled, input) ==
    /\ ussdAt[h] = "route"
    /\ LET own  == session[ussdIn[h]]
           held == IF own = Blank /\ ~dialled THEN recent ELSE own
       IN  \/ /\ held = Blank \/ dialled
              /\ session' = [session EXCEPT ![ussdIn[h]] =
                                [state |-> "WELCOME", choice |-> 0, left |-> SessionTTL]]
              /\ UssdAnswer(h)
           \/ /\ held.state = "WELCOME" /\ ~dialled
              /\ IF input \in UssdAction /\ choices[ChoiceBound] = "none"
                 THEN UssdGo(h, "choose") /\ UNCHANGED <<ussdIn, ussdHolds>>
                 ELSE UssdAnswer(h)
              /\ UNCHANGED session
           \/ /\ held.state = "AWAITING_PIN" /\ ~dialled
              /\ IF input = "pin"
                 THEN /\ UssdGo(h, IF choices[held.choice] = "CLOCK_IN" THEN "guard" ELSE "log")
                      /\ ussdHolds' = [ussdHolds EXCEPT ![h] = held]
                      /\ UNCHANGED ussdIn
                 ELSE UssdAnswer(h)
              /\ UNCHANGED session
           \/ held.state = "COMPLETE" /\ ~dialled /\ UssdAnswer(h) /\ UNCHANGED session
    /\ UNCHANGED <<employed, known, recent, guarded, choices, written, calm>>

\* The action chosen is written to the session ...
UssdChoose(h, action) ==
    /\ ussdAt[h] = "choose"
    /\ \E c \in Choice :
          /\ choices[c] = "none" /\ \A b \in Choice : b < c => choices[b] # "none"
          /\ choices' = [choices EXCEPT ![c] = action]
          /\ LET awaiting == [state |-> "AWAITING_PIN", choice |-> c, left |-> SessionTTL]
             IN  /\ session' = [session EXCEPT ![ussdIn[h]] = awaiting]
                 /\ ussdHolds' = [ussdHolds EXCEPT ![h] = awaiting]
    /\ UssdGo(h, "remember")
    /\ UNCHANGED <<employed, known, recent, guarded, written, ussdIn, calm>>

\* ... and remembered for five minutes.
UssdRemember(h) ==
    /\ ussdAt[h] = "remember"
    /\ recent' = [ussdHolds[h] EXCEPT !.left = RecentTTL]
    /\ UssdAnswer(h)
    /\ UNCHANGED <<employed, known, session, guarded, choices, written, calm>>

\* checkDuplicateClockIn: has there been a clock-in within five minutes?
UssdGuard(h) ==
    /\ ussdAt[h] = "guard"
    /\ IF guarded > 0 THEN UssdAnswer(h)
       ELSE UssdGo(h, "protect") /\ UNCHANGED <<ussdIn, ussdHolds>>
    /\ UNCHANGED <<employed, redis, choices, written, calm>>

UssdProtect(h) ==
    /\ ussdAt[h] = "protect"
    /\ guarded' = GuardTTL
    /\ UssdGo(h, "log")
    /\ UNCHANGED <<employed, known, session, recent, choices, written, ussdIn, ussdHolds, calm>>

UssdLog(h) ==
    /\ ussdAt[h] = "log"
    /\ written' = [written EXCEPT ![ussdHolds[h].choice] = IF @ < 2 THEN @ + 1 ELSE 2]
    /\ UssdGo(h, "complete")
    /\ UNCHANGED <<employed, redis, choices, ussdIn, ussdHolds, calm>>

\* The session is complete; the recent copy of it still waits for a PIN.
UssdComplete(h) ==
    /\ ussdAt[h] = "complete"
    /\ session' = [session EXCEPT ![ussdIn[h]] =
                      [ussdHolds[h] EXCEPT !.state = "COMPLETE", !.left = SessionTTL]]
    /\ UssdAnswer(h)
    /\ UNCHANGED <<employed, known, recent, guarded, choices, written, calm>>

UssdBreaks(h) ==
    /\ MayBreak(h, ussdAt)
    /\ UssdAnswer(h)
    /\ UNCHANGED <<employed, redis, choices, written, calm>>

-----------------------------------------------------------------------------
\* A unit of time.  What has run out is gone; no request takes that long.
UssdTick ==
    /\ calm /\ \A h \in Handler : ussdAt[h] = "idle"
    /\ guarded + recent.left > 0 \/ \E s \in Session : session[s].left > 0
    /\ session' = [s \in Session |->
          IF session[s].left <= 1 THEN Blank ELSE [session[s] EXCEPT !.left = @ - 1]]
    /\ recent' = IF recent.left <= 1 THEN Blank ELSE [recent EXCEPT !.left = @ - 1]
    /\ guarded' = IF guarded = 0 THEN 0 ELSE guarded - 1
    /\ UNCHANGED <<employed, known, choices, written, ussdCalls, calm>>

\* An hour is over.
UssdForget ==
    /\ calm /\ known # "none"
    /\ known' = "none"
    /\ UNCHANGED <<employed, session, recent, guarded, choices, written, ussdCalls, calm>>

\* The employee's status changes; nothing tells the cache.
UssdStaffing ==
    /\ calm
    /\ employed' = ~employed
    /\ UNCHANGED <<redis, choices, written, ussdCalls, calm>>

UssdNext ==
    \/ \E h \in Handler :
          \/ \E s \in Session : Dial(h, s)
          \/ \E dialled \in BOOLEAN, input \in UssdAction \cup {"pin", "other"} :
                UssdRoute(h, dialled, input)
          \/ \E action \in UssdAction : UssdChoose(h, action)
          \/ UssdRemember(h) \/ UssdGuard(h) \/ UssdProtect(h) \/ UssdLog(h)
          \/ UssdComplete(h) \/ UssdBreaks(h)
    \/ UssdTick \/ UssdForget \/ UssdStaffing

UssdSpec == CalmInit /\ UssdInit /\ [][UssdNext]_<<ussdVars, calm>>

-----------------------------------------------------------------------------
\* Without overlap a clock-in that was chosen once is logged once: by the time the
\* guard lets another through, no session that waits for the same PIN is left,
\* whichever of them was answered and under which id.
ClockInLoggedOnce ==
    calm => \A c \in Choice : choices[c] = "CLOCK_IN" => written[c] <= 1

=============================================================================

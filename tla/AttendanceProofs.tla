-------------------------- MODULE AttendanceProofs --------------------------
(*************************************************************************)
(* What holds of clock events, of USSD sessions and of leave, for any    *)
(* number of events, days, sessions, leaves, faults and requests at one  *)
(* time.                                                                 *)
(*************************************************************************)
EXTENDS FieldAttendance, UssdSessions, LeaveForms, FiniteSetTheorems, TLAPS

(*************************************************************************)
(* Clock events.  An answer is given only after a log was found or       *)
(* written, or the event was too old; logs are never removed, and the    *)
(* kind and day of an event never change once the app has made it.       *)
(* Without overlap at the server the request under way accounts for      *)
(* whatever log has no record yet.                                       *)
(*************************************************************************)

\* An event has been logged on its day.
HasLog(e) == Logged(event[e].kind, event[e].day)

\* It has been, or was refused for its age.
Accounted(e) == HasLog(e) \/ date > event[e].day

\* Nobody knows anything of an event that has not been made.
FreshInv ==
    \A e \in Event : event[e].held = "none" =>
        /\ \A d \in Dates : logs[e][d] = 0
        /\ \A h \in Handler : postOf[h] # e
        /\ \A w \in Synchroniser : e \notin todo[w]

\* What a request has done by the time it is at some step.
RequestRow(h) ==
    /\ postAt[h] # "idle" => postOf[h] \in Event
    /\ postAt[h] \in {"record", "update", "create"} => HasLog(postOf[h])
    /\ postAt[h] = "ok" => Accounted(postOf[h])
    /\ postAt[h] = "update" => record[date].in

\* Of every request.
RequestInv == \A h \in Handler : RequestRow(h)

\* What the phone takes for delivered is accounted for.
DeliveredInv == \A e \in Event : event[e].held = "delivered" => Accounted(e)

\* The rest is about histories in which requests do not overlap at the server.
CalmRequests ==
    /\ \A g, h \in Handler : postAt[g] # "idle" /\ postAt[h] # "idle" => g = h
    /\ \A h \in Handler : postAt[h] # "error"
    /\ \A h \in Handler : postAt[h] = "create" => ~record[date].in
    /\ \A h \in Handler : postAt[h] = "log" => ~HasLog(postOf[h])

\* Without a fault nothing is given up for lost.
CalmEvents == subject = "user" /\ faults = 0 => \A e \in Event : event[e].held # "lost"

\* A kind of event is logged once a day, and whoever is about to log it is the first.
OneLog ==
    \A e, f \in Event, c, d \in Dates :
        /\ logs[e][d] <= 1
        /\ /\ event[e].kind = event[f].kind /\ event[e].day = event[f].day
           /\ logs[e][c] > 0 /\ logs[f][d] > 0
           => e = f /\ c = d

\* A record of the day says what the event does.
Recorded(e, d) == record[d].in /\ (event[e].kind = "CLOCK_OUT" => record[d].out)

\* Records follow the logs, except while the request that logged has not written one.
RecordInv ==
    \A e \in Event, d \in Dates : logs[e][d] > 0 =>
        \/ Recorded(e, d)
        \/ d = date /\ \E h \in Handler :
               postOf[h] = e /\ postAt[h] \in {"record", "update", "create"}

\* Together.
CalmInv == calm => CalmRequests /\ CalmEvents /\ OneLog /\ RecordInv

\* What is always so, and what is so without overlap.
FieldInv == FieldTypeOK /\ FreshInv /\ RequestInv /\ DeliveredInv /\ CalmInv

-----------------------------------------------------------------------------
\* A set of numbers that is finite and not empty has a smallest one.
LEMMA Smallest ==
    ASSUME NEW S \in SUBSET Nat, IsFiniteSet(S), S # {}
    PROVE  Min(S) \in S
<1> DEFINE Below(x) == {y \in S : y < x}
           T == {Below(x) : x \in S}
<1>1. T \subseteq FiniteSubsetsOf(S) /\ T # {}
  <2>1. \A x \in S : Below(x) \in SUBSET S
    OBVIOUS
  <2>2. FiniteSubsetsOf(S) = SUBSET S
    BY FS_FiniteSubsetsOfFinite
  <2> HIDE DEF Below
  <2>3. T # {}
    OBVIOUS
  <2> QED
    BY <2>1, <2>2, <2>3
<1>2. \E b \in T : \A a \in T : <<a, b>> \notin StrictSubsetOrdering(S)
  <2> HIDE DEF T
  <2> QED
    BY <1>1, WFMin, FS_StrictSubsetOrderingWellFounded
<1>3. PICK x \in S : \A z \in S : <<Below(z), Below(x)>> \notin StrictSubsetOrdering(S)
  BY <1>2
<1>4. ASSUME NEW y \in S, y < x PROVE FALSE
  <2>1. Below(y) \subseteq Below(x) /\ y \in Below(x) /\ y \notin Below(y)
    <3>1. x \in Nat /\ y \in Nat /\ \A z \in S : z \in Nat
      OBVIOUS
    <3>2. \A z \in Nat : z < y => z < x
      BY <1>4, <3>1
    <3>3. ~ (y < y)
      BY <3>1
    <3> QED
      BY <1>4, <3>1, <3>2, <3>3
  <2> QED
    BY <1>3, <2>1 DEF StrictSubsetOrdering
<1>5. \A y \in S : x <= y
  BY <1>4
<1> QED
  BY <1>5 DEF Min

\* The oldest of some events is one of them.
LEMMA OldestIsOne ==
    ASSUME NEW S \in SUBSET Event, S # {}
    PROVE  Min(S) \in S
<1>1. Event \subseteq Nat
  BY FS_CardinalityType, FieldAssumption
<1>2. IsFiniteSet(S) /\ S \in SUBSET Nat
  BY <1>1, FS_Subset, FieldAssumption
<1> QED
  BY <1>2, Smallest

-----------------------------------------------------------------------------

\* The parts of the types: the events on the phone,
EventType ==
    [Event -> [kind : {"CLOCK_IN", "CLOCK_OUT"}, day : Dates \cup {0},
               held : {"none", "tapped", "pending", "delivered", "lost"}]]

\* what is to be sent,
PhoneType == event \in EventType /\ todo \in [Synchroniser -> SUBSET Event]

\* the requests that are under way,
PostsType ==
    /\ postAt \in [Handler -> {"idle", "check", "log", "record", "update", "create", "ok", "error"}]
    /\ postOf \in [Handler -> Event \cup {0}]
    /\ postBy \in [Handler -> Synchroniser \cup {"tap", "nobody"}]
    /\ \A h \in Handler : postAt[h] = "idle" => postOf[h] = 0 /\ postBy[h] = "nobody"

\* the logs,
LogsType == logs \in [Event -> [Dates -> Nat]]

\* the records of the days,
RecordType ==
    /\ record \in [Dates -> [in : BOOLEAN, out : BOOLEAN]]
    /\ \A d \in Dates : record[d].out => record[d].in

\* and the rest.
RestType == date \in Dates /\ faults \in 0 .. MaxFaults /\ subject \in {"employee", "user"}

\* Together they are the type invariant.
LEMMA TypesApart == FieldTypeOK <=> PhoneType /\ PostsType /\ LogsType /\ RecordType /\ RestType
  BY DEF FieldTypeOK, EventType, PhoneType, PostsType, LogsType, RecordType, RestType

\* FieldInv holds before anybody clocks in.
LEMMA FieldInitially == CalmInit /\ FieldInit => FieldInv
<1> SUFFICES ASSUME CalmInit, FieldInit PROVE FieldInv
  OBVIOUS
<1>1. PhoneType /\ PostsType
  BY DEF FieldInit, PhoneType, EventType, PostsType
<1>2. LogsType /\ RecordType
  BY DEF FieldInit, LogsType, RecordType, NoRecord
<1>3. RestType
  BY FieldAssumption DEF FieldInit, RestType, Dates
<1>4. 0 \notin Event
  BY FS_CardinalityType, FieldAssumption
<1>5. FreshInv
  BY <1>4 DEF FieldInit, FreshInv
<1>6. RequestInv /\ DeliveredInv
  BY DEF FieldInit, RequestInv, RequestRow, DeliveredInv
<1>7. CalmInv
  BY DEF FieldInit, CalmInv, CalmRequests, CalmEvents, OneLog, RecordInv
<1> QED
  BY <1>1, <1>2, <1>3, <1>5, <1>6, <1>7, TypesApart DEF FieldInv

\* Only the app changes its events: one is made, or is somewhere else from now on; when
\* the app is closed all those that were only tapped are.
Made(e) ==
    /\ event[e].held = "none"
    /\ \E kind \in {"CLOCK_IN", "CLOCK_OUT"}, where \in {"tapped", "pending"} :
          event' = [event EXCEPT ![e] = [kind |-> kind, day |-> date, held |-> where]]

\* Events stay as they are, or one that was made moves on.
Moved ==
    \A e \in Event :
        /\ event'[e].kind = event[e].kind /\ event'[e].day = event[e].day
        /\ (event'[e].held = "none") = (event[e].held = "none")

\* The effects of an answer on the phone.
LEMMA AnswerTypes ==
    ASSUME PhoneType, PostsType, NEW h \in Handler
    PROVE  /\ (AfterError(h) /\ postBy[h] # "nobody") => PhoneType'
           /\ (Done(h) /\ Held(postOf[h], "delivered")) => PhoneType'
           /\ \A where \in {"lost", "pending", "delivered"} :
                (Held(postOf[h], where) /\ UNCHANGED todo) => PhoneType'
           /\ PostEnds(h) => PostsType'
           /\ \A step \in {"check", "log", "record", "update", "create", "ok", "error"} :
                (PostGo(h, step) /\ UNCHANGED <<postOf, postBy>>) => PostsType'
           /\ \A e \in Event, by \in Synchroniser \cup {"tap"} : Post(h, e, by) => PostsType'
<1>1. ASSUME NEW where \in {"lost", "pending", "delivered", event[postOf[h]].held},
             Held(postOf[h], where)
      PROVE  event' \in EventType
  BY <1>1 DEF Held, PhoneType, EventType
<1>2. Done(h) => todo' \in [Synchroniser -> SUBSET Event]
  BY DEF Done, PhoneType
<1>3. ASSUME AfterError(h), postBy[h] # "nobody" PROVE PhoneType'
  <2>1. postBy[h] \in {"tap", "syncNow", "task"}
    BY <1>3 DEF PostsType, Synchroniser
  <2>2. \E where \in {"lost", "pending", "delivered", event[postOf[h]].held} : Held(postOf[h],
      where)
    BY <1>3, <2>1 DEF AfterError
  <2> QED
    BY <1>1, <1>2, <1>3, <2>2 DEF AfterError, PhoneType
<1>4. (Done(h) /\ Held(postOf[h], "delivered")) => PhoneType'
  BY <1>1, <1>2 DEF PhoneType
<1>5. \A where \in {"lost", "pending", "delivered"} :
         (Held(postOf[h], where) /\ UNCHANGED todo) => PhoneType'
  BY <1>1 DEF PhoneType
<1>6. PostEnds(h) => PostsType'
  BY DEF PostEnds, PostGo, PostsType
<1>7. ASSUME NEW step \in {"check", "log", "record", "update", "create", "ok", "error"},
             PostGo(h, step), UNCHANGED <<postOf, postBy>>
      PROVE  PostsType'
  BY <1>7 DEF PostGo, PostsType
<1>8. ASSUME NEW e \in Event, NEW by \in Synchroniser \cup {"tap"}, Post(h, e, by)
      PROVE  PostsType'
  BY <1>8 DEF Post, PostGo, PostsType
<1> QED
  BY <1>3, <1>4, <1>5, <1>6, <1>7, <1>8

\* Every step keeps the types.
LEMMA FieldTypeStep == FieldTypeOK /\ RequestInv /\ FieldNext => FieldTypeOK'
<1> SUFFICES ASSUME FieldTypeOK, RequestInv, FieldNext PROVE FieldTypeOK'
  OBVIOUS
<1>0. PhoneType /\ PostsType /\ LogsType /\ RecordType /\ RestType
  BY TypesApart
<1>1. UNCHANGED phone => PhoneType'
  BY <1>0 DEF phone, PhoneType
<1>2. UNCHANGED posts => PostsType'
  BY <1>0 DEF posts, PostsType
<1>3. UNCHANGED logs => LogsType'
  BY <1>0 DEF LogsType
<1>4. UNCHANGED record => RecordType'
  BY <1>0 DEF RecordType
<1>5. UNCHANGED <<date, subject>> /\ (UNCHANGED faults \/ Fault) => RestType'
  BY <1>0, FieldAssumption DEF RestType, Fault
<1> DEFINE Typed == PhoneType' /\ PostsType' /\ LogsType' /\ RecordType' /\ RestType'
<1>6. ASSUME NEW h \in Handler, NEW e \in Event, NEW kind \in {"CLOCK_IN", "CLOCK_OUT"}, Clock(h,
             e, kind)
      PROVE  Typed
  <2>1. PhoneType'
    BY <1>0, <1>6 DEF Clock, PhoneType, EventType, RestType
  <2>2. PostsType'
    BY <1>0, <1>6, AnswerTypes DEF Clock
  <2> QED
    BY <1>3, <1>4, <1>5, <1>6, <2>1, <2>2 DEF Clock
<1>7. ASSUME NEW e \in Event, ManualClockIn(e) PROVE Typed
  <2>1. PhoneType'
    BY <1>0, <1>7 DEF ManualClockIn, PhoneType, EventType, RestType
  <2> QED
    BY <1>2, <1>3, <1>4, <1>5, <1>7, <2>1 DEF ManualClockIn
<1>8. ASSUME NEW w \in Synchroniser, SyncBegin(w) PROVE Typed
  <2>1. PhoneType'
    BY <1>0, <1>8 DEF SyncBegin, PhoneType, Pending
  <2> QED
    BY <1>2, <1>3, <1>4, <1>5, <1>8, <2>1 DEF SyncBegin
<1>9. ASSUME NEW h \in Handler, NEW w \in Synchroniser, SyncPost(h, w) PROVE Typed
  <2>1. Min(todo[w]) \in Event
    BY <1>0, <1>9, OldestIsOne DEF SyncPost, PhoneType
  <2>2. PostsType'
    BY <1>0, <1>9, <2>1, AnswerTypes DEF SyncPost
  <2> QED
    BY <1>1, <1>3, <1>4, <1>5, <1>9, <2>2 DEF SyncPost
<1>10. ASSUME NEW h \in Handler, Answered(h) \/ Unauthorised(h) \/ Lost(h) PROVE Typed
  <2>1. PhoneType'
    BY <1>0, <1>10, AnswerTypes DEF Answered, Unauthorised, Lost
  <2>2. PostsType'
    BY <1>0, <1>10, AnswerTypes DEF Answered, Unauthorised, Lost
  <2> QED
    BY <1>3, <1>4, <1>5, <1>10, <2>1, <2>2 DEF Answered, Unauthorised, Lost
<1>11. ASSUME NEW h \in Handler, TimesOut(h) PROVE Typed
  <2>1. PhoneType'
    BY <1>0, <1>11, AnswerTypes DEF TimesOut
  <2>2. PostsType'
    BY <1>0, <1>11 DEF TimesOut, PostsType
  <2> QED
    BY <1>3, <1>4, <1>5, <1>11, <2>1, <2>2 DEF TimesOut
<1>12. ASSUME AppStops PROVE Typed
  <2>1. event' \in EventType
    BY <1>0, <1>12 DEF AppStops, PhoneType, EventType
  <2>2. PhoneType'
    BY <1>12, <2>1 DEF AppStops, PhoneType
  <2>3. PostsType'
    BY <1>0, <1>12 DEF AppStops, PostsType
  <2> QED
    <3>1. UNCHANGED logs /\ UNCHANGED record /\ UNCHANGED <<date, subject>> /\ Fault
      BY <1>12 DEF AppStops
    <3> QED
      BY <1>3, <1>4, <1>5, <2>2, <2>3, <3>1
<1>13. ASSUME NEW h \in Handler, PostCheck(h) PROVE Typed
  <2>1. PostsType'
    BY <1>0, <1>13, AnswerTypes DEF PostCheck
  <2> QED
    BY <1>1, <1>3, <1>4, <1>5, <1>13, <2>1 DEF PostCheck
<1>14. ASSUME NEW h \in Handler, PostLog(h) PROVE Typed
  <2>1. postOf[h] \in Event /\ date \in Dates
    BY <1>0, <1>14 DEF PostLog, RequestInv, RequestRow, RestType
  <2>3. logs' = [logs EXCEPT ![postOf[h]] = [logs[postOf[h]] EXCEPT ![date] = logs[postOf[h]][date] + 1]]
    BY <1>14 DEF PostLog
  <2>4. logs[postOf[h]] \in [Dates -> Nat] /\ logs[postOf[h]][date] + 1 \in Nat
    BY <1>0, <2>1 DEF LogsType
  <2>5. LogsType'
    BY <1>0, <2>3, <2>4 DEF LogsType
  <2>2. PostsType'
    BY <1>0, <1>14, AnswerTypes DEF PostLog
  <2> QED
    BY <1>1, <1>4, <1>5, <1>14, <2>2, <2>5 DEF PostLog
<1>15. ASSUME NEW h \in Handler, PostRecord(h) PROVE Typed
  <2>1. RecordType'
    BY <1>0, <1>15 DEF PostRecord, RecordType
  <2>2. PostsType'
    BY <1>0, <1>15, AnswerTypes DEF PostRecord
  <2> QED
    BY <1>1, <1>3, <1>5, <1>15, <2>1, <2>2 DEF PostRecord
<1>16. ASSUME NEW h \in Handler, PostCreate(h) PROVE Typed
  <2>1. RecordType'
    <3> DEFINE both == [in |-> TRUE, out |-> TRUE]
    <3>1. record' = record \/ record' = [record EXCEPT ![date] = both]
      BY <1>16 DEF PostCreate
    <3>2. both \in [in : BOOLEAN, out : BOOLEAN] /\ both.in
      OBVIOUS
    <3> HIDE DEF both
    <3> QED
      BY <1>0, <3>1, <3>2 DEF RecordType
  <2>2. PostsType'
    BY <1>0, <1>16, AnswerTypes DEF PostCreate
  <2> QED
    BY <1>1, <1>3, <1>5, <1>16, <2>1, <2>2 DEF PostCreate
<1>17. ASSUME NEW h \in Handler, PostUpdate(h) PROVE Typed
  <2>1. RecordType'
    BY <1>0, <1>17 DEF PostUpdate, RecordType, RequestInv, RequestRow
  <2>2. PostsType'
    BY <1>0, <1>17, AnswerTypes DEF PostUpdate
  <2> QED
    BY <1>1, <1>3, <1>5, <1>17, <2>1, <2>2 DEF PostUpdate
<1>18. ASSUME NEW h \in Handler, PostForgotten(h) \/ PostBreaks(h) PROVE Typed
  <2>1. PostsType'
    BY <1>0, <1>18, AnswerTypes DEF PostForgotten, PostBreaks
  <2> QED
    BY <1>1, <1>3, <1>4, <1>5, <1>18, <2>1 DEF PostForgotten, PostBreaks
<1>19. ASSUME PwaCheckIn \/ PwaCheckOut \/ UssdDial("1") \/ UssdDial("2") PROVE Typed
  <2>1. \/ record' = [record EXCEPT ![date].in = TRUE]
        \/ record[date].in /\ record' = [record EXCEPT ![date].out = TRUE]
    BY <1>19 DEF PwaCheckIn, PwaCheckOut, UssdDial
  <2>2. RecordType'
    BY <1>0, <2>1 DEF RecordType
  <2>3. UNCHANGED phone /\ UNCHANGED posts /\ UNCHANGED logs /\ UNCHANGED <<date, faults,
                                                                            subject>>
    BY <1>19 DEF PwaCheckIn, PwaCheckOut, UssdDial
  <2> QED
    BY <1>1, <1>2, <1>3, <1>5, <2>2, <2>3
<1>20. ASSUME Midnight PROVE Typed
  <2>1. date' \in Dates
    BY <1>0, <1>20, FieldAssumption DEF Midnight, RestType, Dates
  <2>2. RestType'
    BY <1>0, <1>20, <2>1 DEF Midnight, RestType
  <2>3. UNCHANGED phone /\ UNCHANGED posts /\ UNCHANGED logs /\ UNCHANGED record
    BY <1>20 DEF Midnight
  <2> QED
    BY <1>1, <1>2, <1>3, <1>4, <2>2, <2>3
<1>21. Typed
  <2> HIDE DEF Typed
  <2> QED
    BY <1>6, <1>7, <1>8, <1>9, <1>10, <1>11, <1>12, <1>13, <1>14, <1>15, <1>16, <1>17, <1>18,
       <1>19, <1>20
       DEF FieldNext
<1> QED
  BY <1>21 DEF FieldTypeOK, EventType, PhoneType, PostsType, LogsType, RecordType, RestType

-----------------------------------------------------------------------------
\* An event that is moved was made before; this is what keeps the others out of sight.
LEMMA AnswerMoves ==
    ASSUME PhoneType, PostsType, FreshInv, NEW h \in Handler, postOf[h] \in Event
    PROVE  /\ (AfterError(h) /\ postBy[h] # "nobody") => Moved
           /\ \A where \in {"lost", "pending", "delivered"} : Held(postOf[h], where) => Moved
<1>1. ASSUME NEW where \in {"lost", "pending", "delivered", event[postOf[h]].held},
             Held(postOf[h], where)
      PROVE  Moved
  <2>1. event[postOf[h]].held # "none"
    BY DEF FreshInv
  <2> QED
    BY <1>1, <2>1 DEF Held, Moved, PhoneType, EventType
<1>2. ASSUME AfterError(h), postBy[h] # "nobody" PROVE Moved
  <2>1. postBy[h] \in {"tap", "syncNow", "task"}
    BY <1>2 DEF PostsType, Synchroniser
  <2>2. \E where \in {"lost", "pending", "delivered", event[postOf[h]].held} : Held(postOf[h],
      where)
    BY <1>2, <2>1 DEF AfterError
  <2> QED
    BY <1>1, <2>2
<1> QED
  BY <1>1, <1>2

\* Every step moves events or makes one.
LEMMA EventEffects ==
    ASSUME FieldTypeOK, RequestInv, FreshInv, FieldNext
    PROVE  Moved \/ \E e \in Event : Made(e)
<1>0. PhoneType /\ PostsType
  BY TypesApart
<1>1. UNCHANGED event => Moved
  BY DEF Moved
<1>2. ASSUME NEW e \in Event, ManualClockIn(e) \/ \E h \in Handler,
             kind \in {"CLOCK_IN", "CLOCK_OUT"} : Clock(h, e, kind)
      PROVE  Made(e)
  BY <1>2 DEF ManualClockIn, Clock, Made, Fresh
<1>3. ASSUME NEW h \in Handler, Answered(h) \/ Unauthorised(h) \/ Lost(h) \/ TimesOut(h)
      PROVE  Moved
  <2>1. postOf[h] \in Event
    BY <1>3 DEF Answered, Unauthorised, Lost, TimesOut, RequestInv, RequestRow
  <2> QED
    BY <1>0, <1>3, <2>1, AnswerMoves DEF Answered, Unauthorised, Lost, TimesOut
<1>4. AppStops => Moved
  BY <1>0 DEF AppStops, Moved, PhoneType, EventType
<1>5. ASSUME NEW h \in Handler,
             \/ \E w \in Synchroniser : SyncPost(h, w)
             \/ PostCheck(h) \/ PostLog(h) \/ PostRecord(h) \/ PostUpdate(h) \/ PostCreate(h)
             \/ PostForgotten(h) \/ PostBreaks(h)
      PROVE  UNCHANGED event
  BY <1>5 DEF SyncPost, PostCheck, PostLog, PostRecord, PostUpdate, PostCreate, PostForgotten,
     PostBreaks,
              phone
<1>6. ASSUME \/ \E w \in Synchroniser : SyncBegin(w)
             \/ PwaCheckIn \/ PwaCheckOut \/ UssdDial("1") \/ UssdDial("2") \/ Midnight
      PROVE  UNCHANGED event
  BY <1>6 DEF SyncBegin, PwaCheckIn, PwaCheckOut, UssdDial, Midnight, phone
<1> HIDE DEF Moved, Made
<1> QED
  BY <1>1, <1>2, <1>3, <1>4, <1>5, <1>6 DEF FieldNext

\* The server only adds to the logs and to the records, and time goes on.
LEMMA ServerEffects ==
    ASSUME FieldTypeOK, FieldNext
    PROVE  /\ UNCHANGED logs \/ \E h \in Handler : PostLog(h)
           /\ UNCHANGED date \/ Midnight
           /\ \A d \in Dates : (record[d].in => record'[d].in) /\ (record[d].out
               => record'[d].out)
<1>1. UNCHANGED logs \/ \E h \in Handler : PostLog(h)
  BY DEF FieldNext, Clock, SyncPost, Answered, Unauthorised, Lost, TimesOut, PostCheck,
     PostRecord,
     PostUpdate, PostCreate, PostForgotten, PostBreaks, ManualClockIn, SyncBegin, AppStops,
     PwaCheckIn, PwaCheckOut, UssdDial, Midnight
<1>2. UNCHANGED date \/ Midnight
  BY DEF FieldNext, Clock, SyncPost, Answered, Unauthorised, Lost, TimesOut, PostCheck, PostLog,
     PostRecord,
     PostUpdate, PostCreate, PostForgotten, PostBreaks, ManualClockIn, SyncBegin, AppStops,
     PwaCheckIn, PwaCheckOut, UssdDial
<1> DEFINE both == [in |-> TRUE, out |-> TRUE]
<1>3. \/ UNCHANGED record
      \/ record' = [record EXCEPT ![date].in = TRUE]
      \/ record' = [record EXCEPT ![date].out = TRUE]
      \/ record' = [record EXCEPT ![date] = both]
  BY DEF FieldNext, Clock, SyncPost, Answered, Unauthorised, Lost, TimesOut, PostCheck, PostLog,
     PostRecord,
     PostUpdate, PostCreate, PostForgotten, PostBreaks, ManualClockIn, SyncBegin, AppStops,
     PwaCheckIn, PwaCheckOut, UssdDial, Midnight
<1>4. both.in /\ both.out
  OBVIOUS
<1> HIDE DEF both
<1>5. \A d \in Dates : (record[d].in => record'[d].in) /\ (record[d].out => record'[d].out)
  BY <1>3, <1>4 DEF FieldTypeOK
<1> QED
  BY <1>1, <1>2, <1>5

\* So what has been accounted for stays so.
LEMMA AccountKept ==
    ASSUME FieldTypeOK, RequestInv, FreshInv, FieldNext, NEW e \in Event, event[e].held # "none"
    PROVE  /\ event'[e].kind = event[e].kind /\ event'[e].day = event[e].day
           /\ event'[e].held # "none"
           /\ HasLog(e) => HasLog(e)'
           /\ Accounted(e) => Accounted(e)'
<1>1. ASSUME NEW f \in Event, event[f].held # "none"
      PROVE  event'[f].kind = event[f].kind /\ event'[f].day = event[f].day
          /\ event'[f].held # "none"
  BY <1>1, EventEffects DEF Moved, Made, FieldTypeOK
<1>2. ASSUME NEW f \in Event, NEW d \in Dates, logs[f][d] > 0
      PROVE  event[f].held # "none" /\ logs'[f][d] > 0
  <2>1. logs[f][d] \in Nat /\ date \in Dates /\ logs \in [Event -> [Dates -> Nat]]
    BY DEF FieldTypeOK
  <2>2. event[f].held # "none"
    BY <1>2, <2>1 DEF FreshInv
  <2>3. ASSUME NEW h \in Handler, PostLog(h) PROVE logs'[f][d] > 0
    <3>1. postOf[h] \in Event
      BY <2>3 DEF PostLog, RequestInv, RequestRow
    <3>2. logs'[f][d] = logs[f][d] \/ logs'[f][d] = logs[f][d] + 1
      BY <2>1, <2>3, <3>1 DEF PostLog
    <3> QED
      BY <1>2, <2>1, <3>2
  <2> QED
    BY <1>2, <2>2, <2>3, ServerEffects
<1>3. ASSUME HasLog(e) PROVE HasLog(e)'
  <2>1. PICK f \in Event, d \in Dates :
            event[f].kind = event[e].kind /\ event[f].day = event[e].day /\ logs[f][d] > 0
    BY <1>3 DEF HasLog, Logged
  <2>2. event[f].held # "none" /\ logs'[f][d] > 0
    BY <1>2, <2>1
  <2> QED
    BY <1>1, <2>1, <2>2 DEF HasLog, Logged
<1>4. ASSUME date > event[e].day PROVE date' > event'[e].day
  <2>1. date \in Nat /\ event[e].day \in Nat /\ (date' = date \/ date' = date + 1)
    BY ServerEffects, FieldAssumption DEF FieldTypeOK, Dates, Midnight
  <2> QED
    BY <1>1, <1>4, <2>1
<1> QED
  BY <1>1, <1>3, <1>4 DEF Accounted

\* A request is about the event it was made for; a synchronisation sends what it has read.
LEMMA RequestEffects ==
    ASSUME FieldTypeOK, FieldNext
    PROVE  /\ \A g \in Handler :
                \/ postOf'[g] = postOf[g] \/ postOf'[g] = 0
                \/ event'[postOf'[g]].held # "none" /\ postOf'[g] \in Event
                \/ \E w \in Synchroniser : postOf'[g] \in todo[w]
           /\ \A w \in Synchroniser : todo'[w] \subseteq todo[w] \/ todo'[w] = Pending
<1>0. PhoneType /\ PostsType
  BY TypesApart
<1> DEFINE Of == \A g \in Handler :
                \/ postOf'[g] = postOf[g] \/ postOf'[g] = 0
                \/ event'[postOf'[g]].held # "none" /\ postOf'[g] \in Event
                \/ \E w \in Synchroniser : postOf'[g] \in todo[w]
           Todo == \A w \in Synchroniser : todo'[w] \subseteq todo[w] \/ todo'[w] = Pending
<1>1. UNCHANGED postOf => Of
  OBVIOUS
<1>2. \A h \in Handler : PostEnds(h) => Of
  BY <1>0 DEF PostEnds, PostsType
<1>3. UNCHANGED todo => Todo
  OBVIOUS
<1>4. \A h \in Handler : Done(h) => Todo
  BY DEF Done
<1>5. ASSUME NEW h \in Handler, NEW e \in Event, NEW kind \in {"CLOCK_IN", "CLOCK_OUT"}, Clock(h,
             e, kind)
      PROVE  Of /\ Todo
  <2>1. Of
    BY <1>0, <1>5 DEF Clock, Post, PostsType, PhoneType, EventType
  <2> QED
    BY <1>3, <1>5, <2>1 DEF Clock
<1>6. ASSUME NEW h \in Handler, NEW w \in Synchroniser, SyncPost(h, w) PROVE Of /\ Todo
  <2>1. Min(todo[w]) \in todo[w]
    BY <1>0, <1>6, OldestIsOne DEF SyncPost, PhoneType
  <2>2. Of
    BY <1>0, <1>6, <2>1 DEF SyncPost, Post, PostsType
  <2> QED
    BY <1>3, <1>6, <2>2 DEF SyncPost, phone
<1>7. ASSUME NEW h \in Handler, Answered(h) \/ Unauthorised(h) \/ Lost(h) PROVE Of /\ Todo
  <2>1. PostEnds(h) /\ (Done(h) \/ UNCHANGED todo)
    BY <1>7 DEF Answered, Unauthorised, Lost, AfterError
  <2> HIDE DEF Of, Todo
  <2> QED
    BY <1>2, <1>3, <1>4, <2>1
<1>8. ASSUME NEW h \in Handler, TimesOut(h) PROVE Of /\ Todo
  BY <1>1, <1>4, <1>8 DEF TimesOut, AfterError
<1>9. ASSUME AppStops PROVE Of /\ Todo
  BY <1>9 DEF AppStops
<1>10. ASSUME NEW h \in Handler, PostForgotten(h) PROVE Of /\ Todo
  BY <1>2, <1>3, <1>10 DEF PostForgotten, phone
<1>11. ASSUME NEW h \in Handler,
              PostCheck(h) \/ PostLog(h) \/ PostRecord(h) \/ PostUpdate(h) \/ PostCreate(h)
                  \/ PostBreaks(h)
       PROVE  UNCHANGED <<postOf, todo>>
  BY <1>11 DEF PostCheck, PostLog, PostRecord, PostUpdate, PostCreate, PostBreaks, phone
<1>12. ASSUME \/ \E e \in Event : ManualClockIn(e)
              \/ PwaCheckIn \/ PwaCheckOut \/ UssdDial("1") \/ UssdDial("2") \/ Midnight
       PROVE  UNCHANGED <<postOf, todo>>
  BY <1>12 DEF ManualClockIn, PwaCheckIn, PwaCheckOut, UssdDial, Midnight, phone, posts
<1>13. ASSUME NEW w \in Synchroniser, SyncBegin(w) PROVE Of /\ Todo
  BY <1>0, <1>1, <1>13 DEF SyncBegin, posts, PhoneType
<1> HIDE DEF Of, Todo
<1>14. Of /\ Todo
  BY <1>1, <1>3, <1>5, <1>6, <1>7, <1>8, <1>9, <1>10, <1>11, <1>12, <1>13 DEF FieldNext
<1> QED
  BY <1>14 DEF Of, Todo

\* Every step keeps FreshInv.
LEMMA FreshStep == FieldTypeOK /\ RequestInv /\ FreshInv /\ FieldNext => FreshInv'
<1> SUFFICES ASSUME FieldTypeOK, RequestInv, FreshInv, FieldNext,
                    NEW e \in Event, event'[e].held = "none"
             PROVE  /\ \A d \in Dates : logs'[e][d] = 0
                    /\ \A h \in Handler : postOf'[h] # e
                    /\ \A w \in Synchroniser : e \notin todo'[w]
  BY DEF FreshInv
<1>1. event[e].held = "none"
  BY AccountKept
<1>2. ASSUME NEW d \in Dates PROVE logs'[e][d] = 0
  <2>1. ASSUME NEW h \in Handler, PostLog(h) PROVE logs'[e] = logs[e]
    BY <1>1, <2>1 DEF PostLog, FreshInv, FieldTypeOK
  <2> QED
    BY <1>1, <2>1, ServerEffects DEF FreshInv
<1>3. 0 \notin Event
  BY FS_CardinalityType, FieldAssumption
<1>4. \A w \in Synchroniser : e \notin todo[w] /\ e \notin Pending
  BY <1>1 DEF FreshInv, Pending
<1>5. ASSUME NEW h \in Handler PROVE postOf'[h] # e
  BY <1>1, <1>3, <1>4, RequestEffects DEF FreshInv
<1>6. ASSUME NEW w \in Synchroniser PROVE e \notin todo'[w]
  BY <1>4, RequestEffects
<1> QED
  BY <1>2, <1>5, <1>6

\* Every step keeps RequestInv.
LEMMA RequestStep == FieldTypeOK /\ RequestInv /\ FreshInv /\ FieldNext => RequestInv'
<1> SUFFICES ASSUME FieldTypeOK, RequestInv, FreshInv, FieldNext PROVE RequestInv'
  OBVIOUS
<1>0. PhoneType /\ PostsType
  BY TypesApart
<1>1. ASSUME NEW g \in Handler, postAt[g] # "idle"
      PROVE  postOf[g] \in Event /\ event[postOf[g]].held # "none" /\ date' = date
  <2>1. postOf[g] \in Event
    BY <1>1 DEF RequestInv, RequestRow
  <2>2. event[postOf[g]].held # "none"
    BY <2>1 DEF FreshInv
  <2>3. ~Midnight
    BY <1>1 DEF Midnight, Undisturbing
  <2>4. date' = date
    BY <2>3, ServerEffects
  <2> QED
    BY <2>1, <2>2, <2>4
<1>2. ASSUME NEW g \in Handler, NEW e \in Event, NEW step,
             event[e].held # "none", postAt'[g] = step, postOf'[g] = e,
             step \in {"record", "update", "create"} => HasLog(e) \/ HasLog(e)',
             step = "ok" => Accounted(e) \/ HasLog(e)',
             step = "update" => record'[date'].in
      PROVE  RequestRow(g)'
  <2>1. HasLog(e) => HasLog(e)'
    BY <1>2, AccountKept
  <2>2. Accounted(e) => Accounted(e)'
    BY <1>2, AccountKept
  <2>3. HasLog(e)' => Accounted(e)'
    BY DEF Accounted
  <2> DEFINE here == HasLog(e)'
             there == Accounted(e)'
  <2>4. (here => HasLog(postOf[g])') /\ (there => Accounted(postOf[g])')
    BY <1>2 DEF HasLog, Accounted, Logged
  <2> QED
    BY <1>2, <2>1, <2>2, <2>3, <2>4 DEF RequestRow
<1>3. ASSUME NEW g \in Handler, postAt'[g] = postAt[g], postOf'[g] = postOf[g]
      PROVE  RequestRow(g)'
  <2>1. CASE postAt[g] = "idle"
    BY <1>3, <2>1 DEF RequestRow
  <2>2. CASE postAt[g] # "idle"
    <3>1. PICK e \in Event : e = postOf[g]
      BY <1>1, <2>2
    <3>2. RequestRow(g)
      BY DEF RequestInv
    <3>3. postAt[g] = "update" => record'[date'].in
      BY <1>1, <2>2, <3>2, ServerEffects DEF RequestRow, FieldTypeOK
    <3>4. /\ postAt[g] \in {"record", "update", "create"} => HasLog(e)
          /\ postAt[g] = "ok" => Accounted(e)
      BY <3>1, <3>2 DEF RequestRow
    <3> QED
      BY <1>1, <1>2, <1>3, <2>2, <3>1, <3>3, <3>4
  <2> QED
    BY <2>1, <2>2
<1>4. ASSUME UNCHANGED <<postAt, postOf>> PROVE RequestInv'
  BY <1>3, <1>4 DEF RequestInv
<1>5. ASSUME NEW h \in Handler, \A g \in Handler \ {h} : postAt'[g] = postAt[g]
             /\ postOf'[g] = postOf[g],
             RequestRow(h)'
      PROVE  RequestInv'
  BY <1>3, <1>5 DEF RequestInv
<1>6. ASSUME NEW h \in Handler, PostEnds(h) PROVE RequestInv'
  <2>1. RequestRow(h)'
    BY <1>0, <1>6 DEF PostEnds, PostGo, PostsType, RequestRow
  <2> QED
    BY <1>0, <1>5, <1>6, <2>1 DEF PostEnds, PostGo, PostsType
<1>7. ASSUME NEW h \in Handler, NEW e \in Event, NEW by, Post(h, e, by) PROVE RequestInv'
  <2>1. RequestRow(h)'
    BY <1>0, <1>7 DEF Post, PostGo, PostsType, RequestRow
  <2> QED
    BY <1>0, <1>5, <1>7, <2>1 DEF Post, PostGo, PostsType
<1>8. ASSUME NEW h \in Handler, postAt[h] # "idle", NEW step, PostGo(h, step), UNCHANGED postOf,
             \A e \in Event : e = postOf[h] /\ event[e].held # "none" =>
                /\ step \in {"record", "update", "create"} => HasLog(e) \/ HasLog(e)'
                /\ step = "ok" => Accounted(e) \/ HasLog(e)',
             step = "update" => record'[date'].in
      PROVE  RequestInv'
  <2>1. PICK e \in Event : e = postOf[h]
    BY <1>1, <1>8
  <2>2. event[e].held # "none" /\ postAt'[h] = step /\ postOf'[h] = e
    BY <1>0, <1>1, <1>8, <2>1 DEF PostGo, PostsType
  <2>3. RequestRow(h)'
    BY <1>2, <1>8, <2>1, <2>2
  <2> QED
    BY <1>0, <1>5, <1>8, <2>3 DEF PostGo, PostsType
<1>9. ASSUME NEW h \in Handler, NEW e \in Event, NEW kind \in {"CLOCK_IN", "CLOCK_OUT"}, Clock(h,
             e, kind)
      PROVE  RequestInv'
  BY <1>7, <1>9 DEF Clock
<1>10. ASSUME NEW h \in Handler, NEW w \in Synchroniser, SyncPost(h, w) PROVE RequestInv'
  <2>1. Min(todo[w]) \in Event
    BY <1>0, <1>10, OldestIsOne DEF SyncPost, PhoneType
  <2> QED
    BY <1>7, <1>10, <2>1 DEF SyncPost
<1>11. ASSUME NEW h \in Handler, Answered(h) \/ Unauthorised(h) \/ Lost(h) \/ PostForgotten(h)
       PROVE  RequestInv'
  BY <1>6, <1>11 DEF Answered, Unauthorised, Lost, PostForgotten
<1>12. ASSUME \/ \E h \in Handler : TimesOut(h)
              \/ \E e \in Event : ManualClockIn(e)
              \/ \E w \in Synchroniser : SyncBegin(w)
              \/ AppStops \/ PwaCheckIn \/ PwaCheckOut \/ UssdDial("1") \/ UssdDial("2")
                  \/ Midnight
       PROVE  RequestInv'
  <2>1. UNCHANGED <<postAt, postOf>>
    BY <1>12 DEF TimesOut, ManualClockIn, SyncBegin, AppStops, PwaCheckIn, PwaCheckOut, UssdDial,
                 Midnight, posts
  <2> QED
    BY <1>4, <2>1
<1>13. ASSUME NEW h \in Handler, PostCheck(h) PROVE RequestInv'
  <2>1. PICK old \in TooOld(postOf[h]) :
            PostGo(h, IF old \/ HasLog(postOf[h]) THEN "ok" ELSE "log")
    BY <1>13 DEF PostCheck, HasLog
  <2>2. old => date > event[postOf[h]].day
    BY DEF TooOld
  <2>3. postAt[h] # "idle" /\ UNCHANGED postOf
    BY <1>13 DEF PostCheck
  <2>4. PICK step : step = IF old \/ HasLog(postOf[h]) THEN "ok" ELSE "log"
    OBVIOUS
  <2>5. PostGo(h, step) /\ step \in {"ok", "log"} /\ (step = "ok" => Accounted(postOf[h]))
    BY <2>1, <2>2, <2>4 DEF Accounted
  <2> HIDE DEF Accounted
  <2> QED
    BY <1>8, <2>3, <2>5
<1>14. ASSUME NEW h \in Handler, PostLog(h) PROVE RequestInv'
  <2>1. ASSUME NEW e \in Event, e = postOf[h] PROVE HasLog(e)'
    <3>1. date \in Dates /\ logs[e][date] \in Nat /\ logs \in [Event -> [Dates -> Nat]]
      BY DEF FieldTypeOK
    <3>2. logs'[e][date] = logs[e][date] + 1
      BY <1>14, <2>1, <3>1 DEF PostLog
    <3>3. logs'[e][date] > 0
      BY <3>1, <3>2
    <3> QED
      BY <3>1, <3>3 DEF HasLog, Logged
  <2>2. postAt[h] # "idle" /\ UNCHANGED postOf /\ PostGo(h, "record")
    BY <1>14 DEF PostLog
  <2> QED
    BY <1>8, <2>1, <2>2
<1>15. ASSUME NEW h \in Handler, postAt[h] \in {"record", "update", "create"}, UNCHANGED postOf,
              NEW step \in {"update", "create", "ok", "error"}, PostGo(h, step),
              step = "update" => record'[date'].in
       PROVE  RequestInv'
  <2>1. HasLog(postOf[h])
    BY <1>15 DEF RequestInv, RequestRow
  <2>2. Accounted(postOf[h])
    BY <2>1 DEF Accounted
  <2> HIDE DEF HasLog, Accounted
  <2> QED
    BY <1>8, <1>15, <2>1, <2>2
<1>16. ASSUME NEW h \in Handler, PostRecord(h) PROVE RequestInv'
  <2>1. UNCHANGED <<postOf, date>> /\ postAt[h] = "record"
    BY <1>16 DEF PostRecord
  <2>2. PICK step \in {"update", "create", "ok"} :
            PostGo(h, step) /\ (step = "update" => record[date].in /\ UNCHANGED record)
    BY <1>16 DEF PostRecord
  <2> QED
    BY <1>15, <2>1, <2>2
<1>17. ASSUME NEW h \in Handler, PostUpdate(h) \/ PostCreate(h) PROVE RequestInv'
  <2>1. UNCHANGED postOf /\ postAt[h] \in {"update", "create"}
    BY <1>17 DEF PostUpdate, PostCreate
  <2>2. PostGo(h, "ok") \/ PostGo(h, "error")
    BY <1>17 DEF PostUpdate, PostCreate
  <2> QED
    BY <1>15, <2>1, <2>2
<1>18. ASSUME NEW h \in Handler, PostBreaks(h) PROVE RequestInv'
  <2>1. UNCHANGED postOf /\ postAt[h] # "idle" /\ PostGo(h, "error")
    BY <1>18 DEF PostBreaks, MayBreak
  <2> QED
    BY <1>8, <2>1
<1> QED
  BY <1>9, <1>10, <1>11, <1>12, <1>13, <1>14, <1>16, <1>17, <1>18 DEF FieldNext

\* The app takes an event for delivered when it has the server's word for it.
LEMMA DeliveredStep == FieldTypeOK /\ RequestInv /\ FreshInv /\ DeliveredInv /\ FieldNext
         => DeliveredInv'
<1> SUFFICES ASSUME FieldTypeOK, RequestInv, FreshInv, DeliveredInv, FieldNext,
                    NEW e \in Event, event'[e].held = "delivered"
             PROVE  Accounted(e)'
  BY DEF DeliveredInv
<1>0. PhoneType /\ PostsType
  BY TypesApart
<1>1. ASSUME event[e].held # "none", Accounted(e) PROVE Accounted(e)'
  BY <1>1, AccountKept
<1>2. CASE event[e].held = "delivered"
  BY <1>1, <1>2 DEF DeliveredInv
<1>3. CASE event[e].held # "delivered"
  <2>1. PICK h \in Handler : Answered(h) \/ Unauthorised(h) \/ Lost(h) \/ TimesOut(h)
    <3>1. event' # event
      BY <1>3
    <3>2. ASSUME NEW f \in Event, Made(f) PROVE FALSE
      BY <1>0, <1>3, <3>2 DEF Made, PhoneType, EventType
    <3>3. ASSUME NEW f \in Event, ManualClockIn(f) \/
                 \E h \in Handler, kind \in {"CLOCK_IN", "CLOCK_OUT"} : Clock(h, f, kind)
          PROVE  FALSE
      BY <3>2, <3>3 DEF ManualClockIn, Clock, Made, Fresh
    <3>4. ~AppStops
      BY <1>0, <1>3 DEF AppStops, PhoneType, EventType
    <3> QED
      BY <3>1, <3>3, <3>4 DEF FieldNext, SyncPost, PostCheck, PostLog, PostRecord, PostUpdate,
         PostCreate,
         PostForgotten, PostBreaks, SyncBegin, PwaCheckIn, PwaCheckOut, UssdDial, Midnight, phone
  <2>2. ASSUME NEW where, where # "delivered", Held(postOf[h], where) PROVE FALSE
    BY <1>0, <1>3, <2>2 DEF Held, PhoneType, EventType
  <2>3. ASSUME AfterError(h), postBy[h] # "nobody" PROVE FALSE
    <3>1. postBy[h] \in {"tap", "syncNow", "task"}
      BY <1>0, <2>3 DEF PostsType, Synchroniser
    <3>2. Held(postOf[h], "pending") \/ Held(postOf[h], "lost") \/ Held(postOf[h],
        event[postOf[h]].held)
      BY <2>3, <3>1 DEF AfterError
    <3>3. ~Held(postOf[h], event[postOf[h]].held)
      BY <1>0, <1>3 DEF Held, PhoneType, EventType
    <3> QED
      BY <2>2, <3>2, <3>3
  <2>4. postAt[h] = "ok" /\ Held(postOf[h], "delivered")
    BY <2>1, <2>2, <2>3 DEF Answered, Unauthorised, Lost, TimesOut
  <2>5. e = postOf[h]
    BY <1>0, <1>3, <2>4 DEF Held, PhoneType, EventType
  <2>6. Accounted(e) /\ event[e].held # "none"
    BY <2>4, <2>5 DEF RequestInv, RequestRow, FreshInv
  <2> QED
    BY <1>1, <2>6
<1> QED
  BY <1>2, <1>3

-----------------------------------------------------------------------------

\* No step changes what kind of history it is.
LEMMA FieldCalm == FieldNext => calm' = calm
  BY DEF FieldNext, Clock, SyncPost, Answered, Unauthorised, Lost, TimesOut, PostCheck, PostLog,
     PostRecord,
     PostUpdate, PostCreate, PostForgotten, PostBreaks, ManualClockIn, SyncBegin, AppStops,
     PwaCheckIn, PwaCheckOut, UssdDial, Midnight

\* In a calm history requests begin one after the other and none is broken off: besides
\* the phone's own steps and those that wait until nothing is under way, only one
\* request can move.
RequestStepOf(h) ==
    \/ \E e \in Event, kind \in {"CLOCK_IN", "CLOCK_OUT"} : Clock(h, e, kind)
    \/ \E w \in Synchroniser : SyncPost(h, w)
    \/ Answered(h) \/ Unauthorised(h) \/ Lost(h)
    \/ PostCheck(h) \/ PostLog(h) \/ PostRecord(h) \/ PostUpdate(h) \/ PostCreate(h)
    \/ PostForgotten(h)

\* Steps at the phone that start no request,
Aside == (\E e \in Event : ManualClockIn(e)) \/ \E w \in Synchroniser : SyncBegin(w)

\* and steps that happen when no request is under way.
Between == PwaCheckIn \/ PwaCheckOut \/ UssdDial("1") \/ UssdDial("2") \/ Midnight

\* Without overlap a step is one of these, or of the one request.
LEMMA CalmNext ==
    ASSUME FieldTypeOK, CalmRequests, calm, FieldNext
    PROVE  \/ \E h \in Handler : RequestStepOf(h) /\ \A g \in Handler \ {h} :
                  postAt[g] = "idle" /\ postAt'[g] = "idle" /\ postOf'[g] = postOf[g]
           \/ Aside
           \/ Between /\ \A h \in Handler : postAt[h] = "idle"
<1>1. ASSUME NEW h \in Handler, RequestStepOf(h), NEW g \in Handler \ {h}
      PROVE  postAt[g] = "idle" /\ postAt'[g] = postAt[g] /\ postOf'[g] = postOf[g]
  <2>1. postAt'[g] = postAt[g] /\ postOf'[g] = postOf[g]
    BY <1>1 DEF RequestStepOf, Clock, SyncPost, Answered, Unauthorised, Lost, PostCheck,
       PostLog, PostRecord,
       PostUpdate, PostCreate, PostForgotten, Post, PostEnds, PostGo, FieldTypeOK
  <2>2. postAt[g] = "idle"
    <3>1. CASE postAt[h] # "idle"
      BY <3>1 DEF CalmRequests
    <3>2. CASE postAt[h] = "idle"
      BY <1>1, <3>2 DEF RequestStepOf, Clock, SyncPost, Answered, Unauthorised, Lost, PostCheck,
         PostLog, PostRecord,
         PostUpdate, PostCreate, PostForgotten, Post, MayTake
    <3> QED
      BY <3>1, <3>2
  <2> QED
    BY <2>1, <2>2
<1>2. ~AppStops /\ \A h \in Handler : ~TimesOut(h) /\ ~PostBreaks(h)
  BY DEF AppStops, TimesOut, PostBreaks, MayBreak
<1>3. Between => \A h \in Handler : postAt[h] = "idle"
  BY DEF Between, PwaCheckIn, PwaCheckOut, UssdDial, Midnight, Undisturbing
<1>4. (\E h \in Handler : RequestStepOf(h)) \/ Aside \/ Between
  BY <1>2 DEF FieldNext, RequestStepOf, Aside, Between
<1> QED
  BY <1>1, <1>3, <1>4

\* A request that ends needs no more of it.
LEMMA CalmRequestsStep ==
    ASSUME FieldTypeOK, RequestInv, FreshInv, CalmRequests, calm, FieldNext
    PROVE  CalmRequests'
<1>0. PhoneType /\ PostsType
  BY TypesApart
<1>1. ASSUME NEW h \in Handler, RequestStepOf(h),
             \A g \in Handler \ {h} : postAt[g] = "idle" /\ postAt'[g] = "idle"
                 /\ postOf'[g] = postOf[g]
      PROVE  CalmRequests'
  <2>1. ASSUME NEW step, postAt'[h] = step, step \notin {"error", "create", "log"}
        PROVE  CalmRequests'
    BY <1>1, <2>1 DEF CalmRequests
  <2>2. ASSUME PostEnds(h) PROVE CalmRequests'
    BY <1>0, <2>1, <2>2 DEF PostEnds, PostGo, PostsType
  <2>3. ASSUME NEW e, NEW by, Post(h, e, by) PROVE CalmRequests'
    BY <1>0, <2>1, <2>3 DEF Post, PostGo, PostsType
  <2>4. ASSUME PostLog(h) \/ PostUpdate(h) PROVE CalmRequests'
    BY <1>0, <2>1, <2>4 DEF PostLog, PostUpdate, PostGo, PostsType
  <2>5. ASSUME PostCreate(h) PROVE CalmRequests'
    <3>1. PostGo(h, "ok")
      BY <2>5 DEF PostCreate, CalmRequests
    <3> QED
      BY <1>0, <2>1, <3>1 DEF PostGo, PostsType
  <2>6. ASSUME PostRecord(h) PROVE CalmRequests'
    <3>1. PICK step \in {"ok", "update", "create"} :
            postAt'[h] = step /\ (step = "create" => ~record[date].in /\ UNCHANGED <<record,
                                                                                     date>>)
      BY <1>0, <2>6 DEF PostRecord, PostGo, PostsType
    <3> QED
      BY <1>1, <2>1, <3>1 DEF CalmRequests
  <2>7. ASSUME PostCheck(h) PROVE CalmRequests'
    <3>1. \/ postAt'[h] = "ok"
          \/ postAt'[h] = "log" /\ ~HasLog(postOf[h]) /\ UNCHANGED <<event, logs, postOf>>
      BY <1>0, <2>7 DEF PostCheck, PostGo, PostsType, HasLog, phone
    <3>2. UNCHANGED <<event, logs, postOf>> /\ ~HasLog(postOf[h]) => ~HasLog(postOf[h])'
      BY DEF HasLog, Logged
    <3> QED
      BY <1>1, <2>1, <3>1, <3>2 DEF CalmRequests
  <2> QED
    BY <1>1, <2>2, <2>3, <2>4, <2>5, <2>6, <2>7
       DEF RequestStepOf, Clock, SyncPost, Answered, Unauthorised, Lost, PostForgotten
<1>2. ASSUME Aside PROVE CalmRequests'
  <2>1. UNCHANGED <<postAt, postOf, logs, record, date>>
    BY <1>2 DEF Aside, ManualClockIn, SyncBegin, posts
  <2>2. ASSUME NEW h \in Handler, postAt[h] = "log" PROVE ~HasLog(postOf[h])'
    <3>1. PICK e \in Event : e = postOf[h] /\ event[e].held # "none"
      BY <2>2 DEF RequestInv, RequestRow, FreshInv
    <3>2. ASSUME NEW f \in Event, NEW d \in Dates, logs[f][d] > 0,
                 event'[f].kind = event'[e].kind, event'[f].day = event'[e].day
          PROVE  FALSE
      <4>1. event[f].held # "none"
        BY <3>2 DEF FreshInv
      <4>2. event[f].kind = event[e].kind /\ event[f].day = event[e].day
        BY <3>1, <3>2, <4>1, AccountKept
      <4>3. HasLog(e)
        BY <3>2, <4>2 DEF HasLog, Logged
      <4> QED
        BY <2>2, <3>1, <4>3 DEF CalmRequests
    <3>3. ~HasLog(e)'
      BY <2>1, <3>2 DEF HasLog, Logged
    <3>4. postOf'[h] = e
      BY <2>1, <3>1
    <3> QED
      BY <3>3, <3>4 DEF HasLog
  <2> QED
    BY <2>1, <2>2 DEF CalmRequests
<1>3. ASSUME Between, \A h \in Handler : postAt[h] = "idle" PROVE CalmRequests'
  BY <1>3 DEF Between, PwaCheckIn, PwaCheckOut, UssdDial, Midnight, posts, CalmRequests
<1> QED
  BY <1>1, <1>2, <1>3, CalmNext

\* Without a fault every request about an event is answered well, and the app knows it.
LEMMA CalmEventsStep ==
    ASSUME FieldTypeOK, RequestInv, FreshInv, CalmRequests, CalmEvents, calm, FieldNext
    PROVE  CalmEvents'
<1> SUFFICES ASSUME subject' = "user", faults' = 0, NEW e \in Event PROVE event'[e].held # "lost"
  BY DEF CalmEvents
<1>0. PhoneType /\ PostsType
  BY TypesApart
<1>1. subject = "user"
  BY DEF FieldNext, Clock, SyncPost, Answered, Unauthorised, Lost, TimesOut, PostCheck, PostLog,
     PostRecord,
     PostUpdate, PostCreate, PostForgotten, PostBreaks, ManualClockIn, SyncBegin, AppStops,
     PwaCheckIn, PwaCheckOut, UssdDial, Midnight
<1>2. ~Fault
  BY DEF Fault, FieldTypeOK
<1>3. \A h \in Handler : ~Unauthorised(h) /\ ~Lost(h)
  BY <1>1, <1>2 DEF Unauthorised, Lost
<1>4. faults = 0
  BY <1>2, <1>3, CalmNext DEF RequestStepOf, Aside, Between, Clock, SyncPost, Answered,
     PostCheck, PostLog, PostRecord,
     PostUpdate, PostCreate, PostForgotten, ManualClockIn, SyncBegin, PwaCheckIn, PwaCheckOut,
     UssdDial,
     Midnight
<1>5. event[e].held # "lost"
  BY <1>1, <1>4 DEF CalmEvents
<1>6. UNCHANGED event => event'[e].held # "lost"
  BY <1>5
<1>7. ASSUME NEW f \in Event, Made(f) PROVE event'[e].held # "lost"
  BY <1>0, <1>5, <1>7 DEF Made, PhoneType, EventType
<1>8. ASSUME NEW f \in Event, ManualClockIn(f) \/
             \E h \in Handler, kind \in {"CLOCK_IN", "CLOCK_OUT"} : Clock(h, f, kind)
      PROVE  event'[e].held # "lost"
  BY <1>7, <1>8 DEF ManualClockIn, Clock, Made, Fresh
<1>9. ASSUME NEW h \in Handler, Answered(h) PROVE event'[e].held # "lost"
  <2>1. Held(postOf[h], "delivered")
    BY <1>9 DEF Answered, CalmRequests
  <2> QED
    BY <1>0, <1>5, <2>1 DEF Held, PhoneType, EventType
<1> QED
  BY <1>3, <1>6, <1>8, <1>9, CalmNext DEF RequestStepOf, Aside, Between, SyncPost, PostCheck,
     PostLog, PostRecord,
     PostUpdate, PostCreate, PostForgotten, SyncBegin, PwaCheckIn, PwaCheckOut, UssdDial,
     Midnight, phone

\* Whoever writes a log has looked for one, and nobody has written one since.
LEMMA OneLogStep ==
    ASSUME FieldTypeOK, RequestInv, FreshInv, CalmRequests, OneLog, calm, FieldNext
    PROVE  OneLog'
<1>0. PhoneType /\ PostsType /\ logs \in [Event -> [Dates -> Nat]] /\ date \in Dates
  BY TypesApart DEF FieldTypeOK
<1>1. \A e \in Event, d \in Dates : logs[e][d] \in Nat /\ logs[e][d] <= 1
  BY <1>0 DEF OneLog
<1>2. CASE UNCHANGED logs
  <2> SUFFICES ASSUME NEW e \in Event, NEW f \in Event, NEW c \in Dates, NEW d \in Dates,
                      event'[e].kind = event'[f].kind, event'[e].day = event'[f].day,
                      logs[e][c] > 0, logs[f][d] > 0
               PROVE  e = f /\ c = d
    BY <1>1, <1>2 DEF OneLog
  <2>1. event[e].held # "none" /\ event[f].held # "none"
    BY <1>1 DEF FreshInv
  <2>2. event[e].kind = event[f].kind /\ event[e].day = event[f].day
    BY <2>1, AccountKept
  <2> QED
    BY <2>2 DEF OneLog
<1>3. ASSUME NEW h \in Handler, PostLog(h) PROVE OneLog'
  <2>1. PICK e \in Event : e = postOf[h]
    BY <1>3 DEF PostLog, RequestInv, RequestRow
  <2>2. ~HasLog(e) /\ UNCHANGED event
    BY <1>3, <2>1 DEF PostLog, CalmRequests, phone
  <2>3. \A f \in Event, d \in Dates : event[f].kind = event[e].kind /\ event[f].day = event[e].day
            => ~(logs[f][d] > 0)
    BY <2>2 DEF HasLog, Logged
  <2>4. \A f \in Event, d \in Dates : logs'[f][d] =
            IF f = e /\ d = date THEN logs[f][d] + 1 ELSE logs[f][d]
    BY <1>0, <1>3, <2>1 DEF PostLog
  <2>5. \A d \in Dates : logs[e][d] = 0
    BY <1>1, <2>3
  <2>6. ASSUME NEW f \in Event, NEW d \in Dates PROVE logs'[f][d] <= 1
    BY <1>1, <2>4, <2>5, <1>0
  <2>7. ASSUME NEW f \in Event, NEW d \in Dates, logs'[f][d] > 0
        PROVE  (f = e /\ d = date) \/ logs[f][d] > 0
    BY <2>4, <2>7
  <2>8. ASSUME NEW f \in Event, NEW g \in Event, NEW c \in Dates, NEW d \in Dates,
               event[f].kind = event[g].kind, event[f].day = event[g].day,
               logs'[f][c] > 0, logs'[g][d] > 0
        PROVE  f = g /\ c = d
    BY <2>3, <2>7, <2>8 DEF OneLog
  <2> QED
    BY <2>2, <2>6, <2>8 DEF OneLog
<1> QED
  BY <1>2, <1>3, ServerEffects

\* The request that has written a log sees to the record of the day before it is answered.
LEMMA RecordStep ==
    ASSUME FieldTypeOK, RequestInv, FreshInv, CalmRequests, RecordInv, calm, FieldNext
    PROVE  RecordInv'
<1> SUFFICES ASSUME NEW e \in Event, NEW d \in Dates, logs'[e][d] > 0
             PROVE  \/ Recorded(e, d)'
                    \/ d = date' /\ \E h \in Handler :
                           postOf'[h] = e /\ postAt'[h] \in {"record", "update", "create"}
  BY DEF RecordInv
<1>0. /\ PhoneType /\ PostsType /\ logs \in [Event -> [Dates -> Nat]] /\ date \in Dates
      /\ record \in [Dates -> [in : BOOLEAN, out : BOOLEAN]]
  BY TypesApart DEF FieldTypeOK
<1>1. CASE logs[e][d] > 0
  <2>1. event[e].held # "none"
    BY <1>0, <1>1 DEF FreshInv
  <2>2. event'[e].kind = event[e].kind
    BY <2>1, AccountKept
  <2>3. Recorded(e, d) => Recorded(e, d)'
    BY <2>2, ServerEffects DEF Recorded
  <2>4. ASSUME NEW h \in Handler, d = date, postOf[h] = e,
               postAt[h] \in {"record", "update", "create"}
        PROVE  \/ Recorded(e, d)'
               \/ d = date' /\ postOf'[h] = e /\ postAt'[h] \in {"record", "update", "create"}
    <3>1. ~Midnight /\ date' = date
      BY <2>4, ServerEffects DEF Midnight, Undisturbing
    <3>2. ASSUME RequestStepOf(h) PROVE PostRecord(h) \/ PostUpdate(h) \/ PostCreate(h)
      BY <2>4, <3>2 DEF RequestStepOf, Clock, SyncPost, Post, MayTake, Answered, Unauthorised,
         Lost, PostCheck,
         PostLog, PostForgotten
    <3>3. ASSUME PostRecord(h)
          PROVE  \/ Recorded(e, d)'
                 \/ postOf'[h] = e /\ postAt'[h] \in {"record", "update", "create"}
      <4>1. CASE event[e].kind = "CLOCK_IN"
        <5>1. record' = [record EXCEPT ![date].in = TRUE]
          BY <2>4, <3>3, <4>1 DEF PostRecord
        <5>2. record'[d].in
          BY <1>0, <2>4, <5>1
        <5> QED
          BY <2>2, <4>1, <5>2 DEF Recorded
      <4>2. CASE event[e].kind # "CLOCK_IN"
        BY <1>0, <2>4, <3>3, <4>2 DEF PostRecord, PostGo, PostsType
      <4> QED
        BY <4>1, <4>2
    <3>4. ASSUME PostUpdate(h) PROVE Recorded(e, d)'
      <4>1. record[d].in
        BY <2>4, <3>4 DEF PostUpdate, RequestInv, RequestRow
      <4>2. record'[d].in /\ record'[d].out
        BY <1>0, <2>4, <3>4, <4>1 DEF PostUpdate
      <4> QED
        BY <4>2 DEF Recorded
    <3>5. ASSUME PostCreate(h) PROVE Recorded(e, d)'
      <4> DEFINE both == [in |-> TRUE, out |-> TRUE]
      <4>1. record' = [record EXCEPT ![date] = both]
        BY <3>5 DEF PostCreate, CalmRequests
      <4>2. both.in /\ both.out
        OBVIOUS
      <4> HIDE DEF both
      <4>3. record'[d].in /\ record'[d].out
        BY <1>0, <2>4, <4>1, <4>2
      <4> QED
        BY <4>3 DEF Recorded
    <3>6. ASSUME NEW g \in Handler, g # h, RequestStepOf(g),
                 \A x \in Handler \ {g} : postAt[x] = "idle"
          PROVE  FALSE
      BY <2>4, <3>6
    <3>7. Aside => UNCHANGED <<postAt, postOf>>
      BY DEF Aside, ManualClockIn, SyncBegin, posts
    <3> QED
      BY <2>4, <3>1, <3>2, <3>3, <3>4, <3>5, <3>6, <3>7, CalmNext
  <2> QED
    BY <1>1, <2>3, <2>4 DEF RecordInv
<1>2. CASE ~(logs[e][d] > 0)
  <2>1. PICK h \in Handler : PostLog(h)
    BY <1>2, ServerEffects
  <2>2. postOf[h] \in Event
    BY <2>1 DEF PostLog, RequestInv, RequestRow
  <2>3. e = postOf[h] /\ d = date
    BY <1>0, <1>2, <2>1, <2>2 DEF PostLog
  <2>4. postOf'[h] = e /\ postAt'[h] = "record" /\ date' = date
    BY <1>0, <2>1, <2>3 DEF PostLog, PostGo, PostsType
  <2> QED
    BY <2>3, <2>4
<1> QED
  BY <1>1, <1>2

-----------------------------------------------------------------------------

\* Every step keeps FieldInv.
LEMMA FieldNextKeeps == FieldInv /\ FieldNext => FieldInv'
<1> SUFFICES ASSUME FieldInv, FieldNext PROVE FieldInv'
  OBVIOUS
<1>1. FieldTypeOK /\ FreshInv /\ RequestInv /\ DeliveredInv /\ CalmInv
  BY DEF FieldInv
<1>2. FieldTypeOK' /\ FreshInv' /\ RequestInv' /\ DeliveredInv'
  BY <1>1, FieldTypeStep, FreshStep, RequestStep, DeliveredStep
<1>3. calm' => CalmRequests' /\ CalmEvents' /\ OneLog' /\ RecordInv'
  BY <1>1, FieldCalm, CalmRequestsStep, CalmEventsStep, OneLogStep, RecordStep DEF CalmInv
<1> QED
  BY <1>2, <1>3 DEF FieldInv, CalmInv

\* FieldInv is about nothing else than the variables of the module.
LEMMA FieldStutters == FieldInv /\ UNCHANGED <<fieldVars, calm>> => FieldInv'
<1> SUFFICES ASSUME FieldInv, UNCHANGED <<fieldVars, calm>> PROVE FieldInv'
  OBVIOUS
<1>1. UNCHANGED <<date, event, todo, postAt, postOf, postBy, logs, record, faults, subject, calm>>
  BY DEF fieldVars, phone, posts
<1>2. FieldTypeOK'
  BY <1>1 DEF FieldInv, FieldTypeOK
<1>3. FreshInv' /\ DeliveredInv'
  BY <1>1 DEF FieldInv, FreshInv, DeliveredInv, Accounted, HasLog, Logged
<1>4. RequestInv'
  BY <1>1 DEF FieldInv, RequestInv, RequestRow, Accounted, HasLog, Logged
<1>5. CalmRequests' = CalmRequests /\ CalmEvents' = CalmEvents
  BY <1>1 DEF CalmRequests, CalmEvents, HasLog, Logged
<1>6. OneLog' = OneLog /\ RecordInv' = RecordInv
  BY <1>1 DEF OneLog, RecordInv, Recorded
<1> QED
  BY <1>1, <1>2, <1>3, <1>4, <1>5, <1>6 DEF FieldInv, CalmInv

\* FieldInv is inductive.
LEMMA FieldStep == FieldInv /\ [FieldNext]_<<fieldVars, calm>> => FieldInv'
  BY FieldNextKeeps, FieldStutters

\* The invariant holds in every state, whatever is lost, sent twice or broken off.
THEOREM FieldInvariance == FieldSpec => []FieldInv
  BY FieldInitially, FieldStep, PTL DEF FieldSpec

\* offlineQueue and syncOfflineEvent: no event is taken for delivered that the server has
\* neither logged nor refused for its age, and where nothing goes wrong none is given up.
THEOREM NoEventMissing == FieldSpec => []EventsAccounted
<1>1. FieldInv => EventsAccounted
  BY DEF FieldInv, DeliveredInv, CalmInv, CalmEvents, Accounted, HasLog, EventsAccounted
<1> QED
  BY <1>1, FieldInvariance, PTL

\* syncOfflineEvent: without overlap at the server a day has one log of each kind.
THEOREM NoEventTwice == FieldSpec => []LoggedOnce
<1>1. FieldInv => LoggedOnce
  BY DEF FieldInv, CalmInv, OneLog, LoggedOnce
<1> QED
  BY <1>1, FieldInvariance, PTL

\* upsertDailyAttendance: without overlap at the server the record of a day says what the
\* logs written on it say.
THEOREM RecordsFollowLogs == FieldSpec => []RecordFollowsLog
<1>1. FieldInv => RecordFollowsLog
  BY DEF FieldInv, CalmInv, RecordInv, Recorded, RecordFollowsLog
<1> QED
  BY <1>1, FieldInvariance, PTL

-----------------------------------------------------------------------------
(*************************************************************************)
(* USSD sessions.  Without overlap a session, or the copy of one in      *)
(* memory, that waits for the PIN of a choice waits no longer than the   *)
(* guard would keep out a second clock-in of that choice, once it has    *)
(* been logged; so the PIN that is sent again logs nothing.              *)
(*************************************************************************)

\* A session, or the copy of one, that waits for the PIN of a choice.
Await(r) == r.left > 0 /\ r.state = "AWAITING_PIN"

\* It waits for a choice that has been made, and no longer than the guard would keep a
\* second clock-in out, if the choice is one and has been logged.
WaitsGuarded(r) ==
    Await(r) => /\ r.choice \in Choice /\ choices[r.choice] # "none"
                /\ choices[r.choice] = "CLOCK_IN" /\ written[r.choice] > 0 => r.left <= guarded

\* A request is about a session, and remembers only what waits for a PIN.
UssdRemembers ==
    \A h \in Handler :
        /\ ussdAt[h] # "idle" => ussdIn[h] \in Session
        /\ ussdAt[h] = "remember" => ussdHolds[h].state = "AWAITING_PIN"

\* What a request knows of its choice when it is at some step.
UssdKnown(h) ==
    LET c == ussdHolds[h].choice
    IN  /\ ussdAt[h] \in {"remember", "guard", "protect", "log", "complete"} => c \in Choice
        /\ ussdAt[h] = "remember" => choices[c] # "none" /\ written[c] = 0
        /\ ussdAt[h] = "guard" => choices[c] = "CLOCK_IN" /\ (written[c] > 0 => guarded > 0)
        /\ ussdAt[h] = "protect" => choices[c] = "CLOCK_IN" /\ written[c] = 0
        /\ ussdAt[h] = "log" =>
              /\ choices[c] # "none"
              /\ choices[c] = "CLOCK_IN" => written[c] = 0 /\ guarded = GuardTTL

\* Without overlap.
UssdCalmInv ==
    calm =>
        /\ \A g, h \in Handler : ussdAt[g] # "idle" /\ ussdAt[h] # "idle" => g = h
        /\ \A c \in Choice : choices[c] = "none" => written[c] = 0
        /\ \A s \in Session : WaitsGuarded(session[s])
        /\ WaitsGuarded(recent)
        /\ \A h \in Handler : UssdKnown(h)

\* The copy is blank or has time left.
RecentKept == recent.left = 0 => recent = Blank

\* What is always so, what is so without overlap, and what the run checks.
UssdInv == UssdTypeOK /\ UssdRemembers /\ RecentKept /\ UssdCalmInv /\ ClockInLoggedOnce

\* A session that is completed is a row of the table.
LEMMA CompletedRow ==
  ASSUME NEW r \in SessionRow
  PROVE  LET new == [r EXCEPT !.state = "COMPLETE", !.left = SessionTTL]
         IN  new \in SessionRow /\ new.left = 1 /\ new.state = "COMPLETE"
<1> DEFINE mid == [r EXCEPT !.state = "COMPLETE"]
           new == [mid EXCEPT !.left = 1]
<1>1. mid \in SessionRow /\ mid.state = "COMPLETE"
  BY DEF SessionRow
<1> HIDE DEF mid
<1>2. new \in SessionRow /\ new.left = 1 /\ new.state = mid.state
  BY <1>1 DEF SessionRow, RecentTTL
<1> QED
  BY <1>1, <1>2 DEF mid, SessionTTL

\* UssdInv holds before anybody dials.
LEMMA UssdInitially == CalmInit /\ UssdInit => UssdInv
<1> SUFFICES ASSUME UssdInit PROVE UssdInv
  OBVIOUS
<1>1. Blank \in SessionRow /\ Blank.left = 0 /\ Blank.state = "none"
  BY UssdAssumption DEF Blank, SessionRow, RecentTTL
<1>2. UssdTypeOK
  BY <1>1 DEF UssdInit, UssdTypeOK, GuardTTL
<1> QED
  BY <1>1, <1>2 DEF UssdInit, UssdInv, UssdRemembers, RecentKept, UssdCalmInv, ClockInLoggedOnce,
     WaitsGuarded, Await, UssdKnown

\* No request and no timer changes what kind of history it is.
LEMMA UssdCalm == UssdNext => calm' = calm
  BY DEF UssdNext, Dial, UssdRoute, UssdChoose, UssdRemember, UssdGuard, UssdProtect, UssdLog,
     UssdComplete, UssdBreaks, UssdTick, UssdForget, UssdStaffing

\* UssdInv is inductive.
LEMMA UssdStep == UssdInv /\ [UssdNext]_<<ussdVars, calm>> => UssdInv'
<1> SUFFICES ASSUME UssdInv, [UssdNext]_<<ussdVars, calm>> PROVE UssdInv'
  OBVIOUS
<1>b. Blank \in SessionRow /\ Blank.left = 0 /\ Blank.state = "none"
  BY UssdAssumption DEF Blank, SessionRow, RecentTTL
<1>r. \A r \in SessionRow : r.left \in 0 .. 3 /\ r.choice \in 0 .. MaxChoices
  BY DEF SessionRow, RecentTTL
<1>c. Choice \subseteq Nat /\ 0 \notin Choice /\ Choice \subseteq 0 .. MaxChoices
  BY UssdAssumption DEF Choice
<1> USE DEF UssdInv, UssdTypeOK, UssdRemembers, RecentKept, UssdCalmInv, ClockInLoggedOnce,
        WaitsGuarded, Await, UssdKnown, UssdGo, redis, ussdCalls, GuardTTL
<1>1. ASSUME NEW h \in Handler, NEW s \in Session, Dial(h, s) PROVE UssdInv'
  BY <1>1 DEF Dial, MayTake
<1>2. ASSUME NEW h \in Handler, UssdAnswer(h), ussdAt[h] # "idle",
             UNCHANGED <<employed, known, recent, guarded, choices, written, calm>>,
             session' \in [Session -> SessionRow],
             \A s \in Session : session'[s].left = 0 <=> session'[s] = Blank,
             \A s \in Session : session'[s] = session[s] \/ session'[s].state # "AWAITING_PIN"
      PROVE  UssdInv'
  BY <1>b, <1>2 DEF UssdAnswer
<1>3. ASSUME NEW h \in Handler, NEW dialled \in BOOLEAN,
             NEW input \in UssdAction \cup {"pin", "other"},
             UssdRoute(h, dialled, input)
      PROVE  UssdInv'
  <2> DEFINE own == session[ussdIn[h]]
             held == IF own = Blank /\ ~dialled THEN recent ELSE own
  <2>0. ussdAt[h] = "route" /\ UNCHANGED <<employed, known, recent, guarded, choices, written,
                                           calm>>
    BY <1>3 DEF UssdRoute
  <2>1. ASSUME session' = [session EXCEPT ![ussdIn[h]] =
                                [state |-> "WELCOME", choice |-> 0, left |-> SessionTTL]],
               UssdAnswer(h)
        PROVE  UssdInv'
    <3> DEFINE new == [state |-> "WELCOME", choice |-> 0, left |-> SessionTTL]
    <3>1. new \in SessionRow /\ new.left = 1 /\ new.state = "WELCOME"
      BY <1>b DEF SessionRow, SessionTTL, RecentTTL, Blank
    <3>2. new # Blank
      BY <1>b, <3>1
    <3> HIDE DEF new
    <3>3. session' = [session EXCEPT ![ussdIn[h]] = new]
      BY <2>1 DEF new
    <3> QED
      BY <1>2, <2>0, <2>1, <3>1, <3>2, <3>3
  <2>2. ASSUME UssdAnswer(h), session' = session PROVE UssdInv'
    BY <1>2, <2>0, <2>2
  <2>3. ASSUME UssdGo(h, "choose"), UNCHANGED <<ussdIn, ussdHolds, session>> PROVE UssdInv'
    BY <2>0, <2>3
  <2>h. PICK was : was = held
    OBVIOUS
  <2>k. was \in SessionRow /\ (~dialled => WaitsGuarded(was) \/ ~calm) /\ was = held
    BY <2>0, <2>h
  <2>l. was.state = "AWAITING_PIN" => was.left > 0
    BY <1>b, <1>r, <2>h, <2>0
  <2> HIDE DEF held
  <2>4. ASSUME was.state = "AWAITING_PIN", ussdHolds' = [ussdHolds EXCEPT ![h] = was],
               UssdGo(h, IF choices[was.choice] = "CLOCK_IN" THEN "guard" ELSE "log"),
               UNCHANGED <<ussdIn, session>>, ~dialled
        PROVE  UssdInv'
    <3>1. was.left > 0 /\ was.choice \in 0 .. MaxChoices
      BY <1>r, <2>k, <2>l, <2>4
    <3>2. UssdTypeOK' /\ UssdRemembers' /\ RecentKept'
      BY <2>0, <2>k, <2>4
    <3>3. ASSUME calm PROVE UssdKnown(h)'
      <4>1. /\ ussdHolds'[h] = was /\ choices' = choices /\ written' = written
            /\ guarded' = guarded
            /\ ussdAt'[h] = IF choices[was.choice] = "CLOCK_IN" THEN "guard" ELSE "log"
        BY <2>0, <2>4
      <4>2. /\ was.choice \in Choice /\ choices[was.choice] # "none"
            /\ choices[was.choice] = "CLOCK_IN" /\ written[was.choice] > 0 => was.left <= guarded
        BY <2>k, <2>4, <3>1, <3>3
      <4>3. was.left \in 0 .. 3 /\ guarded \in 0 .. 3
        BY <1>r, <2>k
      <4> QED
        BY <3>1, <4>1, <4>2, <4>3
    <3> QED
      BY <2>0, <2>4, <3>2, <3>3
  <2>5. \/ session' = [session EXCEPT ![ussdIn[h]] =
                                [state |-> "WELCOME", choice |-> 0, left |-> SessionTTL]]
            /\ UssdAnswer(h)
        \/ UssdAnswer(h) /\ session' = session
        \/ UssdGo(h, "choose") /\ UNCHANGED <<ussdIn, ussdHolds, session>>
        \/ /\ was.state = "AWAITING_PIN" /\ ussdHolds' = [ussdHolds EXCEPT ![h] = was]
           /\ UssdGo(h, IF choices[was.choice] = "CLOCK_IN" THEN "guard" ELSE "log")
           /\ UNCHANGED <<ussdIn, session>> /\ ~dialled
    BY <1>3, <2>h DEF UssdRoute, held
  <2> QED
    BY <2>1, <2>2, <2>3, <2>4, <2>5
<1>4. ASSUME NEW h \in Handler, NEW action \in UssdAction, UssdChoose(h, action) PROVE UssdInv'
  <2>1. PICK c \in Choice :
          /\ choices[c] = "none"
          /\ choices' = [choices EXCEPT ![c] = action]
          /\ LET awaiting == [state |-> "AWAITING_PIN", choice |-> c, left |-> SessionTTL]
             IN  /\ session' = [session EXCEPT ![ussdIn[h]] = awaiting]
                 /\ ussdHolds' = [ussdHolds EXCEPT ![h] = awaiting]
    BY <1>4 DEF UssdChoose
  <2> DEFINE new == [state |-> "AWAITING_PIN", choice |-> c, left |-> SessionTTL]
  <2>2. new \in SessionRow /\ new.left = 1 /\ new.state = "AWAITING_PIN" /\ new.choice = c
    BY <1>c DEF SessionRow, SessionTTL, RecentTTL
  <2>3. new # Blank
    BY <1>b, <2>2
  <2>4. session' = [session EXCEPT ![ussdIn[h]] = new]
      /\ ussdHolds' = [ussdHolds EXCEPT ![h] = new]
    BY <2>1
  <2>5. /\ ussdAt[h] = "choose" /\ ussdAt' = [ussdAt EXCEPT ![h] = "remember"]
        /\ UNCHANGED <<employed, known, recent, guarded, written, ussdIn, calm>>
    BY <1>4 DEF UssdChoose
  <2> HIDE DEF new
  <2>6. \A d \in Choice : choices'[d] = IF d = c THEN action ELSE choices[d]
    BY <2>1
  <2>7. action \in UssdAction /\ action # "none"
    BY DEF UssdAction
  <2>8. UssdTypeOK' /\ UssdRemembers' /\ RecentKept'
    BY <2>1, <2>2, <2>3, <2>4, <2>5
  <2>9. ASSUME calm PROVE UssdCalmInv' /\ ClockInLoggedOnce'
    <3>1. written[c] = 0
      BY <2>1, <2>9
    <3>2. \A s \in Session : session'[s] = new \/ session'[s] = session[s]
      BY <2>4
    <3>3. WaitsGuarded(new)'
      BY <2>2, <2>5, <2>6, <2>7, <3>1 
    <3>4. \A r : WaitsGuarded(r) => WaitsGuarded(r)'
      BY <2>5, <2>6, <2>7, <3>1
    <3>5. UssdKnown(h)'
      BY <2>2, <2>4, <2>5, <2>6, <2>7, <3>1
    <3> QED
      BY <2>1, <2>5, <2>6, <2>7, <2>9, <3>1, <3>2, <3>3, <3>4, <3>5
  <2> QED
    BY <2>5, <2>8, <2>9
<1>5. ASSUME NEW h \in Handler, UssdRemember(h) PROVE UssdInv'
  <2> DEFINE copy == [ussdHolds[h] EXCEPT !.left = RecentTTL]
  <2>1. copy \in SessionRow /\ copy.left = 3 /\ copy.state = "AWAITING_PIN"
        /\ copy.choice = ussdHolds[h].choice
    BY <1>5 DEF UssdRemember, SessionRow, RecentTTL
  <2>2. recent' = copy /\ UssdAnswer(h) /\ ussdAt[h] = "remember"
        /\ UNCHANGED <<employed, known, session, guarded, choices, written, calm>>
    BY <1>5 DEF UssdRemember
  <2> HIDE DEF copy
  <2> QED
    BY <1>b, <2>1, <2>2 DEF UssdAnswer
<1>6. ASSUME NEW h \in Handler, UssdGuard(h) PROVE UssdInv'
  <2>1. CASE guarded > 0
    BY <1>2, <1>6, <2>1 DEF UssdGuard
  <2>2. CASE ~(guarded > 0)
    BY <1>6, <2>2 DEF UssdGuard
  <2> QED
    BY <2>1, <2>2
<1>7. ASSUME NEW h \in Handler, UssdProtect(h) PROVE UssdInv'
  <2>1. /\ ussdAt[h] = "protect" /\ guarded' = 3 /\ ussdAt' = [ussdAt EXCEPT ![h] = "log"]
        /\ UNCHANGED <<employed, known, session, recent, choices, written, ussdIn, ussdHolds,
                       calm>>
    BY <1>7 DEF UssdProtect
  <2>2. UssdTypeOK' /\ UssdRemembers' /\ RecentKept'
    BY <2>1
  <2>3. \A r \in SessionRow : WaitsGuarded(r) => WaitsGuarded(r)'
    BY <1>r, <2>1
  <2>4. calm => \A g \in Handler : UssdKnown(g)'
    BY <1>r, <1>c, <2>1
  <2> QED
    BY <2>1, <2>2, <2>3, <2>4
<1>8. ASSUME NEW h \in Handler, UssdLog(h) PROVE UssdInv'
  <2>1. PICK c : c = ussdHolds[h].choice
    OBVIOUS
  <2>2. /\ ussdAt[h] = "log" /\ written' = [written EXCEPT ![c] = IF @ < 2 THEN @ + 1 ELSE 2]
        /\ ussdAt' = [ussdAt EXCEPT ![h] = "complete"]
        /\ UNCHANGED <<employed, known, session, recent, guarded, choices, ussdIn, ussdHolds,
                       calm>>
    BY <1>8, <2>1 DEF UssdLog
  <2>3. UssdTypeOK' /\ UssdRemembers' /\ RecentKept'
    <3>1. written' \in [Choice -> 0 .. 2]
      <4>1. c \in Choice => written[c] \in 0 .. 2
        OBVIOUS
      <4>2. c \in Choice => (IF written[c] < 2 THEN written[c] + 1 ELSE 2) \in 0 .. 2
        BY <4>1
      <4> QED
        BY <2>2, <4>2
    <3> QED
      BY <2>2, <3>1
  <2>4. ASSUME calm PROVE UssdCalmInv' /\ ClockInLoggedOnce'
    <3>1. /\ c \in Choice /\ choices[c] # "none"
          /\ choices[c] = "CLOCK_IN" => written[c] = 0 /\ guarded = 3
      BY <2>1, <2>2, <2>4
    <3>2. /\ written'[c] \in 1 .. 2 /\ (choices[c] = "CLOCK_IN" => written'[c] = 1)
          /\ \A d \in Choice \ {c} : written'[d] = written[d]
      BY <2>2, <3>1
    <3>3. \A r \in SessionRow : WaitsGuarded(r) => WaitsGuarded(r)'
      BY <1>r, <2>2, <3>1, <3>2
    <3>4. \A g \in Handler : UssdKnown(g)'
      BY <1>c, <2>1, <2>2, <2>4, <3>1
    <3> QED
      BY <2>2, <2>4, <3>1, <3>2, <3>3, <3>4
  <2> QED
    BY <2>2, <2>3, <2>4
<1>9. ASSUME NEW h \in Handler, UssdComplete(h) PROVE UssdInv'
  <2> DEFINE new == [ussdHolds[h] EXCEPT !.state = "COMPLETE", !.left = SessionTTL]
  <2>1. new \in SessionRow /\ new.left = 1 /\ new.state = "COMPLETE"
    <3>1. ussdHolds[h] \in SessionRow
      OBVIOUS
    <3> QED
      BY <3>1, CompletedRow
  <2>2. new # Blank
    BY <1>b, <2>1
  <2>3. session' = [session EXCEPT ![ussdIn[h]] = new] /\ UssdAnswer(h) /\ ussdAt[h] = "complete"
        /\ UNCHANGED <<employed, known, recent, guarded, choices, written, calm>>
    BY <1>9 DEF UssdComplete
  <2> HIDE DEF new
  <2> QED
    BY <1>2, <2>1, <2>2, <2>3
<1>10. ASSUME NEW h \in Handler, UssdBreaks(h) PROVE UssdInv'
  BY <1>2, <1>10 DEF UssdBreaks, MayBreak
<1>11. CASE UssdTick
  <2> DEFINE Aged(r) == IF r.left <= 1 THEN Blank ELSE [r EXCEPT !.left = r.left - 1]
  <2>1. ASSUME NEW r \in SessionRow
        PROVE  /\ Aged(r) \in SessionRow /\ (Aged(r) = Blank \/ Aged(r).left = r.left - 1)
               /\ (Aged(r).left = 0 <=> Aged(r) = Blank)
               /\ Aged(r).left > 0 => Aged(r).left = r.left - 1 /\ r.left > 0
                    /\ Aged(r).state = r.state /\ Aged(r).choice = r.choice
    BY <1>b DEF SessionRow, RecentTTL
  <2>2. /\ session' = [s \in Session |-> Aged(session[s])] /\ recent' = Aged(recent)
        /\ guarded' = (IF guarded = 0 THEN 0 ELSE guarded - 1)
        /\ UNCHANGED <<employed, known, choices, written, ussdAt, ussdIn, ussdHolds, calm>>
        /\ \A h \in Handler : ussdAt[h] = "idle"
    BY <1>11 DEF UssdTick
  <2> HIDE DEF Aged
  <2>3. UssdTypeOK'
    BY <2>1, <2>2
  <2>4. ASSUME NEW r \in SessionRow, WaitsGuarded(r) PROVE WaitsGuarded(Aged(r))'
    <3>1. PICK a : a = Aged(r)
      OBVIOUS
    <3> QED
      BY <1>r, <2>1, <2>2, <2>4 
  <2> QED
    BY <1>b, <2>1, <2>2, <2>3, <2>4
<1>12. CASE UssdForget \/ UssdStaffing
  <2>1. CASE UssdForget
    <3>1. known' = "none" /\ UNCHANGED <<employed, session, recent, guarded, choices, written,
                                         ussdAt, ussdIn, ussdHolds, calm>>
      BY <2>1 DEF UssdForget
    <3> QED
      BY <3>1
  <2>2. CASE UssdStaffing
    <3>1. employed' = ~employed /\ UNCHANGED <<known, session, recent, guarded, choices, written,
                                               ussdAt, ussdIn, ussdHolds, calm>>
      BY <2>2 DEF UssdStaffing
    <3> QED
      BY <3>1
  <2> QED
    BY <1>12, <2>1, <2>2
<1>13. CASE UNCHANGED <<ussdVars, calm>>
  BY <1>13 DEF ussdVars
<1>14. CASE UssdNext
  <2>1. CASE \E h \in Handler : \/ \E s \in Session : Dial(h, s)
                              \/ \E action \in UssdAction : UssdChoose(h, action)
    BY <1>1, <1>4, <2>1
  <2>2. CASE \E h \in Handler, dialled \in BOOLEAN, input \in UssdAction \cup {"pin", "other"} :
               UssdRoute(h, dialled, input)
    BY <1>3, <2>2
  <2>3. CASE \E h \in Handler : \/ UssdRemember(h) \/ UssdGuard(h) \/ UssdProtect(h)
                              \/ UssdLog(h) \/ UssdComplete(h) \/ UssdBreaks(h)
    BY <1>5, <1>6, <1>7, <1>8, <1>9, <1>10, <2>3
  <2> QED
    BY <1>11, <1>12, <1>14, <2>1, <2>2, <2>3 DEF UssdNext
<1> QED
  BY <1>13, <1>14

\* However often a PIN is sent again and whatever expires, UssdInv holds (UssdService).
THEOREM UssdInvariance == UssdSpec => []UssdInv
  BY UssdInitially, UssdStep, PTL DEF UssdSpec

\* For any sessions and choices: without overlap a clock-in that was chosen once is
\* logged once, however often its PIN is sent again (UssdService).
THEOREM SessionLogsOnce == UssdSpec => []ClockInLoggedOnce
<1>1. UssdInv => ClockInLoggedOnce
  BY DEF UssdInv
<1> QED
  BY <1>1, UssdInvariance, PTL

-----------------------------------------------------------------------------
(*************************************************************************)
(* Leave.  The balance is what was granted, and a request that has       *)
(* looked at the leaves of its employee is followed by no other before   *)
(* it writes, if requests do not overlap.                                *)
(*************************************************************************)

\* With the request h is about to book, used days are those granted.
BookedAll(h) == used + DaysOf(leaveOf[h]) = UsedBefore + Cardinality(GrantedDays)

\* A request fits what is left, if not too much was open from the start.
Fits(r) == ~crowded => used + DaysOf(r) <= AnnualLeaveEntitlement(years)

\* What a request has found out is still so when it acts on it.
LeaveKnown(h) ==
    LET r == leaveOf[h]
    IN  /\ leaveAt[h] \in {"balance", "overlap", "create"} => request[r].status = "draft"
        /\ leaveAt[h] \in {"approveRead", "approve", "reject"} => request[r].status = "PENDING"
        /\ leaveAt[h] \in {"approve", "deduct"} => usedRead[h] = used
        /\ leaveAt[h] = "create" =>
              \A q \in LeaveRequest : LeaveOpenOrGranted(q) => ~Overlaps(r, q)
        /\ leaveAt[h] \in {"overlap", "create"} /\ request[r].annual => Fits(r)
        /\ leaveAt[h] = "deduct" =>
              /\ BookedAll(h) /\ Fits(r)
              /\ ~crowded => \A q \in LeaveRequest : ~AnnualOpen(q)

\* Without overlap.
LeaveCalmInv ==
    calm =>
        /\ \A g, h \in Handler : leaveAt[g] # "idle" /\ leaveAt[h] # "idle" => g = h
        /\ \A h \in Handler : LeaveKnown(h)
        /\ ~crowded => \A q, r \in LeaveRequest : AnnualOpen(q) /\ AnnualOpen(r) => q = r
        /\ \A q \in LeaveRequest : AnnualOpen(q) => Fits(q)
        /\ (\A h \in Handler : leaveAt[h] # "deduct") =>
              used = UsedBefore + Cardinality(GrantedDays)

\* What is always so, and what is so without overlap.
LeaveInv ==
    /\ LeaveTypeOK /\ years \in {1, 2}
    /\ LeaveCalmInv /\ LeaveDisjoint /\ (calm => UsedWithinEntitlement)

\* Working days are finitely many.
LEMMA WorkingDaysCount ==
    ASSUME NEW first \in 1 .. LastLeaveDay, NEW last \in 1 .. LastLeaveDay
    PROVE  IsFiniteSet((first .. last) \ RestDays) /\ WorkingDays(first, last) \in Nat
<1>1. IsFiniteSet(first .. last)
  BY LeaveAssumption, FS_Interval
<1>2. IsFiniteSet((first .. last) \ RestDays)
  BY <1>1, FS_Difference
<1> QED
  BY <1>2, FS_CardinalityType DEF WorkingDays

\* So are those of a request.
LEMMA DaysOfCount == ASSUME LeaveTypeOK, NEW r \in LeaveRequest PROVE DaysOf(r) \in Nat
  BY WorkingDaysCount DEF LeaveTypeOK, DaysOf

\* And those that were granted.
LEMMA GrantedFinite == IsFiniteSet(GrantedDays) /\ Cardinality(GrantedDays) \in Nat
<1>1. IsFiniteSet(1 .. LastLeaveDay)
  BY LeaveAssumption, FS_Interval
<1>2. IsFiniteSet((1 .. LastLeaveDay) \ RestDays)
  BY <1>1, FS_Difference
<1>3. IsFiniteSet(LeaveRequest \X ((1 .. LastLeaveDay) \ RestDays))
  BY <1>2, LeaveAssumption, FS_Product
<1>4. GrantedDays \in SUBSET (LeaveRequest \X ((1 .. LastLeaveDay) \ RestDays))
  BY DEF GrantedDays
<1>5. IsFiniteSet(GrantedDays)
  BY <1>3, <1>4, FS_Subset
<1> QED
  BY <1>5, FS_CardinalityType

\* A request that is granted adds its working days to those granted before.
LEMMA GrantAdds ==
    ASSUME LeaveTypeOK, NEW r \in LeaveRequest, request[r].status # "APPROVED", request[r].annual,
           request' = [request EXCEPT ![r].status = "APPROVED"]
    PROVE  Cardinality(GrantedDays') = Cardinality(GrantedDays) + DaysOf(r)
<1> DEFINE D == (request[r].first .. request[r].last) \ RestDays
           New == {r} \X D
           f == [d \in D |-> <<r, d>>]
<1>0. /\ request[r].first \in 1 .. LastLeaveDay /\ request[r].last \in 1 .. LastLeaveDay
      /\ LastLeaveDay \in Nat
  BY LeaveAssumption DEF LeaveTypeOK
<1>1. IsFiniteSet(D) /\ Cardinality(D) = DaysOf(r)
  BY <1>0, WorkingDaysCount DEF DaysOf, WorkingDays
<1>2. \A q \in LeaveRequest :
          /\ request'[q].annual = request[q].annual
          /\ request'[q].first = request[q].first /\ request'[q].last = request[q].last
          /\ request'[q].status = IF q = r THEN "APPROVED" ELSE request[q].status
  BY DEF LeaveTypeOK
<1>3. GrantedDays' = GrantedDays \cup New
  <2>1. D \subseteq (1 .. LastLeaveDay) \ RestDays
    BY <1>0
  <2>2. ASSUME NEW g PROVE g \in GrantedDays' <=> g \in GrantedDays \/ g \in New
    <3> DEFINE Days == (1 .. LastLeaveDay) \ RestDays
    <3>1. g \in GrantedDays' <=> g \in LeaveRequest \X Days
              /\ request'[g[1]].status = "APPROVED" /\ request'[g[1]].annual
              /\ g[2] \in request'[g[1]].first .. request'[g[1]].last
      BY DEF GrantedDays
    <3>2. g \in GrantedDays <=> g \in LeaveRequest \X Days
              /\ request[g[1]].status = "APPROVED" /\ request[g[1]].annual
              /\ g[2] \in request[g[1]].first .. request[g[1]].last
      BY DEF GrantedDays
    <3>3. g \in New <=> g \in LeaveRequest \X Days /\ g[1] = r
                        /\ g[2] \in request[r].first .. request[r].last
      BY <2>1
    <3> HIDE DEF New, Days
    <3>4. g \in LeaveRequest \X Days => g[1] \in LeaveRequest
      OBVIOUS
    <3> QED
      BY <1>2, <3>1, <3>2, <3>3, <3>4
  <2> HIDE DEF New
  <2> QED
    BY <2>2
<1>4. GrantedDays \cap New = {}
  <2>1. \A g \in New : g[1] = r
    OBVIOUS
  <2>2. \A g \in GrantedDays : g[1] # r
    BY DEF GrantedDays
  <2> QED
    BY <2>1, <2>2
<1>5. f \in Bijection(D, New)
  <2>1. \A d \in D : f[d] = <<r, d>>
    OBVIOUS
  <2>2. f \in [D -> New]
    OBVIOUS
  <2>3. \A x \in New : \E d \in D : x = <<r, d>>
    OBVIOUS
  <2> HIDE DEF D, New, f
  <2>4. \A a, b \in D : f[a] = f[b] => a = b
    BY <2>1
  <2>5. \A x \in New : \E d \in D : f[d] = x
    BY <2>1, <2>3
  <2> QED
    BY <2>2, <2>4, <2>5 DEF Bijection, Injection, Surjection, IsInjective
<1>6. IsFiniteSet(New) /\ Cardinality(New) = Cardinality(D)
  <2>1. ExistsBijection(D, New)
    BY <1>5 DEF ExistsBijection
  <2> HIDE DEF New, D
  <2> QED
    BY <1>1, <2>1, FS_Bijection
<1>7. DaysOf(r) \in Nat
  BY DaysOfCount
<1> HIDE DEF New, D
<1>8. Cardinality(GrantedDays \cup New)
        = Cardinality(GrantedDays) + Cardinality(New) - Cardinality(GrantedDays \cap New)
  BY <1>6, GrantedFinite, FS_Union
<1>9. Cardinality(GrantedDays \cap New) = 0
  BY <1>4, FS_EmptySet
<1> QED
  BY <1>1, <1>3, <1>6, <1>7, <1>8, <1>9, GrantedFinite

\* No other step changes which days have been granted.
LEMMA GrantKept ==
    ASSUME LeaveTypeOK, NEW r \in LeaveRequest, request[r].status # "APPROVED"
           \/ ~request[r].annual,
           NEW new, new.status # "APPROVED" \/ ~new.annual,
           request' = [request EXCEPT ![r] = new]
    PROVE  GrantedDays' = GrantedDays
<1>1. \A q \in LeaveRequest : request'[q] = IF q = r THEN new ELSE request[q]
  BY DEF LeaveTypeOK
<1>2. ASSUME NEW g \in LeaveRequest \X ((1 .. LastLeaveDay) \ RestDays)
      PROVE g \in GrantedDays' <=> g \in GrantedDays
  <2>1. g[1] \in LeaveRequest
    OBVIOUS
  <2>2. g \in GrantedDays' <=> request'[g[1]].status = "APPROVED" /\ request'[g[1]].annual
              /\ g[2] \in request'[g[1]].first .. request'[g[1]].last
    BY DEF GrantedDays
  <2>3. g \in GrantedDays <=> request[g[1]].status = "APPROVED" /\ request[g[1]].annual
              /\ g[2] \in request[g[1]].first .. request[g[1]].last
    BY DEF GrantedDays
  <2> QED
    BY <1>1, <2>1, <2>2, <2>3
<1>3. GrantedDays' \subseteq LeaveRequest \X ((1 .. LastLeaveDay) \ RestDays)
      /\ GrantedDays \subseteq LeaveRequest \X ((1 .. LastLeaveDay) \ RestDays)
  BY DEF GrantedDays
<1> QED
  BY <1>2, <1>3

\* No request changes what kind of history it is.
LEMMA LeaveCalm == LeaveNext => calm' = calm
<1> QED
  BY DEF LeaveNext, RequestLeave, LeaveBalance, LeaveOverlap, LeaveCreate, ApproveLeave,
     RejectLeave,
     ApproveRead, Approve, Deduct, Reject, LeaveBreaks, YearPasses

\* LeaveInv holds before anything is granted.
LEMMA LeaveInitially == CalmInit /\ LeaveInit => LeaveInv
<1> SUFFICES ASSUME CalmInit, LeaveInit PROVE LeaveInv
  OBVIOUS
<1>1. LeaveTypeOK /\ years \in {1, 2}
  <2>1. NoRequest \in [status : LeaveStatus, first : 1 .. LastLeaveDay, last : 1 .. LastLeaveDay,
                       annual : BOOLEAN]
    BY LeaveAssumption DEF LeaveStatus, NoRequest
  <2>2. UsedBefore \in Nat
    BY LeaveAssumption
  <2> QED
    BY <2>1, <2>2, LeaveAssumption DEF LeaveInit, LeaveTypeOK
<1>2. GrantedDays = {}
  BY DEF GrantedDays, LeaveInit, NoRequest
<1>3. Cardinality(GrantedDays) = 0
  BY <1>2, FS_EmptySet
<1> QED
  BY <1>1, <1>3, LeaveAssumption DEF LeaveInit, LeaveInv, LeaveCalmInv, LeaveKnown, LeaveDisjoint,
     UsedWithinEntitlement, AnnualLeaveEntitlement, LeaveOpenOrGranted, AnnualOpen, NoRequest

\* Every step keeps the types.
LEMMA LeaveTypeStep == LeaveTypeOK /\ years \in {1, 2} /\ LeaveNext => LeaveTypeOK'
         /\ years' \in {1, 2}
<1> SUFFICES ASSUME LeaveTypeOK, years \in {1, 2}, LeaveNext
             PROVE  LeaveTypeOK' /\ years' \in {1, 2}
  OBVIOUS
<1> USE LeaveAssumption DEF LeaveTypeOK, LeaveStatus, LeaveGo
<1>0. NoRequest \in [status : LeaveStatus, first : 1 .. LastLeaveDay, last : 1 .. LastLeaveDay,
                     annual : BOOLEAN]
  BY DEF NoRequest
<1>1. ASSUME NEW h \in Handler, NEW r \in LeaveRequest, NEW first \in 1 .. LastLeaveDay,
             NEW last \in 1 .. LastLeaveDay, NEW annual \in BOOLEAN,
             RequestLeave(h, r, first, last, annual)
      PROVE  LeaveTypeOK' /\ years' \in {1, 2}
  BY <1>1 DEF RequestLeave, LeaveTake
<1>2. ASSUME NEW h \in Handler, LeaveBalance(h) PROVE LeaveTypeOK' /\ years' \in {1, 2}
  BY <1>0, <1>2 DEF LeaveBalance, Refuse, LeaveAnswer
<1>3. ASSUME NEW h \in Handler, LeaveOverlap(h) PROVE LeaveTypeOK' /\ years' \in {1, 2}
  BY <1>0, <1>3 DEF LeaveOverlap, Refuse, LeaveAnswer
<1>4. ASSUME NEW h \in Handler, LeaveCreate(h) PROVE LeaveTypeOK' /\ years' \in {1, 2}
  BY <1>4 DEF LeaveCreate, LeaveAnswer
<1>5. ASSUME NEW h \in Handler, NEW r \in LeaveRequest, ApproveLeave(h, r) \/ RejectLeave(h, r)
      PROVE  LeaveTypeOK' /\ years' \in {1, 2}
  BY <1>5 DEF ApproveLeave, RejectLeave, LeaveTake
<1>6. ASSUME NEW h \in Handler, ApproveRead(h) PROVE LeaveTypeOK' /\ years' \in {1, 2}
  BY <1>6 DEF ApproveRead
<1>7. ASSUME NEW h \in Handler, Approve(h) PROVE LeaveTypeOK' /\ years' \in {1, 2}
  BY <1>7 DEF Approve, LeaveAnswer
<1>8. ASSUME NEW h \in Handler, Deduct(h) PROVE LeaveTypeOK' /\ years' \in {1, 2}
  <2>1. leaveOf[h] \in LeaveRequest
    BY <1>8 DEF Deduct
  <2>2. DaysOf(leaveOf[h]) \in Nat
    BY <2>1, DaysOfCount
  <2> QED
    BY <1>8, <2>2 DEF Deduct, LeaveAnswer
<1>9. ASSUME NEW h \in Handler, Reject(h) PROVE LeaveTypeOK' /\ years' \in {1, 2}
  BY <1>9 DEF Reject, LeaveAnswer
<1>10. ASSUME NEW h \in Handler, LeaveBreaks(h) PROVE LeaveTypeOK' /\ years' \in {1, 2}
  BY <1>0, <1>10 DEF LeaveBreaks, Refuse, LeaveAnswer
<1>11. CASE YearPasses
  BY <1>11 DEF YearPasses
<1> QED
  BY <1>1, <1>2, <1>3, <1>4, <1>5, <1>6, <1>7, <1>8, <1>9, <1>10, <1>11 DEF LeaveNext

\* The first two years.
LEMMA EntitlementGrows ==
    AnnualLeaveEntitlement(1) = 16 /\ AnnualLeaveEntitlement(2) = 18
  BY DEF AnnualLeaveEntitlement

\* Every step keeps the rest of LeaveInv.
LEMMA LeaveCalmStep ==
    ASSUME LeaveInv, LeaveNext
    PROVE  (LeaveCalmInv /\ LeaveDisjoint /\ (calm => UsedWithinEntitlement))'
<1> DEFINE Sound == LeaveCalmInv /\ LeaveDisjoint /\ (calm => UsedWithinEntitlement)
<1> SUFFICES ASSUME calm, calm' PROVE Sound'
  BY LeaveCalm DEF LeaveCalmInv, LeaveDisjoint
<1>0. /\ \A g, h \in Handler : leaveAt[g] # "idle" /\ leaveAt[h] # "idle" => g = h
      /\ \A h \in Handler : LeaveKnown(h)
      /\ ~crowded => \A q, r \in LeaveRequest : AnnualOpen(q) /\ AnnualOpen(r) => q = r
      /\ \A q \in LeaveRequest : AnnualOpen(q) => Fits(q)
      /\ (\A h \in Handler : leaveAt[h] # "deduct")
          => used = UsedBefore + Cardinality(GrantedDays)
      /\ \A r, q \in LeaveRequest :
            r # q /\ LeaveOpenOrGranted(r) /\ LeaveOpenOrGranted(q) => ~Overlaps(r, q)
      /\ ~crowded => used <= AnnualLeaveEntitlement(years)
  BY DEF LeaveInv, LeaveCalmInv, LeaveDisjoint, UsedWithinEntitlement
<1>t. /\ request \in [LeaveRequest ->
           [status : LeaveStatus, first : 1 .. LastLeaveDay, last : 1 .. LastLeaveDay,
            annual : BOOLEAN]]
      /\ used \in Nat /\ years \in {1, 2}
      /\ leaveAt \in [Handler -> {"idle", "balance", "overlap", "create",
                                "approveRead", "approve", "deduct", "reject"}]
      /\ leaveOf \in [Handler -> LeaveRequest \cup {"none"}]
      /\ usedRead \in [Handler -> Nat] /\ crowded \in BOOLEAN
      /\ \A h \in Handler : leaveAt[h] # "idle" => leaveOf[h] \in LeaveRequest
      /\ LeaveTypeOK
  BY DEF LeaveInv, LeaveTypeOK
<1>d. \A r \in LeaveRequest : WorkingDays(request[r].first, request[r].last) \in Nat
  BY <1>t, DaysOfCount DEF DaysOf
<1>e. Cardinality(GrantedDays) \in Nat /\ UsedBefore \in Nat
      /\ AnnualLeaveEntitlement(1) = 16 /\ AnnualLeaveEntitlement(2) = 18
  BY GrantedFinite, EntitlementGrows, LeaveAssumption
<1> USE DEF DaysOf, LeaveKnown, Fits, BookedAll, AnnualOpen, LeaveOpenOrGranted, Overlaps,
        LeaveCalmInv, LeaveDisjoint, UsedWithinEntitlement, LeaveGo
<1>1. ASSUME NEW h \in Handler, NEW r \in LeaveRequest, NEW first \in 1 .. LastLeaveDay,
             NEW last \in 1 .. LastLeaveDay, NEW annual \in BOOLEAN,
             RequestLeave(h, r, first, last, annual)
      PROVE  Sound'
  <2> DEFINE new == [status |-> "draft", first |-> first, last |-> last, annual |-> annual]
  <2>1. request[r].status = "none" /\ request' = [request EXCEPT ![r] = new]
    BY <1>1 DEF RequestLeave
  <2>2. GrantedDays' = GrantedDays
    BY <1>t, <2>1, GrantKept
  <2>3. \A q \in LeaveRequest : request'[q] = IF q = r THEN new ELSE request[q]
    BY <1>t, <2>1
  <2>4. /\ \A g \in Handler : leaveAt[g] = "idle"
        /\ \A g \in Handler : g # h => leaveAt'[g] = "idle"
        /\ leaveAt'[h] \in {"balance", "overlap"} /\ leaveOf'[h] = r
        /\ (leaveAt'[h] = "overlap" => ~annual)
        /\ UNCHANGED <<used, years, crowded>>
    BY <1>1, <1>t DEF RequestLeave, LeaveTake, MayTake
  <2>5. new.status = "draft" /\ new.annual = annual
    OBVIOUS
  <2> HIDE DEF new
  <2> QED
    BY <1>0, <1>t, <1>d, <1>e, <2>1, <2>2, <2>3, <2>4, <2>5
<1> DEFINE Alone(h) == \A g \in Handler : g # h => leaveAt[g] = "idle" /\ leaveAt'[g] = "idle"
\* A request that ends without having changed what others go by.
<1>2. ASSUME NEW h \in Handler, LeaveAnswer(h), leaveAt[h] \notin {"idle", "deduct"},
             UNCHANGED <<years, used, crowded>>,
             \/ request' = request
             \/ /\ request[leaveOf[h]].status \in {"draft", "PENDING"}
                /\ \E new : /\ request' = [request EXCEPT ![leaveOf[h]] = new]
                            /\ new.status \in {"none", "REJECTED"}
      PROVE  Sound'
  <2>1. Alone(h) /\ leaveAt'[h] = "idle"
    BY <1>0, <1>2, <1>t DEF LeaveAnswer
  <2>2. CASE request' = request
    <3>1. GrantedDays' = GrantedDays
      BY <2>2 DEF GrantedDays
    <3> QED
      BY <1>0, <1>2, <1>t, <1>d, <2>1, <2>2, <3>1
  <2>3. ASSUME request[leaveOf[h]].status \in {"draft", "PENDING"}, NEW new,
               request' = [request EXCEPT ![leaveOf[h]] = new],
                   new.status \in {"none", "REJECTED"}
        PROVE  Sound'
    <3>1. leaveOf[h] \in LeaveRequest
      BY <1>t, <1>2
    <3>2. GrantedDays' = GrantedDays
      BY <1>t, <2>3, <3>1, GrantKept
    <3>3. \A q \in LeaveRequest : request'[q] = IF q = leaveOf[h] THEN new ELSE request[q]
      BY <1>t, <2>3
    <3> QED
      BY <1>0, <1>2, <1>t, <1>d, <2>1, <2>3, <3>1, <3>2, <3>3
  <2> QED
    BY <1>2, <2>2, <2>3
<1>3. ASSUME NEW h \in Handler, Refuse(h), leaveAt[h] \in {"balance", "overlap"},
             UNCHANGED <<years, used, crowded>>
      PROVE  Sound'
  <2>1. LeaveAnswer(h) /\ request' = [request EXCEPT ![leaveOf[h]] = NoRequest]
    BY <1>3 DEF Refuse
  <2>2. request[leaveOf[h]].status = "draft" /\ NoRequest.status = "none"
    BY <1>0, <1>3 DEF NoRequest
  <2> QED
    BY <1>2, <1>3, <2>1, <2>2
\* A request that goes on, and has only learned something.
<1>4. ASSUME NEW h \in Handler, leaveAt[h] \notin {"idle", "deduct"},
             NEW next \in {"overlap", "create", "approve"},
             leaveAt' = [leaveAt EXCEPT ![h] = next],
             UNCHANGED <<request, leaveOf, years, used, crowded>>,
             LeaveKnown(h)'
      PROVE  Sound'
  <2>1. Alone(h) /\ leaveAt'[h] = next
    BY <1>0, <1>4, <1>t
  <2>2. GrantedDays' = GrantedDays
    BY <1>4 DEF GrantedDays
  <2>3. \A g \in Handler : LeaveKnown(g)'
    BY <1>4, <2>1
  <2> QED
    BY <1>0, <1>t, <1>4, <2>1, <2>2, <2>3
<1>5. ASSUME NEW h \in Handler, LeaveBalance(h) PROVE Sound'
  <2>1. leaveAt[h] = "balance" /\ UNCHANGED <<years, used, crowded>>
    BY <1>5 DEF LeaveBalance
  <2>2. CASE Refuse(h)
    BY <1>3, <2>1, <2>2
  <2>3. CASE LeaveGo(h, "overlap") /\ UNCHANGED <<request, leaveOf, usedRead>>
             /\ DaysOf(leaveOf[h]) <= AnnualLeaveEntitlement(years) - used
    <3>1. leaveOf[h] \in LeaveRequest /\ request[leaveOf[h]].status = "draft"
      BY <1>0, <1>t, <2>1
    <3>2. DaysOf(leaveOf[h]) \in Nat
      BY <1>d, <3>1
    <3>3. used + DaysOf(leaveOf[h]) <= AnnualLeaveEntitlement(years)
      BY <1>t, <1>e, <2>3, <3>2
    <3>4. leaveAt'[h] = "overlap" /\ leaveAt' = [leaveAt EXCEPT ![h] = "overlap"]
      BY <1>t, <2>3
    <3>5. LeaveKnown(h)'
      BY <2>1, <2>3, <3>1, <3>3, <3>4
    <3> QED
      BY <1>4, <2>1, <2>3, <3>4, <3>5
  <2> QED
    BY <1>5, <2>2, <2>3 DEF LeaveBalance
<1>6. ASSUME NEW h \in Handler, LeaveOverlap(h) PROVE Sound'
  <2>1. leaveAt[h] = "overlap" /\ UNCHANGED <<years, used, crowded>>
    BY <1>6 DEF LeaveOverlap
  <2>2. CASE Refuse(h)
    BY <1>3, <2>1, <2>2
  <2>3. CASE LeaveGo(h, "create") /\ UNCHANGED <<request, leaveOf, usedRead>>
             /\ ~\E q \in LeaveRequest :
                   request[q].status \in {"PENDING", "APPROVED"} /\ Overlaps(leaveOf[h], q)
    BY <1>0, <1>4, <1>t, <1>d, <1>e, <2>1, <2>3
  <2> QED
    BY <1>6, <2>2, <2>3 DEF LeaveOverlap
<1>7. ASSUME NEW h \in Handler, LeaveCreate(h) PROVE Sound'
  <2> DEFINE r == leaveOf[h]
             new == [request[r] EXCEPT !.status = "PENDING"]
  <2>1. r \in LeaveRequest /\ leaveAt[h] = "create" /\ request[r].status = "draft"
    BY <1>0, <1>7, <1>t DEF LeaveCreate
  <2>2. /\ new.status = "PENDING" /\ new.annual = request[r].annual
        /\ new.first = request[r].first /\ new.last = request[r].last
    BY <1>t, <2>1
  <2>3. request' = [request EXCEPT ![r] = new] /\ UNCHANGED <<years, used>>
        /\ LeaveAnswer(h)
    BY <1>7 DEF LeaveCreate
  <2>9. crowded' = (crowded \/ \E q \in LeaveRequest : request[r].annual /\ AnnualOpen(q))
    BY <1>7 DEF LeaveCreate
  <2> HIDE DEF new
  <2>4. GrantedDays' = GrantedDays
    BY <1>t, <2>1, <2>2, <2>3, GrantKept
  <2>5. \A q \in LeaveRequest : request'[q] = IF q = r THEN new ELSE request[q]
    BY <1>t, <2>3
  <2>6. \A q \in LeaveRequest :
            /\ request'[q].annual = request[q].annual
            /\ request'[q].first = request[q].first /\ request'[q].last = request[q].last
            /\ request'[q].status = IF q = r THEN "PENDING" ELSE request[q].status
    BY <2>2, <2>5
  <2>7. Alone(h) /\ leaveAt'[h] = "idle"
    BY <1>0, <1>t, <2>1, <2>3 DEF LeaveAnswer
  <2>8. ASSUME NEW p \in LeaveRequest, NEW q \in LeaveRequest, p # q,
               LeaveOpenOrGranted(p)', LeaveOpenOrGranted(q)'
        PROVE  ~Overlaps(p, q)'
    BY <1>0, <1>t, <2>1, <2>6, <2>8
  <2> HIDE DEF r
  <2>10. ~crowded' => ~crowded /\ \A q \in LeaveRequest : ~(request[r].annual /\ AnnualOpen(q))
    BY <2>9
  <2>11. ~crowded' => \A p, q \in LeaveRequest : AnnualOpen(q)' /\ AnnualOpen(p)' => q = p
    BY <1>0, <2>1, <2>6, <2>10
  <2>12. ASSUME NEW q \in LeaveRequest, AnnualOpen(q)' PROVE Fits(q)'
    BY <1>0, <1>t, <2>1, <2>3, <2>6, <2>10, <2>12 DEF r
  <2> QED
    BY <1>0, <1>t, <1>e, <2>1, <2>3, <2>4, <2>7, <2>8, <2>10, <2>11, <2>12
<1>8. ASSUME NEW h \in Handler, NEW r \in LeaveRequest, ApproveLeave(h, r) \/ RejectLeave(h, r)
      PROVE  Sound'
  <2>1. /\ request[r].status = "PENDING" /\ request' = request
        /\ \A g \in Handler : leaveAt[g] = "idle"
        /\ \A g \in Handler : g # h => leaveAt'[g] = "idle"
        /\ leaveAt'[h] \in {"approveRead", "reject"} /\ leaveOf'[h] = r
        /\ UNCHANGED <<used, years, crowded>>
    BY <1>8, <1>t DEF ApproveLeave, RejectLeave, LeaveTake, MayTake
  <2>2. GrantedDays' = GrantedDays
    BY <2>1 DEF GrantedDays
  <2> QED
    BY <1>0, <1>t, <1>d, <2>1, <2>2
<1>9. ASSUME NEW h \in Handler, ApproveRead(h) PROVE Sound'
  BY <1>0, <1>4, <1>9, <1>t, <1>d, <1>e DEF ApproveRead
<1>10. ASSUME NEW h \in Handler, Approve(h) PROVE Sound'
  <2> DEFINE r == leaveOf[h]
             new == [request[r] EXCEPT !.status = "APPROVED"]
  <2>1. /\ r \in LeaveRequest /\ leaveAt[h] = "approve" /\ request[r].status = "PENDING"
        /\ usedRead[h] = used
    BY <1>0, <1>10, <1>t DEF Approve
  <2>2. /\ new.status = "APPROVED" /\ new.annual = request[r].annual
        /\ new.first = request[r].first /\ new.last = request[r].last
    BY <1>t, <2>1
  <2>3. request' = [request EXCEPT ![r] = new] /\ UNCHANGED <<years, used, crowded>>
        /\ request' = [request EXCEPT ![r].status = "APPROVED"]
    BY <1>10 DEF Approve
  <2> HIDE DEF new
  <2>5. \A q \in LeaveRequest : request'[q] = IF q = r THEN new ELSE request[q]
    BY <1>t, <2>3
  <2>6. \A q \in LeaveRequest :
            /\ request'[q].annual = request[q].annual
            /\ request'[q].first = request[q].first /\ request'[q].last = request[q].last
            /\ request'[q].status = IF q = r THEN "APPROVED" ELSE request[q].status
    BY <2>2, <2>5
  <2>7. CASE request[r].annual
    <3>1. Cardinality(GrantedDays') = Cardinality(GrantedDays) + DaysOf(r)
      BY <1>t, <2>1, <2>3, <2>7, GrantAdds
    <3>2. Alone(h) /\ leaveAt'[h] = "deduct" /\ UNCHANGED <<leaveOf, usedRead>>
      BY <1>0, <1>10, <1>t, <2>1, <2>7 DEF Approve
    <3>3. used = UsedBefore + Cardinality(GrantedDays)
      BY <1>0, <2>1
    <3>4. BookedAll(h)' /\ Fits(leaveOf[h])'
      BY <1>0, <1>t, <1>d, <1>e, <2>1, <2>3, <2>6, <2>7, <3>1, <3>2, <3>3
    <3>5. ~crowded => \A q \in LeaveRequest : ~AnnualOpen(q)'
      BY <1>0, <2>1, <2>6, <2>7
    <3>6. LeaveKnown(h)'
      BY <2>1, <2>3, <3>2, <3>4, <3>5
    <3>7. \A q \in LeaveRequest : AnnualOpen(q)' => Fits(q)'
      BY <2>3, <3>5
    <3>8. LeaveDisjoint'
      BY <1>0, <2>1, <2>6
    <3> QED
      BY <1>0, <2>3, <3>2, <3>5, <3>6, <3>7, <3>8
  <2>8. CASE ~request[r].annual
    <3>1. GrantedDays' = GrantedDays
      BY <1>t, <2>1, <2>2, <2>3, <2>8, GrantKept
    <3>2. Alone(h) /\ leaveAt'[h] = "idle"
      BY <1>0, <1>10, <1>t, <2>1, <2>8 DEF Approve, LeaveAnswer
    <3>3. LeaveDisjoint'
      BY <1>0, <2>1, <2>6
    <3>4. \A q \in LeaveRequest : AnnualOpen(q)' => AnnualOpen(q) /\ Fits(q)'
      BY <1>0, <2>3, <2>6
    <3> QED
      BY <1>0, <2>1, <2>3, <3>1, <3>2, <3>3, <3>4
  <2> QED
    BY <2>7, <2>8
<1>11. ASSUME NEW h \in Handler, Deduct(h) PROVE Sound'
  <2>1. /\ leaveAt[h] = "deduct" /\ leaveOf[h] \in LeaveRequest /\ usedRead[h] = used
        /\ BookedAll(h) /\ Fits(leaveOf[h]) /\ (~crowded
            => \A q \in LeaveRequest : ~AnnualOpen(q))
    BY <1>0, <1>11, <1>t DEF Deduct
  <2>2. used' = used + DaysOf(leaveOf[h]) /\ UNCHANGED <<request, years, crowded>>
        /\ LeaveAnswer(h)
    BY <1>11, <2>1 DEF Deduct
  <2>3. Alone(h) /\ leaveAt'[h] = "idle"
    BY <1>0, <1>t, <2>1, <2>2 DEF LeaveAnswer
  <2>4. GrantedDays' = GrantedDays
    BY <2>2 DEF GrantedDays
  <2> QED
    BY <1>0, <1>t, <1>d, <2>1, <2>2, <2>3, <2>4
<1>12. ASSUME NEW h \in Handler, Reject(h) PROVE Sound'
  <2> DEFINE new == [request[leaveOf[h]] EXCEPT !.status = "REJECTED"]
  <2>1. leaveAt[h] = "reject" /\ LeaveAnswer(h) /\ UNCHANGED <<years, used, crowded>>
        /\ request' = [request EXCEPT ![leaveOf[h]] = new]
    BY <1>12 DEF Reject
  <2>2. request[leaveOf[h]].status = "PENDING" /\ new.status = "REJECTED"
    BY <1>0, <1>t, <2>1
  <2> HIDE DEF new
  <2> QED
    BY <1>2, <2>1, <2>2
<1>13. ASSUME NEW h \in Handler PROVE ~LeaveBreaks(h)
  BY DEF LeaveBreaks, MayBreak
<1>14. CASE YearPasses
  <2>1. GrantedDays' = GrantedDays
    BY <1>14 DEF GrantedDays, YearPasses
  <2> QED
    BY <1>0, <1>t, <1>d, <1>e, <1>14, <2>1 DEF YearPasses
<1> QED
  BY <1>1, <1>5, <1>6, <1>7, <1>8, <1>9, <1>10, <1>11, <1>12, <1>13, <1>14 DEF LeaveInv, LeaveNext

\* LeaveInv is inductive.
LEMMA LeaveStep == LeaveInv /\ [LeaveNext]_<<leaveVars, calm>> => LeaveInv'
<1> SUFFICES ASSUME LeaveInv, [LeaveNext]_<<leaveVars, calm>> PROVE LeaveInv'
  OBVIOUS
<1>1. CASE LeaveNext
  BY <1>1, LeaveTypeStep, LeaveCalmStep DEF LeaveInv
<1>2. CASE UNCHANGED <<leaveVars, calm>>
  <2>1. GrantedDays' = GrantedDays
    BY <1>2 DEF leaveVars, GrantedDays
  <2> QED
    BY <1>2, <2>1 DEF LeaveInv, LeaveTypeOK, LeaveCalmInv, LeaveKnown, LeaveDisjoint,
       UsedWithinEntitlement, leaveVars, Fits, BookedAll, DaysOf, AnnualOpen, LeaveOpenOrGranted,
       Overlaps
<1> QED
  BY <1>1, <1>2

\* It implies what the run checks.
LEMMA LeaveImplied == LeaveInv => LeaveDisjoint /\ BalanceSound
  BY DEF LeaveInv, LeaveCalmInv, BalanceSound, UsedIsGranted

\* However leave is requested, approved and refused, LeaveInv holds (LeaveService).
THEOREM LeaveInvariance == LeaveSpec => []LeaveInv
  BY LeaveInitially, LeaveStep, PTL DEF LeaveSpec

\* For any leaves and working days: requests that do not overlap never leave somebody
\* away twice on one day, and the balance is what was granted (LeaveService).
THEOREM LeavesStaySound == LeaveSpec => [](LeaveDisjoint /\ BalanceSound)
  BY LeaveImplied, LeaveInvariance, PTL

-----------------------------------------------------------------------------
(*************************************************************************)
(* The forms leave is requested with.  Without overlap there is one call *)
(* at most, and FormsFit says how things are while it is the only one:   *)
(* what it asks about is what is chosen, and what it brings back is what *)
(* the server has.  How long somebody has served is counted in several   *)
(* ways, which find the same anniversary or the one before.              *)
(*************************************************************************)

\* A call of one of the forms.
LeafCall ==
    [at : {"idle", "asked", "seed", "answered", "failed"},
     for : {"none", "types", "balance", "preview", "submit",
            "phoneTypes", "phoneList", "phoneSubmit"},
     who : Applicant \cup {NoApplicant}, days : FormDays \X FormDays, seen : FormDays \X FormDays,
     got : RowStatus, count : 0 .. AllTypes]

\* How things are when c is the only call there is.
FormsFit(c) ==
    /\ c.for = "balance" => c.who = chosen.who /\ formStage # "done"
    /\ c.for = "preview" => c.days = Sent(chosen) /\ Complete(chosen) /\ formStage # "done"
    /\ c.for = "submit" => c.seen \in {NoDays, c.days}
    /\ c.at = "answered" /\ c.for = "submit" => row.from = "form"
    /\ c.at = "answered" /\ c.for = "phoneSubmit" => row.from = "phone"
    /\ c.at = "answered" /\ c.for = "phoneList" /\ row.from = "phone" => c.got # "none"
    /\ c.for \in {"phoneSubmit", "phoneList"} => c.who = PhoneOwner
    /\ c.for \in {"types", "phoneTypes"} => c.count \in {0, AllTypes}
    /\ c.at = "seed" => c.for \in {"types", "phoneTypes"}
    /\ c.at # "seed" => seeded \in {0, AllTypes}
    /\ c.for # "balance" => card \in {NoApplicant, chosen.who}
    /\ c.for # "preview" => preview \in {NoDays, Sent(chosen)}
    /\ row.from = "form" => row.seen \in {NoDays, row.days}
    /\ row.from = "phone" => row.who = PhoneOwner /\ row.status # "none"
    /\ row.from = "phone" /\ row.told # "none" /\ c.for # "phoneList" => phoneRow # "none"
    /\ {offered, phoneTypes} \subseteq {0, AllTypes}

\* c is the only call, or there is none.
OnlyCall(c) ==
    \/ c = NoLeafCall /\ \A h \in Handler : leaf[h] = NoLeafCall
    \/ \E h \in Handler : leaf[h] = c /\ \A g \in Handler : g # h => leaf[g] = NoLeafCall

\* Types, the counted years, and without overlap one call that fits.
LeaveFormsInv ==
    /\ LeaveFormsTypeOK /\ FiguresAgree
    /\ calm => \E c : OnlyCall(c) /\ FormsFit(c)

\* It implies what the run checks.
LEMMA LeaveFormsImplied == LeaveFormsInv => LeaveFormsSound
<1> SUFFICES ASSUME LeaveFormsInv, calm
             PROVE  FormShowsChoice /\ PhoneShowsRequest /\ TypesComplete
  BY DEF LeaveFormsInv, LeaveFormsSound, FormShowsChoice, PhoneShowsRequest, TypesComplete
<1>1. PICK c : OnlyCall(c) /\ FormsFit(c)
  BY DEF LeaveFormsInv
<1>2. ASSUME NEW what \in {"balance", "preview", "phoneList"}, ~UnderWay(what) PROVE c.for # what
  BY <1>1, <1>2 DEF OnlyCall, NoLeafCall, UnderWay
<1> QED
  BY <1>1, <1>2 DEF FormsFit, FormShowsChoice, PhoneShowsRequest, TypesComplete

\* No call changes what kind of history it is.
LEMMA LeaveFormsCalm == LeaveFormsNext => calm' = calm
  BY DEF LeaveFormsNext, AskTypes, SubmitForm, ChooseEmployee, PickDay, TypesCome, BalanceComes,
     PreviewComes, SubmitEnds, PhoneAsks, PhoneSubmits, PhoneSubmitEnds, PhoneListComes,
     PhoneTypesCome, ServeTypes, ServeSeed, ServeFigures, ServeList, ServeRequest, LeafFails,
     SubmitAnother, PhoneSignedOut, ServeDecision, AskLiability, otherThanList, clientSide

\* No call is one, and idle.
LEMMA NoLeafCallTyped == NoLeafCall \in LeafCall /\ NoLeafCall.for = "none"
         /\ NoLeafCall.at = "idle"
  BY LeaveAssumption DEF NoLeafCall, LeafCall, FormDays, NoDays, AllTypes, RowStatus

\* LeaveFormsInv holds before a form is opened.
LEMMA LeaveFormsInitially == CalmInit /\ LeaveFormsInit => LeaveFormsInv
<1> SUFFICES ASSUME LeaveFormsInit PROVE LeaveFormsInv
  OBVIOUS
<1>1. leaf \in [Handler -> LeafCall] /\ \A h \in Handler : leaf[h] = NoLeafCall
  BY NoLeafCallTyped DEF LeaveFormsInit
<1>2. LeaveFormsTypeOK
  <2>1. 0 \in FormDays /\ NoDays \in FormDays \X FormDays /\ "none" \in RowStatus
        /\ 0 \in 0 .. AllTypes
    BY DEF FormDays, NoDays, RowStatus, AllTypes
  <2>2. /\ chosen \in [who : Applicant \cup {NoApplicant}, first : FormDays, last : FormDays]
        /\ row \in [who : Applicant \cup {NoApplicant}, from : {"none", "form", "phone"},
                    days : FormDays \X FormDays, seen : FormDays \X FormDays,
                    status : RowStatus, told : RowStatus]
        /\ figures \in [report : Nat, card : Nat]
    BY <2>1 DEF LeaveFormsInit, NoChoice, NoRow, NoFigures
  <2> QED
    BY <1>1, <2>1, <2>2 DEF LeaveFormsTypeOK, LeaveFormsInit, LeafCall
<1>3. FormsFit(NoLeafCall)
  BY NoLeafCallTyped DEF LeaveFormsInit, FormsFit, NoRow, NoDays
<1>4. FiguresAgree
  BY DEF LeaveFormsInit, FiguresAgree, NoFigures
<1> QED
  BY <1>1, <1>2, <1>3, <1>4 DEF LeaveFormsInv, OnlyCall

-----------------------------------------------------------------------------
\* Around an anniversary each way of counting finds it or the one before.
LEMMA YearsCounted ==
    ASSUME NEW n \in 1 .. 4, NEW leap \in 0 .. 3, NEW q \in 0 .. 5
    PROVE  LET t == Anniversary(n, leap) + q - 2
           IN  /\ CalendarYears(t, leap) \in {n - 1, n} /\ MeanYears(t) \in {n - 1, n}
               /\ AnnualLeaveEntitlement(CalendarYears(t, leap)) \in Nat
               /\ AnnualLeaveEntitlement(MeanYears(t)) \in Nat
               /\ AnnualLeaveEntitlement(CalendarYears(t, leap))
                    <= AnnualLeaveEntitlement(MeanYears(t)) + 2
               /\ AnnualLeaveEntitlement(MeanYears(t))
                    <= AnnualLeaveEntitlement(CalendarYears(t, leap)) + 2
<1> DEFINE t == Anniversary(n, leap) + q - 2
           A(m) == 4 * (365 * m + (m + leap) \div 4)
<1>1. t \in Int /\ 1460 * n - 2 <= t /\ t <= 1460 * n + 7 /\ t = A(n) + q - 2
  BY DEF Anniversary
<1>2. MeanYears(t) \in {n - 1, n}
  BY <1>1 DEF MeanYears
<1>3. \A m \in 1 .. 5 : (m + leap) \div 4 \in {0, 1, 2}
  OBVIOUS
<1>4. \A m \in Nat : (m + leap) \div 4 \in Nat /\ A(m) \in Nat /\ A(m) >= 1460 * m
  OBVIOUS
<1>5. \A m \in 1 .. 4 : m < n => A(m) + 1460 <= A(n)
  OBVIOUS
<1>6. t \div 1460 \in {n - 1, n}
  BY <1>1
<1> HIDE DEF A
<1> DEFINE S == {m \in 1 .. t \div 1460 : Anniversary(m, leap) <= t}
<1>7. S = {m \in 1 .. t \div 1460 : A(m) <= t}
  BY DEF Anniversary, A
<1> HIDE DEF S, t
<1>8. S = 1 .. n - 1 \/ S = 1 .. n
  <2>1. ASSUME NEW m \in 1 .. n - 1 PROVE m \in S
    <3>1. m \in 1 .. 4 /\ m \in Nat /\ n \in Nat /\ m < n
      OBVIOUS
    <3>2. A(m) \in Nat /\ A(n) \in Nat /\ A(m) + 1460 <= A(n)
      BY <1>4, <1>5, <3>1
    <3>3. A(m) <= t
      BY <1>1, <3>2
    <3>4. m \in 1 .. t \div 1460
      BY <1>6, <3>1
    <3> QED
      BY <1>7, <3>3, <3>4
  <2>2. S \subseteq 1 .. n
    BY <1>6, <1>7
  <2>3. CASE n \in S
    <3>1. \A m \in 1 .. n : m \in S
      BY <2>1, <2>3
    <3> QED
      BY <2>2, <3>1
  <2>4. CASE n \notin S
    <3>1. \A m \in S : m \in 1 .. n - 1
      BY <2>2, <2>4
    <3> QED
      BY <2>1, <3>1
  <2> QED
    BY <2>3, <2>4
<1>9. Cardinality(S) \in {n - 1, n}
  <2>1. Cardinality(1 .. n - 1) = n - 1 /\ Cardinality(1 .. n) = n
    BY FS_Interval
  <2> QED
    BY <1>8, <2>1
<1>10. CalendarYears(t, leap) \in {n - 1, n}
  BY <1>9 DEF CalendarYears, S
<1>11. \A x, y \in {n - 1, n} : /\ AnnualLeaveEntitlement(x) \in Nat
                               /\ AnnualLeaveEntitlement(x) <= AnnualLeaveEntitlement(y) + 2
  BY DEF AnnualLeaveEntitlement
<1> QED
  BY <1>2, <1>10, <1>11 DEF t

\* Every step keeps the types.
LEMMA LeaveFormsTypeStep == LeaveFormsTypeOK /\ LeaveFormsNext => LeaveFormsTypeOK'
<1> SUFFICES ASSUME LeaveFormsTypeOK, LeaveFormsNext PROVE LeaveFormsTypeOK'
  OBVIOUS
<1> DEFINE Days == FormDays \X FormDays
           Who == Applicant \cup {NoApplicant}
           Selection == [who : Who, first : FormDays, last : FormDays]
           RowType == [who : Who, from : {"none", "form", "phone"}, days : Days, seen : Days,
                       status : RowStatus, told : RowStatus]
           LeafType == leaf \in [Handler -> LeafCall]
                       /\ \A h \in Handler : leaf[h].at = "idle" => leaf[h] = NoLeafCall
           Rest == /\ ahead \in BOOLEAN /\ counting \in BOOLEAN /\ chosen \in Selection
                   /\ card \in Who /\ preview \in Days
                   /\ formStage \in {"form", "sending", "done"}
                   /\ seeded \in 0 .. AllTypes /\ offered \in 0 .. AllTypes
                   /\ phoneTypes \in 0 .. AllTypes
                   /\ row \in RowType /\ phoneRow \in RowStatus \cup {"mock"}
                   /\ figures \in [report : Nat, card : Nat]
<1>0. LeafType /\ Rest
  BY DEF LeaveFormsTypeOK, LeafCall
<1>1. SUFFICES LeafType' /\ Rest'
  BY DEF LeaveFormsTypeOK, LeafCall
<1>2. /\ NoDays \in Days /\ NoApplicant \in Who /\ PhoneOwner \in Who
      /\ \A d \in Pickable : d \in FormDays /\ d # 0 /\ <<d, d>> \in Days
      /\ 0 \in FormDays
  BY LeaveAssumption, LeaveFormsAssumption DEF NoDays, FormDays, PhoneOwner
<1>3. ASSUME NEW c \in Selection, Complete(c) PROVE Sent(c) \in Days
  BY <1>3, LeaveAssumption DEF Complete, Sent, FormDays
<1>4. ASSUME NEW h \in Handler, NEW c \in LeafCall, leaf' = [leaf EXCEPT ![h] = c],
             c.at = "idle" => c = NoLeafCall
      PROVE  LeafType'
  <2>1. \A g \in Handler : leaf'[g] = IF g = h THEN c ELSE leaf[g]
    BY <1>0, <1>4
  <2> HIDE DEF Selection, RowType
  <2> QED
    BY <1>0, <1>4, <2>1
<1>5. ASSUME NEW h \in Handler, NEW what \in {"types", "balance", "preview", "submit",
             "phoneTypes", "phoneList", "phoneSubmit"}, NEW who \in Who,
             NEW days \in Days, NEW seen \in Days, Ask(h, what, who, days, seen)
      PROVE  LeafType'
  <2> DEFINE c == [NoLeafCall EXCEPT !.at = "asked", !.for = what, !.who = who,
                                 !.days = days, !.seen = seen]
  <2>1. c \in LeafCall /\ c.at = "asked"
    BY NoLeafCallTyped DEF LeafCall
  <2>2. leaf' = [leaf EXCEPT ![h] = c]
    BY <1>5 DEF Ask
  <2> HIDE DEF c
  <2> QED
    BY <1>4, <2>1, <2>2
<1>6. ASSUME NEW h \in Handler, CallEnds(h) PROVE LeafType'
  BY <1>4, <1>6, NoLeafCallTyped DEF CallEnds
<1> HIDE DEF Selection, RowType, LeafType, Days
<1>12. ASSUME NEW h \in Handler PROVE leaf[h] \in LeafCall /\ leaf[h].count \in 0 .. AllTypes
          /\ leaf[h].who \in Who /\ leaf[h].days \in Days /\ leaf[h].seen \in Days
          /\ leaf[h].got \in RowStatus
  BY <1>0 DEF LeafType, LeafCall, Days
<1>7. ASSUME NEW h \in Handler, leaf[h].at # "idle",
             NEW at \in {"asked", "seed", "answered", "failed"},
             NEW got \in RowStatus, NEW count \in 0 .. AllTypes,
             leaf' = [leaf EXCEPT ![h] = [leaf[h] EXCEPT !.at = at, !.got = got, !.count = count]]
      PROVE  LeafType'
  <2> DEFINE c == [leaf[h] EXCEPT !.at = at, !.got = got, !.count = count]
  <2>1. c \in LeafCall /\ c.at # "idle"
    BY <1>7, <1>12 DEF LeafCall, Days
  <2>2. leaf' = [leaf EXCEPT ![h] = c]
    BY <1>7
  <2> HIDE DEF c
  <2> QED
    BY <1>4, <2>1, <2>2
<1>8. ASSUME NEW h \in Handler, AskTypes(h) PROVE LeafType' /\ Rest'
  BY <1>0, <1>2, <1>5, <1>8 DEF AskTypes, AskFirst, formOnly, phoneOnly
<1>9. ASSUME NEW h \in Handler, SubmitForm(h) PROVE LeafType' /\ Rest'
  <2>1. /\ Sent(chosen) \in Days /\ chosen.who \in Who
        /\ (IF counting THEN NoDays ELSE preview) \in Days
    BY <1>0, <1>2, <1>3, <1>9 DEF SubmitForm, Selection
  <2>2. Ask(h, "submit", chosen.who, Sent(chosen), IF counting THEN NoDays ELSE preview)
    BY <1>9 DEF SubmitForm, AskFirst
  <2>3. LeafType'
    BY <1>5, <2>1, <2>2
  <2> QED
    BY <1>0, <1>9, <2>3 DEF SubmitForm, phoneOnly
<1>10. ASSUME NEW h \in Handler, NEW p \in Who, ChooseEmployee(h, p) PROVE LeafType' /\ Rest'
  <2>1. chosen' \in Selection
    BY <1>0, <1>10 DEF ChooseEmployee, Selection
  <2>2. LeafType'
    BY <1>0, <1>2, <1>5, <1>10 DEF ChooseEmployee, AskFirst, LeafType
  <2> QED
    BY <1>0, <1>10, <2>1, <2>2 DEF ChooseEmployee, phoneOnly
<1>11. ASSUME NEW h \in Handler, NEW which \in {"first", "last"}, NEW d \in Pickable,
              PickDay(h, which, d)
       PROVE  LeafType' /\ Rest'
  <2>1. chosen' \in Selection
    BY <1>0, <1>2, <1>11 DEF PickDay, Selection
  <2>2. CASE Complete(chosen')
    <3>1. Sent(chosen') \in Days /\ Ask(h, "preview", NoApplicant, Sent(chosen'), NoDays)
      BY <1>3, <1>11, <2>1, <2>2 DEF PickDay, AskFirst
    <3>2. LeafType'
      BY <1>2, <1>5, <3>1
    <3> QED
      BY <1>0, <1>11, <2>1, <2>2, <3>2 DEF PickDay, phoneOnly
  <2>3. CASE ~Complete(chosen')
    <3>1. preview' = NoDays /\ UNCHANGED <<leaf, counting>>
      BY <1>11, <2>3 DEF PickDay
    <3> QED
      BY <1>0, <1>2, <1>11, <2>1, <3>1 DEF PickDay, phoneOnly, LeafType
  <2> QED
    BY <2>2, <2>3
<1>13. ASSUME NEW h \in Handler, TypesCome(h) \/ BalanceComes(h) \/ PreviewComes(h)
              \/ SubmitEnds(h)
       PROVE  LeafType' /\ Rest'
  <2>1. LeafType'
    BY <1>6, <1>13 DEF TypesCome, BalanceComes, PreviewComes, SubmitEnds, Comes
  <2>2. [row EXCEPT !.told = "PENDING"] \in RowType
    BY <1>0 DEF RowType, RowStatus
  <2>3. 0 \in 0 .. AllTypes
    BY DEF AllTypes
  <2>4. CASE TypesCome(h)
    BY <1>0, <1>2, <1>12, <2>1, <2>3, <2>4 DEF TypesCome, phoneOnly
  <2>5. CASE BalanceComes(h)
    BY <1>0, <1>2, <1>12, <2>1, <2>5 DEF BalanceComes, phoneOnly
  <2>6. CASE PreviewComes(h)
    BY <1>0, <1>2, <1>12, <2>1, <2>6 DEF PreviewComes, phoneOnly
  <2>7. CASE SubmitEnds(h)
    BY <1>0, <1>2, <1>12, <2>1, <2>2, <2>7 DEF SubmitEnds, phoneOnly
  <2> QED
    BY <1>13, <2>4, <2>5, <2>6, <2>7
<1>14. ASSUME NEW h \in Handler, NEW what \in {"phoneTypes", "phoneList"}, PhoneAsks(h, what)
       PROVE  LeafType' /\ Rest'
  BY <1>0, <1>2, <1>5, <1>14 DEF PhoneAsks, AskFirst, otherThanList, formOnly
<1>15. ASSUME NEW h \in Handler, NEW d \in Pickable, PhoneSubmits(h, d) PROVE LeafType' /\ Rest'
  BY <1>0, <1>2, <1>5, <1>15 DEF PhoneSubmits, AskFirst, otherThanList, formOnly
<1>16. ASSUME NEW h \in Handler, PhoneSubmitEnds(h) PROVE LeafType' /\ Rest'
  <2>1. LeafType'
    BY <1>2, <1>5, <1>6, <1>16 DEF PhoneSubmitEnds
  <2>2. [row EXCEPT !.told = "PENDING"] \in RowType
    BY <1>0 DEF RowType, RowStatus
  <2> QED
    BY <1>0, <1>16, <2>1, <2>2 DEF PhoneSubmitEnds, otherThanList, formOnly
<1>17. ASSUME NEW h \in Handler, PhoneListComes(h) \/ PhoneTypesCome(h) PROVE LeafType' /\ Rest'
  <2>1. LeafType'
    BY <1>6, <1>17 DEF PhoneListComes, PhoneTypesCome, Comes
  <2>2. CASE PhoneListComes(h)
    BY <1>0, <1>12, <2>1, <2>2 DEF PhoneListComes, otherThanList, formOnly
  <2>3. CASE PhoneTypesCome(h)
    BY <1>0, <1>12, <2>1, <2>3 DEF PhoneTypesCome, formOnly
  <2> QED
    BY <1>17, <2>2, <2>3
<1>18. ASSUME NEW h \in Handler, NEW got \in RowStatus, NEW count \in 0 .. AllTypes, Says(h, got,
              count),
              leaf[h].at # "idle"
       PROVE  LeafType'
  BY <1>7, <1>18 DEF Says
<1>19. "none" \in RowStatus /\ 0 \in 0 .. AllTypes
  BY DEF RowStatus, AllTypes
<1>20. ASSUME NEW h \in Handler, NEW at \in {"seed", "failed"}, leaf[h].at # "idle",
              leaf' = [leaf EXCEPT ![h].at = at]
       PROVE  LeafType'
  <2> DEFINE c == [leaf[h] EXCEPT !.at = at]
  <2>1. c \in LeafCall /\ c.at # "idle"
    BY <1>12, <1>20 DEF LeafCall
  <2>2. leaf' = [leaf EXCEPT ![h] = c]
    BY <1>20
  <2> HIDE DEF c
  <2> QED
    BY <1>4, <2>1, <2>2
<1>21. ASSUME NEW h \in Handler, ServeTypes(h) PROVE LeafType' /\ Rest'
  <2>1. LeafType'
    BY <1>0, <1>18, <1>19, <1>20, <1>21 DEF ServeTypes, LeafAsked
  <2> QED
    BY <1>0, <1>21, <2>1 DEF ServeTypes, clientSide, formOnly, phoneOnly
<1>22. ASSUME NEW h \in Handler, ServeSeed(h) PROVE LeafType' /\ Rest'
  <2>1. CASE seeded < AllTypes
    <3>1. seeded' \in 0 .. AllTypes /\ leaf' = leaf
      BY <1>0, <1>22, <2>1 DEF ServeSeed, AllTypes
    <3> QED
      BY <1>0, <1>22, <3>1 DEF ServeSeed, clientSide, formOnly, phoneOnly, LeafType
  <2>2. CASE ~(seeded < AllTypes)
    <3>1. LeafType' /\ seeded' = seeded
      BY <1>0, <1>18, <1>19, <1>22, <2>2 DEF ServeSeed
    <3> QED
      BY <1>0, <1>22, <3>1 DEF ServeSeed, clientSide, formOnly, phoneOnly
  <2> QED
    BY <2>1, <2>2
<1>23. ASSUME NEW h \in Handler, ServeFigures(h) \/ ServeList(h) PROVE LeafType' /\ Rest'
  <2>1. row.status \in RowStatus
    BY <1>0 DEF RowType
  <2>2. LeafType'
    BY <1>18, <1>19, <1>23, <2>1 DEF ServeFigures, ServeList, LeafAsked
  <2> QED
    BY <1>0, <1>23, <2>2 DEF ServeFigures, ServeList, clientSide, formOnly, phoneOnly
<1>24. ASSUME NEW h \in Handler, ServeRequest(h) PROVE LeafType' /\ Rest'
  <2>1. LeafType'
    BY <1>18, <1>19, <1>24 DEF ServeRequest, LeafAsked
  <2>2. row' \in RowType
    BY <1>12, <1>24 DEF ServeRequest, RowType, RowStatus
  <2> QED
    BY <1>0, <1>24, <2>1, <2>2 DEF ServeRequest, clientSide, formOnly, phoneOnly
<1>25. ASSUME NEW h \in Handler, LeafFails(h) PROVE LeafType' /\ Rest'
  <2>1. leaf' = [leaf EXCEPT ![h] = [leaf[h] EXCEPT !.at = "failed", !.got = "none", !.count = 0]]
    BY <1>0, <1>25 DEF LeafFails, LeafType
  <2>0. leaf[h].at # "idle" /\ "none" \in RowStatus /\ 0 \in 0 .. AllTypes
    BY <1>25 DEF LeafFails, RowStatus, AllTypes
  <2>2. LeafType'
    BY <1>7, <2>0, <2>1
  <2> QED
    BY <1>0, <1>25, <2>2 DEF LeafFails, clientSide, formOnly, phoneOnly
<1>26. CASE SubmitAnother
  <2>1. chosen' \in Selection
    BY <1>0, <1>2, <1>26 DEF SubmitAnother, Selection
  <2> QED
    BY <1>0, <1>2, <1>26, <2>1 DEF SubmitAnother, phoneOnly, LeafType
<1>27. CASE PhoneSignedOut
  BY <1>0, <1>27 DEF PhoneSignedOut, otherThanList, formOnly, LeafType
<1>28. ASSUME NEW verdict \in {"APPROVED", "REJECTED"}, ServeDecision(verdict)
       PROVE  LeafType' /\ Rest'
  <2>1. row' \in RowType
    BY <1>0, <1>28 DEF ServeDecision, RowType, RowStatus
  <2> QED
    BY <1>0, <1>28, <2>1 DEF ServeDecision, clientSide, formOnly, phoneOnly, LeafType
<1>29. ASSUME NEW n \in 1 .. 4, NEW leap \in 0 .. 3, NEW q \in 0 .. 5, AskLiability(n, leap, q)
       PROVE  LeafType' /\ Rest'
  <2>1. figures' \in [report : Nat, card : Nat]
    BY <1>29, YearsCounted DEF AskLiability
  <2> QED
    BY <1>0, <1>29, <2>1 DEF AskLiability, formOnly, phoneOnly, LeafType
<1> QED
  BY <1>8, <1>9, <1>10, <1>11, <1>13, <1>14, <1>15, <1>16, <1>17, <1>21, <1>22, <1>23, <1>24,
     <1>25, <1>26, <1>27, <1>28, <1>29 DEF LeaveFormsNext

\* What was counted stays as it was counted.
LEMMA FiguresStep == FiguresAgree /\ LeaveFormsNext => FiguresAgree'
<1> SUFFICES ASSUME FiguresAgree, LeaveFormsNext PROVE FiguresAgree'
  OBVIOUS
<1>1. ASSUME NEW n \in 1 .. 4, NEW leap \in 0 .. 3, NEW q \in 0 .. 5, AskLiability(n, leap, q)
      PROVE  FiguresAgree'
  <2> DEFINE t == Anniversary(n, leap) + q - 2
             report == AnnualLeaveEntitlement(CalendarYears(t, leap))
             shown == AnnualLeaveEntitlement(MeanYears(t))
  <2>1. report <= shown + 2 /\ shown <= report + 2
    BY YearsCounted
  <2>2. figures' = [report |-> report, card |-> shown]
    BY <1>1 DEF AskLiability
  <2> HIDE DEF report, shown
  <2> QED
    BY <2>1, <2>2 DEF FiguresAgree
<1>2. figures' = figures
      \/ \E n \in 1 .. 4, leap \in 0 .. 3, q \in 0 .. 5 : AskLiability(n, leap, q)
  BY DEF LeaveFormsNext, AskTypes, SubmitForm, ChooseEmployee, PickDay, TypesCome, BalanceComes,
     PreviewComes, SubmitEnds, PhoneAsks, PhoneSubmits, PhoneSubmitEnds, PhoneListComes,
     PhoneTypesCome, ServeTypes, ServeSeed, ServeFigures, ServeList, ServeRequest, LeafFails,
     SubmitAnother, PhoneSignedOut, ServeDecision, otherThanList, clientSide
<1> QED
  BY <1>1, <1>2 DEF FiguresAgree

\* Without overlap the only call still fits after every step.
LEMMA LeaveFormsCalmStep ==
    ASSUME LeaveFormsInv, LeaveFormsNext, calm
    PROVE  (\E c : OnlyCall(c) /\ FormsFit(c))'
<1> DEFINE Fit == \E c : OnlyCall(c) /\ FormsFit(c)
<1>1. PICK c : OnlyCall(c) /\ FormsFit(c)
  BY DEF LeaveFormsInv
<1>t. /\ leaf \in [Handler -> LeafCall]
      /\ \A h \in Handler : leaf[h].at = "idle" => leaf[h] = NoLeafCall
      /\ chosen \in [who : Applicant \cup {NoApplicant}, first : FormDays, last : FormDays]
      /\ row \in [who : Applicant \cup {NoApplicant}, from : {"none", "form", "phone"},
                days : FormDays \X FormDays, seen : FormDays \X FormDays,
                status : RowStatus, told : RowStatus]
      /\ seeded \in 0 .. AllTypes
  BY DEF LeaveFormsInv, LeaveFormsTypeOK, LeafCall
<1>n. NoLeafCall.at = "idle" /\ NoLeafCall.for = "none"
  BY NoLeafCallTyped
\* A call that is made finds no other, and one that is served is the only one.
<1>2. ASSUME NEW h \in Handler, MayTake(h, LeafAt)
      PROVE  c = NoLeafCall /\ \A g \in Handler : leaf[g] = NoLeafCall
  <2>1. \A g \in Handler : leaf[g].at = "idle"
    BY <1>2, <1>t DEF MayTake, LeafAt
  <2> QED
    BY <1>1, <1>t, <2>1 DEF OnlyCall
<1>3. ASSUME NEW h \in Handler, leaf[h].at # "idle"
      PROVE  leaf[h] = c /\ \A g \in Handler : g # h => leaf[g] = NoLeafCall
  BY <1>1, <1>3, <1>n DEF OnlyCall
<1>4. ASSUME NEW h \in Handler, NEW d, leaf' = [leaf EXCEPT ![h] = d],
             \A g \in Handler : g # h => leaf[g] = NoLeafCall, FormsFit(d)'
      PROVE  Fit'
  BY <1>4, <1>t DEF OnlyCall
<1>5. ASSUME leaf' = leaf, FormsFit(c)' PROVE Fit'
  BY <1>1, <1>5 DEF OnlyCall
<1>6. ASSUME NEW h \in Handler, NEW what, NEW who, NEW days, NEW seen,
             AskFirst(h, what, who, days, seen),
             FormsFit([NoLeafCall EXCEPT !.at = "asked", !.for = what, !.who = who,
                                         !.days = days, !.seen = seen])'
      PROVE  Fit'
  <2> DEFINE d == [NoLeafCall EXCEPT !.at = "asked", !.for = what, !.who = who,
                                     !.days = days, !.seen = seen]
  <2>1. leaf' = [leaf EXCEPT ![h] = d] /\ MayTake(h, LeafAt)
    BY <1>6 DEF AskFirst, Ask
  <2>2. \A g \in Handler : leaf[g] = NoLeafCall
    BY <1>2, <2>1
  <2>3. FormsFit(d)'
    BY <1>6
  <2> HIDE DEF d
  <2> QED
    BY <1>4, <2>1, <2>2, <2>3
<1>7. ASSUME NEW what, NEW who, NEW days, NEW seen
      PROVE  LET d == [NoLeafCall EXCEPT !.at = "asked", !.for = what, !.who = who,
                                         !.days = days, !.seen = seen]
             IN  d.at = "asked" /\ d.for = what /\ d.who = who /\ d.days = days /\ d.seen = seen
                 /\ d.count = 0
  BY DEF NoLeafCall
<1>8. ASSUME NEW h \in Handler, AskTypes(h) PROVE Fit'
  <2> DEFINE d == [NoLeafCall EXCEPT !.at = "asked", !.for = "types", !.who = NoApplicant,
                                     !.days = NoDays, !.seen = NoDays]
  <2>1. AskFirst(h, "types", NoApplicant, NoDays, NoDays)
        /\ UNCHANGED <<chosen, card, preview, formStage, offered, seeded, row, phoneRow,
                       phoneTypes>>
        /\ UNCHANGED ahead
    BY <1>8 DEF AskTypes, formOnly, phoneOnly
  <2>2. c = NoLeafCall
    BY <1>2, <2>1 DEF AskFirst
  <2>3. d.at = "asked" /\ d.for = "types" /\ d.count = 0
    BY <1>7
  <2> HIDE DEF d
  <2>4. FormsFit(d)'
    BY <1>1, <1>n, <2>1, <2>2, <2>3 DEF FormsFit, Sent, Complete
  <2> QED
    BY <1>6, <2>1, <2>4 DEF d
<1>9. ASSUME NEW h \in Handler, SubmitForm(h) PROVE Fit'
  <2>0. PICK days, seen, who : days = Sent(chosen)
      /\ seen = (IF counting THEN NoDays ELSE preview)
                              /\ who = chosen.who
    OBVIOUS
  <2> DEFINE d == [NoLeafCall EXCEPT !.at = "asked", !.for = "submit", !.who = who,
                                     !.days = days, !.seen = seen]
  <2>1. AskFirst(h, "submit", who, days, seen)
        /\ UNCHANGED <<chosen, card, preview, offered, seeded, row, phoneRow, phoneTypes>>
        /\ UNCHANGED ahead
    BY <1>9, <2>0 DEF SubmitForm, phoneOnly
  <2>2. c = NoLeafCall
    BY <1>2, <2>1 DEF AskFirst
  <2>3. d.at = "asked" /\ d.for = "submit" /\ d.count = 0 /\ d.days = days /\ d.seen = seen
    BY <1>7
  <2>4. seen \in {NoDays, days}
    BY <1>1, <1>n, <2>0, <2>2 DEF FormsFit
  <2> HIDE DEF d
  <2>5. FormsFit(d)'
    BY <1>1, <1>n, <2>1, <2>2, <2>3, <2>4 DEF FormsFit, Sent, Complete
  <2> QED
    BY <1>6, <2>1, <2>5 DEF d
<1>10. ASSUME NEW h \in Handler, NEW p, ChooseEmployee(h, p) PROVE Fit'
  <2>1. /\ chosen' = [chosen EXCEPT !.who = p] /\ formStage # "done"
        /\ UNCHANGED <<ahead, preview, formStage, offered, seeded, row, phoneRow, phoneTypes>>
        /\ ~UnderWay("balance")
    BY <1>10 DEF ChooseEmployee, phoneOnly
  <2>2. chosen'.who = p /\ chosen'.first = chosen.first /\ chosen'.last = chosen.last
    BY <1>t, <2>1
  <2>3. Sent(chosen)' = Sent(chosen) /\ Complete(chosen)' = Complete(chosen)
    BY <2>1, <2>2 DEF Sent, Complete
  <2>4. c.for # "balance"
    BY <1>1, <1>n, <2>1 DEF OnlyCall, UnderWay
  <2>5. CASE p = NoApplicant
    <3>1. card' = NoApplicant /\ leaf' = leaf
      BY <1>10, <2>5 DEF ChooseEmployee
    <3>2. FormsFit(c)'
      BY <1>1, <2>1, <2>3, <2>4, <3>1 DEF FormsFit
    <3> QED
      BY <1>5, <3>1, <3>2
  <2>6. CASE p # NoApplicant
    <3> DEFINE d == [NoLeafCall EXCEPT !.at = "asked", !.for = "balance", !.who = p,
                                     !.days = NoDays, !.seen = NoDays]
    <3>1. AskFirst(h, "balance", p, NoDays, NoDays)
      BY <1>10, <2>6 DEF ChooseEmployee
    <3>2. c = NoLeafCall
      BY <1>2, <3>1 DEF AskFirst
    <3>3. d.at = "asked" /\ d.for = "balance" /\ d.who = p
      BY <1>7
    <3> HIDE DEF d
    <3>4. FormsFit(d)'
      BY <1>1, <1>n, <2>1, <2>2, <2>3, <3>2, <3>3 DEF FormsFit
    <3> QED
      BY <1>6, <3>1, <3>4 DEF d
  <2> QED
    BY <2>5, <2>6
<1>11. ASSUME NEW h \in Handler, NEW which \in {"first", "last"}, NEW d \in Pickable,
              PickDay(h, which, d)
       PROVE  Fit'
  <2>1. /\ chosen' = [chosen EXCEPT ![which] = d] /\ formStage # "done"
        /\ UNCHANGED <<ahead, card, formStage, offered, seeded, row, phoneRow, phoneTypes>>
    BY <1>11 DEF PickDay, phoneOnly
  <2>2. chosen'.who = chosen.who /\ (Complete(chosen) => Complete(chosen'))
    BY <1>t, <2>1, LeaveFormsAssumption DEF Complete
  <2>3. CASE Complete(chosen')
    <3>0. PICK days : days = Sent(chosen')
      OBVIOUS
    <3> DEFINE e == [NoLeafCall EXCEPT !.at = "asked", !.for = "preview", !.who = NoApplicant,
                                     !.days = days, !.seen = NoDays]
    <3>1. AskFirst(h, "preview", NoApplicant, days, NoDays)
      BY <1>11, <2>3, <3>0 DEF PickDay
    <3>2. c = NoLeafCall
      BY <1>2, <3>1 DEF AskFirst
    <3>3. e.at = "asked" /\ e.for = "preview" /\ e.days = days
      BY <1>7
    <3>5. days = Sent(chosen)'
      BY <2>1, <3>0 DEF Sent
    <3>6. Complete(chosen)'
      BY <2>3 DEF Complete
    <3> HIDE DEF e
    <3>4. FormsFit(e)'
      BY <1>1, <1>n, <2>1, <2>2, <3>2, <3>3, <3>5, <3>6 DEF FormsFit
    <3>7. leaf' = [leaf EXCEPT ![h] = e]
      BY <3>1 DEF e, AskFirst, Ask
    <3>8. \A g \in Handler : leaf[g] = NoLeafCall
      BY <1>2, <3>1 DEF AskFirst
    <3> QED
      BY <1>4, <3>4, <3>7, <3>8
  <2>4. CASE ~Complete(chosen')
    <3>1. preview' = NoDays /\ leaf' = leaf
      BY <1>11, <2>4 DEF PickDay
    <3>2. c.for # "preview"
      BY <1>1, <2>2, <2>4 DEF FormsFit
    <3>3. FormsFit(c)'
      BY <1>1, <2>1, <2>2, <3>1, <3>2 DEF FormsFit
    <3> QED
      BY <1>5, <3>1, <3>3
  <2> QED
    BY <2>3, <2>4
\* The call ends.
<1>12. ASSUME NEW h \in Handler, leaf[h].at # "idle", CallEnds(h), FormsFit(NoLeafCall)'
       PROVE  Fit'
  BY <1>3, <1>4, <1>12 DEF CallEnds
<1>13. ASSUME NEW h \in Handler, TypesCome(h) PROVE Fit'
  <2>1. /\ c = leaf[h] /\ c.at \in {"answered", "failed"} /\ c.for = "types" /\ CallEnds(h)
        /\ leaf[h].at # "idle" /\ offered' \in {0, c.count}
        /\ UNCHANGED <<ahead, chosen, card, preview, formStage, seeded, row, phoneRow,
                       phoneTypes>>
    BY <1>3, <1>13 DEF TypesCome, Comes, phoneOnly
  <2>2. FormsFit(NoLeafCall)'
    BY <1>1, <1>n, <2>1 DEF FormsFit, Sent, Complete
  <2> QED
    BY <1>12, <2>1, <2>2
<1>14. ASSUME NEW h \in Handler, BalanceComes(h) PROVE Fit'
  <2>1. /\ c = leaf[h] /\ c.at \in {"answered", "failed"} /\ c.for = "balance" /\ CallEnds(h)
        /\ leaf[h].at # "idle" /\ card' \in {NoApplicant, c.who}
        /\ UNCHANGED <<ahead, chosen, preview, formStage, offered, seeded, row, phoneRow,
                       phoneTypes>>
    BY <1>3, <1>14 DEF BalanceComes, Comes, phoneOnly
  <2>2. FormsFit(NoLeafCall)'
    BY <1>1, <1>n, <2>1 DEF FormsFit, Sent, Complete
  <2> QED
    BY <1>12, <2>1, <2>2
<1>15. ASSUME NEW h \in Handler, PreviewComes(h) PROVE Fit'
  <2>1. /\ c = leaf[h] /\ c.at \in {"answered", "failed"} /\ c.for = "preview" /\ CallEnds(h)
        /\ leaf[h].at # "idle" /\ preview' \in {NoDays, c.days}
        /\ UNCHANGED <<ahead, chosen, card, formStage, offered, seeded, row, phoneRow,
                       phoneTypes>>
    BY <1>3, <1>15 DEF PreviewComes, Comes, phoneOnly
  <2>2. FormsFit(NoLeafCall)'
    BY <1>1, <1>n, <2>1 DEF FormsFit, Sent, Complete
  <2> QED
    BY <1>12, <2>1, <2>2
\* What is told of a row says nothing of the rest of it.
<1>16. [row EXCEPT !.told = "PENDING"].from = row.from
         /\ [row EXCEPT !.told = "PENDING"].who = row.who
       /\ [row EXCEPT !.told = "PENDING"].days = row.days
       /\ [row EXCEPT !.told = "PENDING"].seen = row.seen
       /\ [row EXCEPT !.told = "PENDING"].status = row.status
  BY <1>t
<1>17. ASSUME NEW h \in Handler, SubmitEnds(h) PROVE Fit'
  <2>1. /\ c = leaf[h] /\ c.at \in {"answered", "failed"} /\ c.for = "submit" /\ CallEnds(h)
        /\ leaf[h].at # "idle"
        /\ (row' = row) \/ (c.at = "answered" /\ row' = [row EXCEPT !.told = "PENDING"])
        /\ UNCHANGED <<ahead, chosen, card, preview, offered, seeded, phoneRow, phoneTypes>>
    BY <1>3, <1>17 DEF SubmitEnds, Comes, phoneOnly, Good
  <2>2. row' # row => row.from = "form"
    BY <1>1, <2>1 DEF FormsFit
  <2>3. row'.from = row.from /\ row'.who = row.who /\ row'.days = row.days /\ row'.seen = row.seen
        /\ row'.status = row.status
    BY <1>16, <2>1
  <2>4. FormsFit(NoLeafCall)'
    BY <1>1, <1>n, <2>1, <2>2, <2>3 DEF FormsFit, Sent, Complete
  <2> QED
    BY <1>12, <2>1, <2>4
<1>18. ASSUME NEW h \in Handler, NEW what \in {"phoneTypes", "phoneList"}, PhoneAsks(h, what)
       PROVE  Fit'
  <2> DEFINE d == [NoLeafCall EXCEPT !.at = "asked", !.for = what, !.who = PhoneOwner,
                                     !.days = NoDays, !.seen = NoDays]
  <2>1. AskFirst(h, what, PhoneOwner, NoDays, NoDays)
        /\ UNCHANGED <<ahead, chosen, card, preview, formStage, offered, seeded, row, phoneRow,
                       phoneTypes>>
    BY <1>18 DEF PhoneAsks, formOnly, otherThanList
  <2>2. c = NoLeafCall
    BY <1>2, <2>1 DEF AskFirst
  <2>3. d.at = "asked" /\ d.for = what /\ d.count = 0 /\ d.who = PhoneOwner
    BY <1>7
  <2> HIDE DEF d
  <2>4. FormsFit(d)'
    BY <1>1, <1>n, <2>1, <2>2, <2>3 DEF FormsFit, Sent, Complete
  <2> QED
    BY <1>6, <2>1, <2>4 DEF d
<1>19. ASSUME NEW h \in Handler, NEW day, PhoneSubmits(h, day) PROVE Fit'
  <2> DEFINE d == [NoLeafCall EXCEPT !.at = "asked", !.for = "phoneSubmit", !.who = PhoneOwner,
                                     !.days = <<day, day>>, !.seen = NoDays]
  <2>1. AskFirst(h, "phoneSubmit", PhoneOwner, <<day, day>>, NoDays)
        /\ UNCHANGED <<ahead, chosen, card, preview, formStage, offered, seeded, row, phoneRow,
                       phoneTypes>>
    BY <1>19 DEF PhoneSubmits, formOnly, otherThanList
  <2>2. c = NoLeafCall
    BY <1>2, <2>1 DEF AskFirst
  <2>3. d.at = "asked" /\ d.for = "phoneSubmit" /\ d.count = 0 /\ d.who = PhoneOwner
    BY <1>7
  <2> HIDE DEF d
  <2>4. FormsFit(d)'
    BY <1>1, <1>n, <2>1, <2>2, <2>3 DEF FormsFit, Sent, Complete
  <2> QED
    BY <1>6, <2>1, <2>4 DEF d
<1>20. ASSUME NEW h \in Handler, PhoneSubmitEnds(h) PROVE Fit'
  <2>1. /\ c = leaf[h] /\ c.at \in {"answered", "failed"} /\ c.for = "phoneSubmit"
        /\ leaf[h].at # "idle" /\ \A g \in Handler : g # h => leaf[g] = NoLeafCall
        /\ UNCHANGED <<ahead, chosen, card, preview, formStage, offered, seeded, phoneRow,
                       phoneTypes>>
    BY <1>3, <1>20 DEF PhoneSubmitEnds, formOnly, otherThanList
  <2>2. CASE c.at = "answered"
    <3> DEFINE d == [NoLeafCall EXCEPT !.at = "asked", !.for = "phoneList", !.who = PhoneOwner,
                                       !.days = NoDays, !.seen = NoDays]
    <3>1. leaf' = [leaf EXCEPT ![h] = d] /\ row' = [row EXCEPT !.told = "PENDING"]
      BY <1>20, <2>1, <2>2 DEF PhoneSubmitEnds, Good, Ask
    <3>2. d.at = "asked" /\ d.for = "phoneList" /\ d.count = 0 /\ d.who = PhoneOwner
      BY <1>7
    <3>3. row'.from = row.from /\ row'.who = row.who /\ row'.days = row.days
        /\ row'.seen = row.seen
          /\ row'.status = row.status
      BY <1>16, <3>1
    <3> HIDE DEF d
    <3>4. FormsFit(d)'
      BY <1>1, <2>1, <3>2, <3>3 DEF FormsFit, Sent, Complete
    <3> QED
      BY <1>4, <2>1, <3>1, <3>4
  <2>3. CASE c.at = "failed"
    <3>1. CallEnds(h) /\ row' = row
      BY <1>20, <2>1, <2>3 DEF PhoneSubmitEnds, Good
    <3>2. FormsFit(NoLeafCall)'
      BY <1>1, <1>n, <2>1, <2>3, <3>1 DEF FormsFit, Sent, Complete
    <3> QED
      BY <1>12, <2>1, <3>1, <3>2
  <2> QED
    BY <2>1, <2>2, <2>3
<1>21. ASSUME NEW h \in Handler, PhoneListComes(h) PROVE Fit'
  <2>1. /\ c = leaf[h] /\ c.at \in {"answered", "failed"} /\ c.for = "phoneList" /\ CallEnds(h)
        /\ leaf[h].at # "idle"
        /\ (c.at = "answered" /\ phoneRow' = c.got) \/ phoneRow' = "mock"
        /\ UNCHANGED <<ahead, chosen, card, preview, formStage, offered, seeded, row, phoneTypes>>
    BY <1>3, <1>21 DEF PhoneListComes, Comes, Good, formOnly, otherThanList
  <2>2. FormsFit(NoLeafCall)'
    BY <1>1, <1>n, <2>1 DEF FormsFit, Sent, Complete
  <2> QED
    BY <1>12, <2>1, <2>2
<1>22. ASSUME NEW h \in Handler, PhoneTypesCome(h) PROVE Fit'
  <2>1. /\ c = leaf[h] /\ c.at \in {"answered", "failed"} /\ c.for = "phoneTypes" /\ CallEnds(h)
        /\ leaf[h].at # "idle" /\ phoneTypes' \in {phoneTypes, c.count}
        /\ UNCHANGED <<ahead, chosen, card, preview, formStage, offered, seeded, row, phoneRow>>
    BY <1>3, <1>22 DEF PhoneTypesCome, Comes, formOnly
  <2>2. FormsFit(NoLeafCall)'
    BY <1>1, <1>n, <2>1 DEF FormsFit, Sent, Complete
  <2> QED
    BY <1>12, <2>1, <2>2
\* The call is served.
<1>24. ASSUME NEW h \in Handler, leaf[h].at # "idle", NEW got, NEW count, Says(h, got, count)
       PROVE  \E d : /\ leaf' = [leaf EXCEPT ![h] = d]
                     /\ d.at = "answered" /\ d.got = got /\ d.count = count /\ d.for = c.for
                     /\ d.who = c.who /\ d.days = c.days /\ d.seen = c.seen
  <2>0. PICK d : d = [leaf[h] EXCEPT !.at = "answered", !.got = got, !.count = count]
    OBVIOUS
  <2>1. /\ d.at = "answered" /\ d.got = got /\ d.count = count /\ d.for = c.for /\ d.who = c.who
        /\ d.days = c.days /\ d.seen = c.seen
    BY <1>3, <1>t, <1>24, <2>0 DEF LeafCall
  <2>2. leaf' = [leaf EXCEPT ![h] = d]
    BY <1>24, <2>0 DEF Says
  <2> QED
    BY <2>1, <2>2
<1> DEFINE Client == UNCHANGED <<ahead, chosen, card, preview, formStage, offered, phoneRow,
                                 phoneTypes>>
<1>25. clientSide' = clientSide => Client
  BY DEF clientSide, formOnly, phoneOnly
<1>26. ASSUME NEW h \in Handler, ServeTypes(h) PROVE Fit'
  <2>1. /\ c = leaf[h] /\ c.at = "asked" /\ c.for \in {"types", "phoneTypes"}
        /\ leaf[h].at # "idle" /\ Client /\ UNCHANGED <<seeded, row>>
        /\ c \in LeafCall
    BY <1>3, <1>t, <1>25, <1>26 DEF ServeTypes, LeafAsked
  <2>2. CASE seeded > 0
    <3>1. Says(h, "none", seeded) /\ seeded \in {0, AllTypes}
      BY <1>1, <1>26, <2>1, <2>2 DEF ServeTypes, FormsFit
    <3>2. PICK count : count = seeded
      OBVIOUS
    <3>3. PICK d : /\ leaf' = [leaf EXCEPT ![h] = d]
                  /\ d.at = "answered" /\ d.got = "none" /\ d.count = count /\ d.for = c.for
                  /\ d.who = c.who /\ d.days = c.days /\ d.seen = c.seen
      BY <1>24, <2>1, <3>1, <3>2
    <3>4. FormsFit(d)'
      BY <1>1, <2>1, <3>3, <3>1, <3>2 DEF FormsFit, Sent, Complete
    <3> QED
      BY <1>3, <1>4, <2>1, <3>3, <3>4
  <2>3. CASE ~(seeded > 0)
    <3>0. PICK d : d = [leaf[h] EXCEPT !.at = "seed"]
      OBVIOUS
    <3>1. leaf' = [leaf EXCEPT ![h] = d]
      BY <1>26, <2>3, <3>0 DEF ServeTypes
    <3>2. d.at = "seed" /\ d.for = c.for /\ d.count = c.count
      BY <2>1, <3>0 DEF LeafCall
    <3>3. FormsFit(d)'
      BY <1>1, <2>1, <3>2 DEF FormsFit, Sent, Complete
    <3> QED
      BY <1>3, <1>4, <2>1, <3>1, <3>3
  <2> QED
    BY <2>2, <2>3
<1>27. ASSUME NEW h \in Handler, ServeSeed(h) PROVE Fit'
  <2>1. /\ c = leaf[h] /\ c.at = "seed" /\ c.for \in {"types", "phoneTypes"}
        /\ leaf[h].at # "idle" /\ Client /\ row' = row
    BY <1>1, <1>3, <1>25, <1>27 DEF ServeSeed, FormsFit
  <2>2. CASE seeded < AllTypes
    <3>1. leaf' = leaf
      BY <1>27, <2>2 DEF ServeSeed
    <3>2. FormsFit(c)'
      BY <1>1, <2>1, <3>1 DEF FormsFit, Sent, Complete
    <3> QED
      BY <1>5, <3>1, <3>2
  <2>3. CASE ~(seeded < AllTypes)
    <3>1. Says(h, "none", seeded) /\ seeded' = seeded /\ seeded = AllTypes
      BY <1>t, <1>27, <2>3 DEF ServeSeed, AllTypes
    <3>2. PICK count : count = seeded
      OBVIOUS
    <3>3. PICK d : /\ leaf' = [leaf EXCEPT ![h] = d]
                  /\ d.at = "answered" /\ d.got = "none" /\ d.count = count /\ d.for = c.for
                  /\ d.who = c.who /\ d.days = c.days /\ d.seen = c.seen
      BY <1>24, <2>1, <3>1, <3>2
    <3>4. FormsFit(d)'
      BY <1>1, <2>1, <3>3, <3>1, <3>2 DEF FormsFit, Sent, Complete
    <3> QED
      BY <1>3, <1>4, <2>1, <3>3, <3>4
  <2> QED
    BY <2>2, <2>3
<1>28. ASSUME NEW h \in Handler, ServeFigures(h) PROVE Fit'
  <2>1. /\ c = leaf[h] /\ c.at = "asked" /\ c.for \in {"balance", "preview"}
        /\ leaf[h].at # "idle" /\ Client /\ UNCHANGED <<seeded, row>> /\ Says(h, "none", 0)
    BY <1>3, <1>25, <1>28 DEF ServeFigures, LeafAsked
  <2>3. PICK d : /\ leaf' = [leaf EXCEPT ![h] = d]
                /\ d.at = "answered" /\ d.got = "none" /\ d.count = 0 /\ d.for = c.for
                /\ d.who = c.who /\ d.days = c.days /\ d.seen = c.seen
    BY <1>24, <2>1
  <2>4. FormsFit(d)'
    BY <1>1, <2>1, <2>3 DEF FormsFit, Sent, Complete
  <2> QED
    BY <1>3, <1>4, <2>1, <2>3, <2>4
<1>29. ASSUME NEW h \in Handler, ServeList(h) PROVE Fit'
  <2>0. PICK got : got = IF row.who = PhoneOwner THEN row.status ELSE "none"
    OBVIOUS
  <2>1. /\ c = leaf[h] /\ c.at = "asked" /\ c.for = "phoneList"
        /\ leaf[h].at # "idle" /\ Client /\ UNCHANGED <<seeded, row>> /\ Says(h, got, 0)
    BY <1>3, <1>25, <1>29, <2>0 DEF ServeList, LeafAsked
  <2>2. row.from = "phone" => got # "none"
    BY <1>1, <2>0 DEF FormsFit
  <2>3. PICK d : /\ leaf' = [leaf EXCEPT ![h] = d]
                /\ d.at = "answered" /\ d.got = got /\ d.count = 0 /\ d.for = c.for
                /\ d.who = c.who /\ d.days = c.days /\ d.seen = c.seen
    BY <1>24, <2>1
  <2>4. FormsFit(d)'
    BY <1>1, <2>1, <2>3, <2>2 DEF FormsFit, Sent, Complete
  <2> QED
    BY <1>3, <1>4, <2>1, <2>3, <2>4
<1>30. ASSUME NEW h \in Handler, ServeRequest(h) PROVE Fit'
  <2> DEFINE new == [who |-> leaf[h].who, from |-> IF leaf[h].for = "submit" THEN "form" ELSE "phone",
               days |-> leaf[h].days, seen |-> leaf[h].seen, status |-> "PENDING",
               told |-> "none"]
  <2>1. /\ c = leaf[h] /\ c.at = "asked" /\ c.for \in {"submit", "phoneSubmit"}
        /\ leaf[h].at # "idle" /\ Client /\ seeded' = seeded /\ Says(h, "none", 0) /\ row' = new
    BY <1>3, <1>25, <1>30 DEF ServeRequest, LeafAsked
  <2>2. /\ new.from = IF c.for = "submit" THEN "form" ELSE "phone"
        /\ new.days = c.days /\ new.seen = c.seen /\ new.status = "PENDING" /\ new.told = "none"
        /\ new.who = c.who
    BY <2>1
  <2> HIDE DEF new
  <2>3. PICK d : /\ leaf' = [leaf EXCEPT ![h] = d]
                /\ d.at = "answered" /\ d.got = "none" /\ d.count = 0 /\ d.for = c.for
                /\ d.who = c.who /\ d.days = c.days /\ d.seen = c.seen
    BY <1>24, <2>1
  <2>4. FormsFit(d)'
    BY <1>1, <2>1, <2>3, <2>2 DEF FormsFit, Sent, Complete
  <2> QED
    BY <1>3, <1>4, <2>1, <2>3, <2>4
<1>31. ASSUME NEW h \in Handler, LeafFails(h) PROVE Fit'
  <2>1. /\ leaf[h].at # "idle" /\ leaf[h].at # "seed" /\ Client /\ UNCHANGED <<seeded, row>>
        /\ leaf' = [leaf EXCEPT ![h].at = "failed", ![h].got = "none", ![h].count = 0]
    BY <1>25, <1>31 DEF LeafFails
  <2>0. PICK d : d = [leaf[h] EXCEPT !.at = "failed", !.got = "none", !.count = 0]
    OBVIOUS
  <2>2. leaf' = [leaf EXCEPT ![h] = d]
    BY <1>t, <2>0, <2>1
  <2>3. /\ d.at = "failed" /\ d.got = "none" /\ d.count = 0 /\ d.for = c.for /\ d.who = c.who
        /\ d.days = c.days /\ d.seen = c.seen /\ c = leaf[h]
    BY <1>3, <1>t, <2>0, <2>1 DEF LeafCall
  <2>4. FormsFit(d)'
    BY <1>1, <2>1, <2>3 DEF FormsFit, Sent, Complete
  <2> QED
    BY <1>3, <1>4, <2>1, <2>2, <2>4
<1>32. CASE SubmitAnother
  <2>1. /\ formStage = "done" /\ preview' = NoDays /\ leaf' = leaf
        /\ chosen' = [chosen EXCEPT !.first = 0, !.last = 0]
        /\ UNCHANGED <<ahead, card, offered, seeded, row, phoneRow, phoneTypes>>
    BY <1>32 DEF SubmitAnother, phoneOnly
  <2>2. chosen'.who = chosen.who
    BY <1>t, <2>1
  <2>3. FormsFit(c)'
    BY <1>1, <2>1, <2>2 DEF FormsFit
  <2> QED
    BY <1>5, <2>1, <2>3
<1>33. CASE PhoneSignedOut
  <2>1. /\ phoneRow' = "mock" /\ leaf' = leaf
        /\ UNCHANGED <<ahead, chosen, card, preview, formStage, offered, seeded, row, phoneTypes>>
    BY <1>33 DEF PhoneSignedOut, otherThanList, formOnly
  <2>2. FormsFit(c)'
    BY <1>1, <2>1 DEF FormsFit, Sent, Complete
  <2> QED
    BY <1>5, <2>1, <2>2
<1>34. ASSUME NEW verdict \in {"APPROVED", "REJECTED"}, ServeDecision(verdict) PROVE Fit'
  <2>1. /\ leaf' = leaf /\ Client /\ seeded' = seeded /\ row' = [row EXCEPT !.status = verdict]
    BY <1>25, <1>34 DEF ServeDecision
  <2>2. row'.from = row.from /\ row'.who = row.who /\ row'.days = row.days /\ row'.seen = row.seen
        /\ row'.told = row.told /\ row'.status = verdict
    BY <1>t, <2>1
  <2>3. FormsFit(c)'
    BY <1>1, <2>1, <2>2 DEF FormsFit, Sent, Complete
  <2> QED
    BY <1>5, <2>1, <2>3
<1>35. ASSUME NEW n, NEW leap, NEW q, AskLiability(n, leap, q) PROVE Fit'
  <2>1. leaf' = leaf
        /\ UNCHANGED <<ahead, chosen, card, preview, formStage, offered, seeded, row, phoneRow,
                       phoneTypes>>
    BY <1>35 DEF AskLiability, formOnly, phoneOnly
  <2>2. FormsFit(c)'
    BY <1>1, <2>1 DEF FormsFit, Sent, Complete
  <2> QED
    BY <1>5, <2>1, <2>2
<1> QED
  BY <1>8, <1>9, <1>10, <1>11, <1>13, <1>14, <1>15, <1>17, <1>18, <1>19, <1>20, <1>21, <1>22,
     <1>26, <1>27, <1>28, <1>29, <1>30, <1>31, <1>32, <1>33, <1>34, <1>35 DEF LeaveFormsNext

\* LeaveFormsInv is inductive.
LEMMA LeaveFormsStep == LeaveFormsInv /\ [LeaveFormsNext]_<<leafVars, calm>> => LeaveFormsInv'
<1> SUFFICES ASSUME LeaveFormsInv, [LeaveFormsNext]_<<leafVars, calm>> PROVE LeaveFormsInv'
  OBVIOUS
<1>1. CASE LeaveFormsNext
  BY <1>1, LeaveFormsCalm, LeaveFormsTypeStep, FiguresStep, LeaveFormsCalmStep DEF LeaveFormsInv
<1>2. CASE UNCHANGED <<leafVars, calm>>
  BY <1>2 DEF LeaveFormsInv, LeaveFormsTypeOK, FiguresAgree, OnlyCall, FormsFit, leafVars, Sent,
     Complete
<1> QED
  BY <1>1, <1>2

\* However the forms are used, LeaveFormsInv holds (the leave form of the dashboard and
\* the app's leave screen).
THEOREM LeaveFormsInvariance == LeaveFormsSpec => []LeaveFormsInv
  BY LeaveFormsInitially, LeaveFormsStep, PTL DEF LeaveFormsSpec

\* For any days and instants, where calls do not overlap: what is requested is what the
\* form counted, the phone shows what the server has, nobody is offered part of the
\* types, and the figures differ by two days at most (the pages of leave,
\* LeaveService.getLeaveTypes).
THEOREM LeaveFormsStaySound == LeaveFormsSpec => []LeaveFormsSound
  BY LeaveFormsImplied, LeaveFormsInvariance, PTL

=============================================================================

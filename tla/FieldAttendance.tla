---------------------------- MODULE FieldAttendance ----------------------------
(***************************************************************************)
(* How an employee's clock events travel: from the mobile app, directly or *)
(* by way of its queue, to AttendanceService.syncOfflineEvent, and from    *)
(* the web to pwaCheckIn and pwaCheckOut, or without the app, by dialling, *)
(* to processUssdWebhook.                                                  *)
(* Left out: positions (a breach of the geofence is noted on a log, or     *)
(* refuses a check-in before anything is written), breaks, and the figures *)
(* of the dashboard.                                                       *)
(***************************************************************************)
EXTENDS RequestHandling, FiniteSetsExt

CONSTANTS
    Event,    \* 1 .. n: clock events of the app in the order they are made
    LastDate, \* days 1 .. LastDate (a bound)
    MaxFaults \* requests and answers lost, refused, broken off or outwaited (a bound)

ASSUME FieldAssumption ==
    /\ LastDate \in Nat \ {0} /\ MaxFaults \in Nat
    /\ IsFiniteSet(Event) /\ Event = 1 .. Cardinality(Event)

VARIABLES
    date,      \* today
    event,     \* its kind, its day, and where the app has it; lost is failed in the queue,
               \* or never put there
    todo,      \* the events a synchronisation has read from the queue and not sent
    postAt,    \* what the server does next for each request to /attendance/sync
    postOf,    \* the event it carries, or 0
    postBy,    \* who on the phone waits for the answer
    logs,      \* attendance_logs: rows of each event, by the day they were written
    record,    \* attendance: the employee's row of each day
    faults,    \* what has gone wrong so far
    subject    \* whose token the app has: an employee's, or that of a user

phone == <<event, todo>>
posts == <<postAt, postOf, postBy>>
fieldVars == <<date, phone, posts, logs, record, faults, subject>>

Dates == 1 .. LastDate
Synchroniser == {"syncNow", "task"}
NoRecord == [in |-> FALSE, out |-> FALSE]

FieldTypeOK ==
    /\ date \in Dates
    /\ event \in [Event -> [kind : {"CLOCK_IN", "CLOCK_OUT"}, day : Dates \cup {0},
           held : {"none", "tapped", "pending", "delivered", "lost"}]]
    /\ todo \in [Synchroniser -> SUBSET Event]
    /\ postAt \in [Handler -> {"idle", "check", "log", "record", "update", "create", "ok", "error"}]
    /\ postOf \in [Handler -> Event \cup {0}]
    /\ postBy \in [Handler -> Synchroniser \cup {"tap", "nobody"}]
    /\ logs \in [Event -> [Dates -> Nat]]
    /\ record \in [Dates -> [in : BOOLEAN, out : BOOLEAN]]
    /\ faults \in 0 .. MaxFaults
    /\ subject \in {"employee", "user"}
    /\ \A h \in Handler : postAt[h] = "idle" => postOf[h] = 0 /\ postBy[h] = "nobody"
    /\ \A d \in Dates : record[d].out => record[d].in

FieldInit ==
    /\ date = 1
    /\ event = [e \in Event |-> [kind |-> "CLOCK_IN", day |-> 0, held |-> "none"]]
    /\ todo = [w \in Synchroniser |-> {}]
    /\ postAt = [h \in Handler |-> "idle"] /\ postOf = [h \in Handler |-> 0]
    /\ postBy = [h \in Handler |-> "nobody"]
    /\ logs = [e \in Event |-> [d \in Dates |-> 0]]
    /\ record = [d \in Dates |-> NoRecord]
    /\ faults = 0
    /\ subject \in {"employee", "user"}

PostGo(h, next) == postAt' = [postAt EXCEPT ![h] = next]

Post(h, e, who) ==
    /\ MayTake(h, postAt)
    /\ PostGo(h, "check")
    /\ postOf' = [postOf EXCEPT ![h] = e]
    /\ postBy' = [postBy EXCEPT ![h] = who]

PostEnds(h) ==
    /\ PostGo(h, "idle")
    /\ postOf' = [postOf EXCEPT ![h] = 0]
    /\ postBy' = [postBy EXCEPT ![h] = "nobody"]

Fault == faults < MaxFaults /\ faults' = faults + 1

Held(e, where) == event' = [event EXCEPT ![e].held = where]

\* Events are made in the order of their numbers.
Fresh(e) ==
    /\ event[e].held = "none"
    /\ \A f \in Event : f < e => event[f].held # "none"

-----------------------------------------------------------------------------
(***************************************************************************)
(* The app: useAttendance, offlineQueue and backgroundSync.                *)
(***************************************************************************)

\* clockIn and clockOut take the phone to be online; the event is not in the queue.
Clock(h, e, kind) ==
    /\ Fresh(e)
    /\ event' = [event EXCEPT ![e] = [kind |-> kind, day |-> date, held |-> "tapped"]]
    /\ Post(h, e, "tap")
    /\ UNCHANGED <<date, todo, logs, record, faults, subject, calm>>

ManualClockIn(e) ==
    /\ Fresh(e)
    /\ event' = [event EXCEPT ![e] =
                    [kind |-> "CLOCK_IN", day |-> date, held |-> "pending"]]
    /\ UNCHANGED <<date, todo, posts, logs, record, faults, subject, calm>>

Pending == {e \in Event : event[e].held = "pending"}
Waiting(w) == \E h \in Handler : postBy[h] = w

\* The user or the system starts a synchronisation; it reads the queue once.
SyncBegin(w) ==
    /\ todo[w] = {} /\ ~Waiting(w)
    /\ calm => \A v \in Synchroniser : todo[v] = {}
    /\ Pending # {}
    /\ todo' = [todo EXCEPT ![w] = Pending]
    /\ UNCHANGED <<date, event, posts, logs, record, faults, subject, calm>>

\* The oldest of them is sent.
SyncPost(h, w) ==
    /\ todo[w] # {} /\ ~Waiting(w)
    /\ Post(h, Min(todo[w]), w)
    /\ UNCHANGED <<date, phone, logs, record, faults, subject, calm>>

Done(h) == todo' = [w \in Synchroniser |-> IF w = postBy[h] THEN todo[w] \ {postOf[h]} ELSE todo[w]]

\* Mutant: whatever the answer is, the event counts as delivered.
AfterErrorSynced(h) ==
    /\ Done(h)
    /\ Held(postOf[h], CASE postBy[h] = "tap"     -> "pending"
                         [] postBy[h] = "syncNow" -> "delivered"
                         [] postBy[h] = "task"    -> "lost")

\* No answer, or an error.  The background task gives the event up, a synchronisation
\* the user has started leaves it pending, and a tap puts it into the queue.
AfterError(h) ==
    /\ Done(h)
    /\ Held(postOf[h], CASE postBy[h] = "tap"     -> "pending"
                         [] postBy[h] = "syncNow" -> event[postOf[h]].held
                         [] postBy[h] = "task"    -> "lost")

\* The answer arrives.
Answered(h) ==
    /\ postBy[h] # "nobody"
    /\ \/ /\ postAt[h] = "ok"
          /\ Held(postOf[h], "delivered")
          /\ Done(h)
       \/ postAt[h] = "error" /\ AfterError(h)
    /\ PostEnds(h)
    /\ UNCHANGED <<date, logs, record, faults, subject, calm>>

\* JwtAuthGuard admits the tokens of users only, and employeeLogin issues those of
\* employees; a user's may have expired.  A tap tells so and forgets the event.
Unauthorised(h) ==
    /\ postAt[h] = "check" /\ postBy[h] # "nobody"
    /\ IF subject = "employee" THEN UNCHANGED faults ELSE Fault
    /\ IF postBy[h] = "tap" THEN Held(postOf[h], "lost") /\ UNCHANGED todo ELSE AfterError(h)
    /\ PostEnds(h)
    /\ UNCHANGED <<date, logs, record, subject, calm>>

\* The request or its answer is lost.
Lost(h) ==
    /\ Fault
    /\ postAt[h] \in {"check", "ok", "error"} /\ postBy[h] # "nobody"
    /\ AfterError(h)
    /\ PostEnds(h)
    /\ UNCHANGED <<date, logs, record, subject, calm>>

\* The app stops waiting; the server goes on.
TimesOut(h) ==
    /\ Fault
    /\ ~calm
    /\ postAt[h] \notin {"idle", "ok", "error"} /\ postBy[h] # "nobody"
    /\ AfterError(h)
    /\ postBy' = [postBy EXCEPT ![h] = "nobody"]
    /\ UNCHANGED <<date, postAt, postOf, logs, record, subject, calm>>

\* The app is closed.  The queue is on disk; an event that was only tapped is not.
AppStops ==
    /\ Fault
    /\ ~calm
    /\ todo' = [w \in Synchroniser |-> {}]
    /\ postBy' = [h \in Handler |-> "nobody"]
    /\ event' = [e \in Event |-> IF event[e].held = "tapped"
                                 THEN [event[e] EXCEPT !.held = "lost"] ELSE event[e]]
    /\ \E h \in Handler : postBy[h] # "nobody"
    /\ UNCHANGED <<date, postAt, postOf, logs, record, subject, calm>>

-----------------------------------------------------------------------------
(***************************************************************************)
(* The server: syncOfflineEvent and upsertDailyAttendance.                 *)
(***************************************************************************)

Logged(kind, day) ==
    \E e \in Event : event[e].kind = kind /\ event[e].day = day /\ \E d \in Dates : logs[e][d] > 0

\* More than 24 hours old: surely after two midnights, perhaps after one, and not
\* while the app still waits for the answer to the tap.
TooOld(e) ==
    IF event[e].held = "tapped" THEN {FALSE}
    ELSE {old \in BOOLEAN : IF old THEN date > event[e].day ELSE date <= event[e].day + 1}

\* Mutant: the log is sought among those of today.
PostCheckToday(h) ==
    /\ postAt[h] = "check" /\ subject = "user"
    /\ \E old \in TooOld(postOf[h]) :
          PostGo(h, IF old \/ Logged(event[postOf[h]].kind, date) THEN "ok" ELSE "log")
    /\ UNCHANGED <<date, phone, postOf, postBy, logs, record, faults, subject, calm>>

\* An event that is too old, or whose day has such a log, is answered with status 200.
PostCheck(h) ==
    /\ postAt[h] = "check" /\ subject = "user"
    /\ \E old \in TooOld(postOf[h]) :
          PostGo(h, IF old \/ Logged(event[postOf[h]].kind, event[postOf[h]].day)
                    THEN "ok" ELSE "log")
    /\ UNCHANGED <<date, phone, postOf, postBy, logs, record, faults, subject, calm>>

PostLog(h) ==
    /\ postAt[h] = "log"
    /\ logs' = [logs EXCEPT ![postOf[h]][date] = @ + 1]
    /\ PostGo(h, "record")
    /\ UNCHANGED <<date, phone, postOf, postBy, record, faults, subject, calm>>

\* Mutant: a clock-out without a record of the day is left at that.
PostRecordOnlyUpdates(h) ==
    /\ postAt[h] = "record"
    /\ IF event[postOf[h]].kind = "CLOCK_IN"
       THEN PostGo(h, "ok") /\ record' = [record EXCEPT ![date].in = TRUE]
       ELSE /\ PostGo(h, IF record[date].in THEN "update" ELSE "ok")
            /\ UNCHANGED record
    /\ UNCHANGED <<date, phone, postOf, postBy, logs, faults, subject, calm>>

\* The record is that of today, whenever the event was.  A clock-in is an upsert; for
\* a clock-out the record is read first.
PostRecord(h) ==
    /\ postAt[h] = "record"
    /\ IF event[postOf[h]].kind = "CLOCK_IN"
       THEN PostGo(h, "ok") /\ record' = [record EXCEPT ![date].in = TRUE]
       ELSE /\ PostGo(h, IF record[date].in THEN "update" ELSE "create")
            /\ UNCHANGED record
    /\ UNCHANGED <<date, phone, postOf, postBy, logs, faults, subject, calm>>

PostUpdate(h) ==
    /\ postAt[h] = "update"
    /\ record' = [record EXCEPT ![date].out = TRUE]
    /\ PostGo(h, "ok")
    /\ UNCHANGED <<date, phone, postOf, postBy, logs, faults, subject, calm>>

\* The row of a day is unique: if there is one by now, the request fails.
PostCreate(h) ==
    /\ postAt[h] = "create"
    /\ IF record[date].in
       THEN PostGo(h, "error") /\ UNCHANGED record
       ELSE /\ PostGo(h, "ok")
            /\ record' = [record EXCEPT ![date] = [in |-> TRUE, out |-> TRUE]]
    /\ UNCHANGED <<date, phone, postOf, postBy, logs, faults, subject, calm>>

\* An answer, well, with an error or that of the guard, which nobody waits for.
PostForgotten(h) ==
    /\ postAt[h] \in {"ok", "error"} \cup (IF subject = "employee" THEN {"check"} ELSE {})
    /\ postBy[h] = "nobody"
    /\ PostEnds(h)
    /\ UNCHANGED <<date, phone, logs, record, faults, subject, calm>>

\* An error in between, or the server stops; what has been written stays.
PostBreaks(h) ==
    /\ Fault
    /\ MayBreak(h, postAt) /\ postAt[h] \notin {"ok", "error"}
    /\ PostGo(h, "error")
    /\ UNCHANGED <<date, phone, postOf, postBy, logs, record, subject, calm>>

-----------------------------------------------------------------------------
(***************************************************************************)
(* pwaCheckIn, pwaCheckOut and processUssdWebhook: transactions that lock  *)
(* the employee.                                                           *)
(***************************************************************************)

\* In a calm history these do not fall into another request.
Undisturbing == calm => \A h \in Handler : postAt[h] = "idle"

PwaCheckIn ==
    /\ Undisturbing
    /\ ~record[date].in
    /\ record' = [record EXCEPT ![date].in = TRUE]
    /\ UNCHANGED <<date, phone, posts, logs, faults, subject, calm>>

PwaCheckOut ==
    /\ Undisturbing
    /\ record[date].in /\ ~record[date].out
    /\ record' = [record EXCEPT ![date].out = TRUE]
    /\ UNCHANGED <<date, phone, posts, logs, faults, subject, calm>>

\* The last of the dialled steps, option and PIN; the earlier ones write nothing, nor does
\* one with a PIN other than that the employee's row holds in the clear (EmployeePins).
UssdDial(option) ==
    /\ Undisturbing
    /\ \/ /\ option = "1" /\ ~record[date].in
          /\ record' = [record EXCEPT ![date].in = TRUE]
       \/ /\ option = "2" /\ record[date].in /\ ~record[date].out
          /\ record' = [record EXCEPT ![date].out = TRUE]
    /\ UNCHANGED <<date, phone, posts, logs, faults, subject, calm>>

\* Nor does midnight; a history in which requests overlap lasts one day (a bound).
Midnight ==
    /\ date < LastDate
    /\ calm /\ Undisturbing
    /\ date' = date + 1
    /\ UNCHANGED <<phone, posts, logs, record, faults, subject, calm>>

-----------------------------------------------------------------------------
FieldNext ==
    \/ \E h \in Handler :
          \/ \E e \in Event, kind \in {"CLOCK_IN", "CLOCK_OUT"} : Clock(h, e, kind)
          \/ \E w \in Synchroniser : SyncPost(h, w)
          \/ Answered(h) \/ Unauthorised(h) \/ Lost(h) \/ TimesOut(h)
          \/ PostCheck(h) \/ PostLog(h) \/ PostRecord(h) \/ PostUpdate(h) \/ PostCreate(h)
          \/ PostForgotten(h) \/ PostBreaks(h)
    \/ \E e \in Event : ManualClockIn(e)
    \/ \E w \in Synchroniser : SyncBegin(w)
    \/ AppStops \/ PwaCheckIn \/ PwaCheckOut \/ UssdDial("1") \/ UssdDial("2") \/ Midnight

FieldSpec == CalmInit /\ FieldInit /\ [][FieldNext]_<<fieldVars, calm>>

-----------------------------------------------------------------------------
(***************************************************************************)
(* Properties.                                                             *)
(***************************************************************************)

\* Whatever is lost, sent twice or overtaken: an event that the app takes for delivered
\* has a log of its kind and day on the server, or was refused there for its age.  And
\* where nothing goes wrong and requests do not overlap, the app gives no event up,
\* whichever way it is sent.
EventsAccounted ==
    \A e \in Event :
        /\ event[e].held = "delivered" =>
               Logged(event[e].kind, event[e].day) \/ date > event[e].day
        /\ calm /\ subject = "user" /\ faults = 0 => event[e].held # "lost"

\* Without overlap at the server, a day has one log of each kind, however often its
\* events are sent because answers are lost.
LoggedOnce ==
    calm => \A e, f \in Event, c, d \in Dates :
        /\ logs[e][d] <= 1
        /\ /\ event[e].kind = event[f].kind /\ event[e].day = event[f].day
           /\ logs[e][c] > 0 /\ logs[f][d] > 0
           => e = f /\ c = d

\* Without overlap at the server, the day a log was written on is recorded as worked,
\* and after a clock-out as ended.
RecordFollowsLog ==
    calm /\ (\A h \in Handler : postAt[h] \in {"idle", "ok"}) =>
        \A e \in Event, d \in Dates : logs[e][d] > 0 =>
            record[d].in /\ (event[e].kind = "CLOCK_OUT" => record[d].out)

=============================================================================

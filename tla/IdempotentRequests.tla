-------------------------- MODULE IdempotentRequests --------------------------
(***************************************************************************)
(* IdempotencyInterceptor: requests that carry the same x-idempotency-key. *)
(* The first takes a lock in Redis, and its answer replaces the lock.      *)
(* Without Redis an advisory lock of PostgreSQL and the memory of the one  *)
(* process modelled here take over; the advisory lock belongs to whichever *)
(* connection of the pool asked for it.                                    *)
(* Left out: what the handler does, and requests without a key, which pass *)
(* untouched.  (No client of the repository sends the header.)             *)
(***************************************************************************)
EXTENDS RequestHandling

CONSTANTS
    Connection, \* of the database pool (a bound)
    MaxLocks    \* locks one connection may hold on the key (a bound)

ASSUME IdempotencyAssumption == MaxLocks \in Nat \ {0} /\ "none" \notin Connection

VARIABLES
    reachable, \* is there a connection to Redis?
    steady,    \* in this history Redis stays reachable or not, and the database works
    prompt,    \* in this history no handler outlasts its lock, and no process stops
    entry,     \* the key in Redis
    memo,      \* the key in the memory of the process
    advisory,  \* the advisory lock: which connection holds it, and how often
    idemAt,    \* what each request does next
    done       \* how often the handler has succeeded within a day, counted up to 2

idemVars == <<reachable, steady, prompt, entry, memo, advisory, idemAt, done>>
history  == <<steady, prompt, calm>>
Kept == {"none", "LOCKED", "answer"}

IdemTypeOK ==
    /\ reachable \in BOOLEAN /\ steady \in BOOLEAN /\ prompt \in BOOLEAN
    /\ entry \in Kept /\ memo \in Kept
    /\ advisory \in [by : Connection \cup {"none"}, count : 0 .. MaxLocks]
    /\ advisory.count = 0 <=> advisory.by = "none"
    /\ idemAt \in [Handler -> {"idle", "read", "acquire", "run", "write", "delete"}]
    /\ done \in 0 .. 2

Free == [by |-> "none", count |-> 0]

IdemInit ==
    /\ reachable \in BOOLEAN /\ steady \in BOOLEAN /\ prompt \in BOOLEAN
    /\ entry = "none" /\ memo = "none" /\ advisory = Free
    /\ idemAt = [h \in Handler |-> "idle"]
    /\ done = 0

IdemGo(h, next) == idemAt' = [idemAt EXCEPT ![h] = next]

\* Does a call of Redis answer?  An error is swallowed, and the fallback goes on.
ByRedis == IF ~reachable THEN {FALSE} ELSE IF steady THEN {TRUE} ELSE BOOLEAN

-----------------------------------------------------------------------------
IdemRequest(h) ==
    /\ MayTake(h, idemAt)
    /\ IdemGo(h, "read")
    /\ UNCHANGED <<reachable, entry, memo, advisory, done, history>>

\* readCache: an answer is served again, and a lock is a conflict.
ReadCache(h) ==
    /\ idemAt[h] = "read"
    /\ \E redis \in ByRedis :
          IdemGo(h, IF (IF redis THEN entry ELSE memo) = "none" THEN "acquire" ELSE "idle")
    /\ UNCHANGED <<reachable, entry, memo, advisory, done, history>>

\* The advisory lock is granted again to the connection that has it.
TryAdvisory(c) == advisory.by \in {"none", c} /\ advisory.count < MaxLocks

LocalLock(h) == memo' = "LOCKED" /\ IdemGo(h, "run")

\* Mutant: the lock is set whether there is one or not.
AcquireLockAnyway(h) ==
    /\ idemAt[h] = "acquire" /\ reachable
    /\ entry' = "LOCKED" /\ IdemGo(h, "run")
    /\ UNCHANGED <<reachable, memo, advisory, done, history>>

\* acquireLock: by Redis, else by the database, else by what the memory says; or not.
AcquireLock(h) ==
    /\ idemAt[h] = "acquire"
    /\ \E redis \in ByRedis :
          \/ /\ redis
             /\ IF entry = "none" THEN entry' = "LOCKED" /\ IdemGo(h, "run")
                ELSE IdemGo(h, "idle") /\ UNCHANGED entry
             /\ UNCHANGED <<memo, advisory>>
          \/ /\ ~redis
             /\ \E c \in Connection :
                   IF TryAdvisory(c)
                   THEN /\ advisory' = [by |-> c, count |-> advisory.count + 1]
                        /\ LocalLock(h)
                   ELSE IdemGo(h, "idle") /\ UNCHANGED <<memo, advisory>>
             /\ UNCHANGED entry
          \/ /\ ~redis /\ ~steady
             /\ IF memo = "none" THEN LocalLock(h) ELSE IdemGo(h, "idle") /\ UNCHANGED memo
             /\ UNCHANGED <<entry, advisory>>
    /\ UNCHANGED <<reachable, done, history>>

HandlerSucceeds(h) ==
    /\ idemAt[h] = "run"
    /\ done' = IF done < 2 THEN done + 1 ELSE 2
    /\ IdemGo(h, "write")
    /\ UNCHANGED <<reachable, entry, memo, advisory, history>>

\* writeCache: the answer takes the place of the lock, or of what is there by now.  The
\* advisory lock stays.
WriteCache(h) ==
    /\ idemAt[h] = "write"
    /\ \E redis \in ByRedis :
          IF redis THEN entry' = "answer" /\ UNCHANGED memo ELSE memo' = "answer" /\ UNCHANGED entry
    /\ IdemGo(h, "idle")
    /\ UNCHANGED <<reachable, advisory, done, history>>

HandlerFails(h) ==
    /\ idemAt[h] = "run"
    /\ IdemGo(h, "delete")
    /\ UNCHANGED <<reachable, entry, memo, advisory, done, history>>

\* deleteCache: whatever the key has by now is deleted.  The advisory lock is given back
\* if the connection that is asked happens to hold it.
DeleteCache(h) ==
    /\ idemAt[h] = "delete"
    /\ \E redis \in ByRedis :
          \/ redis /\ entry' = "none" /\ UNCHANGED <<memo, advisory>>
          \/ /\ ~redis
             /\ memo' = "none"
             /\ \E c \in Connection :
                   advisory' = IF c # advisory.by THEN advisory
                               ELSE IF advisory.count = 1 THEN Free
                               ELSE [advisory EXCEPT !.count = @ - 1]
             /\ UNCHANGED entry
    /\ IdemGo(h, "idle")
    /\ UNCHANGED <<reachable, done, history>>

-----------------------------------------------------------------------------
\* Ten seconds are over.
LockExpires ==
    /\ prompt => \A h \in Handler : idemAt[h] \notin {"run", "write", "delete"}
    /\ \/ entry = "LOCKED" /\ entry' = "none" /\ UNCHANGED memo
       \/ memo = "LOCKED" /\ memo' = "none" /\ UNCHANGED entry
    /\ UNCHANGED <<reachable, advisory, idemAt, done, history>>

\* A day is over; the key may be used again.
AnswerExpires ==
    /\ \A h \in Handler : idemAt[h] = "idle"
    /\ "answer" \in {entry, memo}
    /\ entry' = IF entry = "answer" THEN "none" ELSE entry
    /\ memo' = IF memo = "answer" THEN "none" ELSE memo
    /\ done' = 0
    /\ UNCHANGED <<reachable, advisory, idemAt, history>>

\* The client of Redis reports an error, and is not used any more.
RedisLost ==
    /\ reachable /\ ~steady
    /\ reachable' = FALSE
    /\ UNCHANGED <<entry, memo, advisory, idemAt, done, history>>

\* The process stops, its connections close, and another one starts.
ProcessStops ==
    /\ ~prompt
    /\ idemAt' = [h \in Handler |-> "idle"]
    /\ memo' = "none" /\ advisory' = Free
    /\ reachable' \in IF steady THEN {reachable} ELSE BOOLEAN
    /\ UNCHANGED <<entry, done, history>>

-----------------------------------------------------------------------------
IdemNext ==
    \/ \E h \in Handler :
          \/ IdemRequest(h) \/ ReadCache(h) \/ AcquireLock(h)
          \/ HandlerSucceeds(h) \/ WriteCache(h) \/ HandlerFails(h) \/ DeleteCache(h)
    \/ LockExpires \/ AnswerExpires \/ RedisLost \/ ProcessStops

IdemSpec == CalmInit /\ IdemInit /\ [][IdemNext]_<<idemVars, calm>>

-----------------------------------------------------------------------------
\* As long as no handler outlasts its lock, a key's handler succeeds once within a day:
\* with Redis however its requests overlap and fail, and in the fallback, where one
\* connection is given the lock twice, when they do not overlap.
DoneOnce == steady /\ prompt /\ (reachable \/ calm) => done <= 1

=============================================================================

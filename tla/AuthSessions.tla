----------------------------- MODULE AuthSessions -----------------------------
(***************************************************************************)
(* The sessions of one user: sign-in, requests of the web client with its  *)
(* silent refresh, logout, and the reset of the password.  Each handler is *)
(* a tab that sends one request at a time; tryRefreshSession shares one    *)
(* refresh among the requests of a tab, so that more of them would change  *)
(* nothing.  The two tabs are of one browser, or of two devices.           *)
(* An access token and the refresh token issued with it count as one pair. *)
(* Left out: passwords, second factors, and who else may be signed in.     *)
(***************************************************************************)
EXTENDS RequestHandling, Sequences

CONSTANTS
    MaxTokens, \* pairs of tokens issued (a bound)
    LastTick,  \* the horizon, in ticks (a bound)
    Second     \* ticks in a second; tokens know the second only

ASSUME SessionAssumption == MaxTokens \in Nat /\ LastTick \in Nat /\ Second \in Nat \ {0}

AccessTTL  == 1 \* in seconds, for 15 minutes
RefreshTTL == 2 \* for 30 days

VARIABLES
    clock,      \* now, in ticks
    tokens,     \* the pairs issued: when, in which epoch, descending from which sign-in
    blocked,    \* auth:refresh:blocklist
    invalidated, \* auth:user:invalidated_at, or 0
    epoch,      \* how often the user's sessions have been ended
    shared,     \* do the tabs share their cookies?
    cookie,     \* the pair each tab has, or 0
    shown,      \* what the tab takes the user for
    sessionAt,  \* what each tab's request does next
    sessionFor, \* what it asks for
    sessionOf   \* the pair it came with, and the epoch it has read

sessionVars == <<clock, tokens, blocked, invalidated, epoch, shared, cookie, shown,
                 sessionAt, sessionFor, sessionOf>>
server == <<tokens, blocked, invalidated, epoch>>
tabs   == <<shared, cookie, shown>>

Pair == 1 .. Len(tokens)

SessionTypeOK ==
    /\ clock \in 1 .. LastTick + 1 + Cardinality(Handler)
    /\ tokens \in Seq([iat : Nat, since : Nat, from : Nat]) /\ Len(tokens) <= MaxTokens
    /\ \A p \in Pair : tokens[p].since <= epoch /\ tokens[p].from \in 1 .. p
    /\ blocked \subseteq Pair
    /\ invalidated \in 0 .. clock /\ epoch \in Nat
    /\ shared \in BOOLEAN /\ cookie \in [Handler -> Pair \cup {0}]
    /\ shown \in [Handler -> {"in", "out"}]
    /\ sessionAt \in [Handler -> {"idle", "authorise", "retry", "blocklist", "valid", "block",
                                  "issue", "invalidate", "revoke", "password", "reset"}]
    /\ sessionFor \in [Handler -> {"none", "signIn", "me", "logout", "reset"}]
    /\ sessionOf \in [Handler -> [pair : Pair \cup {0}, since : 0 .. epoch]]
    /\ shared => \A g, h \in Handler : cookie[g] = cookie[h]

NoPair == [pair |-> 0, since |-> 0]

SessionInit ==
    /\ clock = 1
    /\ tokens = <<>> /\ blocked = {} /\ invalidated = 0 /\ epoch = 0
    /\ shared \in BOOLEAN
    /\ cookie = [h \in Handler |-> 0] /\ shown = [h \in Handler |-> "out"]
    /\ sessionAt = [h \in Handler |-> "idle"] /\ sessionFor = [h \in Handler |-> "none"]
    /\ sessionOf = [h \in Handler |-> NoPair]

\* assertSessionValid fails: the pair was issued, by its second, before the sessions
\* ended.  Redis forgets that when no such token can be alive any more.
Ended(p) ==
    /\ invalidated # 0 /\ clock < invalidated + Second * RefreshTTL
    /\ Second * tokens[p].iat < invalidated

Alive(p, ttl) == clock < Second * (tokens[p].iat + ttl)

Admits(p) == p # 0 /\ Alive(p, AccessTTL) /\ ~Ended(p)
Renews(p) == p # 0 /\ Alive(p, RefreshTTL) /\ p \notin blocked /\ ~Ended(p)

SessionGo(h, next) == sessionAt' = [sessionAt EXCEPT ![h] = next]

\* A request takes at least a tick.
SessionTake(h, step, for) ==
    /\ MayTake(h, sessionAt)
    /\ clock <= LastTick
    /\ clock' = clock + 1
    /\ SessionGo(h, step)
    /\ sessionFor' = [sessionFor EXCEPT ![h] = for]
    /\ sessionOf' = [sessionOf EXCEPT ![h] = [pair |-> cookie[h], since |-> epoch]]
    /\ UNCHANGED <<server, tabs, calm>>

SessionEnds(h) ==
    /\ SessionGo(h, "idle")
    /\ sessionFor' = [sessionFor EXCEPT ![h] = "none"]
    /\ sessionOf' = [sessionOf EXCEPT ![h] = NoPair]

\* The browser of a tab stores a pair, or forgets it.
StoreCookie(h, p) == cookie' = [g \in Handler |-> IF g = h \/ shared THEN p ELSE cookie[g]]

-----------------------------------------------------------------------------
(***************************************************************************)
(* The web client: apiRequest, and what AuthProvider does with the answer. *)
(***************************************************************************)

SignIn(h) == Len(tokens) < MaxTokens /\ SessionTake(h, "issue", "signIn")
Me(h)     == SessionTake(h, "authorise", "me")
Logout(h) == shown[h] = "in" /\ SessionTake(h, "authorise", "logout")

\* The guard admits the request, or answers 401; then the client tries to refresh the
\* session, once.
Authorise(h) ==
    /\ sessionAt[h] \in {"authorise", "retry"}
    /\ IF Admits(cookie[h])
       THEN IF sessionFor[h] = "me"
            THEN SessionEnds(h) /\ shown' = [shown EXCEPT ![h] = "in"]
            ELSE /\ SessionGo(h, "invalidate")
                 /\ sessionOf' = [sessionOf EXCEPT ![h].pair = cookie[h]]
                 /\ UNCHANGED <<sessionFor, shown>>
       ELSE IF sessionAt[h] = "authorise"
            THEN /\ SessionGo(h, "blocklist")
                 /\ sessionOf' = [sessionOf EXCEPT ![h].pair = cookie[h]]
                 /\ UNCHANGED <<sessionFor, shown>>
            ELSE SessionEnds(h) /\ shown' = [shown EXCEPT ![h] = "out"]
    /\ UNCHANGED <<clock, server, shared, cookie, calm>>

-----------------------------------------------------------------------------
(***************************************************************************)
(* AuthService: refreshSession, generateToken, logout; InternalService's   *)
(* reset of the password.                                                  *)
(***************************************************************************)

\* The refresh token is good so far, or the tab takes the user for signed out.
Passes(h, good, next) ==
    /\ IF good THEN SessionGo(h, next) /\ UNCHANGED <<sessionFor, sessionOf, shown>>
       ELSE SessionEnds(h) /\ shown' = [shown EXCEPT ![h] = "out"]
    /\ UNCHANGED <<clock, server, shared, cookie, calm>>

\* The token is verified and sought in the blocklist ...
RefreshListed(h) ==
    /\ sessionAt[h] = "blocklist"
    /\ LET p == sessionOf[h].pair
       IN  Passes(h, p # 0 /\ Alive(p, RefreshTTL) /\ p \notin blocked, "valid")

\* ... its session must not have been ended ...
RefreshValid(h) ==
    /\ sessionAt[h] = "valid"
    /\ Passes(h, ~Ended(sessionOf[h].pair), "block")

\* ... and it is used up.
RefreshBlocks(h) ==
    /\ sessionAt[h] = "block"
    /\ blocked' = blocked \cup {sessionOf[h].pair}
    /\ SessionGo(h, "issue")
    /\ UNCHANGED <<clock, tokens, invalidated, epoch, tabs, sessionFor, sessionOf, calm>>

\* A pair is issued and stored by the browser, after a refresh or a sign-in.  After a
\* refresh the request is sent again, which takes time.
IssueTokens(h) ==
    /\ sessionAt[h] = "issue" /\ Len(tokens) < MaxTokens
    /\ LET old == sessionOf[h].pair
           new == Len(tokens) + 1
           signIn == sessionFor[h] = "signIn"
       IN  /\ tokens' = Append(tokens,
                  [iat   |-> clock \div Second,
                   since |-> IF signIn THEN sessionOf[h].since ELSE tokens[old].since,
                   from  |-> IF signIn THEN new ELSE tokens[old].from])
           /\ StoreCookie(h, new)
           /\ IF signIn THEN SessionEnds(h) /\ UNCHANGED clock
              ELSE /\ SessionGo(h, "retry") /\ UNCHANGED <<sessionFor, sessionOf>>
                   /\ clock' = clock + 1
    /\ UNCHANGED <<blocked, invalidated, epoch, shared, shown, calm>>

\* Logout ends all sessions of the user ...
LogoutInvalidates(h) ==
    /\ sessionAt[h] = "invalidate"
    /\ invalidated' = clock /\ epoch' = epoch + 1
    /\ SessionGo(h, "revoke")
    /\ UNCHANGED <<clock, tokens, blocked, tabs, sessionFor, sessionOf, calm>>

\* ... and the refresh token it came with; the browser forgets its pair.
LogoutRevokes(h) ==
    /\ sessionAt[h] = "revoke"
    /\ blocked' = blocked \cup {sessionOf[h].pair}
    /\ StoreCookie(h, 0)
    /\ shown' = [shown EXCEPT ![h] = "out"]
    /\ SessionEnds(h)
    /\ UNCHANGED <<clock, tokens, invalidated, epoch, shared, calm>>

\* Somebody else resets the password ...
ResetPassword(h) == SessionTake(h, "password", "reset")

ResetWrites(h) ==
    /\ sessionAt[h] = "password"
    /\ epoch' = epoch + 1
    /\ SessionGo(h, "reset")
    /\ UNCHANGED <<clock, tokens, blocked, invalidated, tabs, sessionFor, sessionOf, calm>>

\* ... and then ends the sessions.
ResetInvalidates(h) ==
    /\ sessionAt[h] = "reset"
    /\ invalidated' = clock
    /\ SessionEnds(h)
    /\ UNCHANGED <<clock, tokens, blocked, epoch, tabs, calm>>

\* An error, or an answer that is lost; AuthProvider takes the user for signed out.
SessionBreaks(h) ==
    /\ MayBreak(h, sessionAt)
    /\ SessionEnds(h)
    /\ shown' = [shown EXCEPT ![h] = IF sessionFor[h] \in {"me", "logout"} THEN "out" ELSE @]
    /\ UNCHANGED <<clock, server, shared, cookie, calm>>

SessionTick ==
    /\ clock <= LastTick
    /\ \A h \in Handler : sessionAt[h] = "idle"
    /\ clock' = clock + 1
    /\ UNCHANGED <<server, tabs, sessionAt, sessionFor, sessionOf, calm>>

-----------------------------------------------------------------------------
SessionNext ==
    \/ \E h \in Handler :
          \/ SignIn(h) \/ Me(h) \/ Logout(h) \/ Authorise(h)
          \/ RefreshListed(h) \/ RefreshValid(h) \/ RefreshBlocks(h) \/ IssueTokens(h)
          \/ LogoutInvalidates(h) \/ LogoutRevokes(h)
          \/ ResetPassword(h) \/ ResetWrites(h) \/ ResetInvalidates(h)
          \/ SessionBreaks(h)
    \/ SessionTick

SessionSpec == CalmInit /\ SessionInit /\ [][SessionNext]_<<sessionVars, calm>>

-----------------------------------------------------------------------------
(***************************************************************************)
(* Properties.                                                             *)
(***************************************************************************)

\* Once the sessions have ended, by logout or reset, no pair of before lets anybody in
\* or can be renewed, wherever it is kept and however often it has been renewed.
EndedForGood == \A p \in Pair : Admits(p) \/ Renews(p) => tokens[p].since = epoch

\* However often a session is refreshed, one pair at most can renew it.
OneRenewal ==
    \A p, q \in Pair : tokens[p].from = tokens[q].from /\ Renews(p) /\ Renews(q) => p = q

\* Without overlap of requests sessions end for good, and each has one way to go on.
SessionsSound ==
    calm /\ (\A h \in Handler : sessionAt[h] = "idle") => EndedForGood /\ OneRenewal

=============================================================================

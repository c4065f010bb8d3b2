----------------------------- MODULE PhoneSessions -----------------------------
(***************************************************************************)
(* Who is signed in at a phone that employees may share: the phone's       *)
(* secure storage, written and cleared one key at a time; what the app     *)
(* shows, which it takes from there when it starts; and its requests,      *)
(* which renew an access token that is refused and give the session up     *)
(* when that fails.                                                        *)
(* Left out: PINs (EmployeePins; here one is right or not), biometrics,    *)
(* which only skip a screen, and the events queued on the phone            *)
(* (FieldAttendance).                                                      *)
(***************************************************************************)
EXTENDS RequestHandling, Sequences

CONSTANTS
    Holder,   \* employees who use the phone
    MaxStops  \* stops of the app and failures of its storage (a bound)

ASSUME PhoneAssumption == MaxStops \in Nat

NoHolder   == "no one"
NoKey == [of |-> NoHolder, good |-> FALSE]
StoreKeys    == <<"token", "refresh", "phone", "details">>

VARIABLES
    recognised,   \* does the server's guard take the employee for a user?
    store,        \* SecureStore: whose each key is; a token is good, or expired or spent
    app,          \* is the app open, and who is signed in there?
    member,       \* who has signed in and not logged out
    leaving,      \* the key a logout clears next, or 0
    isRefreshing, \* is the token being renewed?
    call,         \* requests of the app
    stops         \* faults so far

phoneVars == <<recognised, store, app, member, leaving, isRefreshing, call, stops>>

NoCall == [at |-> "idle", of |-> NoHolder, good |-> FALSE, retry |-> FALSE, key |-> 0,
           number |-> NoHolder]

Somebody == Holder \cup {NoHolder}
TokenKey == [of : Somebody, good : BOOLEAN]
CallRow  == [at : {"idle", "login", "keep", "sent", "refused", "queued", "refresh", "rotated",
                   "rotate"},
             of : Somebody, good : BOOLEAN, retry : BOOLEAN, key : 0 .. Len(StoreKeys) + 1,
             number : Somebody]

PhoneTypeOK ==
    /\ recognised \in BOOLEAN /\ isRefreshing \in BOOLEAN
    /\ store \in [token : TokenKey, refresh : TokenKey, phone : Somebody, details : Somebody]
    /\ app \in [open : BOOLEAN, person : Somebody] /\ member \in Somebody
    /\ leaving \in 0 .. Len(StoreKeys) + 1 /\ stops \in 0 .. MaxStops
    /\ call \in [Handler -> CallRow]

PhoneInit ==
    /\ recognised \in BOOLEAN
    /\ store = [token |-> NoKey, refresh |-> NoKey, phone |-> NoHolder, details |-> NoHolder]
    /\ app = [open |-> TRUE, person |-> NoHolder] /\ member = NoHolder
    /\ leaving = 0 /\ isRefreshing = FALSE /\ stops = 0
    /\ call = [h \in Handler |-> NoCall]

CallsAt == [h \in Handler |-> call[h].at]

\* A key as it is for a person, or for no one.
KeyOf(k, p) == IF k \in {"token", "refresh"} THEN [of |-> p, good |-> p # NoHolder] ELSE p

-----------------------------------------------------------------------------
(***************************************************************************)
(* authStore.                                                              *)
(***************************************************************************)

\* The screen for signing in is shown to no one else.
PhoneLogin(h, p) ==
    /\ app.open /\ app.person = NoHolder
    /\ MayTake(h, CallsAt) /\ (calm => leaving = 0)
    /\ call' = [call EXCEPT ![h] = [NoCall EXCEPT !.at = "login", !.of = p]]
    /\ UNCHANGED <<recognised, store, app, member, leaving, isRefreshing, stops, calm>>

\* A refusal with 401 clears the store as well, without being waited for.
PinServed(h, right) ==
    /\ call[h].at = "login"
    /\ IF right
       THEN /\ call' = [call EXCEPT ![h].at = "keep", ![h].key = 1]
            /\ UNCHANGED leaving
       ELSE /\ call' = [call EXCEPT ![h] = NoCall]
            /\ leaving' = IF leaving = 0 THEN 1 ELSE leaving
    /\ UNCHANGED <<recognised, store, app, member, isRefreshing, stops, calm>>

\* What the server answered is stored key by key ...
LoginStores(h) ==
    LET k == call[h].key
    IN  /\ call[h].at = "keep" /\ k <= Len(StoreKeys)
        /\ store' = [store EXCEPT ![StoreKeys[k]] = KeyOf(StoreKeys[k], call[h].of)]
        /\ call' = [call EXCEPT ![h].key = k + 1]
        /\ UNCHANGED <<recognised, app, member, leaving, isRefreshing, stops, calm>>

\* ... and then shown.
LoggedIn(h) ==
    /\ call[h].at = "keep" /\ call[h].key > Len(StoreKeys)
    /\ app' = [app EXCEPT !.person = call[h].of]
    /\ member' = call[h].of
    /\ call' = [call EXCEPT ![h] = NoCall]
    /\ UNCHANGED <<recognised, store, leaving, isRefreshing, stops, calm>>

PhoneLogout ==
    /\ app.open /\ app.person # NoHolder /\ leaving = 0
    /\ calm => \A h \in Handler : call[h].at = "idle"
    /\ leaving' = 1 /\ member' = NoHolder
    /\ UNCHANGED <<recognised, store, app, isRefreshing, call, stops, calm>>

LogoutClears ==
    /\ leaving # 0
    /\ IF leaving <= Len(StoreKeys)
       THEN /\ store' = [store EXCEPT ![StoreKeys[leaving]] = KeyOf(StoreKeys[leaving], NoHolder)]
            /\ leaving' = leaving + 1 /\ UNCHANGED app
       ELSE app' = [app EXCEPT !.person = NoHolder] /\ leaving' = 0 /\ UNCHANGED store
    /\ UNCHANGED <<recognised, member, isRefreshing, call, stops, calm>>

\* A key cannot be cleared: what is shown stays.
LogoutFails ==
    /\ leaving \in 1 .. Len(StoreKeys) /\ stops < MaxStops
    /\ leaving' = 0 /\ stops' = stops + 1
    /\ UNCHANGED <<recognised, store, app, member, isRefreshing, call, calm>>

\* The app is stopped, and everything it was about to do.
PhoneStops ==
    /\ app.open /\ stops < MaxStops
    /\ app' = [open |-> FALSE, person |-> NoHolder]
    /\ leaving' = 0 /\ isRefreshing' = FALSE /\ stops' = stops + 1
    /\ call' = [h \in Handler |-> NoCall]
    /\ UNCHANGED <<recognised, store, member, calm>>

\* checkSavedAuth: a token, a number and the details together are a session.
AppOpens ==
    /\ ~app.open
    /\ app' = [open |-> TRUE,
               person |-> IF store.token # NoKey /\ store.phone # NoHolder
                          THEN store.details ELSE NoHolder]
    /\ UNCHANGED <<recognised, store, member, leaving, isRefreshing, call, stops, calm>>

-----------------------------------------------------------------------------
(***************************************************************************)
(* apiClient.                                                              *)
(***************************************************************************)

\* A request carries the token of the store.
PhoneRequest(h) ==
    /\ app.open /\ app.person # NoHolder
    /\ MayTake(h, CallsAt) /\ (calm => leaving = 0)
    /\ call' = [call EXCEPT ![h] = [NoCall EXCEPT !.at = "sent", !.of = store.token.of,
                                                  !.good = store.token.good]]
    /\ UNCHANGED <<recognised, store, app, member, leaving, isRefreshing, stops, calm>>

\* The server answers, or refuses the token.
CallAnswered(h) ==
    /\ call[h].at = "sent"
    /\ call' = IF call[h].good /\ recognised THEN [call EXCEPT ![h] = NoCall]
               ELSE [call EXCEPT ![h].at = "refused"]
    /\ UNCHANGED <<recognised, store, app, member, leaving, isRefreshing, stops, calm>>

\* No further attempt after the second refusal: the session is given up.
SessionGivenUp(h) ==
    /\ call[h].at = "refused" /\ call[h].retry
    /\ call' = [call EXCEPT ![h] = NoCall]
    /\ leaving' = IF leaving = 0 THEN 1 ELSE leaving
    /\ UNCHANGED <<recognised, store, app, member, isRefreshing, stops, calm>>

\* One request renews the token, and others wait for it.
WaitsForToken(h) ==
    /\ call[h].at = "refused" /\ ~call[h].retry /\ isRefreshing
    /\ call' = [call EXCEPT ![h].at = "queued"]
    /\ UNCHANGED <<recognised, store, app, member, leaving, isRefreshing, stops, calm>>

TokenRenewed(h) ==
    /\ call[h].at = "refused" /\ ~call[h].retry /\ ~isRefreshing
    /\ store.refresh # NoKey /\ store.phone # NoHolder
    /\ isRefreshing' = TRUE
    /\ call' = [call EXCEPT ![h] = [at |-> "refresh", of |-> store.refresh.of, retry |-> TRUE,
                                    good |-> store.refresh.good, key |-> 0,
                                    number |-> store.phone]]
    /\ UNCHANGED <<recognised, store, app, member, leaving, stops, calm>>

\* refreshSession: a refresh token serves once; after that the number does.
RefreshServed(h) ==
    /\ call[h].at = "refresh"
    /\ call' = [call EXCEPT ![h].at = "rotated",
                            ![h].of = IF call[h].good THEN @ ELSE call[h].number]
    /\ store' = IF store.refresh.of = call[h].of THEN [store EXCEPT !.refresh.good = FALSE]
                ELSE store
    /\ UNCHANGED <<recognised, app, member, leaving, isRefreshing, stops, calm>>

\* The new pair is stored, one token after the other, ...
TokenStored(h) ==
    /\ call[h].at = "rotated"
    /\ store' = [store EXCEPT !.token = [of |-> call[h].of, good |-> TRUE]]
    /\ call' = [call EXCEPT ![h].at = "rotate"]
    /\ UNCHANGED <<recognised, app, member, leaving, isRefreshing, stops, calm>>

\* ... and all that waited is sent again.
RefreshStored(h) ==
    LET again == [g \in Handler |->
                    IF g = h \/ call[g].at = "queued"
                    THEN [call[g] EXCEPT !.at = "sent", !.of = call[h].of, !.good = TRUE]
                    ELSE call[g]]
    IN  /\ call[h].at = "rotate"
        /\ store' = [store EXCEPT !.refresh = [of |-> call[h].of, good |-> TRUE]]
        /\ isRefreshing' = FALSE /\ call' = again
        /\ UNCHANGED <<recognised, app, member, leaving, stops, calm>>

\* There is nothing to renew with, or no answer: what waited fails, and the session is
\* given up.
RefreshFails(h) ==
    /\ \/ /\ call[h].at = "refused" /\ ~call[h].retry /\ ~isRefreshing
          /\ store.refresh = NoKey \/ store.phone = NoHolder
       \/ call[h].at = "refresh" /\ MayBreak(h, CallsAt)
    /\ call' = [g \in Handler |-> IF g = h \/ call[g].at = "queued" THEN NoCall ELSE call[g]]
    /\ isRefreshing' = FALSE
    /\ leaving' = IF leaving = 0 THEN 1 ELSE leaving
    /\ UNCHANGED <<recognised, store, app, member, stops, calm>>

\* Any other request without an answer changes nothing.
CallBreaks(h) ==
    /\ call[h].at \in {"login", "sent"} /\ MayBreak(h, CallsAt)
    /\ call' = [call EXCEPT ![h] = NoCall]
    /\ UNCHANGED <<recognised, store, app, member, leaving, isRefreshing, stops, calm>>

\* The access token expires.
TokenExpires ==
    /\ store.token.good
    /\ store' = [store EXCEPT !.token.good = FALSE]
    /\ UNCHANGED <<recognised, app, member, leaving, isRefreshing, call, stops, calm>>

PhoneNext ==
    \/ PhoneLogout \/ LogoutClears \/ LogoutFails \/ PhoneStops \/ AppOpens \/ TokenExpires
    \/ \E h \in Handler :
        \/ \E p \in Holder : PhoneLogin(h, p)
        \/ \E right \in BOOLEAN : PinServed(h, right)
        \/ LoginStores(h) \/ LoggedIn(h) \/ PhoneRequest(h) \/ CallAnswered(h) \/ SessionGivenUp(h)
        \/ WaitsForToken(h) \/ TokenRenewed(h) \/ RefreshServed(h) \/ TokenStored(h)
        \/ RefreshStored(h) \/ RefreshFails(h) \/ CallBreaks(h)

PhoneSpec == CalmInit /\ PhoneInit /\ [][PhoneNext]_<<calm, phoneVars>>

-----------------------------------------------------------------------------
(***************************************************************************)
(* Properties.                                                             *)
(***************************************************************************)

\* Where requests do not overlap and one thing at most is cut short, the app shows the
\* employee whose token it sends and whose number would renew it.  (Two cut short, a
\* logout after its first key and the next sign-in after its first, show one with the
\* token of another.)
ShownIsTokens ==
    calm /\ stops <= 1 /\ app.person # NoHolder =>
        /\ store.token.of \in {app.person, NoHolder}
        /\ store.phone \in {app.person, NoHolder}

\* There too, whoever signed in stays so until the logout, also when the app stops between
\* the two tokens of a renewed pair: the number makes up for the one that is lost.
StaysSignedIn ==
    calm /\ recognised /\ app.open /\ member # NoHolder /\ leaving = 0
        /\ (\A h \in Handler : call[h].at # "keep") => app.person = member

\* What waits for a token is woken: the request that renews it is still under way.
WaitingIsWoken ==
    \A h \in Handler : call[h].at = "queued" =>
        \E g \in Handler : call[g].at \in {"refresh", "rotated", "rotate"}

PhoneSound == ShownIsTokens /\ StaysSignedIn /\ WaitingIsWoken

=============================================================================

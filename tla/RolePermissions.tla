---------------------------- MODULE RolePermissions ----------------------------
(***************************************************************************)
(* RolesService: the custom roles of a tenant, the permissions they grant, *)
(* who has them, and the permissions of each user as cached in Redis.      *)
(* Left out: names and descriptions, and the built-in roles beyond the one *)
(* set of permissions that a user without a custom role has.               *)
(***************************************************************************)
EXTENDS RequestHandling

CONSTANTS
    User, Role, \* rows of users and custom_roles (bounds)
    Permission,
    BuiltIn     \* what a user's built-in role grants

ASSUME RoleAssumption == BuiltIn \subseteq Permission /\ "none" \notin Role /\ User # {}

VARIABLES
    grants,     \* role_permissions of each custom role
    roles,      \* rows of custom_roles
    roleOf,     \* users.customRoleId, or "none"
    cachedFor,  \* permissions:<tenant>:<user>, or NoEntry
    accessAt,   \* what each request does next
    accessFor,  \* the users it works for
    accessRole, \* the role it works with, or "none"
    accessSet,  \* permissions it has computed or been given
    accessRead  \* permissions it has read

accessRows == <<grants, roles, roleOf>>
accessCalls == <<accessAt, accessFor, accessRole, accessSet, accessRead>>
accessVars == <<accessRows, cachedFor, accessCalls>>

NoEntry == {"none"}

\* A history in which requests overlap has one user (a bound).
Asking == IF calm THEN User ELSE {CHOOSE u \in User : TRUE}

\* What a user may do.
Effective(u) == IF roleOf[u] = "none" THEN BuiltIn ELSE grants[roleOf[u]]

AccessTypeOK ==
    /\ grants \in [Role -> SUBSET Permission] /\ roles \subseteq Role
    /\ roleOf \in [User -> roles \cup {"none"}]
    /\ cachedFor \in [User -> (SUBSET Permission) \cup {NoEntry}]
    /\ accessAt \in [Handler -> {"idle", "readGrants", "store", "replace", "holders", "forget",
                                 "dropGrants", "dropRole", "assign"}]
    /\ accessFor \in [Handler -> SUBSET User]
    /\ accessRole \in [Handler -> Role \cup {"none"}]
    /\ accessSet \in [Handler -> SUBSET Permission]
    /\ accessRead \in [Handler -> SUBSET Permission]
    /\ \A r \in Role \ roles : grants[r] = {}

AccessInit ==
    /\ grants = [r \in Role |-> {}] /\ roles = {}
    /\ roleOf = [u \in User |-> "none"]
    /\ cachedFor = [u \in User |-> NoEntry]
    /\ accessAt = [h \in Handler |-> "idle"]
    /\ accessFor = [h \in Handler |-> {}]
    /\ accessRole = [h \in Handler |-> "none"]
    /\ accessSet = [h \in Handler |-> {}] /\ accessRead = [h \in Handler |-> {}]

AccessGo(h, next) == accessAt' = [accessAt EXCEPT ![h] = next]
Holds(held, h, what) == [held EXCEPT ![h] = what]

AccessTake(h, step, users, role, given, read) ==
    /\ MayTake(h, accessAt)
    /\ AccessGo(h, step)
    /\ accessFor' = Holds(accessFor, h, users)
    /\ accessRole' = Holds(accessRole, h, role)
    /\ accessSet' = Holds(accessSet, h, given)
    /\ accessRead' = Holds(accessRead, h, read)
    /\ UNCHANGED <<accessRows, cachedFor, calm>>

AccessAnswer(h) ==
    /\ AccessGo(h, "idle")
    /\ accessFor' = Holds(accessFor, h, {})
    /\ accessRole' = Holds(accessRole, h, "none")
    /\ accessSet' = Holds(accessSet, h, {}) /\ accessRead' = Holds(accessRead, h, {})

-----------------------------------------------------------------------------
(***************************************************************************)
(* resolvePermissions, on every guarded request.                           *)
(***************************************************************************)

\* No entry: the user is read, with the role ...
Resolve(h, u) ==
    /\ cachedFor[u] = NoEntry
    /\ AccessTake(h, IF roleOf[u] = "none" THEN "store" ELSE "readGrants", {u}, roleOf[u],
                  BuiltIn, {})

\* ... then, by another query, what the role grants, unless the role is gone.
ReadGrants(h) ==
    /\ accessAt[h] = "readGrants"
    /\ accessSet' = Holds(accessSet, h,
                          IF accessRole[h] \in roles THEN grants[accessRole[h]] ELSE BuiltIn)
    /\ AccessGo(h, "store")
    /\ UNCHANGED <<accessRows, cachedFor, accessFor, accessRole, accessRead, calm>>

\* The result is cached, whatever has been forgotten since.
StorePermissions(h) ==
    /\ accessAt[h] = "store"
    /\ cachedFor' = [u \in User |-> IF u \in accessFor[h] THEN accessSet[h] ELSE cachedFor[u]]
    /\ AccessAnswer(h)
    /\ UNCHANGED <<accessRows, calm>>

\* Five minutes are over.
PermissionsExpire(u) ==
    /\ cachedFor[u] # NoEntry
    /\ cachedFor' = [cachedFor EXCEPT ![u] = NoEntry]
    /\ UNCHANGED <<accessRows, accessCalls, calm>>

-----------------------------------------------------------------------------
(***************************************************************************)
(* createRole, updateRole, deleteRole and assignUserRole.                  *)
(***************************************************************************)

CreateRole(r, given) ==
    /\ r \notin roles
    /\ calm => \A h \in Handler : accessAt[h] = "idle"
    /\ roles' = roles \cup {r}
    /\ grants' = [grants EXCEPT ![r] = given]
    /\ UNCHANGED <<roleOf, cachedFor, accessCalls, calm>>

\* What the role grants is read, to be compared with what it shall grant.
UpdateRole(h, r, given) ==
    r \in roles /\ AccessTake(h, "replace", {}, r, given, grants[r])

\* What is missing is added and what is too much removed, in one transaction.  A row
\* that somebody else has added by now makes it fail, and so does a role that is gone.
ReplaceGrants(h) ==
    /\ accessAt[h] = "replace"
    /\ LET r       == accessRole[h]
           added   == accessSet[h] \ accessRead[h]
           removed == accessRead[h] \ accessSet[h]
       IN  IF added \cap grants[r] = {} /\ (added # {} => r \in roles)
           THEN /\ grants' = [grants EXCEPT ![r] = (@ \ removed) \cup added]
                /\ AccessGo(h, "holders")
                /\ UNCHANGED <<accessFor, accessRole, accessSet, accessRead>>
           ELSE AccessAnswer(h) /\ UNCHANGED grants
    /\ UNCHANGED <<roles, roleOf, cachedFor, calm>>

\* invalidatePermissionCache: the users who have the role ...
Holders(h) ==
    /\ accessAt[h] = "holders"
    /\ accessFor' = Holds(accessFor, h, {u \in User : roleOf[u] = accessRole[h]})
    /\ AccessGo(h, "forget")
    /\ UNCHANGED <<accessRows, cachedFor, accessRole, accessSet, accessRead, calm>>

\* ... and their entries.
Forget(h) ==
    /\ accessAt[h] = "forget"
    /\ cachedFor' = [u \in User |-> IF u \in accessFor[h] THEN NoEntry ELSE cachedFor[u]]
    /\ AccessAnswer(h)
    /\ UNCHANGED <<accessRows, calm>>

\* A role that nobody has is deleted, its permissions first.
DeleteRole(h, r) ==
    /\ r \in roles /\ \A u \in User : roleOf[u] # r
    /\ AccessTake(h, "dropGrants", {}, r, {}, {})

DropGrants(h) ==
    /\ accessAt[h] = "dropGrants"
    /\ grants' = [grants EXCEPT ![accessRole[h]] = {}]
    /\ AccessGo(h, "dropRole")
    /\ UNCHANGED <<roles, roleOf, cachedFor, accessFor, accessRole, accessSet, accessRead, calm>>

\* Mutant: whoever has been given the role meanwhile keeps it.
DropRoleOnly(h) ==
    /\ accessAt[h] = "dropRole"
    /\ roles' = roles \ {accessRole[h]}
    /\ grants' = [grants EXCEPT ![accessRole[h]] = {}]
    /\ AccessAnswer(h)
    /\ UNCHANGED <<roleOf, cachedFor, calm>>

\* The database takes the role from whoever has been given it meanwhile.
DropRole(h) ==
    /\ accessAt[h] = "dropRole"
    /\ roles' = roles \ {accessRole[h]}
    /\ grants' = [grants EXCEPT ![accessRole[h]] = {}]
    /\ roleOf' = [u \in User |-> IF roleOf[u] = accessRole[h] THEN "none" ELSE roleOf[u]]
    /\ AccessAnswer(h)
    /\ UNCHANGED <<cachedFor, calm>>

\* A user is given a custom role, or none any more.
AssignUserRole(h, u, r) ==
    /\ r \in roles \cup {"none"}
    /\ AccessTake(h, "assign", {u}, r, {}, {})

Assign(h) ==
    /\ accessAt[h] = "assign"
    /\ IF accessRole[h] \in roles \cup {"none"}
       THEN /\ roleOf' = [u \in User |-> IF u \in accessFor[h] THEN accessRole[h] ELSE roleOf[u]]
            /\ AccessGo(h, "forget")
            /\ UNCHANGED <<accessFor, accessRole, accessSet, accessRead>>
       ELSE AccessAnswer(h) /\ UNCHANGED roleOf
    /\ UNCHANGED <<grants, roles, cachedFor, calm>>

AccessBreaks(h) ==
    /\ MayBreak(h, accessAt)
    /\ AccessAnswer(h)
    /\ UNCHANGED <<accessRows, cachedFor, calm>>

-----------------------------------------------------------------------------
AccessNext ==
    \/ \E h \in Handler :
          \/ \E u \in Asking : Resolve(h, u)
          \/ ReadGrants(h) \/ StorePermissions(h)
          \/ \E r \in Role, given \in SUBSET Permission : UpdateRole(h, r, given)
          \/ ReplaceGrants(h) \/ Holders(h) \/ Forget(h)
          \/ \E r \in Role : DeleteRole(h, r)
          \/ DropGrants(h) \/ DropRole(h)
          \/ \E u \in Asking, r \in Role \cup {"none"} : AssignUserRole(h, u, r)
          \/ Assign(h) \/ AccessBreaks(h)
    \/ \E u \in User : PermissionsExpire(u)
    \/ \E r \in Role, given \in SUBSET Permission : CreateRole(r, given)

AccessSpec == CalmInit /\ AccessInit /\ [][AccessNext]_<<accessVars, calm>>

-----------------------------------------------------------------------------
\* Without overlap, whatever changes what a user may do (the role's permissions, the
\* role assigned, its deletion) leaves no entry that says otherwise.
PermissionsCurrent ==
    calm /\ (\A h \in Handler : accessAt[h] = "idle") =>
        \A u \in User : cachedFor[u] \in {NoEntry, Effective(u)}

=============================================================================

---------------------------- MODULE WorkspaceMembers ----------------------------
(***************************************************************************)
(* How people come to belong to a workspace, and what their browser takes  *)
(* it for: the operator provisions a workspace with its owner, an owner    *)
(* invites by a link, whoever opens the link accepts, and the client names *)
(* at every request the workspace it learnt at the sign-in.                *)
(* Only a pair of workspace and address is unique in the table of users,   *)
(* and a telephone number; an address alone is looked up before a row is   *)
(* written.                                                                *)
(* Left out: passwords, sessions (AuthSessions), custom roles and changes  *)
(* of a role (RolePermissions).                                            *)
(***************************************************************************)
EXTENDS RequestHandling, Sequences

CONSTANTS
    Workspace, \* workspaces that may be provisioned (a bound)
    Address,   \* e-mail addresses
    MaxLinks   \* invitations made (a bound)

ASSUME LinkAssumption == MaxLinks \in Nat

Rank == {"HR", "FINANCE"}
None == "none"

VARIABLES
    users,   \* the table: address, telephone number, workspace, role
    invites, \* the table: the token of the newest link, the role, the status
    links,   \* the links given out, by token
    task,    \* what the requests are at; a user found is known by the number they keep
    browser  \* who is signed in, and demoz_tenant_id

memberVars == <<users, invites, links, task, browser>>

\* Telephone numbers: a person has one, and may give another.
Phone == {1, 2}

NoInvite == [token |-> 0, role |-> "HR", status |-> None]
NoTask   == [at |-> "idle", workspace |-> None, address |-> None, role |-> "HR", phone |-> 0,
             found |-> {}]
NoBrowser == [address |-> None, workspace |-> None, named |-> None]

MembersTypeOK ==
    /\ users \subseteq [address : Address, phone : Address \X Phone, workspace : Workspace,
                        role : Rank \cup {"OWNER"}]
    /\ invites \in [Workspace \X Address ->
                    [token : 0 .. MaxLinks, role : Rank,
                     status : {None, "PENDING", "EXPIRED", "ACCEPTED"}]]
    /\ links \in Seq([workspace : Workspace, address : Address]) /\ Len(links) <= MaxLinks
    /\ task \in [Handler ->
           [at : {"idle", "look", "add", "invite", "check", "find", "join"},
            workspace : Workspace \cup {None}, address : Address \cup {None},
            role : Rank, phone : Phone \cup {0}, found : SUBSET (Address \X Phone)]]
    /\ browser \in [address : Address \cup {None}, workspace : Workspace \cup {None},
                    named : Workspace \cup {None}]

MembersInit ==
    /\ users = {} /\ links = <<>>
    /\ invites = [i \in Workspace \X Address |-> NoInvite]
    /\ task = [h \in Handler |-> NoTask]
    /\ browser = NoBrowser

TaskAt  == [h \in Handler |-> task[h].at]
Of(a)   == {u \in users : u.address = a}
MembersOf(w)   == {u \in users : u.workspace = w}

Begin(h, t) ==
    /\ MayTake(h, TaskAt)
    /\ task' = [task EXCEPT ![h] = t]
    /\ UNCHANGED <<users, invites, links, browser, calm>>

Proceed(h, t) == task' = [task EXCEPT ![h] = t]

\* Rows are written unless one of the two unique keys refuses them.
Unique(rows) ==
    \A u, v \in rows : u # v => u.phone # v.phone
                               /\ <<u.workspace, u.address>> # <<v.workspace, v.address>>

RowsAfter(rows) == IF Unique(rows) THEN rows ELSE users

-----------------------------------------------------------------------------
(***************************************************************************)
(* The operator: provisionTenant.                                          *)
(***************************************************************************)

Provisioned(h, w, a) ==
    /\ MembersOf(w) = {}
    /\ \A g \in Handler : task[g].workspace # w
    /\ Begin(h, [NoTask EXCEPT !.at = "look", !.workspace = w, !.address = a])

\* The address must be new, ...
OwnerLookedUp(h) ==
    /\ task[h].at = "look"
    /\ Proceed(h, IF Of(task[h].address) = {} THEN [task[h] EXCEPT !.at = "add"] ELSE NoTask)
    /\ UNCHANGED <<users, invites, links, browser, calm>>

\* ... then the workspace and its owner are written.
OwnerAdded(h, p) ==
    LET t == task[h]
    IN  /\ t.at = "add"
        /\ users' = RowsAfter(users \cup {[address |-> t.address, phone |-> <<t.address, p>>,
                                         workspace |-> t.workspace, role |-> "OWNER"]})
        /\ Proceed(h, NoTask)
        /\ UNCHANGED <<invites, links, browser, calm>>

-----------------------------------------------------------------------------
(***************************************************************************)
(* InvitationService.                                                      *)
(***************************************************************************)

\* createInvite: not for a member.
CreateInvite(h, w, a, r) ==
    /\ MembersOf(w) # {} /\ Len(links) < MaxLinks
    /\ MembersOf(w) \cap Of(a) = {}
    /\ Begin(h, [NoTask EXCEPT !.at = "invite", !.workspace = w, !.address = a, !.role = r])

\* One row for a workspace and an address: the link before is dead.
Invited(h) ==
    LET t == task[h]
    IN  /\ t.at = "invite" /\ Len(links) < MaxLinks
        /\ links' = Append(links, [workspace |-> t.workspace, address |-> t.address])
        /\ invites' = [invites EXCEPT ![<<t.workspace, t.address>>] =
                        [token |-> Len(links'), role |-> t.role, status |-> "PENDING"]]
        /\ Proceed(h, NoTask)
        /\ UNCHANGED <<users, browser, calm>>

\* After 48 hours.
InviteExpires(i) ==
    /\ invites[i].status = "PENDING"
    /\ invites' = [invites EXCEPT ![i].status = "EXPIRED"]
    /\ UNCHANGED <<users, links, task, browser, calm>>

\* Somebody opens a link and accepts, giving a telephone number.
Accept(h, l, p) ==
    /\ Begin(h, [NoTask EXCEPT !.at = "check", !.workspace = links[l].workspace,
                               !.address = links[l].address, !.phone = p,
                               !.role = invites[<<links[l].workspace, links[l].address>>].role])
    /\ invites[<<links[l].workspace, links[l].address>>].token = l

\* acceptInvite: the invitation must be pending; its role is kept, ...
InviteChecked(h) ==
    LET i == invites[<<task[h].workspace, task[h].address>>]
    IN  /\ task[h].at = "check"
        /\ IF i.status = "PENDING" THEN Proceed(h, [task[h] EXCEPT !.at = "find", !.role = i.role])
           ELSE Proceed(h, NoTask)
        /\ UNCHANGED <<users, invites, links, browser, calm>>

\* ... the address is looked up, in whatever workspace, ...
InviteeFound(h) ==
    /\ task[h].at = "find"
    /\ \/ Of(task[h].address) = {} /\ Proceed(h, [task[h] EXCEPT !.at = "join"])
       \/ \E u \in Of(task[h].address) :
            Proceed(h, [task[h] EXCEPT !.at = "join", !.found = {u.phone}])
    /\ UNCHANGED <<users, invites, links, browser, calm>>

\* The table with the invited: a user of a new number, or the one found, moved here.
WithInvited(t, role) ==
    IF t.found = {}
    THEN users \cup {[address |-> t.address, phone |-> <<t.address, t.phone>>,
                      workspace |-> t.workspace, role |-> role]}
    ELSE {IF u.phone \in t.found THEN [u EXCEPT !.workspace = t.workspace, !.role = role]
          ELSE u : u \in users}

\* ... and the user is written, and the invitation with it: all or nothing.
Joined(h) ==
    LET t    == task[h]
        rows == WithInvited(t, t.role)
    IN  /\ t.at = "join"
        /\ users' = RowsAfter(rows)
        /\ invites' = IF Unique(rows)
                      THEN [invites EXCEPT ![<<t.workspace, t.address>>].status = "ACCEPTED"]
                      ELSE invites
        /\ Proceed(h, NoTask)
        /\ UNCHANGED <<links, browser, calm>>

MemberBreaks(h) ==
    /\ MayBreak(h, TaskAt)
    /\ Proceed(h, NoTask)
    /\ UNCHANGED <<users, invites, links, browser, calm>>

-----------------------------------------------------------------------------
(***************************************************************************)
(* The browser.                                                            *)
(***************************************************************************)

\* The answer to a login names the workspace that is in the row of the user.
SignedIn(u) == [address |-> u.address, workspace |-> u.workspace, named |-> u.workspace]

\* The login page forgets demoz_tenant_id; the server finds any user of the address first,
\* and the client keeps the workspace.
WebLogin(a) ==
    /\ \E u \in Of(a) : browser' = SignedIn(u)
    /\ UNCHANGED <<users, invites, links, task, calm>>

\* getMe, behind a guard that refuses a workspace that is not the user's.
GetMe(b) == {u \in Of(b.address) : b.named = u.workspace}

\* A page asks who the user is; without an answer it leads to the login page.
PageLoaded ==
    /\ browser.address # None
    /\ IF GetMe(browser) = {} THEN browser' = NoBrowser
       ELSE \E u \in GetMe(browser) : browser' = [browser EXCEPT !.workspace = u.workspace]
    /\ UNCHANGED <<users, invites, links, task, calm>>

WebLogout ==
    /\ browser.address # None
    /\ browser' = NoBrowser
    /\ UNCHANGED <<users, invites, links, task, calm>>

MembersNext ==
    \/ \E a \in Address : WebLogin(a)
    \/ PageLoaded \/ WebLogout
    \/ \E i \in Workspace \X Address : InviteExpires(i)
    \/ \E h \in Handler :
        \/ OwnerLookedUp(h) \/ Invited(h) \/ InviteChecked(h) \/ InviteeFound(h)
        \/ Joined(h) \/ MemberBreaks(h)
        \/ \E p \in Phone : OwnerAdded(h, p) \/ \E l \in 1 .. Len(links) : Accept(h, l, p)
        \/ \E w \in Workspace, a \in Address :
            Provisioned(h, w, a) \/ \E r \in Rank : CreateInvite(h, w, a, r)

MembersSpec == CalmInit /\ MembersInit /\ [][MembersNext]_<<calm, memberVars>>

-----------------------------------------------------------------------------
(***************************************************************************)
(* Properties.                                                             *)
(***************************************************************************)

\* Where requests do not overlap, an address is one user, who signs in to one workspace.
OneUserPerAddress == calm => \A u, v \in users : u.address = v.address => u = v

\* There too, who belongs to a workspace by an invitation has the role that was offered
\* last.  (Where a link is made anew while the one before is being accepted, the role of
\* the first is given and the second link, with its role, counts as accepted.)
RoleAsInvited ==
    calm => \A u \in users :
        LET i == invites[<<u.workspace, u.address>>]
        IN  i.status = "ACCEPTED" => u.role \in {i.role, "OWNER"}

\* A number is one user's, and the browser names the workspace that it shows.
MembersApart ==
    /\ \A u, v \in users : u.phone = v.phone => u = v
    /\ browser.named = browser.workspace

MembersSound == OneUserPerAddress /\ RoleAsInvited /\ MembersApart

=============================================================================

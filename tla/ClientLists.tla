------------------------------ MODULE ClientLists ------------------------------
(***************************************************************************)
(* A page of the web client that lists rows of the server and changes      *)
(* them.  The pages do it in three ways: they change their list by what    *)
(* the server answers, or load the list again, or change it before the     *)
(* server has answered and take that back when it refuses; some load it    *)
(* every twenty seconds besides, whatever is under way, and some show      *)
(* nothing when a load fails.  In a history that is not calm any number of *)
(* loads and changes overlap, of one row too, on every page but the        *)
(* directory: there they would restore one list over another.              *)
(* Left out: what a row says beyond one value, searching and paging, the   *)
(* employees that other pages add, and rows that others add or remove.     *)
(***************************************************************************)
EXTENDS RequestHandling

CONSTANT Entry \* rows of the listed table (a bound)

ASSUME EntryAssumption == Entry # {}

VARIABLES
    listing, \* the page that is open
    table,   \* the server's rows: "new", "a" or "b", or "gone"
    list,    \* what the page lists of each row: the values, one for each time it is listed
    answer,  \* what the last load of react-query brought
    behind,  \* may the list be out of date, for one of the reasons that ListSound names?
    unsaved, \* rows listed with a change that the server has dropped
    load,    \* loads under way, and what they have read
    change   \* changes under way

listVars == <<listing, table, list, answer, behind, unsaved, load, change>>

\* DashboardContext's branches, loaded every twenty seconds.
Branches    == [ops |-> {"add", "update", "remove"}, way |-> "patch",
                polls |-> TRUE, empties |-> FALSE]
\* The directory of employees; react-query keeps the last answer.
Employees   == [ops |-> {"update"}, way |-> "ahead", polls |-> FALSE, empties |-> FALSE]
DepartmentList == [ops |-> {"add", "remove"}, way |-> "reload", polls |-> FALSE, empties |-> FALSE]
CustomRoles == [ops |-> {"add", "update", "remove"}, way |-> "reload",
                polls |-> FALSE, empties |-> FALSE]
Policies    == [ops |-> {"add", "update", "remove"}, way |-> "reload",
                polls |-> FALSE, empties |-> FALSE]
Holidays    == [ops |-> {"add", "remove"}, way |-> "reload", polls |-> FALSE, empties |-> FALSE]
Team        == [ops |-> {"add"}, way |-> "reload", polls |-> FALSE, empties |-> TRUE]
LeaveInbox  == [ops |-> {"update"}, way |-> "reload", polls |-> TRUE, empties |-> TRUE]

Listings == {Branches, Employees, DepartmentList, CustomRoles, Policies, Holidays, Team, LeaveInbox}

Value   == {"a", "b"}
Other(v) == IF v = "a" THEN "b" ELSE "a"

\* Of a load that was read and of a change that was made: has a change been made since,
\* of the table or of that row?
NoLoad   == [at |-> "idle", rows |-> <<>>, late |-> FALSE]
NoChange == [at |-> "idle", op |-> "add", entry |-> CHOOSE e \in Entry : TRUE, value |-> "a",
             before |-> <<>>, dropped |-> {}, kept |-> TRUE, late |-> FALSE]

\* What a row can be at the server, and how it can be listed: not at all, once or twice.
Content == Value \cup {"new", "gone"}
Shows   == {<<>>} \cup {<<v>> : v \in Value} \cup (Value \X Value)

ListTypeOK ==
    /\ listing \in Listings
    /\ table \in [Entry -> Content]
    /\ list \in [Entry -> Shows]
    /\ answer \in [Entry -> Content]
    /\ behind \in BOOLEAN /\ unsaved \subseteq Entry
    /\ load \in [Handler -> [at : {"idle", "asked", "read"}, rows : {<<>>} \cup [Entry -> Content],
                            late : BOOLEAN]]
    /\ change \in [Handler -> [at : {"idle", "sent", "done", "refused"},
                              op : {"add", "update", "remove"}, entry : Entry, value : Value,
                              before : {<<>>} \cup [Entry -> Shows], dropped : SUBSET Entry,
                              kept : BOOLEAN, late : BOOLEAN]]
    /\ \A h \in Handler : change[h].at # "idle" => change[h].op \in listing.ops

ListsOf(rows) == [e \in Entry |-> IF rows[e] \in Value THEN <<rows[e]>> ELSE <<>>]

\* The page has been opened and loaded.
ListInit ==
    /\ listing \in Listings /\ (~calm => listing # Employees)
    /\ table \in [Entry -> {"new", "a"}]
    /\ answer = table /\ list = ListsOf(table)
    /\ behind = FALSE /\ unsaved = {}
    /\ load = [h \in Handler |-> NoLoad] /\ change = [h \in Handler |-> NoChange]

AtRest == \A h \in Handler : change[h].at = "idle" /\ load[h].at = "idle"

\* In a calm history one thing is finished before the next begins.
Undisturbed == calm => AtRest

\* A load begins.  react-query gives up the one that is under way.
Asked(h) ==
    [g \in Handler |-> IF g = h THEN [NoLoad EXCEPT !.at = "asked"]
                       ELSE IF listing = Employees THEN NoLoad ELSE load[g]]

-----------------------------------------------------------------------------
(***************************************************************************)
(* Loads.                                                                  *)
(***************************************************************************)

\* The interval of 20 s is over.
Poll(h) ==
    /\ listing.polls
    /\ load[h].at = "idle" /\ Undisturbed
    /\ load' = Asked(h)
    /\ UNCHANGED <<listing, table, list, answer, behind, unsaved, change, calm>>

\* The server reads the rows.
ListRead(h) ==
    /\ load[h].at = "asked"
    /\ load' = [load EXCEPT ![h] = [at |-> "read", rows |-> table, late |-> FALSE]]
    /\ UNCHANGED <<listing, table, list, answer, behind, unsaved, change, calm>>

\* Mutant: rows that are listed and not among the loaded ones are kept, as they may have
\* been added meanwhile.
ListLoadedMerged(h) ==
    /\ load[h].at = "read"
    /\ list' = [e \in Entry |-> IF load[h].rows[e] \in Value THEN <<load[h].rows[e]>> ELSE list[e]]
    /\ unsaved' = {} /\ behind' = load[h].late
    /\ answer' = IF listing.way = "ahead" THEN load[h].rows ELSE answer
    /\ load' = [load EXCEPT ![h] = NoLoad]
    /\ UNCHANGED <<listing, table, change, calm>>

\* They are listed, over whatever was listed and however late they come.  react-query
\* returns the answer it has if nothing is different in the new one, and the directory
\* then keeps what it lists.
ListLoaded(h) ==
    /\ load[h].at = "read"
    /\ IF listing.way = "ahead" /\ load[h].rows = answer
       THEN UNCHANGED <<list, unsaved, behind>>
       ELSE list' = ListsOf(load[h].rows) /\ unsaved' = {} /\ behind' = load[h].late
    /\ answer' = IF listing.way = "ahead" THEN load[h].rows ELSE answer
    /\ load' = [load EXCEPT ![h] = NoLoad]
    /\ UNCHANGED <<listing, table, change, calm>>

\* A load fails, and some pages then list nothing.  Where answers change the list, nothing
\* is lost by that.
ListFails(h) ==
    /\ load[h].at \in {"asked", "read"}
    /\ list' = IF listing.empties THEN [e \in Entry |-> <<>>] ELSE list
    /\ behind' = (behind \/ listing.way # "patch")
    /\ load' = [load EXCEPT ![h] = NoLoad]
    /\ UNCHANGED <<listing, table, answer, unsaved, change, calm>>

-----------------------------------------------------------------------------
(***************************************************************************)
(* Changes.                                                                *)
(***************************************************************************)

\* A change is sent.  What is changed or removed is on the list; a row that is added is
\* not another's.  The directory keeps what it listed before.
Send(h, op, e, v, kept, before) ==
    /\ op \in listing.ops
    /\ change[h].at = "idle" /\ Undisturbed
    /\ op = "add" => \A g \in Handler : change[g].at # "idle" => change[g].entry # e
    /\ IF op = "add" THEN table[e] = "new" /\ list[e] = <<>> ELSE list[e] # <<>>
    /\ change' = [change EXCEPT ![h] = [at |-> "sent", op |-> op, entry |-> e, value |-> v,
                                        before |-> before, dropped |-> unsaved,
                                        kept |-> kept, late |-> FALSE]]
    /\ UNCHANGED <<listing, table, answer, behind, load, calm>>

SendAndWait(h, op, e, v) ==
    /\ listing.way # "ahead"
    /\ Send(h, op, e, v, TRUE, <<>>)
    /\ UNCHANGED <<list, unsaved>>

BranchSubmit(h) == listing = Branches /\
    \E e \in Entry, v \in Value, op \in {"add", "update"} : SendAndWait(h, op, e, v)
BranchRemove(h) == listing = Branches /\ \E e \in Entry : SendAndWait(h, "remove", e, "a")

AddDepartment(h) == listing = DepartmentList /\ \E e \in Entry : SendAndWait(h, "add", e, "a")
RemoveDepartment(h) == listing = DepartmentList /\ \E e \in Entry : SendAndWait(h, "remove", e, "a")

SaveRole(h) == listing = CustomRoles /\
    \E e \in Entry, v \in Value, op \in {"add", "update"} : SendAndWait(h, op, e, v)
RemoveRole(h) == listing = CustomRoles /\ \E e \in Entry : SendAndWait(h, "remove", e, "a")

SavePolicy(h) == listing = Policies /\
    \E e \in Entry, v \in Value, op \in {"add", "update"} : SendAndWait(h, op, e, v)
DeletePolicy(h) == listing = Policies /\ \E e \in Entry : SendAndWait(h, "remove", e, "a")

AddHoliday(h) == listing = Holidays /\ \E e \in Entry : SendAndWait(h, "add", e, "a")
DeleteHoliday(h) == listing = Holidays /\ \E e \in Entry : SendAndWait(h, "remove", e, "a")

Invite(h) == listing = Team /\ \E e \in Entry : SendAndWait(h, "add", e, "a")

Decide(h) == listing = LeaveInbox /\ \E e \in Entry, v \in Value : SendAndWait(h, "update", e, v)

\* The directory lists a profile as edited at once.  A department's name is no part of
\* what the server takes, and is dropped.
EditProfile(h) ==
    /\ listing = Employees
    /\ \E e \in Entry, kept \in BOOLEAN :
        /\ list[e] # <<>>
        /\ Send(h, "update", e, Other(list[e][1]), kept, list)
        /\ list' = [list EXCEPT ![e] = <<Other(@[1])>>]
        /\ unsaved' = IF kept THEN unsaved ELSE unsaved \cup {e}

\* When a row changes at the server, what was read of the table before is late, and so is
\* the answer of a change of that row that was made before.
ReadsOvertaken == [l \in Handler |-> [load[l] EXCEPT !.late = @ \/ load[l].at = "read"]]
Overtaken(c, e) == [c EXCEPT !.late = @ \/ (c.at = "done" /\ c.entry = e)]

\* The server makes the change, unless the row is gone ...
ServerChanges(h) ==
    /\ change[h].at = "sent"
    /\ LET c == change[h]
       IN  /\ IF c.op = "add" THEN table[c.entry] = "new" ELSE table[c.entry] \in Value
           /\ table' = IF ~c.kept THEN table
                       ELSE [table EXCEPT ![c.entry] = IF c.op = "remove" THEN "gone" ELSE c.value]
           /\ change' = [g \in Handler |-> IF g = h THEN [c EXCEPT !.at = "done"]
                                           ELSE Overtaken(change[g], c.entry)]
    /\ load' = ReadsOvertaken
    /\ UNCHANGED <<listing, list, answer, behind, unsaved, calm>>

\* ... or refuses it.
ServerRefuses(h) ==
    /\ change[h].at = "sent"
    /\ change' = [change EXCEPT ![h].at = "refused"]
    /\ UNCHANGED <<listing, table, list, answer, behind, unsaved, load, calm>>

Finished(h) == change' = [change EXCEPT ![h] = NoChange]

\* A new row is added at the end, whether or not it is listed; a changed one is replaced
\* wherever it is, and a removed one taken out.
Patched(c) ==
    [list EXCEPT ![c.entry] =
        CASE c.op = "add"    -> IF @ = <<>> THEN <<c.value>> ELSE <<@[1], c.value>>
          [] c.op = "update" -> [i \in DOMAIN @ |-> c.value]
          [] c.op = "remove" -> <<>>]

\* The answer changes the list ...
Patch(h) ==
    /\ change[h].at = "done" /\ listing.way = "patch"
    /\ list' = Patched(change[h])
    /\ behind' = (behind \/ change[h].late
                         \/ (change[h].op = "add" /\ list[change[h].entry] # <<>>))
    /\ Finished(h)
    /\ UNCHANGED <<listing, table, answer, unsaved, load, calm>>

\* ... or makes the page load it again.
Reload(h) ==
    /\ change[h].at = "done" /\ listing.way # "patch"
    /\ \E l \in Handler :
        /\ load[l].at = "idle" \/ listing = Employees
        /\ load' = Asked(l)
    /\ Finished(h)
    /\ UNCHANGED <<listing, table, list, answer, behind, unsaved, calm>>

\* It was refused, or the page does not hear what became of it.  The directory then lists what
\* it did before the change, all of it.
GiveUp(h) ==
    /\ change[h].at \in {"refused", "done"}
    /\ Finished(h)
    /\ list' = IF listing.way = "ahead" THEN change[h].before ELSE list
    /\ unsaved' = IF listing.way = "ahead" THEN change[h].dropped ELSE unsaved
    /\ behind' = (behind \/ change[h].at = "done")
    /\ UNCHANGED <<listing, table, answer, load, calm>>

\* Another client changes a row.
ElsewhereChanged(e) ==
    /\ table[e] \in Value /\ Undisturbed
    /\ table' = [table EXCEPT ![e] = Other(@)]
    /\ behind' = TRUE
    /\ load' = ReadsOvertaken
    /\ change' = [g \in Handler |-> Overtaken(change[g], e)]
    /\ UNCHANGED <<listing, list, answer, unsaved, calm>>

-----------------------------------------------------------------------------
ListNext ==
    \/ \E h \in Handler :
        \/ Poll(h) \/ ListRead(h) \/ ListLoaded(h) \/ ListFails(h)
        \/ BranchSubmit(h) \/ BranchRemove(h) \/ AddDepartment(h) \/ RemoveDepartment(h)
        \/ SaveRole(h) \/ RemoveRole(h) \/ SavePolicy(h) \/ DeletePolicy(h)
        \/ AddHoliday(h) \/ DeleteHoliday(h) \/ Invite(h) \/ Decide(h) \/ EditProfile(h)
        \/ ServerChanges(h) \/ ServerRefuses(h) \/ Patch(h) \/ Reload(h) \/ GiveUp(h)
    \/ \E e \in Entry : ElsewhereChanged(e)

ListSpec == CalmInit /\ ListInit /\ [][ListNext]_<<listVars, calm>>

-----------------------------------------------------------------------------
\* A page at rest lists each row once and as the server has it, after any sequence of
\* changes and refusals and whatever has overlapped, if the last load it listed was not
\* overtaken by a change before it was listed, and since then no answer was overtaken by
\* a later change of its row, none came for an added row that was listed already, none
\* was lost and nobody else changed the table; and, where loads follow changes, none
\* has failed.  The next load that is not overtaken makes up for all of these.  A directory
\* goes on listing what the server dropped.
ListSound == AtRest /\ ~behind => \A e \in Entry \ unsaved : list[e] = ListsOf(table)[e]

=============================================================================

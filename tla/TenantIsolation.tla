---------------------------- MODULE TenantIsolation ----------------------------
(***************************************************************************)
(* The database client of the server (PrismaService): how a query is kept  *)
(* within the tenant of its request or job, and how fields are encrypted.  *)
(* The tenant is kept by AsyncLocalStorage for everything that a request   *)
(* starts; withoutTenantIsolation hides it from one query.                 *)
(* Left out: rows read along with others, which follow the foreign keys;   *)
(* the log of mutations; transactions, outside of which the look for a     *)
(* row and the read of a unique one take place; what happens without a key *)
(* for the encryption.                                                     *)
(***************************************************************************)
EXTENDS RequestHandling

CONSTANTS
    Tenant, \* tenants
    Row,    \* rows of the table that is used, by unique key
    Queries   \* the queries that are made

VARIABLES
    dataModel, \* the table that is used
    tenantOf,  \* the tenant of each row that has been created, or Unborn
    exists,    \* the rows that are there
    text,      \* how a row's sensitive field is stored
    found,     \* of each handler, the update or delete whose row has been found
    reply      \* what the last query did: its context, the rows, and what was read

isolationVars == <<dataModel, tenantOf, exists, text, found, reply>>

\* No tenant, of a query and of a row.
Outside == "outside"
Unborn  == "unborn"

Text == {"none", "plain", "sealed"}

\* Kinds of tables.  column: has it a tenantId?  sealed and opened: are fields encrypted in
\* what is written, and decrypted in what is read?  upserted: are its rows upserted?
EmployeeTable    == [column |-> TRUE, sealed |-> TRUE, opened |-> TRUE, upserted |-> FALSE]
IntegrationTable == [column |-> TRUE, sealed |-> TRUE, opened |-> FALSE, upserted |-> TRUE]
AttendanceTable  == [column |-> TRUE, sealed |-> TRUE, opened |-> TRUE, upserted |-> TRUE]
LineItemTable    == [column |-> FALSE, sealed |-> FALSE, opened |-> FALSE, upserted |-> FALSE]
TenantTable      == [column |-> FALSE, sealed |-> TRUE, opened |-> TRUE, upserted |-> FALSE]

\* tenantScopedModels.
ScopedTables == {EmployeeTable, AttendanceTable, IntegrationTable, LineItemTable}
DataModel    == ScopedTables \cup {TenantTable}

Op == {"create", "createMany", "findMany", "findUnique", "updateMany", "deleteMany",
       "update", "delete", "upsert"}

\* Of all others the condition is a unique key.
ManyOp == {"createMany", "findMany", "updateMany", "deleteMany"}

\* A query: in which context, what, about which rows, and with which tenant in its data.
Query == [context : Tenant \cup {Outside}, op : Op, targets : SUBSET Row,
          claimed : Tenant \cup {Outside}]

ASSUME TenantAssumption == Outside \notin Tenant /\ Unborn \notin Tenant

\* Rows that are created have some tenant.
ASSUME QueryAssumption ==
    \A q \in Queries :
        /\ q \in Query
        /\ q.op \in {"create", "createMany", "upsert"} => q.claimed \in Tenant
        /\ q.op \notin ManyOp => \E r \in Row : q.targets = {r}

NoQuery  == [context |-> Outside, op |-> "findMany", targets |-> {}, claimed |-> Outside]
NoAnswer == [context |-> Outside, hit |-> {}, seen |-> {}]

IsolationTypeOK ==
    /\ dataModel \in DataModel
    /\ tenantOf \in [Row -> Tenant \cup {Unborn}]
    /\ exists \subseteq {r \in Row : tenantOf[r] # Unborn}
    /\ text \in [Row -> Text]
    /\ found \in [Handler -> Query \cup {NoQuery}]
    /\ reply \in [context : Tenant \cup {Outside}, hit : SUBSET Row,
                   seen : SUBSET Text]

IsolationInit ==
    /\ dataModel \in DataModel
    /\ tenantOf = [r \in Row |-> Unborn] /\ exists = {}
    /\ text = [r \in Row |-> "none"]
    /\ found = [h \in Handler |-> NoQuery] /\ reply = NoAnswer

\* Is the query kept within a tenant?
Scoped(context) == dataModel \in ScopedTables /\ context # Outside

\* The database refuses a condition on a column that the table has not.
Accepted(q) == Scoped(q.context) => dataModel.column

\* The rows that the query is about.
Matches(q) == q.targets \cap exists

\* Those that it finds with the tenant in its condition.
Filtered(q) ==
    IF Scoped(q.context) THEN {r \in Matches(q) : tenantOf[r] = q.context} ELSE Matches(q)

\* The tenant of a row that is created: the caller's choice gives way to the context.
Stamp(q) == IF Scoped(q.context) THEN q.context ELSE q.claimed

\* How written fields are stored.  An upsert has no "data", which is what is encrypted.
Stored(q) == IF dataModel.sealed /\ q.op # "upsert" THEN "sealed" ELSE "plain"

\* How fields are read.
Read(r) == IF dataModel.opened THEN "plain" ELSE text[r]

Written(q, hit) == text' = [r \in Row |-> IF r \in hit THEN Stored(q) ELSE text[r]]
Replied(q, hit, seen) == reply' = [context |-> q.context, hit |-> hit, seen |-> seen]

-----------------------------------------------------------------------------
\* create and createMany.
CreateRows(q) ==
    /\ q.op \in {"create", "createMany"} /\ Accepted(q)
    /\ \A r \in q.targets : tenantOf[r] = Unborn
    /\ tenantOf' = [r \in Row |-> IF r \in q.targets THEN Stamp(q) ELSE tenantOf[r]]
    /\ exists' = exists \cup q.targets
    /\ Written(q, q.targets)
    /\ Replied(q, q.targets, {})
    /\ UNCHANGED <<dataModel, found, calm>>

\* findMany, findFirst, count, aggregate and groupBy; findUnique becomes a findFirst.
Find(q) ==
    /\ q.op \in {"findMany", "findUnique"} /\ Accepted(q)
    /\ Replied(q, Filtered(q), {Read(r) : r \in Filtered(q)})
    /\ UNCHANGED <<dataModel, tenantOf, exists, text, found, calm>>

\* updateMany and deleteMany.
WriteMany(q) ==
    /\ q.op \in {"updateMany", "deleteMany"} /\ Accepted(q)
    /\ exists' = IF q.op = "deleteMany" THEN exists \ Filtered(q) ELSE exists
    /\ Written(q, Filtered(q))
    /\ Replied(q, Filtered(q), {})
    /\ UNCHANGED <<dataModel, tenantOf, found, calm>>

\* Mutant: any row with that key will do.
PreflightAnyRow(h, q) ==
    /\ found[h] = NoQuery /\ q.op \in {"update", "delete"} /\ Accepted(q)
    /\ Matches(q) # {}
    /\ found' = [found EXCEPT ![h] = q]
    /\ reply' = NoAnswer
    /\ UNCHANGED <<dataModel, tenantOf, exists, text, calm>>

\* update and delete first look for the row, among those of the tenant.
Preflight(h, q) ==
    /\ found[h] = NoQuery /\ q.op \in {"update", "delete"} /\ Accepted(q)
    /\ Filtered(q) # {}
    /\ found' = [found EXCEPT ![h] = q]
    /\ reply' = NoAnswer
    /\ UNCHANGED <<dataModel, tenantOf, exists, text, calm>>

\* Then the query is made as it was asked.
WriteOne(h) ==
    LET q == found[h]
    IN  /\ q # NoQuery
        /\ found' = [found EXCEPT ![h] = NoQuery]
        /\ exists' = IF q.op = "delete" THEN exists \ Matches(q) ELSE exists
        /\ Written(q, Matches(q))
        /\ Replied(q, Matches(q), {})
        /\ UNCHANGED <<dataModel, tenantOf, calm>>

\* upsert: the client leaves it as it is.  Its callers name the tenant of their context in
\* the key and in the row to create.
Upsert(q) ==
    LET hit == {r \in q.targets : tenantOf[r] = Unborn \/ (tenantOf[r] = q.claimed /\ r \in exists)}
    IN  /\ q.op = "upsert" /\ dataModel.upserted
        /\ q.context \in {Outside, q.claimed}
        /\ tenantOf' = [r \in Row |-> IF r \in hit THEN q.claimed ELSE tenantOf[r]]
        /\ exists' = exists \cup hit
        /\ Written(q, hit)
        /\ Replied(q, hit, {})
        /\ UNCHANGED <<dataModel, found, calm>>

IsolationNext ==
    \/ \E q \in Queries : CreateRows(q) \/ Find(q) \/ WriteMany(q) \/ Upsert(q)
    \/ \E h \in Handler, q \in Queries : Preflight(h, q)
    \/ \E h \in Handler : WriteOne(h)

IsolationSpec == CalmInit /\ IsolationInit /\ [][IsolationNext]_<<isolationVars, calm>>

-----------------------------------------------------------------------------
\* Whatever a tenant's query returned, changed, created or deleted in a scoped table are
\* rows of that tenant, whichever rows its condition named, whatever tenant its data, and
\* whatever happened between the look for a row and the write.
RowsStayApart == Scoped(reply.context) => \A r \in reply.hit : tenantOf[r] = reply.context

\* Encrypted fields of tables that no code upserts are never stored as they are, and whoever
\* reads them gets them as they were.
FieldsSealed ==
    dataModel.sealed /\ ~dataModel.upserted =>
        (\A r \in Row : text[r] # "plain") /\ "sealed" \notin reply.seen

IsolationSound == RowsStayApart /\ FieldsSealed

=============================================================================

---------------------------- MODULE AccessProofs ----------------------------
(*************************************************************************)
(* What holds of whoever asks: that a tenant's rows stay the tenant's,   *)
(* that a request counts once, and that whoever has signed in stays so,  *)
(* in the browser, at the phone and with a PIN; and that the guard goes  *)
(* by what a tenant was a while ago at most; for any number of tenants,  *)
(* rows, requests, pairs of tokens and employees.                        *)
(*************************************************************************)
EXTENDS TenantIsolation, IdempotentRequests, AuthSessions, PhoneSessions, EmployeePins,
        LifecycleGuard, FiniteSetTheorems, TLAPS

(*************************************************************************)
(* Tenants.  What an update or delete goes on with was found among the   *)
(* rows of its tenant, and no row changes its tenant meanwhile.          *)
(*************************************************************************)

\* What an update or delete goes on with was found among the rows of its tenant, and no
\* row changes its tenant meanwhile.
FoundInv ==
    \A h \in Handler : found[h] # NoQuery =>
        /\ found[h].op \in {"update", "delete"}
        /\ Scoped(found[h].context) =>
              \A r \in found[h].targets : tenantOf[r] = found[h].context

\* Types, what has been found, and what is promised.
IsolationInv == IsolationTypeOK /\ FoundInv /\ IsolationSound

\* Fields of an encrypted table that is not upserted are always encrypted.
LEMMA SealedWrite ==
    ASSUME NEW q \in Query, dataModel.sealed, q.op # "upsert" PROVE Stored(q) = "sealed"
  BY DEF Stored

\* A field is stored plain or sealed.
LEMMA StoredType == \A q \in Query : Stored(q) \in {"plain", "sealed"}
  BY DEF Stored

\* With the tenant in its condition a query finds rows of the tenant only.
LEMMA FilterScopes ==
    ASSUME NEW q \in Query, Scoped(q.context)
    PROVE  \A r \in Filtered(q) : tenantOf[r] = q.context
  BY DEF Filtered

\* What is found is among what was asked for and exists.
LEMMA FilterType ==
    ASSUME IsolationTypeOK, NEW q \in Query
    PROVE  /\ Filtered(q) \subseteq Matches(q)
           /\ Matches(q) \subseteq exists /\ Matches(q) \subseteq q.targets
           /\ Matches(q) \subseteq Row
  BY DEF Filtered, Matches, IsolationTypeOK

\* The tables are as listed.
LEMMA ListedRows ==
    ASSUME IsolationTypeOK
    PROVE  /\ dataModel.sealed /\ ~dataModel.upserted => dataModel.opened
           /\ dataModel.sealed \in BOOLEAN /\ dataModel.opened \in BOOLEAN
           /\ dataModel.upserted \in BOOLEAN /\ dataModel.column \in BOOLEAN
  <1>1. dataModel \in {EmployeeTable, AttendanceTable, IntegrationTable, LineItemTable,
                    TenantTable}
    BY DEF IsolationTypeOK, DataModel, ScopedTables
  <1>2. CASE dataModel = EmployeeTable
    BY <1>2 DEF EmployeeTable
  <1>3. CASE dataModel = IntegrationTable
    BY <1>3 DEF IntegrationTable
  <1>6. CASE dataModel = AttendanceTable
    BY <1>6 DEF AttendanceTable
  <1>4. CASE dataModel = LineItemTable
    BY <1>4 DEF LineItemTable
  <1>5. CASE dataModel = TenantTable
    BY <1>5 DEF TenantTable
  <1> QED BY <1>1, <1>2, <1>3, <1>4, <1>5, <1>6

\* What was found stays so, as long as rows keep their tenants.
LEMMA FoundStays ==
    ASSUME IsolationTypeOK, FoundInv, found' = found, dataModel' = dataModel,
           \A r \in Row : tenantOf[r] # Unborn => tenantOf'[r] = tenantOf[r]
    PROVE  FoundInv'
  <1> USE QueryAssumption, TenantAssumption
  <1>1. SUFFICES ASSUME NEW h \in Handler, found[h] # NoQuery
                 PROVE  /\ found[h].op \in {"update", "delete"}
                        /\ (dataModel \in ScopedTables /\ found[h].context # Outside) =>
                             \A r \in found[h].targets : tenantOf'[r] = found[h].context
    BY DEF FoundInv, Scoped
  <1>2. found[h] \in Query /\ found[h].op \in {"update", "delete"}
    BY <1>1 DEF FoundInv, IsolationTypeOK
  <1>3. ASSUME dataModel \in ScopedTables, found[h].context # Outside,
               NEW r \in found[h].targets
        PROVE  tenantOf'[r] = found[h].context
    <2>1. tenantOf[r] = found[h].context
      BY <1>1, <1>3 DEF FoundInv, Scoped
    <2>2. r \in Row /\ tenantOf[r] # Unborn
      BY <1>2, <1>3, <2>1 DEF Query
    <2> QED BY <2>1, <2>2
  <1> QED BY <1>2, <1>3

LEMMA IsolationInitially == IsolationInit => IsolationInv
  <1> SUFFICES ASSUME IsolationInit PROVE IsolationInv OBVIOUS
  <1>1. IsolationTypeOK
    BY DEF IsolationInit, IsolationTypeOK, NoAnswer, NoQuery, Text
  <1>2. FoundInv
    BY DEF IsolationInit, FoundInv
  <1>3. IsolationSound
    BY DEF IsolationInit, IsolationSound, RowsStayApart, FieldsSealed, NoAnswer, Scoped
  <1> QED BY <1>1, <1>2, <1>3 DEF IsolationInv

-----------------------------------------------------------------------------
\* Rows are created in the tenant of the context.
LEMMA CreateKeeps ==
    ASSUME IsolationInv, NEW q \in Queries, CreateRows(q) PROVE IsolationInv'
  <1> USE QueryAssumption, TenantAssumption
  <1>0. q \in Query /\ q.claimed \in Tenant
    BY DEF CreateRows
  <1>1. Stamp(q) \in Tenant /\ Stored(q) \in {"plain", "sealed"}
    BY <1>0, StoredType DEF Stamp, Query, Scoped
  <1>2. IsolationTypeOK'
    <2>1. tenantOf' \in [Row -> Tenant \cup {Unborn}]
      BY <1>1 DEF CreateRows, IsolationInv, IsolationTypeOK
    <2>2. exists' \subseteq {r \in Row : tenantOf'[r] # Unborn}
      BY <1>0, <1>1 DEF CreateRows, IsolationInv, IsolationTypeOK, Query
    <2>3. text' \in [Row -> Text]
      BY <1>1 DEF CreateRows, Written, Text, IsolationInv, IsolationTypeOK
    <2>4. reply' \in [context : Tenant \cup {Outside}, hit : SUBSET Row,
                       seen : SUBSET Text]
      BY <1>0 DEF CreateRows, Replied, Query
    <2> QED BY <2>1, <2>2, <2>3, <2>4 DEF CreateRows, IsolationInv, IsolationTypeOK
  <1>3. FoundInv'
    <2>1. found' = found /\ dataModel' = dataModel
      BY DEF CreateRows
    <2>2. \A r \in Row : tenantOf[r] # Unborn => tenantOf'[r] = tenantOf[r]
      BY DEF CreateRows, IsolationInv, IsolationTypeOK
    <2> QED BY <2>1, <2>2, FoundStays DEF IsolationInv
  <1>4. RowsStayApart'
    BY <1>0 DEF CreateRows, Replied, RowsStayApart, Scoped, Stamp, IsolationInv,
       IsolationTypeOK, Query
  <1>5. FieldsSealed'
    BY <1>0, SealedWrite DEF CreateRows, Replied, Written, FieldsSealed, IsolationInv,
       IsolationSound, IsolationTypeOK
  <1> QED BY <1>2, <1>3, <1>4, <1>5 DEF IsolationInv, IsolationSound

\* Reading changes nothing but the reply.
LEMMA FindKeeps ==
    ASSUME IsolationInv, NEW q \in Queries, Find(q) PROVE IsolationInv'
  <1> USE QueryAssumption, TenantAssumption
  <1>0. q \in Query /\ IsolationTypeOK
    BY DEF IsolationInv
  <1>1. Filtered(q) \in SUBSET Row
    BY <1>0, FilterType
  <1>2. \A r \in Filtered(q) : Read(r) \in Text
    BY <1>0, <1>1 DEF Read, IsolationTypeOK, Text
  <1>3. reply' \in [context : Tenant \cup {Outside}, hit : SUBSET Row, seen : SUBSET Text]
    BY <1>0, <1>1, <1>2 DEF Find, Replied, Query
  <1>4. IsolationTypeOK'
    BY <1>0, <1>3 DEF Find, IsolationTypeOK
  <1>5. FoundInv'
    BY <1>0, FoundStays DEF Find, IsolationInv
  <1>6. RowsStayApart'
    BY <1>0, FilterScopes DEF Find, Replied, RowsStayApart, Scoped
  <1>7. FieldsSealed'
    <2>1. dataModel.sealed /\ ~dataModel.upserted => \A r \in Row : Read(r) = "plain"
      BY <1>0, ListedRows DEF Read
    <2> QED BY <1>1, <2>1 DEF Find, Replied, IsolationInv, IsolationSound, FieldsSealed
  <1> QED BY <1>4, <1>5, <1>6, <1>7 DEF IsolationInv, IsolationSound

\* Rows are written by a query that is not an upsert: they keep their tenants, and fields
\* are encrypted as the table asks.
LEMMA WrittenKeeps ==
    ASSUME IsolationInv, NEW q \in Query, NEW hit \in SUBSET Row,
           q.op # "upsert", Scoped(q.context) => \A r \in hit : tenantOf[r] = q.context,
           exists' \subseteq exists, dataModel' = dataModel, tenantOf' = tenantOf,
           Written(q, hit), Replied(q, hit, {})
    PROVE  /\ found' \in [Handler -> Query \cup {NoQuery}] => IsolationTypeOK'
           /\ IsolationSound'
  <1>1. Stored(q) \in Text
    BY StoredType DEF Text
  <1>2. text' \in [Row -> Text]
    BY <1>1 DEF Written, IsolationInv, IsolationTypeOK
  <1>3. reply' \in [context : Tenant \cup {Outside}, hit : SUBSET Row, seen : SUBSET Text]
    BY DEF Replied, Query
  <1>4. ASSUME found' \in [Handler -> Query \cup {NoQuery}] PROVE IsolationTypeOK'
    BY <1>2, <1>3, <1>4 DEF IsolationInv, IsolationTypeOK
  <1>5. RowsStayApart'
    BY DEF Replied, RowsStayApart, Scoped
  <1>6. FieldsSealed'
    BY SealedWrite DEF Written, Replied, IsolationInv, IsolationSound, FieldsSealed
  <1> QED BY <1>4, <1>5, <1>6 DEF IsolationSound

\* Rows are written by condition.
LEMMA WriteManyKeeps ==
    ASSUME IsolationInv, NEW q \in Queries, WriteMany(q) PROVE IsolationInv'
  <1> USE QueryAssumption
  <1>1. q \in Query /\ IsolationTypeOK /\ q.op # "upsert"
    BY DEF IsolationInv, WriteMany
  <1>2. Filtered(q) \in SUBSET Row
    BY <1>1, FilterType
  <1>3. Scoped(q.context) => \A r \in Filtered(q) : tenantOf[r] = q.context
    BY <1>1, FilterScopes
  <1>4. exists' \subseteq exists
    BY DEF WriteMany
  <1>5. IsolationTypeOK' /\ IsolationSound'
    BY <1>1, <1>2, <1>3, <1>4, WrittenKeeps DEF WriteMany, IsolationTypeOK
  <1>6. FoundInv'
    BY <1>1, FoundStays DEF WriteMany, IsolationInv
  <1> QED BY <1>5, <1>6 DEF IsolationInv

\* A unique key names one row, so one that is found in the tenant is all that is written.
LEMMA PreflightKeeps ==
    ASSUME IsolationInv, NEW h \in Handler, NEW q \in Queries, Preflight(h, q) PROVE IsolationInv'
  <1> USE QueryAssumption, TenantAssumption
  <1>1. q \in Query /\ IsolationTypeOK /\ q.op \in {"update", "delete"}
    BY DEF IsolationInv, Preflight
  <1>2. PICK r \in Row : q.targets = {r}
    BY <1>1 DEF ManyOp
  <1>3. Filtered(q) = {r}
    BY <1>1, <1>2, FilterType DEF Preflight
  <1>4. Scoped(q.context) => \A s \in q.targets : tenantOf[s] = q.context
    BY <1>1, <1>2, <1>3, FilterScopes
  <1>5. IsolationTypeOK'
    BY <1>1 DEF Preflight, NoAnswer, IsolationTypeOK
  <1>6. FoundInv'
    <2>1. SUFFICES ASSUME NEW g \in Handler, found'[g] # NoQuery
                   PROVE  /\ found'[g].op \in {"update", "delete"}
                          /\ (dataModel \in ScopedTables /\ found'[g].context # Outside) =>
                               \A s \in found'[g].targets : tenantOf[s] = found'[g].context
      BY DEF FoundInv, Scoped, Preflight
    <2>2. CASE g = h
      BY <1>1, <1>4, <2>2 DEF Preflight, Scoped, IsolationTypeOK
    <2>3. CASE g # h
      BY <1>1, <2>1, <2>3 DEF Preflight, Scoped, IsolationTypeOK, IsolationInv, FoundInv
    <2> QED BY <2>2, <2>3
  <1>7. IsolationSound'
    BY DEF Preflight, NoAnswer, IsolationInv, IsolationSound, RowsStayApart, FieldsSealed, Scoped
  <1> QED BY <1>5, <1>6, <1>7 DEF IsolationInv

\* A row that was found is written.
LEMMA WriteOneKeeps ==
    ASSUME IsolationInv, NEW h \in Handler, WriteOne(h) PROVE IsolationInv'
  <1> DEFINE q == found[h]
  <1>1. IsolationTypeOK /\ q \in Query /\ q.op \in {"update", "delete"}
    BY DEF IsolationInv, FoundInv, IsolationTypeOK, WriteOne
  <1>2. Matches(q) \in SUBSET Row /\ Matches(q) \subseteq q.targets
    BY <1>1, FilterType
  <1>3. Scoped(q.context) => \A r \in Matches(q) : tenantOf[r] = q.context
    BY <1>2 DEF IsolationInv, FoundInv, WriteOne
  <1>4. found' \in [Handler -> Query \cup {NoQuery}]
    BY <1>1 DEF WriteOne, IsolationTypeOK
  <1>5. exists' \subseteq exists
    BY DEF WriteOne
  <1>6. IsolationTypeOK' /\ IsolationSound'
    BY <1>1, <1>2, <1>3, <1>4, <1>5, WrittenKeeps DEF WriteOne
  <1>7. FoundInv'
    <2>1. \A g \in Handler : found'[g] # NoQuery => found'[g] = found[g]
      BY <1>1 DEF WriteOne, IsolationTypeOK
    <2> QED BY <2>1 DEF WriteOne, IsolationInv, FoundInv, Scoped
  <1> QED BY <1>6, <1>7 DEF IsolationInv

\* An upsert writes rows that it creates, or that have the tenant of its context.
LEMMA UpsertKeeps ==
    ASSUME IsolationInv, NEW q \in Queries, Upsert(q) PROVE IsolationInv'
  <1> USE QueryAssumption, TenantAssumption
  <1> DEFINE hit == {r \in q.targets : tenantOf[r] = Unborn
                                       \/ (tenantOf[r] = q.claimed /\ r \in exists)}
  <1>1. IsolationTypeOK /\ q \in Query /\ q.claimed \in Tenant /\ Stored(q) \in Text
    BY StoredType DEF IsolationInv, Upsert, Text
  <1>2. hit \in SUBSET Row
    BY <1>1 DEF Query
  <1>3. \A r \in Row : tenantOf[r] # Unborn => tenantOf'[r] = tenantOf[r]
    BY <1>1, <1>2 DEF Upsert, IsolationTypeOK
  <1>4. \A r \in hit : tenantOf'[r] = q.claimed
    BY <1>2 DEF Upsert
  <1>5. IsolationTypeOK'
    <2>1. tenantOf' \in [Row -> Tenant \cup {Unborn}]
      BY <1>1 DEF Upsert, IsolationTypeOK
    <2>2. exists' \subseteq {r \in Row : tenantOf'[r] # Unborn}
      BY <1>1, <1>2, <1>3, <1>4 DEF Upsert, IsolationTypeOK
    <2>3. text' \in [Row -> Text]
      BY <1>1 DEF Upsert, Written, IsolationTypeOK
    <2>4. reply' \in [context : Tenant \cup {Outside}, hit : SUBSET Row, seen : SUBSET Text]
      BY <1>1, <1>2 DEF Upsert, Replied, Query
    <2> QED BY <1>1, <2>1, <2>2, <2>3, <2>4 DEF Upsert, IsolationTypeOK
  <1>6. FoundInv'
    BY <1>1, <1>3, FoundStays DEF Upsert, IsolationInv
  <1>7. RowsStayApart'
    BY <1>4 DEF Upsert, Replied, RowsStayApart, Scoped
  <1>8. FieldsSealed'
    BY DEF Upsert, FieldsSealed
  <1> QED BY <1>5, <1>6, <1>7, <1>8 DEF IsolationInv, IsolationSound

\* Nothing changes.
LEMMA StutterKeeps ==
    ASSUME IsolationInv, UNCHANGED <<isolationVars, calm>> PROVE IsolationInv'
  BY DEF IsolationInv, isolationVars, IsolationTypeOK, FoundInv, Scoped, IsolationSound,
         RowsStayApart, FieldsSealed

\* No query changes what kind of history it is.
LEMMA IsolationCalm == IsolationNext => calm' = calm
  BY DEF IsolationNext, CreateRows, Find, WriteMany, Upsert, Preflight, WriteOne

\* IsolationInv is inductive.
LEMMA IsolationStep == IsolationInv /\ [IsolationNext]_<<isolationVars, calm>> => IsolationInv'
  <1> SUFFICES ASSUME IsolationInv, [IsolationNext]_<<isolationVars, calm>> PROVE IsolationInv'
    OBVIOUS
  <1>1. CASE \E q \in Queries : CreateRows(q) \/ Find(q) \/ WriteMany(q) \/ Upsert(q)
    BY <1>1, CreateKeeps, FindKeeps, WriteManyKeeps, UpsertKeeps
  <1>2. CASE \E h \in Handler, q \in Queries : Preflight(h, q)
    BY <1>2, PreflightKeeps
  <1>3. CASE \E h \in Handler : WriteOne(h)
    BY <1>3, WriteOneKeeps
  <1>4. CASE UNCHANGED <<isolationVars, calm>>
    BY <1>4, StutterKeeps
  <1> QED BY <1>1, <1>2, <1>3, <1>4 DEF IsolationNext

-----------------------------------------------------------------------------
\* Whatever queries are made, in which contexts and in what order: what is found for an
\* update or delete stays in its tenant, and so does all that is read and written.
THEOREM IsolationInvariance == IsolationSpec => []IsolationInv
  BY IsolationInitially, IsolationStep, PTL DEF IsolationSpec

\* The tables, the queries under way and the replies have their types.
THEOREM IsolationTypeCorrect == IsolationSpec => []IsolationTypeOK
  BY IsolationInvariance, PTL DEF IsolationInv

\* The database client (prisma.service.ts): a tenant's queries of scoped tables touch rows
\* of that tenant only, and what the tables should encrypt is stored encrypted and read back.
THEOREM TenantsStayApart == IsolationSpec => []IsolationSound
  BY IsolationInvariance, PTL DEF IsolationInv

-----------------------------------------------------------------------------
(*************************************************************************)
(* The idempotency key.  Whoever has been let through to the handler     *)
(* holds the key, and once the handler has succeeded the key keeps the   *)
(* answer: this is KeyInv.  With Redis the lock sees to the first; in    *)
(* the fallback nothing does, and it is only the order of the requests   *)
(* that does.                                                            *)
(*************************************************************************)

\* The requests between the lock and the answer.
Inside == {h \in Handler : idemAt[h] \in {"run", "write", "delete"}}

\* What the next request for the key is told by.
Answers == IF reachable THEN entry ELSE memo

KeyInv ==
    steady /\ prompt /\ (reachable \/ calm) =>
        /\ calm => \A g, h \in Handler : idemAt[g] # "idle" /\ idemAt[h] # "idle" => g = h
        /\ \A g, h \in Inside : g = h
        /\ reachable /\ Inside # {} => entry = "LOCKED"
        /\ \A h \in Handler :
            (idemAt[h] \in {"run", "delete"} \/ (idemAt[h] = "acquire" /\ ~reachable)) => done = 0
        /\ done # 0 => (Answers = "answer" \/ \E h \in Handler : idemAt[h] = "write")
        /\ done <= 1

\* Types and the key.
IdemInv == IdemTypeOK /\ KeyInv

\* The types hold at the start.
LEMMA IdemTypeInit == IdemInit => IdemTypeOK
  BY IdempotencyAssumption DEF IdemInit, IdemTypeOK, Kept, Free

\* The advisory lock is counted for as long as a connection has it.
LEMMA IdemTypeStep == IdemTypeOK /\ IdemNext => IdemTypeOK'
<1> SUFFICES ASSUME IdemTypeOK, IdemNext PROVE IdemTypeOK'
  OBVIOUS
<1> DEFINE Locks == [by : Connection \cup {"none"}, count : 0 .. MaxLocks]
           Counted(a) == a \in Locks /\ (a.count = 0 <=> a.by = "none")
<1> USE IdempotencyAssumption DEF Kept, history, IdemGo
<1>0. Counted(advisory) /\ Counted(Free)
  BY DEF IdemTypeOK, Free
<1> USE DEF IdemTypeOK
<1>1. ASSUME NEW h \in Handler, IdemRequest(h) \/ ReadCache(h) \/ HandlerFails(h)
      PROVE  IdemTypeOK'
  BY <1>1 DEF IdemRequest, ReadCache, HandlerFails
<1>2. ASSUME NEW h \in Handler, AcquireLock(h) PROVE IdemTypeOK'
  <2>1. ASSUME NEW c \in Connection, TryAdvisory(c)
        PROVE  Counted([by |-> c, count |-> advisory.count + 1])
    <3>1. advisory.count \in 0 .. MaxLocks /\ advisory.count < MaxLocks
      BY <1>0, <2>1 DEF TryAdvisory
    <3> QED
      BY <3>1
  <2>2. Counted(advisory')
    BY <1>0, <1>2, <2>1 DEF AcquireLock
  <2> QED
    BY <1>2, <2>2 DEF AcquireLock, LocalLock
<1>3. ASSUME NEW h \in Handler, HandlerSucceeds(h) \/ WriteCache(h) PROVE IdemTypeOK'
  BY <1>3 DEF HandlerSucceeds, WriteCache
<1>4. ASSUME NEW h \in Handler, DeleteCache(h) PROVE IdemTypeOK'
  <2>1. ASSUME advisory.by # "none", advisory.count # 1
        PROVE  Counted([advisory EXCEPT !.count = @ - 1])
    <3>1. advisory.count \in 0 .. MaxLocks /\ advisory.count # 0
      BY <1>0, <2>1
    <3>2. advisory.count - 1 \in 0 .. MaxLocks /\ advisory.count - 1 # 0
      BY <2>1, <3>1
    <3>3. advisory \in Locks
      BY <1>0
    <3> QED
      BY <2>1, <3>2, <3>3
  <2>2. Counted(advisory')
    BY <1>0, <1>4, <2>1 DEF DeleteCache
  <2> QED
    BY <1>4, <2>2 DEF DeleteCache
<1>5. CASE LockExpires
  <2>1. advisory' = advisory /\ idemAt' = idemAt /\ done' = done
        /\ reachable' = reachable /\ steady' = steady /\ prompt' = prompt
    BY <1>5 DEF LockExpires
  <2>2. entry' \in Kept /\ memo' \in Kept
    BY <1>5 DEF LockExpires
  <2> QED
    BY <1>0, <2>1, <2>2
<1>7. CASE AnswerExpires
  BY <1>0, <1>7 DEF AnswerExpires
<1>8. CASE RedisLost
  BY <1>0, <1>8 DEF RedisLost
<1>6. CASE ProcessStops
  <2>1. Counted(advisory')
    BY <1>0, <1>6 DEF ProcessStops
  <2>2. reachable' \in BOOLEAN
    BY <1>6 DEF ProcessStops
  <2> QED
    BY <1>6, <2>1, <2>2 DEF ProcessStops
<1> QED
  BY <1>1, <1>2, <1>3, <1>4, <1>5, <1>6, <1>7, <1>8 DEF IdemNext

\* So does what the key says.
LEMMA KeyInit == CalmInit /\ IdemInit => KeyInv
  BY DEF CalmInit, IdemInit, KeyInv, Inside, Answers

\* The hypotheses of DoneOnce are about the history, but for one that Redis, once lost,
\* does not come back within it.
LEMMA SameHistory ==
    ASSUME IdemTypeOK, IdemNext, steady', prompt'
    PROVE  steady /\ prompt /\ reachable' = reachable /\ calm' = calm
<1>1. steady' = steady /\ prompt' = prompt /\ calm' = calm
  BY ZenonT(60) DEF IdemNext, IdemRequest, ReadCache, AcquireLock, HandlerSucceeds, WriteCache,
     HandlerFails, DeleteCache, LockExpires, AnswerExpires, RedisLost, ProcessStops, history
<1>2. steady /\ prompt
  BY <1>1
<1>3. ~ProcessStops /\ ~RedisLost
  BY <1>2 DEF ProcessStops, RedisLost
<1>4. reachable' = reachable
  BY <1>3, ZenonT(60) DEF IdemNext, IdemRequest, ReadCache, AcquireLock, HandlerSucceeds,
     WriteCache,
     HandlerFails, DeleteCache, LockExpires, AnswerExpires
<1> QED
  BY <1>1, <1>2, <1>4

\* Every step keeps what the key says.
LEMMA KeyStep == IdemTypeOK /\ KeyInv /\ IdemNext => KeyInv'
<1> SUFFICES ASSUME IdemTypeOK, KeyInv, IdemNext, steady', prompt', (reachable \/ calm)'
             PROVE  KeyInv'
  BY DEF KeyInv
<1>1. steady /\ prompt /\ (reachable \/ calm) /\ reachable' = reachable /\ calm' = calm
  BY SameHistory
<1>2. ASSUME NEW redis \in ByRedis PROVE redis <=> reachable
  <2>1. CASE reachable
    <3>1. ByRedis = {TRUE}
      BY <1>1, <2>1 DEF ByRedis
    <3> QED
      BY <2>1, <3>1
  <2>2. CASE ~reachable
    <3>1. ByRedis = {FALSE}
      BY <2>2 DEF ByRedis
    <3> QED
      BY <2>2, <3>1
  <2> QED
    BY <2>1, <2>2
<1>4. /\ calm => \A g, h \in Handler : idemAt[g] # "idle" /\ idemAt[h] # "idle" => g = h
      /\ \A g, h \in Inside : g = h
      /\ reachable /\ Inside # {} => entry = "LOCKED"
      /\ \A h \in Handler :
          (idemAt[h] \in {"run", "delete"} \/ (idemAt[h] = "acquire" /\ ~reachable)) => done = 0
      /\ done # 0 => (Answers = "answer" \/ \E h \in Handler : idemAt[h] = "write")
      /\ done <= 1
  BY <1>1 DEF KeyInv
<1> DEFINE At == [Handler -> {"idle", "read", "acquire", "run", "write", "delete"}]
<1>5. idemAt \in At /\ done \in 0 .. 2
  BY DEF IdemTypeOK
<1>6. ASSUME NEW h \in Handler, IdemRequest(h) PROVE KeyInv'
  BY <1>1, <1>4, <1>5, <1>6 DEF IdemRequest, IdemGo, MayTake, KeyInv, Inside, Answers
<1>7. ASSUME NEW h \in Handler, ReadCache(h) PROVE KeyInv'
  <2>1. /\ idemAt[h] = "read"
        /\ idemAt' = [idemAt EXCEPT ![h] = IF Answers = "none" THEN "acquire" ELSE "idle"]
        /\ entry' = entry /\ memo' = memo /\ done' = done
    <3>1. PICK redis \in ByRedis :
              IdemGo(h, IF (IF redis THEN entry ELSE memo) = "none" THEN "acquire" ELSE "idle")
      BY <1>7 DEF ReadCache
    <3>2. (IF redis THEN entry ELSE memo) = Answers
      BY <1>2 DEF Answers
    <3> QED
      BY <1>7, <3>1, <3>2 DEF ReadCache, IdemGo
  <2> QED
    BY <1>1, <1>4, <1>5, <2>1 DEF KeyInv, Inside, Answers
<1>8. ASSUME NEW h \in Handler, AcquireLock(h), reachable PROVE KeyInv'
  <2>1. /\ idemAt[h] = "acquire"
        /\ IF entry = "none" THEN entry' = "LOCKED" /\ IdemGo(h, "run")
           ELSE entry' = entry /\ IdemGo(h, "idle")
        /\ memo' = memo /\ done' = done
    BY <1>2, <1>8, Zenon DEF AcquireLock
  <2>2. entry = "none" => Inside = {} /\ done = 0
    BY <1>4, <1>8 DEF Inside, Answers
  <2> QED
    BY <1>1, <1>4, <1>5, <1>8, <2>1, <2>2 DEF KeyInv, Inside, Answers, IdemGo
<1>9. ASSUME NEW h \in Handler, AcquireLock(h), ~reachable PROVE KeyInv'
  <2>1. /\ idemAt[h] = "acquire" /\ done' = done /\ entry' = entry
        /\ (IdemGo(h, "run") \/ IdemGo(h, "idle"))
    BY <1>2, <1>9 DEF AcquireLock, LocalLock
  <2>2. done = 0 /\ \A g \in Handler : g # h => idemAt[g] = "idle"
    BY <1>1, <1>4, <1>9, <2>1
  <2> QED
    BY <1>1, <1>5, <1>9, <2>1, <2>2 DEF KeyInv, Inside, Answers, IdemGo
<1>10. ASSUME NEW h \in Handler, HandlerSucceeds(h) PROVE KeyInv'
  <2>1. /\ idemAt[h] = "run" /\ done = 0 /\ done' = 1
        /\ idemAt' = [idemAt EXCEPT ![h] = "write"]
        /\ entry' = entry /\ memo' = memo
    BY <1>4, <1>10 DEF HandlerSucceeds, IdemGo
  <2>2. \A g \in Inside : g = h
    BY <1>4, <2>1 DEF Inside
  <2>3. ~reachable => \A g \in Handler : g # h => idemAt[g] = "idle"
    BY <1>1, <1>4, <2>1
  <2>4. Inside' = {h} /\ h \in Inside /\ idemAt'[h] = "write"
    BY <1>5, <2>1, <2>2 DEF Inside
  <2> QED
    BY <1>1, <1>4, <1>5, <2>1, <2>2, <2>3, <2>4 DEF KeyInv, Inside, Answers
<1>11. ASSUME NEW h \in Handler, WriteCache(h) PROVE KeyInv'
  <2>1. /\ idemAt[h] = "write" /\ done' = done
        /\ idemAt' = [idemAt EXCEPT ![h] = "idle"]
        /\ IF reachable THEN entry' = "answer" ELSE memo' = "answer"
    BY <1>2, <1>11, Zenon DEF WriteCache, IdemGo
  <2>2. Inside' = {}
    BY <1>4, <1>5, <2>1 DEF Inside
  <2> QED
    BY <1>1, <1>4, <1>5, <2>1, <2>2 DEF KeyInv, Inside, Answers
<1>12. ASSUME NEW h \in Handler, HandlerFails(h) PROVE KeyInv'
  BY <1>1, <1>4, <1>5, <1>12 DEF HandlerFails, IdemGo, KeyInv, Inside, Answers
<1>13. ASSUME NEW h \in Handler, DeleteCache(h) PROVE KeyInv'
  <2>1. /\ idemAt[h] = "delete" /\ done' = done
        /\ idemAt' = [idemAt EXCEPT ![h] = "idle"]
    BY <1>13 DEF DeleteCache, IdemGo
  <2>2. Inside' = {} /\ done = 0
    BY <1>4, <1>5, <2>1 DEF Inside
  <2> QED
    BY <1>1, <1>4, <1>5, <2>1, <2>2 DEF KeyInv, Inside, Answers
<1>14. CASE LockExpires
  <2>1. /\ Inside = {} /\ idemAt' = idemAt /\ done' = done
        /\ entry = "answer" => entry' = entry
        /\ memo = "answer" => memo' = memo
    BY <1>1, <1>14 DEF LockExpires, Inside
  <2>2. Inside' = {}
    BY <2>1 DEF Inside
  <2> QED
    BY <1>1, <1>4, <2>1, <2>2 DEF KeyInv, Inside, Answers
<1>15. CASE AnswerExpires
  BY <1>1, <1>15 DEF AnswerExpires, KeyInv, Inside, Answers
<1>16. ~ProcessStops /\ ~RedisLost
  BY <1>1 DEF ProcessStops, RedisLost
<1> QED
  BY <1>6, <1>7, <1>8, <1>9, <1>10, <1>11, <1>12, <1>13, <1>14, <1>15, <1>16 DEF IdemNext

\* So IdemInv holds before the first request.
LEMMA IdemInvInitially == CalmInit /\ IdemInit => IdemInv
  BY IdemTypeInit, KeyInit DEF IdemInv

\* No request, fault or timer changes what kind of history it is.
LEMMA IdemCalm == IdemNext => calm' = calm
  BY DEF IdemNext, IdemRequest, ReadCache, AcquireLock, HandlerSucceeds, WriteCache, HandlerFails,
     DeleteCache, LockExpires, AnswerExpires, RedisLost, ProcessStops, history

\* IdemInv is inductive.
LEMMA IdemInvKept == IdemInv /\ [IdemNext]_<<idemVars, calm>> => IdemInv'
<1> SUFFICES ASSUME IdemInv, [IdemNext]_<<idemVars, calm>> PROVE IdemInv'
  OBVIOUS
<1>1. CASE IdemNext
  BY <1>1, IdemTypeStep, KeyStep DEF IdemInv
<1>2. CASE UNCHANGED <<idemVars, calm>>
  <2>1. IdemTypeOK'
    BY <1>2 DEF IdemInv, IdemTypeOK, idemVars
  <2>2. KeyInv'
    BY <1>2 DEF IdemInv, KeyInv, Inside, Answers, idemVars
  <2> QED
    BY <2>1, <2>2 DEF IdemInv
<1> QED
  BY <1>1, <1>2

\* The invariant holds in every state, whatever fails, expires or stops.
THEOREM KeyInvariance == IdemSpec => []IdemInv
  BY IdemInvInitially, IdemInvKept, PTL DEF IdemSpec

\* The interceptor's state has its type; the advisory lock is held by some connection for
\* as long as it is counted.
THEOREM IdemTypesHold == IdemSpec => []IdemTypeOK
<1>1. IdemInv => IdemTypeOK
  BY DEF IdemInv
<1> QED
  BY <1>1, KeyInvariance, PTL

\* IdempotencyInterceptor: unless a handler outlasts its lock, the requests of one key
\* succeed once within a day.
THEOREM SucceedsOnce == IdemSpec => []DoneOnce
<1>1. IdemInv => DoneOnce
  BY DEF IdemInv, KeyInv, DoneOnce
<1> QED
  BY <1>1, KeyInvariance, PTL

-----------------------------------------------------------------------------
(*************************************************************************)
(* Sessions in the browser.  Tokens know seconds, the blocklist and the  *)
(* end of all sessions know ticks: IssuedBefore, that time has passed    *)
(* since a pair was issued when the next request is under way, is what   *)
(* keeps a new pair out of an end that came before it.                   *)
(*************************************************************************)

\* When a pair was issued, in ticks, as far as the pair knows it.
IssuedAt(p) == Second * tokens[p].iat

\* Requests whose answer may still take a tick.
Takes == {h \in Handler : sessionAt[h] \in {"authorise", "blocklist", "valid", "block", "issue"}}

\* The clock passes its horizon only by the answers under way.
ClockBounded == clock + Cardinality(Takes) <= LastTick + 1 + Cardinality(Handler)

\* A request that works on a pair has one.
HasPair ==
    \A h \in Handler :
        /\ sessionAt[h] \in {"valid", "block", "invalidate", "revoke"}
            => sessionOf[h].pair \in Pair
        /\ sessionAt[h] = "issue" /\ sessionFor[h] # "signIn" => sessionOf[h].pair \in Pair

\* One request at a time.
OneRequestAtATime == \A g, h \in Handler : sessionAt[g] # "idle" /\ sessionAt[h] # "idle" => g = h
\* Time has passed since a pair was issued when the next request is under way.
IssuedBefore ==
    \A p \in Pair : /\ IssuedAt(p) <= clock
                    /\ (\E h \in Handler : sessionAt[h] # "idle") => IssuedAt(p) < clock
\* Pairs of an epoch that is over were issued before the sessions were ended; while a password
\* is being reset they are about to be.
EndedOnes ==
    (\A h \in Handler : sessionAt[h] # "reset") =>
        \A p \in Pair : tokens[p].since < epoch => IssuedAt(p) < invalidated

\* One pair of those that were renewed one from another is not blocked.
OneUnblocked ==
    \A p, q \in Pair : tokens[p].from = tokens[q].from /\ p \notin blocked /\ q \notin blocked
        => p = q
\* What a request has found out stays so.
Underway(h) ==
    LET p == sessionOf[h].pair
    IN  /\ sessionFor[h] = "signIn" => sessionAt[h] = "issue"
        /\ sessionAt[h] = "valid" => Alive(p, RefreshTTL)
        /\ sessionAt[h] \in {"valid", "block"} => p \notin blocked
        /\ sessionAt[h] = "block" => tokens[p].since = epoch
        /\ sessionAt[h] = "issue" /\ sessionFor[h] = "signIn" => sessionOf[h].since = epoch
        /\ sessionAt[h] = "issue" /\ sessionFor[h] # "signIn" =>
              /\ tokens[p].since = epoch
              /\ \A q \in Pair : tokens[q].from = tokens[p].from => q \in blocked

\* Without overlap.
SessionCalmInv ==
    calm => /\ OneRequestAtATime /\ IssuedBefore /\ EndedOnes /\ OneUnblocked
            /\ \A h \in Handler : Underway(h)

\* Types, the clock, and what is so without overlap.
SessionInv == SessionTypeOK /\ ClockBounded /\ HasPair /\ SessionCalmInv

\* A tick is not before the second it is in.
LEMMA Rounding ==
  ASSUME NEW a \in Nat, NEW b \in Nat \ {0}
  PROVE  a \div b \in Nat /\ b * (a \div b) \in Nat /\ b * (a \div b) <= a
  OBVIOUS

\* Seconds and ticks.
LEMMA Distributes ==
  ASSUME NEW a \in Nat, NEW b \in Nat, NEW c \in Nat
  PROVE  b * (a + c) = b * a + b * c /\ b * a \in Nat /\ b * c \in Nat
  OBVIOUS

\* The parts of a pair.
LEMMA PairTyped ==
  ASSUME SessionTypeOK
  PROVE  /\ Len(tokens) \in Nat /\ Pair \subseteq Nat \ {0} /\ clock \in Nat
         /\ invalidated \in Nat /\ epoch \in Nat
         /\ \A p \in Pair : /\ tokens[p] \in [iat : Nat, since : Nat, from : Nat]
                            /\ tokens[p].iat \in Nat /\ tokens[p].since \in Nat
                            /\ tokens[p].from \in Nat /\ IssuedAt(p) \in Nat
<1>1. tokens \in Seq([iat : Nat, since : Nat, from : Nat])
  BY DEF SessionTypeOK
<1>2. Len(tokens) \in Nat
         /\ \A p \in 1 .. Len(tokens) : tokens[p] \in [iat : Nat, since : Nat, from : Nat]
  <2> DEFINE Token == [iat : Nat, since : Nat, from : Nat]
  <2>1. tokens \in Seq(Token)
    BY <1>1
  <2> HIDE DEF Token
  <2>2. Len(tokens) \in Nat /\ \A p \in 1 .. Len(tokens) : tokens[p] \in Token
    BY <2>1
  <2> QED
    BY <2>2 DEF Token
<1>3. Cardinality(Handler) \in Nat
  BY HandlerAssumption, FS_CardinalityType
<1>4. clock \in Nat /\ invalidated \in Nat /\ epoch \in Nat
  BY <1>3, SessionAssumption DEF SessionTypeOK
<1> QED
  BY <1>2, <1>4, SessionAssumption DEF Pair, IssuedAt

\* A living pair that was issued before the end of all sessions has ended.
LEMMA AliveEnded ==
  ASSUME SessionTypeOK, NEW p \in Pair, IssuedAt(p) < invalidated, Alive(p, AccessTTL)
         \/ Alive(p, RefreshTTL)
  PROVE  Ended(p)
<1>1. tokens[p].iat \in Nat /\ clock \in Nat /\ invalidated \in Nat /\ Second \in Nat
  BY SessionAssumption, PairTyped
<1>2. /\ Second * (tokens[p].iat + 1) = Second * tokens[p].iat + Second * 1
      /\ Second * (tokens[p].iat + 2) = Second * tokens[p].iat + Second * 2
      /\ Second * tokens[p].iat \in Nat /\ Second * 1 \in Nat /\ Second * 2 \in Nat
  BY <1>1, Distributes
<1>3. Second * 1 <= Second * 2
  BY <1>1
<1> QED
  BY <1>1, <1>2, <1>3 DEF Ended, Alive, IssuedAt, AccessTTL, RefreshTTL

\* SessionInv implies what the run checks.
LEMMA SessionsImplied == SessionInv => SessionsSound
<1> SUFFICES ASSUME SessionInv, calm, \A h \in Handler : sessionAt[h] = "idle"
             PROVE  EndedForGood /\ OneRenewal
  BY DEF SessionsSound
<1>1. EndedOnes /\ OneUnblocked /\ SessionTypeOK
  BY DEF SessionInv, SessionCalmInv
<1>2. ASSUME NEW p \in Pair, Admits(p) \/ Renews(p) PROVE tokens[p].since = epoch
  <2>1. ~Ended(p) /\ (Alive(p, AccessTTL) \/ Alive(p, RefreshTTL))
    BY <1>2 DEF Admits, Renews
  <2>2. ~(IssuedAt(p) < invalidated)
    BY <1>1, <2>1, AliveEnded
  <2>3. tokens[p].since \in Nat /\ epoch \in Nat /\ tokens[p].since <= epoch
    BY <1>1, PairTyped DEF SessionTypeOK
  <2> QED
    BY <1>1, <2>2, <2>3 DEF EndedOnes
<1> QED
  BY <1>1, <1>2 DEF EndedForGood, OneRenewal, OneUnblocked, Renews

\* No request changes what kind of history it is.
LEMMA SessionCalm == SessionNext => calm' = calm
  BY DEF SessionNext, SignIn, Me, Logout, SessionTake, Authorise, RefreshListed, RefreshValid,
     Passes,
     RefreshBlocks, IssueTokens, LogoutInvalidates, LogoutRevokes, ResetPassword, ResetWrites,
     ResetInvalidates, SessionBreaks, SessionTick

\* SessionInv holds before anybody signs in.
LEMMA SessionInitially == SessionInit => SessionInv
<1> SUFFICES ASSUME SessionInit PROVE SessionInv
  OBVIOUS
<1>1. Cardinality(Handler) \in Nat
  BY HandlerAssumption, FS_CardinalityType
<1>2. Pair = {} /\ tokens = <<>>
  BY DEF SessionInit, Pair
<1>3. Takes = {}
  BY DEF SessionInit, Takes
<1>4. SessionTypeOK
  BY <1>1, <1>2, SessionAssumption DEF SessionInit, SessionTypeOK, NoPair
<1>5. ClockBounded
  BY <1>1, <1>3, FS_EmptySet, SessionAssumption DEF SessionInit, ClockBounded
<1> QED
  BY <1>2, <1>4, <1>5 DEF SessionInit, SessionInv, HasPair, SessionCalmInv, OneRequestAtATime,
     IssuedBefore,
     EndedOnes, OneUnblocked, Underway

\* A request that takes a tick is one less to take one.
LEMMA ClockStep == SessionInv /\ SessionNext => ClockBounded'
<1> SUFFICES ASSUME SessionInv, SessionNext PROVE ClockBounded'
  OBVIOUS
<1>t. clock \in Nat /\ LastTick \in Nat /\ sessionAt \in [Handler ->
         {"idle", "authorise", "retry", "blocklist", "valid", "block",
          "issue", "invalidate", "revoke", "password", "reset"}]
  BY SessionAssumption, PairTyped DEF SessionInv, SessionTypeOK
<1>h. IsFiniteSet(Handler) /\ Cardinality(Handler) \in Nat
  BY HandlerAssumption, FS_CardinalityType
<1>f. /\ IsFiniteSet(Takes) /\ Cardinality(Takes) \in Nat
      /\ clock + Cardinality(Takes) <= LastTick + 1 + Cardinality(Handler)
  BY <1>h, FS_Subset, FS_CardinalityType DEF Takes, SessionInv, ClockBounded
<1>1. ASSUME clock' = clock, Takes' \subseteq Takes PROVE ClockBounded'
  <2>1. Cardinality(Takes') \in Nat /\ Cardinality(Takes') <= Cardinality(Takes)
    BY <1>1, <1>f, FS_Subset, FS_CardinalityType
  <2> QED
    BY <1>1, <2>1, <1>f, <1>h, <1>t DEF ClockBounded
<1>2. ASSUME clock <= LastTick, clock' = clock + 1 PROVE ClockBounded'
  <2>1. Takes' \subseteq Handler
    BY DEF Takes
  <2>2. Cardinality(Takes') \in Nat /\ Cardinality(Takes') <= Cardinality(Handler)
    BY <1>h, <2>1, FS_Subset, FS_CardinalityType
  <2> QED
    BY <1>2, <2>2, <1>h, <1>t DEF ClockBounded
<1>3. ASSUME NEW h \in Handler, h \in Takes, clock' \in {clock, clock + 1},
             Takes' \subseteq Takes \ {h}
      PROVE  ClockBounded'
  <2>1. /\ IsFiniteSet(Takes \ {h}) /\ Cardinality(Takes \ {h}) = Cardinality(Takes) - 1
    BY <1>3, <1>f, FS_RemoveElement
  <2>2. Cardinality(Takes') \in Nat /\ Cardinality(Takes') <= Cardinality(Takes) - 1
    BY <1>3, <1>f, <2>1, FS_Subset, FS_CardinalityType
  <2> QED
    BY <1>3, <1>f, <2>2, <1>h, <1>t DEF ClockBounded
<1>4. ASSUME NEW h \in Handler, SignIn(h) \/ Me(h) \/ Logout(h) \/ ResetPassword(h)
      PROVE  ClockBounded'
  BY <1>2, <1>4 DEF SignIn, Me, Logout, ResetPassword, SessionTake
<1>5. ASSUME NEW h \in Handler, IssueTokens(h) PROVE ClockBounded'
  <2>1. h \in Takes /\ clock' \in {clock, clock + 1} /\ sessionAt'[h] \in {"idle", "retry"}
        /\ \A g \in Handler \ {h} : sessionAt'[g] = sessionAt[g]
    BY <1>5, <1>t DEF IssueTokens, Takes, SessionEnds, SessionGo
  <2>2. Takes' \subseteq Takes \ {h}
    BY <2>1 DEF Takes
  <2> QED
    BY <1>3, <2>1, <2>2
<1>6. ASSUME NEW h \in Handler,
             \/ Authorise(h) \/ RefreshListed(h) \/ RefreshValid(h) \/ RefreshBlocks(h)
             \/ LogoutInvalidates(h) \/ LogoutRevokes(h) \/ ResetWrites(h) \/ ResetInvalidates(h)
             \/ SessionBreaks(h)
      PROVE  ClockBounded'
  <2>1. clock' = clock
    BY <1>6 DEF Authorise, RefreshListed, RefreshValid, Passes, RefreshBlocks, LogoutInvalidates,
       LogoutRevokes, ResetWrites, ResetInvalidates, SessionBreaks
  <2>2. /\ \A g \in Handler \ {h} : sessionAt'[g] = sessionAt[g]
        /\ sessionAt'[h] \in {"authorise", "blocklist", "valid", "block", "issue"} => h \in Takes
    BY <1>6, <1>t DEF Takes, Authorise, RefreshListed, RefreshValid, Passes, RefreshBlocks,
       LogoutInvalidates, LogoutRevokes, ResetWrites, ResetInvalidates, SessionBreaks,
       SessionEnds, SessionGo
  <2>3. Takes' \subseteq Takes
    BY <2>2 DEF Takes
  <2> QED
    BY <1>1, <2>1, <2>3
<1>7. CASE SessionTick
  BY <1>2, <1>7 DEF SessionTick
<1> QED
  BY <1>4, <1>5, <1>6, <1>7 DEF SessionNext

\* Every step keeps the types.
LEMMA SessionTypeStep == SessionInv /\ SessionNext => SessionTypeOK' /\ HasPair'
<1> SUFFICES ASSUME SessionInv, SessionNext PROVE SessionTypeOK' /\ HasPair'
  OBVIOUS
<1>t. SessionTypeOK /\ HasPair
  BY DEF SessionInv
<1>c. clock' \in 1 .. LastTick + 1 + Cardinality(Handler) /\ clock' >= clock
  <2>0. clock \in Nat /\ clock >= 1
    BY <1>t, PairTyped DEF SessionTypeOK
  <2>1. clock' \in {clock, clock + 1}
    BY DEF SessionNext, SignIn, Me, Logout, SessionTake, Authorise,
       RefreshListed, RefreshValid, Passes, RefreshBlocks, IssueTokens, LogoutInvalidates,
       LogoutRevokes, ResetPassword, ResetWrites, ResetInvalidates, SessionBreaks, SessionTick
  <2>2. Takes' \subseteq Handler
    BY DEF Takes
  <2>3. Cardinality(Takes') \in Nat /\ Cardinality(Handler) \in Nat
    BY <2>2, HandlerAssumption, FS_Subset, FS_CardinalityType
  <2> QED
    BY <2>0, <2>1, <2>3, ClockStep, SessionAssumption DEF ClockBounded
<1>p. /\ Len(tokens) \in Nat /\ Pair \subseteq Nat \ {0} /\ clock \in Nat /\ invalidated \in Nat
      /\ epoch \in Nat /\ 0 \notin Pair
  BY <1>t, PairTyped
<1> DEFINE At == {"idle", "authorise", "retry", "blocklist", "valid", "block",
                  "issue", "invalidate", "revoke", "password", "reset"}
           For == {"none", "signIn", "me", "logout", "reset"}
           Of  == [pair : Pair \cup {0}, since : 0 .. epoch]
<1>o. NoPair \in Of /\ \A p \in Pair \cup {0} : [pair |-> p, since |-> epoch] \in Of
  BY <1>p DEF NoPair
<1>u. \A r \in Of : /\ r.pair \in Pair \cup {0} /\ r.since \in 0 .. epoch
                    /\ \A p \in Pair \cup {0} : [r EXCEPT !.pair = p] \in Of
                        /\ [r EXCEPT !.pair = p].pair = p
                    
  OBVIOUS
<1>s. /\ sessionAt \in [Handler -> At] /\ sessionFor \in [Handler -> For]
      /\ sessionOf \in [Handler -> Of]
      /\ cookie \in [Handler -> Pair \cup {0}] /\ shown \in [Handler -> {"in", "out"}]
  BY <1>t DEF SessionTypeOK
\* What a step keeps that issues nothing.
<1>1. ASSUME tokens' = tokens, blocked' \subseteq Pair, invalidated' \in {invalidated, clock},
             epoch' \in {epoch, epoch + 1}, shared' = shared,
             cookie' \in [Handler -> Pair \cup {0}],
             shared => \A g, h \in Handler : cookie'[g] = cookie'[h],
             shown' \in [Handler -> {"in", "out"}], sessionAt' \in [Handler -> At],
             sessionFor' \in [Handler -> For], sessionOf' \in [Handler -> Of],
             HasPair'
      PROVE  SessionTypeOK' /\ HasPair'
  <2>1. Pair' = Pair
    BY <1>1 DEF Pair
  <2>2. Of \subseteq [pair : Pair \cup {0}, since : 0 .. epoch']
    BY <1>1, <1>p
  <2>3. invalidated' \in 0 .. clock'
    BY <1>1, <1>c, <1>p, <1>t DEF SessionTypeOK
  <2>4. \A p \in Pair : tokens[p].since <= epoch'
    BY <1>1, <1>p, <1>t, PairTyped DEF SessionTypeOK
  <2> HIDE DEF Of
  <2>5. sessionOf' \in [Handler -> [pair : Pair \cup {0}, since : 0 .. epoch']]
    BY <1>1, <2>2
  <2> QED
    BY <1>1, <1>c, <1>t, <1>p, <2>1, <2>3, <2>4, <2>5 DEF SessionTypeOK
<1> HIDE DEF Of
<1>2. ASSUME NEW h \in Handler, NEW step \in At \ {"valid", "block", "invalidate", "revoke"},
             NEW for \in For,
             step = "issue" => for = "signIn",
             SessionTake(h, step, for)
      PROVE  SessionTypeOK' /\ HasPair'
  <2>1. /\ sessionAt' = [sessionAt EXCEPT ![h] = step]
        /\ sessionFor' = [sessionFor EXCEPT ![h] = for]
        /\ sessionOf' = [sessionOf EXCEPT ![h] = [pair |-> cookie[h], since |-> epoch]]
        /\ UNCHANGED <<tokens, blocked, invalidated, epoch, shared, cookie, shown>>
    BY <1>2 DEF SessionTake, SessionGo, server, tabs
  <2>2. [pair |-> cookie[h], since |-> epoch] \in Of
    BY <1>s, <1>o
  <2>3. HasPair'
    BY <1>2, <1>s, <1>t, <2>1 DEF HasPair, Pair
  <2> QED
    BY <1>1, <1>s, <1>t, <2>1, <2>2, <2>3 DEF SessionTypeOK
\* A request ends, or goes on.
<1>3. ASSUME NEW h \in Handler, SessionEnds(h), UNCHANGED tokens PROVE
        /\ sessionAt' \in [Handler -> At] /\ sessionFor' \in [Handler -> For]
        /\ sessionOf' \in [Handler -> Of]
        /\ HasPair'
  BY <1>3, <1>s, <1>o, <1>t DEF SessionEnds, SessionGo, HasPair, Pair
<1>4. ASSUME NEW h \in Handler, NEW at \in At, SessionGo(h, at), UNCHANGED <<tokens, sessionFor>>,
             \/ sessionOf' = sessionOf
             \/ cookie[h] \in Pair \cup {0}
                 /\ sessionOf' = [sessionOf EXCEPT ![h].pair = cookie[h]],
             at \in {"valid", "block", "invalidate", "revoke"} => sessionOf'[h].pair \in Pair,
             at = "issue" => sessionOf'[h].pair \in Pair
      PROVE  /\ sessionAt' \in [Handler -> At] /\ sessionFor' \in [Handler -> For]
             /\ sessionOf' \in [Handler -> Of]
             /\ HasPair'
  <2>1. sessionAt' = [sessionAt EXCEPT ![h] = at]
    BY <1>4 DEF SessionGo
  <2>2. sessionOf' \in [Handler -> Of] /\ \A g \in Handler \ {h} : sessionOf'[g] = sessionOf[g]
    BY <1>4, <1>s, <1>u
  <2> QED
    BY <1>4, <2>1, <2>2, <1>s, <1>t DEF HasPair, Pair
<1>5. ASSUME NEW h \in Handler, Authorise(h) PROVE SessionTypeOK' /\ HasPair'
  <2>1. cookie[h] \in Pair \cup {0} /\ (Admits(cookie[h]) => cookie[h] \in Pair)
    BY <1>s DEF Admits
  <2>2. shown' \in [Handler -> {"in", "out"}] /\ UNCHANGED <<tokens, blocked, invalidated, epoch,
                                                             shared, cookie>>
    BY <1>5, <1>s DEF Authorise, server
  <2>3. \/ SessionEnds(h)
        \/ /\ SessionGo(h, "invalidate") /\ cookie[h] \in Pair
           /\ sessionOf' = [sessionOf EXCEPT ![h].pair = cookie[h]] /\ UNCHANGED sessionFor
        \/ /\ SessionGo(h, "blocklist")
           /\ sessionOf' = [sessionOf EXCEPT ![h].pair = cookie[h]] /\ UNCHANGED sessionFor
    BY <1>5, <2>1 DEF Authorise
  <2>4. sessionOf' = [sessionOf EXCEPT ![h].pair = cookie[h]] => sessionOf'[h].pair = cookie[h]
    BY <1>s, <1>u, <2>1
  <2>5. /\ sessionAt' \in [Handler -> At] /\ sessionFor' \in [Handler -> For]
        /\ sessionOf' \in [Handler -> Of]
        /\ HasPair'
    BY <1>3, <1>4, <2>1, <2>2, <2>3, <2>4
  <2> QED
    BY <1>1, <1>t, <1>s, <2>2, <2>5 DEF SessionTypeOK
<1>6. ASSUME NEW h \in Handler, RefreshListed(h) \/ RefreshValid(h)
      PROVE  SessionTypeOK' /\ HasPair'
  <2>1. shown' \in [Handler -> {"in", "out"}] /\ UNCHANGED <<tokens, blocked, invalidated, epoch,
                                                             shared, cookie>>
    BY <1>6, <1>s DEF RefreshListed, RefreshValid, Passes, server
  <2>2. \/ SessionEnds(h)
        \/ /\ SessionGo(h, "valid") /\ sessionOf[h].pair # 0 /\ UNCHANGED <<sessionFor,
                                                                            sessionOf>>
        \/ /\ SessionGo(h, "block") /\ sessionAt[h] = "valid" /\ UNCHANGED <<sessionFor,
                                                                             sessionOf>>
    BY <1>6 DEF RefreshListed, RefreshValid, Passes
  <2>3. sessionAt[h] = "valid" \/ sessionOf[h].pair # 0 => sessionOf[h].pair \in Pair
    BY <1>s, <1>u, <1>t DEF HasPair
  <2>5. /\ sessionAt' \in [Handler -> At] /\ sessionFor' \in [Handler -> For]
        /\ sessionOf' \in [Handler -> Of]
        /\ HasPair'
    BY <1>3, <1>4, <2>1, <2>2, <2>3
  <2> QED
    BY <1>1, <1>t, <1>s, <2>1, <2>5 DEF SessionTypeOK
<1>7. ASSUME NEW h \in Handler, RefreshBlocks(h) \/ LogoutInvalidates(h) \/ ResetWrites(h)
      PROVE SessionTypeOK' /\ HasPair'
  <2>1. /\ blocked' \subseteq Pair /\ UNCHANGED <<tokens, shared, cookie, shown, sessionFor,
                                                  sessionOf>>
        /\ invalidated' \in {invalidated, clock} /\ epoch' \in {epoch, epoch + 1}
        /\ \/ SessionGo(h, "issue") /\ sessionAt[h] = "block"
           \/ SessionGo(h, "revoke") /\ sessionAt[h] = "invalidate"
           \/ SessionGo(h, "reset")
    BY <1>7, <1>t DEF RefreshBlocks, LogoutInvalidates, ResetWrites, tabs, HasPair, SessionTypeOK
  <2>5. /\ sessionAt' \in [Handler -> At] /\ sessionFor' \in [Handler -> For]
        /\ sessionOf' \in [Handler -> Of]
        /\ HasPair'
    BY <1>4, <1>t, <2>1 DEF HasPair
  <2> QED
    BY <1>1, <1>t, <1>s, <2>1, <2>5 DEF SessionTypeOK
<1>8. ASSUME NEW h \in Handler, LogoutRevokes(h) \/ ResetInvalidates(h) \/ SessionBreaks(h)
      PROVE SessionTypeOK' /\ HasPair'
  <2>1. /\ blocked' \subseteq Pair /\ UNCHANGED <<tokens, shared, epoch>> /\ SessionEnds(h)
        /\ invalidated' \in {invalidated, clock}
    BY <1>8, <1>t DEF LogoutRevokes, ResetInvalidates, SessionBreaks, server, tabs, HasPair,
       SessionTypeOK
  <2>2. shown' \in [Handler -> {"in", "out"}]
    BY <1>8, <1>s DEF LogoutRevokes, ResetInvalidates, SessionBreaks, tabs
  <2>3. cookie' \in [Handler -> Pair \cup {0}] /\ (shared => \A g,
      i \in Handler : cookie'[g] = cookie'[i])
    BY <1>8, <1>s, <1>t DEF LogoutRevokes, ResetInvalidates, SessionBreaks, tabs, StoreCookie,
       SessionTypeOK
  <2> QED
    BY <1>1, <1>3, <2>1, <2>2, <2>3
<1>9. CASE SessionTick
  <2>1. UNCHANGED <<tokens, blocked, invalidated, epoch, shared, cookie, shown, sessionAt,
  sessionFor, sessionOf>>
    BY <1>9 DEF SessionTick, server, tabs
  <2>2. HasPair'
    BY <1>t, <2>1 DEF HasPair, Pair
  <2> QED
    BY <1>1, <1>s, <1>t, <2>1, <2>2 DEF SessionTypeOK
<1>10. ASSUME NEW h \in Handler, IssueTokens(h) PROVE SessionTypeOK' /\ HasPair'
  <2> DEFINE Token == [iat : Nat, since : Nat, from : Nat]
  <2>1. PICK t : /\ tokens' = Append(tokens, t) /\ Len(tokens) < MaxTokens
                 /\ t \in Token /\ t.since <= epoch /\ t.from \in 1 .. Len(tokens) + 1
    <3>1. clock \div Second \in Nat
      BY <1>p, Rounding, SessionAssumption
    <3>2. sessionFor[h] = "signIn" => sessionOf[h].since \in 0 .. epoch
      BY <1>s, <1>u
    <3>3. ASSUME sessionFor[h] # "signIn" PROVE
            /\ tokens[sessionOf[h].pair].since \in Nat /\ tokens[sessionOf[h].pair].since <= epoch
            /\ tokens[sessionOf[h].pair].from \in 1 .. Len(tokens) + 1
      <4>1. sessionOf[h].pair \in Pair
        BY <1>t, <1>10, <3>3 DEF HasPair, IssueTokens
      <4>2. sessionOf[h].pair \in 1 .. Len(tokens)
        BY <4>1 DEF Pair
      <4> QED
        <5>1. PICK p \in Pair : p = sessionOf[h].pair
          BY <4>1
        <5>2. tokens[p].since <= epoch /\ tokens[p].from \in 1 .. p
          BY <1>t DEF SessionTypeOK
        <5>3. tokens[p].since \in Nat /\ tokens[p].from \in Nat
          BY <1>t, PairTyped
        <5>4. p \in 1 .. Len(tokens)
          BY DEF Pair
        <5> QED
          BY <1>p, <5>1, <5>2, <5>3, <5>4
    <3> QED
      BY <1>10, <1>p, <3>1, <3>2, <3>3 DEF IssueTokens
  <2>2. /\ blocked' = blocked /\ invalidated' = invalidated /\ epoch' = epoch /\ shared' = shared
        /\ shown' = shown
        /\ StoreCookie(h, Len(tokens) + 1)
    BY <1>10 DEF IssueTokens
  <2>3. /\ SessionEnds(h) \/ (SessionGo(h, "retry") /\ UNCHANGED <<sessionFor, sessionOf>>)
    BY <1>10 DEF IssueTokens
  <2> HIDE DEF Token
  <2>4. tokens \in Seq(Token)
    BY <1>t DEF SessionTypeOK, Token
  <2>5. /\ tokens' \in Seq(Token) /\ Len(tokens') = Len(tokens) + 1
        /\ tokens'[Len(tokens) + 1] = t /\ \A p \in 1 .. Len(tokens) : tokens'[p] = tokens[p]
    BY <2>1, <2>4
  <2>6. Pair' = Pair \cup {Len(tokens) + 1}
    BY <2>5, <1>p DEF Pair
  <2>7. \A p \in Pair' : tokens'[p].since <= epoch' /\ tokens'[p].from \in 1 .. p
    BY <1>t, <2>1, <2>2, <2>5, <2>6 DEF SessionTypeOK, Pair
  <2>8. cookie' \in [Handler -> Pair' \cup {0}] /\ (shared => \A g,
      i \in Handler : cookie'[g] = cookie'[i])
    BY <1>s, <1>t, <2>2, <2>6 DEF StoreCookie, SessionTypeOK
  <2>9. /\ sessionAt' \in [Handler -> At] /\ sessionFor' \in [Handler -> For]
        /\ sessionOf' \in [Handler -> Of]
        /\ HasPair'
    <3>1. /\ sessionAt' \in [Handler -> At] /\ sessionFor' \in [Handler -> For]
          /\ sessionOf' \in [Handler -> Of]
      BY <2>3, <1>s, <1>o DEF SessionEnds, SessionGo
    <3>2. \A g \in Handler : /\ sessionAt'[g] \in {"valid", "block", "invalidate", "revoke", "issue"} =>
                                  sessionAt'[g] = sessionAt[g] /\ sessionFor'[g] = sessionFor[g]
                                  /\ sessionOf'[g] = sessionOf[g]
      BY <2>3, <1>s DEF SessionEnds, SessionGo
    <3> QED
      BY <1>t, <2>6, <3>1, <3>2 DEF HasPair
  <2>10. sessionOf' \in [Handler -> [pair : Pair' \cup {0}, since : 0 .. epoch']]
    <3>1. Of \subseteq [pair : Pair' \cup {0}, since : 0 .. epoch']
      BY <2>2, <2>6 DEF Of
    <3> QED
      BY <2>9, <3>1
  <2>11. invalidated' \in 0 .. clock' /\ epoch' \in Nat /\ Len(tokens') <= MaxTokens
    BY <1>c, <1>p, <1>t, <2>1, <2>2, <2>5, SessionAssumption DEF SessionTypeOK
  <2> QED
    BY <1>c, <1>t, <2>2, <2>5, <2>6, <2>7, <2>8, <2>9, <2>10, <2>11 DEF SessionTypeOK, Token
<1>11. ASSUME NEW h \in Handler, SignIn(h) \/ Me(h) \/ Logout(h) \/ ResetPassword(h)
       PROVE SessionTypeOK' /\ HasPair'
  BY <1>2, <1>11 DEF SignIn, Me, Logout, ResetPassword
<1> QED
  BY <1>5, <1>6, <1>7, <1>8, <1>9, <1>10, <1>11 DEF SessionNext

\* Time passes for every pair at once.
LEMMA IssuedLater ==
  ASSUME Pair' = Pair, clock' \in Nat,
         \A p \in Pair : IssuedAt(p)' = IssuedAt(p) /\ IssuedAt(p) \in Nat /\ IssuedAt(p) < clock'
  PROVE  IssuedBefore'
<1>1. \A p \in Pair' : IssuedAt(p)' <= clock' /\ IssuedAt(p)' < clock'
  OBVIOUS
<1> QED
  BY <1>1 DEF IssuedBefore

\* Without overlap every step keeps the rest of SessionInv.
LEMMA SessionCalmStep == SessionInv /\ calm /\ SessionNext => SessionCalmInv'
<1> SUFFICES ASSUME SessionInv, calm, SessionNext
             PROVE OneRequestAtATime' /\ IssuedBefore' /\ EndedOnes' /\ OneUnblocked'
                 /\ \A h \in Handler : Underway(h)'
  BY DEF SessionCalmInv
<1>t. SessionTypeOK /\ HasPair
  BY DEF SessionInv
<1>c. OneRequestAtATime /\ IssuedBefore /\ EndedOnes /\ OneUnblocked
         /\ \A h \in Handler : Underway(h)
  BY DEF SessionInv, SessionCalmInv
<1>p. /\ Len(tokens) \in Nat /\ Pair \subseteq Nat \ {0} /\ clock \in Nat /\ invalidated \in Nat
      /\ epoch \in Nat /\ 0 \notin Pair
      /\ \A p \in Pair : IssuedAt(p) \in Nat /\ tokens[p].since \in Nat
          /\ tokens[p].since <= epoch
                         /\ tokens[p].from \in 1 .. p
  BY <1>t, PairTyped DEF SessionTypeOK
<1>d. DOMAIN sessionAt = Handler /\ DOMAIN sessionFor = Handler /\ DOMAIN sessionOf = Handler
  BY <1>t DEF SessionTypeOK
<1>v. invalidated <= clock
  BY <1>t DEF SessionTypeOK
\* Only one request is concerned.
<1>1. ASSUME NEW h \in Handler,
             \A g \in Handler \ {h} : sessionAt'[g] = "idle" /\ sessionFor'[g] = sessionFor[g]
                 /\ sessionAt[g] = "idle",
             IssuedBefore', EndedOnes', OneUnblocked', Underway(h)'
      PROVE  OneRequestAtATime' /\ IssuedBefore' /\ EndedOnes' /\ OneUnblocked'
          /\ \A g \in Handler : Underway(g)'
  <2>1. OneRequestAtATime'
    BY <1>1 DEF OneRequestAtATime
  <2>2. ASSUME NEW g \in Handler \ {h} PROVE Underway(g)'
    BY <1>c, <1>1 DEF Underway
  <2> QED
    BY <1>1, <2>1, <2>2
<1>2. ASSUME NEW h \in Handler, NEW step, NEW for,
             \/ step = "issue" /\ for = "signIn"
             \/ step \in {"authorise", "password"} /\ for # "signIn",
             SessionTake(h, step, for)
      PROVE  OneRequestAtATime' /\ IssuedBefore' /\ EndedOnes' /\ OneUnblocked'
          /\ \A g \in Handler : Underway(g)'
  <2>1. /\ sessionAt' = [sessionAt EXCEPT ![h] = step]
        /\ sessionFor' = [sessionFor EXCEPT ![h] = for]
        /\ sessionOf' = [sessionOf EXCEPT ![h] = [pair |-> cookie[h], since |-> epoch]]
        /\ UNCHANGED <<tokens, blocked, invalidated, epoch>>
        /\ clock' = clock + 1 /\ \A g \in Handler : sessionAt[g] = "idle"
    BY <1>2 DEF SessionTake, SessionGo, server, tabs, MayTake
  <2>2. \A g \in Handler \ {h} : sessionAt'[g] = "idle" /\ sessionFor'[g] = sessionFor[g]
      /\ sessionAt[g] = "idle"
    BY <1>d, <2>1
  <2>3. Pair' = Pair /\ \A p : IssuedAt(p)' = IssuedAt(p)
    BY <2>1 DEF Pair, IssuedAt
  <2>4. IssuedBefore'
    <3>1. \A p \in Pair : IssuedAt(p) < clock'
      BY <1>c, <1>p, <2>1 DEF IssuedBefore
    <3> QED
      BY <1>p, <2>1, <2>3, <3>1, IssuedLater
  <2>5. EndedOnes' /\ OneUnblocked'
    BY <1>c, <2>1, <2>3 DEF EndedOnes, OneUnblocked
  <2>6. Underway(h)'
    BY <1>2, <1>d, <2>1 DEF Underway
  <2> QED
    BY <1>1, <2>2, <2>4, <2>5, <2>6
<1>3. ASSUME NEW h \in Handler, SessionGo(h, "idle") \/ \E at : SessionGo(h, at),
             sessionAt[h] # "idle",
             \E for \in {"none", sessionFor[h]} : sessionFor' = [sessionFor EXCEPT ![h] = for]
      PROVE  /\ \A g \in Handler \ {h} :
                    sessionAt'[g] = "idle" /\ sessionFor'[g] = sessionFor[g]
                        /\ sessionAt[g] = "idle"
             /\ \A g \in Handler \ {h} : sessionAt'[g] = sessionAt[g]
             /\ \A p \in Pair : IssuedAt(p) < clock
  BY <1>c, <1>d, <1>3 DEF SessionGo, OneRequestAtATime, IssuedBefore
\* Steps after which the request may be at something else; nothing has been issued.
<1>4. ASSUME NEW h \in Handler, sessionAt[h] # "idle",
             SessionEnds(h) \/ \E at : SessionGo(h, at) /\ UNCHANGED sessionFor,
             UNCHANGED <<tokens, clock>>, blocked \subseteq blocked',
             EndedOnes', Underway(h)'
      PROVE  OneRequestAtATime' /\ IssuedBefore' /\ EndedOnes' /\ OneUnblocked'
          /\ \A g \in Handler : Underway(g)'
  <2>1. \E for \in {"none", sessionFor[h]} : sessionFor' = [sessionFor EXCEPT ![h] = for]
    BY <1>d, <1>4, <1>t DEF SessionEnds, SessionTypeOK
  <2>2. \E at : SessionGo(h, at)
    BY <1>4 DEF SessionEnds
  <2>3. Pair' = Pair /\ \A p : IssuedAt(p)' = IssuedAt(p)
    BY <1>4 DEF Pair, IssuedAt
  <2>4. IssuedBefore'
    BY <1>3, <1>4, <1>p, <2>1, <2>2, <2>3, IssuedLater
  <2>5. OneUnblocked'
    BY <1>c, <1>4, <2>3 DEF OneUnblocked
  <2>6. \A g \in Handler \ {h} :
             sessionAt'[g] = "idle" /\ sessionFor'[g] = sessionFor[g] /\ sessionAt[g] = "idle"
    BY <1>3, <1>4, <2>1, <2>2
  <2> QED
    BY <1>1, <1>4, <2>4, <2>5, <2>6
\* Nor has anything been ended.
<1>5. ASSUME NEW h \in Handler, sessionAt[h] \notin {"idle", "reset"},
             SessionEnds(h) \/ \E at : SessionGo(h, at) /\ UNCHANGED sessionFor,
             UNCHANGED <<tokens, clock, epoch, invalidated>>, blocked \subseteq blocked',
             Underway(h)'
      PROVE  OneRequestAtATime' /\ IssuedBefore' /\ EndedOnes' /\ OneUnblocked'
          /\ \A g \in Handler : Underway(g)'
  <2>1. \A g \in Handler : sessionAt[g] # "reset"
    BY <1>c, <1>5 DEF OneRequestAtATime
  <2>2. EndedOnes'
    BY <1>c, <1>5, <2>1 DEF EndedOnes, Pair, IssuedAt
  <2> QED
    BY <1>4, <1>5, <2>2
<1>6. ASSUME NEW h \in Handler, SessionEnds(h) PROVE Underway(h)'
  BY <1>6, <1>d DEF SessionEnds, SessionGo, Underway
<1>7. ASSUME NEW h \in Handler, SignIn(h) \/ Me(h) \/ Logout(h) \/ ResetPassword(h)
      PROVE  OneRequestAtATime' /\ IssuedBefore' /\ EndedOnes' /\ OneUnblocked'
          /\ \A g \in Handler : Underway(g)'
  BY <1>2, <1>7 DEF SignIn, Me, Logout, ResetPassword
<1>8. ASSUME NEW h \in Handler, Authorise(h)
      PROVE  OneRequestAtATime' /\ IssuedBefore' /\ EndedOnes' /\ OneUnblocked'
          /\ \A g \in Handler : Underway(g)'
  <2>1. /\ sessionAt[h] \in {"authorise", "retry"} /\ UNCHANGED <<tokens, clock, epoch,
                                                                  invalidated, blocked>>
        /\ \/ SessionEnds(h)
           \/ \E at \in {"invalidate", "blocklist"} : SessionGo(h, at) /\ UNCHANGED sessionFor
    BY <1>8 DEF Authorise, server
  <2>2. Underway(h)'
    BY <1>c, <1>6, <1>d, <2>1 DEF Underway, SessionGo
  <2> QED
    BY <1>5, <2>1, <2>2
<1>9. ASSUME NEW h \in Handler, RefreshListed(h)
      PROVE  OneRequestAtATime' /\ IssuedBefore' /\ EndedOnes' /\ OneUnblocked'
          /\ \A g \in Handler : Underway(g)'
  <2>1. /\ sessionAt[h] = "blocklist" /\ UNCHANGED <<tokens, clock, epoch, invalidated, blocked>>
        /\ \/ SessionEnds(h)
           \/ /\ SessionGo(h, "valid") /\ UNCHANGED <<sessionFor, sessionOf>>
              /\ Alive(sessionOf[h].pair, RefreshTTL) /\ sessionOf[h].pair \notin blocked
    BY <1>9 DEF RefreshListed, Passes, server
  <2>2. Underway(h)'
    BY <1>c, <1>6, <1>d, <2>1 DEF Underway, SessionGo, Alive
  <2> QED
    BY <1>5, <2>1, <2>2
<1>10. ASSUME NEW h \in Handler, RefreshValid(h)
      PROVE  OneRequestAtATime' /\ IssuedBefore' /\ EndedOnes' /\ OneUnblocked'
          /\ \A g \in Handler : Underway(g)'
  <2>1. /\ sessionAt[h] = "valid" /\ UNCHANGED <<tokens, clock, epoch, invalidated, blocked>>
        /\ \/ SessionEnds(h)
           \/ /\ SessionGo(h, "block") /\ UNCHANGED <<sessionFor, sessionOf>>
              /\ ~Ended(sessionOf[h].pair)
    BY <1>10 DEF RefreshValid, Passes, server
  <2>2. PICK p \in Pair : p = sessionOf[h].pair
    BY <1>t, <2>1 DEF HasPair
  <2>3. ~Ended(p) => tokens[p].since = epoch
    <3>1. Alive(p, RefreshTTL)
      BY <1>c, <2>1, <2>2 DEF Underway
    <3>2. \A g \in Handler : sessionAt[g] # "reset"
      BY <1>c, <2>1 DEF OneRequestAtATime
    <3> QED
      BY <1>c, <1>p, <1>t, <3>1, <3>2, AliveEnded DEF EndedOnes
  <2>4. Underway(h)'
    BY <1>c, <1>6, <1>d, <2>1, <2>2, <2>3 DEF Underway, SessionGo
  <2> QED
    BY <1>5, <2>1, <2>4
<1>11. ASSUME NEW h \in Handler, RefreshBlocks(h)
      PROVE  OneRequestAtATime' /\ IssuedBefore' /\ EndedOnes' /\ OneUnblocked'
          /\ \A g \in Handler : Underway(g)'
  <2>1. /\ sessionAt[h] = "block" /\ UNCHANGED <<tokens, clock, epoch, invalidated, sessionFor,
                                                 sessionOf>>
        /\ SessionGo(h, "issue") /\ blocked' = blocked \cup {sessionOf[h].pair}
    BY <1>11 DEF RefreshBlocks
  <2>2. PICK p \in Pair : p = sessionOf[h].pair
    BY <1>t, <2>1 DEF HasPair
  <2>3. p \notin blocked /\ tokens[p].since = epoch /\ sessionFor[h] # "signIn"
    BY <1>c, <2>1, <2>2 DEF Underway
  <2>4. \A q \in Pair : tokens[q].from = tokens[p].from => q \in blocked'
    BY <1>c, <2>1, <2>2, <2>3 DEF OneUnblocked
  <2>5. Underway(h)'
    BY <1>d, <2>1, <2>2, <2>3, <2>4 DEF Underway, SessionGo, Pair
  <2> QED
    BY <1>5, <2>1, <2>5
<1>12. ASSUME NEW h \in Handler, LogoutInvalidates(h) \/ ResetInvalidates(h)
      PROVE  OneRequestAtATime' /\ IssuedBefore' /\ EndedOnes' /\ OneUnblocked'
          /\ \A g \in Handler : Underway(g)'
  <2>1. /\ sessionAt[h] \in {"invalidate", "reset"} /\ UNCHANGED <<tokens, clock, blocked>>
        /\ invalidated' = clock
        /\ SessionEnds(h) \/ (SessionGo(h, "revoke") /\ UNCHANGED sessionFor)
    BY <1>12 DEF LogoutInvalidates, ResetInvalidates
  <2>2. \A p \in Pair : IssuedAt(p) < clock
    BY <1>c, <2>1 DEF IssuedBefore
  <2>3. EndedOnes'
    BY <2>1, <2>2 DEF EndedOnes, Pair, IssuedAt
  <2>4. Underway(h)'
    BY <1>6, <1>c, <1>d, <2>1 DEF Underway, SessionGo
  <2> QED
    BY <1>4, <2>1, <2>3, <2>4
<1>13. ASSUME NEW h \in Handler, LogoutRevokes(h)
      PROVE  OneRequestAtATime' /\ IssuedBefore' /\ EndedOnes' /\ OneUnblocked'
          /\ \A g \in Handler : Underway(g)'
  <2>1. /\ sessionAt[h] = "revoke" /\ UNCHANGED <<tokens, clock, epoch, invalidated>>
        /\ blocked \subseteq blocked'
        /\ SessionEnds(h)
    BY <1>13 DEF LogoutRevokes
  <2> QED
    BY <1>5, <1>6, <2>1
<1>14. ASSUME NEW h \in Handler, ResetWrites(h)
      PROVE  OneRequestAtATime' /\ IssuedBefore' /\ EndedOnes' /\ OneUnblocked'
          /\ \A g \in Handler : Underway(g)'
  <2>1. /\ sessionAt[h] = "password" /\ UNCHANGED <<tokens, clock, blocked, sessionFor>>
        /\ SessionGo(h, "reset")
    BY <1>14 DEF ResetWrites
  <2>2. sessionAt'[h] = "reset" /\ sessionFor'[h] # "signIn"
    BY <1>c, <1>d, <2>1 DEF SessionGo, Underway
  <2>3. EndedOnes' /\ Underway(h)'
    BY <2>2 DEF EndedOnes, Underway
  <2> QED
    BY <1>4, <2>1, <2>3
<1>15. ASSUME NEW h \in Handler, SessionBreaks(h) PROVE FALSE
  BY <1>15 DEF SessionBreaks, MayBreak
<1>16. CASE SessionTick
  <2>1. /\ UNCHANGED <<tokens, blocked, invalidated, epoch, sessionAt, sessionFor, sessionOf>>
        /\ clock' = clock + 1
        /\ \A h \in Handler : sessionAt[h] = "idle"
    BY <1>16 DEF SessionTick, server
  <2>2. Pair' = Pair /\ \A p : IssuedAt(p)' = IssuedAt(p)
    BY <2>1 DEF Pair, IssuedAt
  <2>3. IssuedBefore'
    <3>1. \A p \in Pair : IssuedAt(p) < clock'
      BY <1>c, <1>p, <2>1 DEF IssuedBefore
    <3> QED
      BY <1>p, <2>1, <2>2, <3>1, IssuedLater
  <2>4. OneRequestAtATime' /\ EndedOnes' /\ OneUnblocked'
    BY <1>c, <2>1, <2>2 DEF OneRequestAtATime, EndedOnes, OneUnblocked
  <2>5. \A h \in Handler : Underway(h)'
    BY <1>c, <2>1 DEF Underway
  <2> QED
    BY <2>3, <2>4, <2>5
<1>17. ASSUME NEW h \in Handler, IssueTokens(h)
      PROVE  OneRequestAtATime' /\ IssuedBefore' /\ EndedOnes' /\ OneUnblocked'
          /\ \A g \in Handler : Underway(g)'
  <2>0. PICK new : new = Len(tokens) + 1
    OBVIOUS
  <2> DEFINE Token == [iat : Nat, since : Nat, from : Nat]
  <2>1. PICK old : old = sessionOf[h].pair
    OBVIOUS
  <2>2. /\ sessionAt[h] = "issue" /\ UNCHANGED <<blocked, invalidated, epoch>>
        /\ tokens' = Append(tokens,
              [iat   |-> clock \div Second,
               since |-> IF sessionFor[h] = "signIn" THEN sessionOf[h].since ELSE tokens[old].since,
               from  |-> IF sessionFor[h] = "signIn" THEN new ELSE tokens[old].from])
        /\ \/ sessionFor[h] = "signIn" /\ SessionEnds(h) /\ clock' = clock
           \/ /\ sessionFor[h] # "signIn" /\ SessionGo(h, "retry") /\ UNCHANGED sessionFor
              /\ clock' = clock + 1
    BY <1>17, <2>0, <2>1 DEF IssueTokens
  <2>3. tokens \in Seq(Token)
    BY <1>t DEF SessionTypeOK
  <2> HIDE DEF Token
  <2>4. /\ Len(tokens') = new /\ \A p \in 1 .. Len(tokens) : tokens'[p] = tokens[p]
        /\ tokens'[new].iat = clock \div Second
        /\ tokens'[new].since = IF sessionFor[h] = "signIn" THEN sessionOf[h].since ELSE tokens[old].since
        /\ tokens'[new].from = IF sessionFor[h] = "signIn" THEN new ELSE tokens[old].from
    <3>1. PICK t : t = [iat   |-> clock \div Second,
               since |-> IF sessionFor[h] = "signIn" THEN sessionOf[h].since ELSE tokens[old].since,
               from  |-> IF sessionFor[h] = "signIn" THEN new ELSE tokens[old].from]
      OBVIOUS
    <3>2. tokens' = Append(tokens, t)
      BY <2>2, <3>1
    <3>3. Len(tokens') = new /\ (\A p \in 1 .. Len(tokens) : tokens'[p] = tokens[p])
        /\ tokens'[new] = t
      BY <2>0, <2>3, <3>2
    <3> QED
      BY <3>1, <3>3
  <2>5. /\ Pair' = Pair \cup {new} /\ new \in Nat \ {0} /\ new \notin Pair
        /\ \A p \in Pair : p < new
        /\ \A p \in Pair : tokens'[p] = tokens[p] /\ IssuedAt(p)' = IssuedAt(p)
    BY <2>0, <2>4, <1>p DEF Pair, IssuedAt
  <2>6. IssuedAt(new)' <= clock /\ IssuedAt(new)' \in Nat
    <3>1. IssuedAt(new)' = Second * (clock \div Second)
      BY <2>4 DEF IssuedAt
    <3> QED
      BY <1>p, <3>1, Rounding, SessionAssumption
  <2>7. /\ \A g \in Handler \ {h} :
                    sessionAt'[g] = "idle" /\ sessionFor'[g] = sessionFor[g]
                        /\ sessionAt[g] = "idle"
        /\ \A p \in Pair : IssuedAt(p) < clock
        /\ sessionAt'[h] = IF sessionFor[h] = "signIn" THEN "idle" ELSE "retry"
        /\ sessionFor'[h] # "signIn"
    <3>1. \E for \in {"none", sessionFor[h]} : sessionFor' = [sessionFor EXCEPT ![h] = for]
      BY <2>2, <1>d, <1>t DEF SessionEnds, SessionTypeOK
    <3>2. \E at : SessionGo(h, at)
      BY <2>2 DEF SessionEnds
    <3>3. /\ sessionAt'[h] = IF sessionFor[h] = "signIn" THEN "idle" ELSE "retry"
          /\ sessionFor'[h] # "signIn"
      BY <2>2, <1>d DEF SessionEnds, SessionGo
    <3> QED
      BY <1>3, <2>2, <3>1, <3>2, <3>3
  <2>8. old \in Pair \/ sessionFor[h] = "signIn"
    BY <1>t, <2>1, <2>2 DEF HasPair
  <2>9. tokens'[new].since = epoch
    BY <1>c, <2>1, <2>2, <2>4 DEF Underway
  <2>10. IssuedBefore'
    <3>1. \A p \in Pair' : IssuedAt(p)' <= clock
      BY <2>5, <2>6, <2>7, <1>p
    <3>2. sessionFor[h] = "signIn" => \A g \in Handler : sessionAt'[g] = "idle"
      BY <2>7
    <3>3. sessionFor[h] # "signIn" => clock' = clock + 1
      BY <2>2
    <3>4. \A p \in Pair' : IssuedAt(p)' \in Nat
      BY <2>5, <2>6, <1>p
    <3> QED
      BY <1>p, <2>2, <3>1, <3>2, <3>3, <3>4 DEF IssuedBefore
  <2>11. EndedOnes'
    <3>1. \A g \in Handler : sessionAt[g] # "reset"
      BY <2>2, <2>7
    <3>2. \A p \in Pair : tokens[p].since < epoch => IssuedAt(p) < invalidated
      BY <1>c, <3>1 DEF EndedOnes
    <3> QED
      <4>1. ASSUME NEW p \in Pair', tokens'[p].since < epoch' PROVE IssuedAt(p)' < invalidated'
        <5>1. p \in Pair
          <6>1. p # new
            <7>1. epoch' = epoch /\ epoch \in Nat
              BY <1>p, <2>2
            <7>2. p = new => tokens'[p].since = epoch
              BY <2>9
            <7> QED
              BY <4>1, <7>1, <7>2
          <6> QED
            BY <2>5, <4>1, <6>1
        <5> QED
          BY <2>2, <2>5, <3>2, <4>1, <5>1
      <4> QED
        BY <4>1 DEF EndedOnes
  <2>12. OneUnblocked'
    <3>1. \A q \in Pair : tokens[q].from = tokens'[new].from => q \in blocked
      <4>1. CASE sessionFor[h] = "signIn"
        <5>1. tokens'[new].from = new
          BY <2>4, <4>1
        <5>2. \A q \in Pair : tokens[q].from # new
          BY <1>p, <2>5
        <5> QED
          BY <5>1, <5>2
      <4>2. CASE sessionFor[h] # "signIn"
        BY <4>2, <1>c, <2>1, <2>2, <2>4 DEF Underway
      <4> QED
        BY <4>1, <4>2
    <3> QED
      <4>1. ASSUME NEW p \in Pair', NEW q \in Pair', tokens'[p].from = tokens'[q].from,
                   p \notin blocked', q \notin blocked'
            PROVE  p = q
        BY <1>c, <2>2, <2>5, <3>1, <4>1 DEF OneUnblocked
      <4> QED
        BY <4>1 DEF OneUnblocked
  <2>13. Underway(h)'
    BY <2>7 DEF Underway
  <2> QED
    BY <1>1, <2>7, <2>10, <2>11, <2>12, <2>13
<1> QED
  BY <1>7, <1>8, <1>9, <1>10, <1>11, <1>12, <1>13, <1>14, <1>15, <1>16, <1>17 DEF SessionNext

\* SessionInv is inductive.
LEMMA SessionStep == SessionInv /\ [SessionNext]_<<sessionVars, calm>> => SessionInv'
<1> SUFFICES ASSUME SessionInv, [SessionNext]_<<sessionVars, calm>> PROVE SessionInv'
  OBVIOUS
<1>1. CASE SessionNext
  <2>1. SessionTypeOK' /\ HasPair' /\ ClockBounded'
    BY <1>1, ClockStep, SessionTypeStep
  <2>2. SessionCalmInv'
    <3>1. CASE calm
      BY <1>1, <3>1, SessionCalmStep
    <3>2. CASE ~calm
      <4>1. calm' = calm
        BY <1>1, SessionCalm
      <4> QED
        BY <3>2, <4>1 DEF SessionCalmInv
    <3> QED
      BY <3>1, <3>2
  <2> QED
    BY <2>1, <2>2 DEF SessionInv
<1>2. CASE UNCHANGED <<sessionVars, calm>>
  <2>1. UNCHANGED <<clock, tokens, blocked, invalidated, epoch, shared, cookie, shown,
                    sessionAt, sessionFor, sessionOf, calm>>
    BY <1>2 DEF sessionVars
  <2>2. Pair' = Pair /\ Takes' = Takes /\ \A p : IssuedAt(p)' = IssuedAt(p)
    BY <2>1 DEF Pair, Takes, IssuedAt
  <2>3. SessionTypeOK' /\ ClockBounded' /\ HasPair'
    BY <2>1, <2>2 DEF SessionInv, SessionTypeOK, ClockBounded, HasPair
  <2>4. SessionCalmInv'
    BY <2>1, <2>2 DEF SessionInv, SessionCalmInv, OneRequestAtATime, IssuedBefore, EndedOnes,
       OneUnblocked,
       Underway, Alive
  <2> QED
    BY <2>3, <2>4 DEF SessionInv
<1> QED
  BY <1>1, <1>2

\* However sessions are renewed, ended and invalidated, SessionInv holds (AuthService).
THEOREM SessionInvariance == SessionSpec => []SessionInv
<1>1. CalmInit /\ SessionInit => SessionInv
  BY SessionInitially
<1> QED
  BY <1>1, SessionStep, PTL DEF SessionSpec

\* For any number of pairs and tabs whose requests do not overlap: sessions that ended
\* let nobody in, and one pair at most renews a session (AuthService).
THEOREM SessionsStaySound == SessionSpec => []SessionsSound
  BY SessionsImplied, SessionInvariance, PTL

-----------------------------------------------------------------------------
(*************************************************************************)
(* The session on the phone.  Keys are stored one by one and cleared one *)
(* by one, in the same order; OfOne says that what a stop of the app     *)
(* leaves behind is of one employee only, and MemberKept that somebody   *)
(* recognised stays signed in.                                           *)
(*************************************************************************)

\* The steps of a request that renews the token.
Renewing == {"refresh", "rotated", "rotate"}

\* One request at most renews the token, and all know of it.
OneRenews ==
    /\ isRefreshing <=> \E g \in Handler : call[g].at \in Renewing
    /\ \A g, h \in Handler : call[g].at \in Renewing /\ call[h].at \in Renewing => g = h
    /\ \A h \in Handler : call[h].at = "queued" => isRefreshing
\* Keys are stored from the first.
FromTheFirst == \A h \in Handler : call[h].at = "keep" => call[h].key >= 1

\* Every key is of one of these; those before one, in the order of StoreKeys; and the others.
KeysOf(who) ==
    store.token.of \in who /\ store.refresh.of \in who /\ store.phone \in who
        /\ store.details \in who

\* Keys before one,
KeysBefore(k, who) ==
    /\ k > 1 => store.token.of \in who
    /\ k > 2 => store.refresh.of \in who
    /\ k > 3 => store.phone \in who
    /\ k > 4 => store.details \in who

\* and from one on.
KeysFrom(k, who) ==
    /\ k <= 1 => store.token.of \in who
    /\ k <= 2 => store.refresh.of \in who
    /\ k <= 3 => store.phone \in who
    /\ k <= 4 => store.details \in who

\* One thing happens at a time.
OneCallAtATime ==
    /\ \A g, h \in Handler : call[g].at # "idle" /\ call[h].at # "idle" => g = h
    /\ leaving # 0 \/ ~app.open => \A h \in Handler : call[h].at = "idle"
    /\ ~app.open => leaving = 0

\* Keys are stored and cleared in order.
InOrder ==
    /\ KeysBefore(leaving, {NoHolder})
    /\ \A h \in Handler :
        /\ call[h].at \in {"login", "keep"} => app.person = NoHolder
        /\ call[h].at = "keep" => KeysBefore(call[h].key, {call[h].of})

\* Nothing has been cut short yet: without an employee the store is empty.
NothingCut ==
    stops = 0 =>
        /\ app.open
        /\ app.person = NoHolder /\ (\A h \in Handler : call[h].at # "keep") => KeysOf({NoHolder})
        /\ \A h \in Handler : call[h].at = "keep" => KeysFrom(call[h].key, {NoHolder})

\* One thing at most was: what is there is of one employee.
OfOne ==
    stops <= 1 =>
        /\ app.person # NoHolder => KeysOf({app.person, NoHolder})
        /\ ~app.open /\ store.details # NoHolder => KeysOf({store.details, NoHolder})
        /\ \A h \in Handler :
            /\ call[h].at \in {"sent", "refused", "queued"} \cup Renewing => app.person # NoHolder
            /\ call[h].at \in Renewing => call[h].of \in {app.person, NoHolder}
            /\ call[h].at = "refresh" => call[h].number \in {app.person, NoHolder}

\* Somebody who has signed in and is a user is so in the store, in the app and in each request.
MemberKept ==
    recognised /\ member # NoHolder =>
        /\ KeysOf({member}) /\ leaving = 0 /\ (app.open => app.person = member)
        /\ \A h \in Handler :
            /\ call[h].at \notin {"login", "keep"}
            /\ call[h].at \in Renewing => call[h].of = member
            /\ call[h].at = "refresh" => call[h].number = member
            /\ call[h].at = "refused" => ~call[h].retry
            /\ call[h].at = "sent" /\ call[h].retry => call[h].good

\* Without overlap.
PhoneCalmInv == calm => OneCallAtATime /\ InOrder /\ NothingCut /\ OfOne /\ MemberKept

\* Types, one renewal, and what is so without overlap.
PhoneInv == PhoneTypeOK /\ OneRenews /\ FromTheFirst /\ PhoneCalmInv

\* PhoneInv implies what the run checks.
LEMMA PhoneImplied == PhoneInv => PhoneSound
<1> SUFFICES ASSUME PhoneInv PROVE ShownIsTokens /\ StaysSignedIn /\ WaitingIsWoken
  BY DEF PhoneSound
<1>1. ShownIsTokens
  BY DEF PhoneInv, PhoneCalmInv, OfOne, KeysOf, ShownIsTokens
<1>2. StaysSignedIn
  BY DEF PhoneInv, PhoneCalmInv, MemberKept, StaysSignedIn
<1>3. WaitingIsWoken
  BY DEF PhoneInv, OneRenews, Renewing, WaitingIsWoken
<1> QED
  BY <1>1, <1>2, <1>3

\* No call changes what kind of history it is.
LEMMA PhoneCalm == PhoneNext => calm' = calm
  BY DEF PhoneNext, PhoneLogout, LogoutClears, LogoutFails, PhoneStops, AppOpens, TokenExpires,
     PhoneLogin, PinServed, LoginStores, LoggedIn, PhoneRequest, CallAnswered, SessionGivenUp,
     WaitsForToken, TokenRenewed, RefreshServed, TokenStored, RefreshStored, RefreshFails,
     CallBreaks

\* The keys of the store, in order.
LEMMA FourKeys ==
  /\ Len(StoreKeys) = 4
  /\ StoreKeys[1] = "token" /\ StoreKeys[2] = "refresh" /\ StoreKeys[3] = "phone"
  /\ StoreKeys[4] = "details"
  BY DEF StoreKeys

\* No call is one, and idle.
LEMMA NoCallTyped == NoCall \in CallRow /\ NoCall.at = "idle"
  BY DEF NoCall, CallRow, Somebody, StoreKeys

\* PhoneInv holds before anybody signs in.
LEMMA PhoneInitially == CalmInit /\ PhoneInit => PhoneInv
<1> SUFFICES ASSUME PhoneInit PROVE PhoneInv
  OBVIOUS
<1>1. NoKey \in TokenKey /\ NoKey.of = NoHolder /\ NoHolder \in Somebody
  BY DEF NoKey, TokenKey, Somebody
<1>2. PhoneTypeOK
  <2>1. store \in [token : TokenKey, refresh : TokenKey, phone : Somebody, details : Somebody]
    BY <1>1 DEF PhoneInit
  <2>2. app \in [open : BOOLEAN, person : Somebody] /\ member \in Somebody
    BY <1>1 DEF PhoneInit
  <2>3. leaving \in 0 .. Len(StoreKeys) + 1 /\ stops \in 0 .. MaxStops
    BY FourKeys, PhoneAssumption DEF PhoneInit
  <2>4. call \in [Handler -> CallRow]
    BY NoCallTyped DEF PhoneInit
  <2> QED
    BY <2>1, <2>2, <2>3, <2>4 DEF PhoneInit, PhoneTypeOK
<1>3. OneRenews /\ FromTheFirst
  BY NoCallTyped DEF PhoneInit, OneRenews, FromTheFirst, Renewing
<1>4. OneCallAtATime /\ InOrder /\ NothingCut /\ OfOne /\ MemberKept
  BY <1>1, NoCallTyped DEF PhoneInit, OneCallAtATime, InOrder, NothingCut, OfOne, MemberKept,
     KeysOf,
     KeysBefore, KeysFrom, Renewing
<1> QED
  BY <1>2, <1>3, <1>4 DEF PhoneInv, PhoneCalmInv

\* What a request becomes is a row of the same kind.
LEMMA CallRows ==
  ASSUME NEW r \in CallRow
  PROVE  /\ r.at \in {"idle", "login", "keep", "sent", "refused", "queued", "refresh", "rotated", "rotate"}
         /\ r.of \in Somebody /\ r.good \in BOOLEAN /\ r.retry \in BOOLEAN
         /\ r.number \in Somebody
         /\ r.key \in 0 .. 5
  BY DEF CallRow, StoreKeys

\* A sign-in that begins to store,
LEMMA KeepsKeys ==
  ASSUME NEW r \in CallRow
  PROVE  LET new == [r EXCEPT !.at = "keep", !.key = 1]
         IN  new \in CallRow /\ new.at = "keep" /\ new.key = 1 /\ new.of = r.of
<1> DEFINE mid == [r EXCEPT !.at = "keep"]
<1>1. mid \in CallRow /\ mid.at = "keep" /\ mid.of = r.of
  BY DEF CallRow
<1> HIDE DEF mid
<1>2. /\ [mid EXCEPT !.key = 1] \in CallRow /\ [mid EXCEPT !.key = 1].at = mid.at
      /\ [mid EXCEPT !.key = 1].key = 1 /\ [mid EXCEPT !.key = 1].of = mid.of
  BY <1>1 DEF CallRow, StoreKeys
<1> QED
  BY <1>1, <1>2 DEF mid

\* that stores the next key,
LEMMA NextKey ==
  ASSUME NEW r \in CallRow, NEW k \in 0 .. 5
  PROVE  /\ [r EXCEPT !.key = k] \in CallRow /\ [r EXCEPT !.key = k].at = r.at
         /\ [r EXCEPT !.key = k].of = r.of /\ [r EXCEPT !.key = k].key = k
  BY DEF CallRow, StoreKeys

\* a request that goes on,
LEMMA NextAt ==
  ASSUME NEW r \in CallRow, NEW at \in {"refused", "queued", "rotate"}
  PROVE  /\ [r EXCEPT !.at = at] \in CallRow /\ [r EXCEPT !.at = at].at = at
         /\ [r EXCEPT !.at = at].of = r.of /\ [r EXCEPT !.at = at].retry = r.retry
         /\ [r EXCEPT !.at = at].good = r.good
  BY DEF CallRow

\* that begins,
LEMMA NewRequest ==
  ASSUME NEW p \in Somebody, NEW good \in BOOLEAN
  PROVE  LET r == [NoCall EXCEPT !.at = "sent", !.of = p, !.good = good]
         IN  r \in CallRow /\ r.at = "sent" /\ r.retry = FALSE
<1>0. NoCall \in CallRow /\ NoCall.retry = FALSE
  BY NoCallTyped DEF NoCall
<1> DEFINE mid == [NoCall EXCEPT !.at = "sent"]
           own == [mid EXCEPT !.of = p]
<1>1. mid \in CallRow /\ mid.at = "sent" /\ mid.retry = FALSE
  BY <1>0 DEF CallRow
<1> HIDE DEF mid
<1>2. own \in CallRow /\ own.at = mid.at /\ own.retry = mid.retry
  BY <1>1 DEF CallRow
<1> HIDE DEF own
<1>3. /\ [own EXCEPT !.good = good] \in CallRow /\ [own EXCEPT !.good = good].at = own.at
      /\ [own EXCEPT !.good = good].retry = own.retry
  BY <1>2 DEF CallRow
<1> QED
  BY <1>1, <1>2, <1>3 DEF mid, own

\* whose token was renewed,
LEMMA Rotated ==
  ASSUME NEW r \in CallRow, NEW p \in Somebody
  PROVE  /\ [r EXCEPT !.at = "rotated", !.of = p] \in CallRow
         /\ [r EXCEPT !.at = "rotated", !.of = p].at = "rotated"
         /\ [r EXCEPT !.at = "rotated", !.of = p].of = p
<1> DEFINE mid == [r EXCEPT !.at = "rotated"]
<1>1. mid \in CallRow /\ mid.at = "rotated"
  BY DEF CallRow
<1> HIDE DEF mid
<1>2. /\ [mid EXCEPT !.of = p] \in CallRow /\ [mid EXCEPT !.of = p].at = mid.at
      /\ [mid EXCEPT !.of = p].of = p
  BY <1>1 DEF CallRow
<1> QED
  BY <1>1, <1>2 DEF mid

\* that is sent again with it,
LEMMA SentAgain ==
  ASSUME NEW r \in CallRow, NEW p \in Somebody
  PROVE  /\ [r EXCEPT !.at = "sent", !.of = p, !.good = TRUE] \in CallRow
         /\ [r EXCEPT !.at = "sent", !.of = p, !.good = TRUE].at = "sent"
         /\ [r EXCEPT !.at = "sent", !.of = p, !.good = TRUE].good = TRUE
<1> DEFINE mid == [r EXCEPT !.at = "sent"]
           own == [mid EXCEPT !.of = p]
<1>1. mid \in CallRow /\ mid.at = "sent"
  BY DEF CallRow
<1> HIDE DEF mid
<1>2. own \in CallRow /\ own.at = mid.at
  BY <1>1 DEF CallRow
<1> HIDE DEF own
<1>3. /\ [own EXCEPT !.good = TRUE] \in CallRow /\ [own EXCEPT !.good = TRUE].at = own.at
      /\ [own EXCEPT !.good = TRUE].good = TRUE
  BY <1>2 DEF CallRow
<1> QED
  BY <1>1, <1>2, <1>3 DEF mid, own

\* and a sign-in or a renewal that begins are such rows.
LEMMA NewCalls ==
  /\ \A p \in Somebody : LET r == [NoCall EXCEPT !.at = "login", !.of = p]
                         IN  r \in CallRow /\ r.at = "login" /\ r.of = p
  /\ \A p, q \in Somebody, good \in BOOLEAN :
        LET r == [at |-> "refresh", of |-> p, retry |-> TRUE, good |-> good, key |-> 0, number |-> q]
        IN  r \in CallRow /\ r.at = "refresh" /\ r.of = p /\ r.number = q
<1>0. NoCall \in CallRow /\ NoCall.retry = FALSE
  BY NoCallTyped DEF NoCall
<1>1. ASSUME NEW p \in Somebody
      PROVE  LET r == [NoCall EXCEPT !.at = "login", !.of = p]
             IN  r \in CallRow /\ r.at = "login" /\ r.of = p
  <2> DEFINE mid == [NoCall EXCEPT !.at = "login"]
  <2>1. mid \in CallRow /\ mid.at = "login"
    BY <1>0 DEF CallRow
  <2> HIDE DEF mid
  <2>2. [mid EXCEPT !.of = p] \in CallRow /\ [mid EXCEPT !.of = p].at = mid.at
      /\ [mid EXCEPT !.of = p].of = p
    BY <2>1 DEF CallRow
  <2> QED
    BY <2>1, <2>2 DEF mid
<1>3. ASSUME NEW p \in Somebody, NEW q \in Somebody, NEW good \in BOOLEAN
      PROVE  LET r == [at |-> "refresh", of |-> p, retry |-> TRUE, good |-> good, key |-> 0, number |-> q]
             IN  r \in CallRow /\ r.at = "refresh" /\ r.of = p /\ r.number = q
  BY FourKeys DEF CallRow
<1> QED
  BY <1>1, <1>3

\* The parts of the store and of the app.
LEMMA StoreFields ==
  ASSUME PhoneTypeOK
  PROVE  /\ store.token \in TokenKey /\ store.refresh \in TokenKey /\ store.phone \in Somebody
         /\ store.details \in Somebody /\ store.token.of \in Somebody
         /\ store.refresh.of \in Somebody
         /\ store.token.good \in BOOLEAN /\ store.refresh.good \in BOOLEAN
         /\ app.open \in BOOLEAN /\ app.person \in Somebody
         /\ \A h \in Handler : call[h] \in CallRow
         /\ NoHolder \in Somebody /\ leaving \in 0 .. 5
  BY FourKeys DEF PhoneTypeOK, TokenKey, Somebody

\* Storing or clearing a key.
LEMMA KeyStored ==
  ASSUME PhoneTypeOK, NEW k \in 1 .. 4, NEW p \in Somebody,
         store' = [store EXCEPT ![StoreKeys[k]] = KeyOf(StoreKeys[k], p)]
  PROVE  /\ store' \in [token : TokenKey, refresh : TokenKey, phone : Somebody, details : Somebody]
         /\ store'.token.of = IF k = 1 THEN p ELSE store.token.of
         /\ store'.refresh.of = IF k = 2 THEN p ELSE store.refresh.of
         /\ store'.phone = IF k = 3 THEN p ELSE store.phone
         /\ store'.details = IF k = 4 THEN p ELSE store.details
<1>1. store \in [token : TokenKey, refresh : TokenKey, phone : Somebody, details : Somebody]
  BY DEF PhoneTypeOK
<1> DEFINE key == [of |-> p, good |-> p # NoHolder]
<1>2. key \in TokenKey /\ key.of = p
  BY DEF TokenKey
<1>3. \A w \in {"token", "refresh"} : KeyOf(w, p) = key
  BY DEF KeyOf
<1>4. \A w \in {"phone", "details"} : KeyOf(w, p) = p
  BY DEF KeyOf
<1> HIDE DEF key
<1>5. CASE k = 1
  <2>1. store' = [store EXCEPT !.token = key]
    BY <1>3, <1>5, FourKeys
  <2> QED
    BY <1>1, <1>2, <1>5, <2>1
<1>6. CASE k = 2
  <2>1. store' = [store EXCEPT !.refresh = key]
    BY <1>3, <1>6, FourKeys
  <2> QED
    BY <1>1, <1>2, <1>6, <2>1
<1>7. CASE k = 3
  <2>1. store' = [store EXCEPT !.phone = p]
    BY <1>4, <1>7, FourKeys
  <2> QED
    BY <1>1, <1>7, <2>1
<1>8. CASE k = 4
  <2>1. store' = [store EXCEPT !.details = p]
    BY <1>4, <1>8, FourKeys
  <2> QED
    BY <1>1, <1>8, <2>1
<1> QED
  BY <1>5, <1>6, <1>7, <1>8

\* Every step keeps PhoneInv.
LEMMA PhoneNextKeeps == PhoneInv /\ PhoneNext => PhoneInv'
<1> SUFFICES ASSUME PhoneInv, PhoneNext
             PROVE  PhoneTypeOK' /\ OneRenews' /\ FromTheFirst' /\ PhoneCalmInv'
  BY DEF PhoneInv
<1>t. PhoneTypeOK /\ OneRenews /\ FromTheFirst /\ PhoneCalmInv /\ calm' = calm
  BY PhoneCalm DEF PhoneInv
<1>s. /\ store.token \in TokenKey /\ store.refresh \in TokenKey /\ store.phone \in Somebody
      /\ store.details \in Somebody /\ store.token.of \in Somebody
      /\ store.refresh.of \in Somebody
      /\ store.token.good \in BOOLEAN /\ store.refresh.good \in BOOLEAN
      /\ app.open \in BOOLEAN /\ app.person \in Somebody
      /\ \A h \in Handler : call[h] \in CallRow
      /\ NoHolder \in Somebody /\ leaving \in 0 .. 5
  BY <1>t, StoreFields
<1>o. \A h \in Handler : MayTake(h, CallsAt) =>
        call[h].at = "idle" /\ (calm => \A g \in Handler : call[g].at = "idle")
  BY DEF MayTake, CallsAt
<1>m. stops \in 0 .. MaxStops /\ MaxStops \in Nat
  BY <1>t, PhoneAssumption DEF PhoneTypeOK
\* One request moves and renews nothing.
<1>r. ASSUME NEW h \in Handler, NEW r \in CallRow, call' = [call EXCEPT ![h] = r],
             isRefreshing' = isRefreshing, call[h].at \notin Renewing, r.at \notin Renewing,
             r.at = "queued" => isRefreshing, r.at = "keep" => r.key >= 1
      PROVE  OneRenews' /\ FromTheFirst' /\ call' \in [Handler -> CallRow] /\ call'[h] = r
             /\ \A g \in Handler \ {h} : call'[g] = call[g]
  <2>1. call' \in [Handler -> CallRow] /\ call'[h] = r
      /\ \A g \in Handler \ {h} : call'[g] = call[g]
    BY <1>r, <1>t DEF PhoneTypeOK
  <2> QED
    BY <1>r, <1>t, <2>1 DEF OneRenews, FromTheFirst, Renewing
<1>1. ASSUME NEW h \in Handler, NEW p \in Holder, PhoneLogin(h, p)
      PROVE  PhoneTypeOK' /\ OneRenews' /\ FromTheFirst' /\ PhoneCalmInv'
  <2>1. PICK r : r = [NoCall EXCEPT !.at = "login", !.of = p]
    OBVIOUS
  <2>2. r \in CallRow /\ r.at = "login" /\ r.of = p
    BY <2>1, NewCalls DEF Somebody
  <2>3. /\ call' = [call EXCEPT ![h] = r] /\ app.open /\ app.person = NoHolder
        /\ call[h].at = "idle"
        /\ calm => leaving = 0 /\ \A g \in Handler : call[g].at = "idle"
        /\ UNCHANGED <<recognised, store, app, member, leaving, isRefreshing, stops>>
    BY <1>1, <1>o, <2>1 DEF PhoneLogin
  <2>4. OneRenews' /\ FromTheFirst' /\ call' \in [Handler -> CallRow] /\ call'[h] = r
      /\ \A g \in Handler \ {h} : call'[g] = call[g]
    BY <1>r, <2>2, <2>3 DEF Renewing
  <2>5. PhoneTypeOK'
    BY <1>t, <2>3, <2>4 DEF PhoneTypeOK
  <2>6. PhoneCalmInv'
    BY <1>t, <2>2, <2>3, <2>4 DEF PhoneCalmInv, OneCallAtATime, InOrder, NothingCut, OfOne,
       MemberKept,
         KeysOf, KeysBefore, KeysFrom, Renewing
  <2> QED
    BY <2>4, <2>5, <2>6
<1>2. ASSUME NEW h \in Handler, NEW right \in BOOLEAN, PinServed(h, right)
      PROVE  PhoneTypeOK' /\ OneRenews' /\ FromTheFirst' /\ PhoneCalmInv'
  <2>0. call[h].at = "login" /\ UNCHANGED <<recognised, store, app, member, isRefreshing, stops>>
    BY <1>2 DEF PinServed
  <2>1. CASE right
    <3>1. PICK r : r = [call[h] EXCEPT !.at = "keep", !.key = 1]
      OBVIOUS
    <3>2. r \in CallRow /\ r.at = "keep" /\ r.key = 1 /\ r.of = call[h].of
      BY <1>s, <3>1, KeepsKeys
    <3>3. call' = [call EXCEPT ![h] = r] /\ leaving' = leaving
      BY <1>2, <1>t, <2>1, <3>1 DEF PinServed, PhoneTypeOK
    <3>4. OneRenews' /\ FromTheFirst' /\ call' \in [Handler -> CallRow] /\ call'[h] = r
        /\ \A g \in Handler \ {h} : call'[g] = call[g]
      <4>1. r.at = "keep" => r.key >= 1
        BY <3>2
      <4> QED
        BY <1>r, <2>0, <3>2, <3>3, <4>1 DEF Renewing
    <3>5. PhoneTypeOK'
      BY <1>t, <2>0, <3>3, <3>4 DEF PhoneTypeOK
    <3>6. PhoneCalmInv'
      BY <1>t, <2>0, <3>2, <3>3, <3>4 DEF PhoneCalmInv, OneCallAtATime, InOrder, NothingCut,
         OfOne, MemberKept,
         KeysOf, KeysBefore, KeysFrom, Renewing
    <3> QED
      BY <3>4, <3>5, <3>6
  <2>2. CASE ~right
    <3>3. call' = [call EXCEPT ![h] = NoCall] /\ leaving' \in {1, leaving} /\ (leaving = 0
        => leaving' = 1)
      BY <1>2, <2>2 DEF PinServed
    <3>4. OneRenews' /\ FromTheFirst' /\ call' \in [Handler -> CallRow] /\ call'[h] = NoCall
        /\ \A g \in Handler \ {h} : call'[g] = call[g]
      BY <1>r, <2>0, <3>3, NoCallTyped DEF Renewing
    <3>5. PhoneTypeOK'
      BY <1>t, <2>0, <3>3, <3>4, FourKeys DEF PhoneTypeOK
    <3>6. PhoneCalmInv'
      BY <1>t, <2>0, <3>3, <3>4, NoCallTyped DEF PhoneCalmInv, OneCallAtATime, InOrder,
         NothingCut, OfOne, MemberKept,
         KeysOf, KeysBefore, KeysFrom, Renewing
    <3> QED
      BY <3>4, <3>5, <3>6
  <2> QED
    BY <2>1, <2>2
<1>3. ASSUME NEW h \in Handler, LoginStores(h)
      PROVE  PhoneTypeOK' /\ OneRenews' /\ FromTheFirst' /\ PhoneCalmInv'
  <2>0. PICK k, p : k = call[h].key /\ p = call[h].of
    OBVIOUS
  <2>1. /\ call[h].at = "keep" /\ k \in 0 .. 4 /\ k <= 4 /\ p \in Somebody
        /\ UNCHANGED <<recognised, app, member, leaving, isRefreshing, stops>>
        /\ store' = [store EXCEPT ![StoreKeys[k]] = KeyOf(StoreKeys[k], p)]
    <3>1. k \in 0 .. 5 /\ p \in Somebody
      BY <1>s, <2>0, CallRows
    <3>2. call[h].at = "keep" /\ k <= Len(StoreKeys)
      BY <1>3, <2>0 DEF LoginStores
    <3>3. /\ UNCHANGED <<recognised, app, member, leaving, isRefreshing, stops>>
          /\ store' = [store EXCEPT ![StoreKeys[k]] = KeyOf(StoreKeys[k], p)]
      BY <1>3, <2>0 DEF LoginStores
    <3> QED
      BY <3>1, <3>2, <3>3, FourKeys
  <2>2. PICK r : r = [call[h] EXCEPT !.key = k + 1]
    OBVIOUS
  <2>3. r \in CallRow /\ r.at = "keep" /\ r.key = k + 1 /\ r.of = p
    <3>1. k + 1 \in 0 .. 5
      BY <2>1
    <3>2. PICK c \in CallRow : c = call[h]
      BY <1>s
    <3>4. PICK n \in 0 .. 5 : n = k + 1
      BY <3>1
    <3>3. /\ [c EXCEPT !.key = n] \in CallRow /\ [c EXCEPT !.key = n].at = c.at
          /\ [c EXCEPT !.key = n].of = c.of /\ [c EXCEPT !.key = n].key = n
      BY NextKey
    <3> QED
      BY <2>0, <2>1, <2>2, <3>2, <3>3, <3>4
  <2>4. call' = [call EXCEPT ![h] = r]
    BY <1>3, <1>t, <2>0, <2>2 DEF LoginStores, PhoneTypeOK
  <2>7. k \in 1 .. 4
    BY <1>t, <2>0, <2>1 DEF FromTheFirst
  <2>5. OneRenews' /\ FromTheFirst' /\ call' \in [Handler -> CallRow] /\ call'[h] = r
      /\ \A g \in Handler \ {h} : call'[g] = call[g]
    <3>1. r.key >= 1
      BY <2>3, <2>7
    <3> QED
      BY <1>r, <2>1, <2>3, <2>4, <3>1 DEF Renewing
  <2>8. PhoneTypeOK' /\ PhoneCalmInv'
    <3>1. /\ store' \in [token : TokenKey, refresh : TokenKey, phone : Somebody, details : Somebody]
          /\ store'.token.of = IF k = 1 THEN p ELSE store.token.of
          /\ store'.refresh.of = IF k = 2 THEN p ELSE store.refresh.of
          /\ store'.phone = IF k = 3 THEN p ELSE store.phone
          /\ store'.details = IF k = 4 THEN p ELSE store.details
      BY <1>t, <2>1, <2>7, KeyStored
    <3>2. PhoneTypeOK'
      BY <1>t, <2>1, <2>5, <3>1 DEF PhoneTypeOK
    <3>3. ASSUME calm PROVE OneCallAtATime' /\ InOrder' /\ NothingCut' /\ OfOne' /\ MemberKept'
      <4>0. OneCallAtATime /\ InOrder /\ NothingCut /\ OfOne /\ MemberKept
        BY <1>t, <3>3 DEF PhoneCalmInv
      <4>1. /\ leaving = 0 /\ app.open /\ app.person = NoHolder
            /\ \A g \in Handler \ {h} : call'[g].at = "idle" /\ call[g].at = "idle"
            /\ recognised => member = NoHolder
        BY <2>1, <2>5, <4>0 DEF OneCallAtATime, InOrder, MemberKept
      <4>2. OneCallAtATime' /\ MemberKept' /\ OfOne'
        BY <2>1, <2>3, <2>5, <4>1 DEF OneCallAtATime, MemberKept, OfOne, Renewing
      <4>3. KeysBefore(k, {p}) /\ (stops = 0 => KeysFrom(k, {NoHolder}))
        BY <2>0, <2>1, <4>0 DEF InOrder, NothingCut
      <4>4. KeysBefore(k + 1, {p})' /\ (stops = 0 => KeysFrom(k + 1, {NoHolder})')
        BY <2>7, <3>1, <4>3 DEF KeysBefore, KeysFrom
      <4>5. InOrder'
        BY <2>1, <2>3, <2>5, <4>1, <4>4 DEF InOrder, KeysBefore
      <4>6. NothingCut'
        BY <2>1, <2>3, <2>5, <4>1, <4>4 DEF NothingCut, KeysFrom
      <4> QED
        BY <4>2, <4>5, <4>6
    <3> QED
      BY <1>t, <3>2, <3>3 DEF PhoneCalmInv
  <2> QED
    BY <2>5, <2>8
<1>4. ASSUME NEW h \in Handler, LoggedIn(h)
      PROVE  PhoneTypeOK' /\ OneRenews' /\ FromTheFirst' /\ PhoneCalmInv'
  <2>0. PICK p \in Somebody : p = call[h].of
    BY <1>s, CallRows
  <2>1. /\ call[h].at = "keep" /\ call[h].key > 4
        /\ app' = [app EXCEPT !.person = p] /\ member' = p /\ call' = [call EXCEPT ![h] = NoCall]
        /\ UNCHANGED <<recognised, store, leaving, isRefreshing, stops>>
    BY <1>4, <2>0, FourKeys DEF LoggedIn
  <2>2. app' \in [open : BOOLEAN, person : Somebody] /\ app'.open = app.open /\ app'.person = p
    BY <1>t, <2>1 DEF PhoneTypeOK
  <2>3. OneRenews' /\ FromTheFirst' /\ call' \in [Handler -> CallRow] /\ call'[h] = NoCall
      /\ \A g \in Handler \ {h} : call'[g] = call[g]
    BY <1>r, <2>1, NoCallTyped DEF Renewing
  <2>4. PhoneTypeOK'
    BY <1>t, <2>1, <2>2, <2>3 DEF PhoneTypeOK
  <2>5. PhoneCalmInv'
    <3>1. calm => KeysBefore(5, {p})
      <4>1. call[h].key \in 0 .. 5
        BY <1>s, CallRows
      <4>2. calm => KeysBefore(call[h].key, {p})
        BY <1>t, <2>0, <2>1 DEF PhoneCalmInv, InOrder
      <4> QED
        BY <2>1, <4>1, <4>2 DEF KeysBefore
    <3>2. calm => KeysOf({p})
      BY <3>1 DEF KeysBefore, KeysOf
    <3> QED
      BY <1>t, <2>1, <2>2, <2>3, <3>2, NoCallTyped DEF PhoneCalmInv, OneCallAtATime, InOrder,
         NothingCut, OfOne, MemberKept,
         KeysOf, KeysBefore, KeysFrom, Renewing
  <2> QED
    BY <2>3, <2>4, <2>5
<1>5. CASE PhoneLogout
  <2>1. /\ app.open /\ app.person # NoHolder /\ leaving = 0 /\ (calm
           => \A h \in Handler : call[h].at = "idle")
        /\ leaving' = 1 /\ member' = NoHolder /\ UNCHANGED <<recognised, store, app,
                                                             isRefreshing, call, stops>>
    BY <1>5 DEF PhoneLogout
  <2>2. PhoneTypeOK'
    BY <1>s, <1>t, <2>1, FourKeys DEF PhoneTypeOK
  <2>3. OneRenews' /\ FromTheFirst'
    BY <1>t, <2>1 DEF OneRenews, FromTheFirst
  <2>4. PhoneCalmInv'
    BY <1>t, <2>1 DEF PhoneCalmInv, OneCallAtATime, InOrder, NothingCut, OfOne, MemberKept,
         KeysOf, KeysBefore, KeysFrom, Renewing
  <2> QED
    BY <2>2, <2>3, <2>4
<1>6. CASE LogoutClears
  <2>1. leaving \in 1 .. 5 /\ UNCHANGED <<recognised, member, isRefreshing, call, stops>>
    BY <1>6, <1>s DEF LogoutClears
  <2>2. OneRenews' /\ FromTheFirst'
    BY <1>t, <2>1 DEF OneRenews, FromTheFirst
  <2>3. CASE leaving \in 1 .. 4
    <3>1. PICK k \in 1 .. 4 : k = leaving
      BY <2>3
    <3>2. store' = [store EXCEPT ![StoreKeys[k]] = KeyOf(StoreKeys[k], NoHolder)]
        /\ leaving' = k + 1 /\ app' = app
      BY <1>6, <3>1, FourKeys DEF LogoutClears
    <3>3. /\ store' \in [token : TokenKey, refresh : TokenKey, phone : Somebody, details : Somebody]
          /\ store'.token.of = IF k = 1 THEN NoHolder ELSE store.token.of
          /\ store'.refresh.of = IF k = 2 THEN NoHolder ELSE store.refresh.of
          /\ store'.phone = IF k = 3 THEN NoHolder ELSE store.phone
          /\ store'.details = IF k = 4 THEN NoHolder ELSE store.details
      BY <1>t, <1>s, <3>2, KeyStored
    <3>4. PhoneTypeOK'
      BY <1>t, <2>1, <3>2, <3>3, FourKeys DEF PhoneTypeOK
    <3>5. PhoneCalmInv'
      BY <1>t, <2>1, <3>1, <3>2, <3>3 DEF PhoneCalmInv, OneCallAtATime, InOrder, NothingCut,
         OfOne, MemberKept,
         KeysOf, KeysBefore, KeysFrom, Renewing
    <3> QED
      BY <2>2, <3>4, <3>5
  <2>4. CASE leaving = 5
    <3>1. app' = [app EXCEPT !.person = NoHolder] /\ leaving' = 0 /\ store' = store
      BY <1>6, <2>4, FourKeys DEF LogoutClears
    <3>2. app' \in [open : BOOLEAN, person : Somebody] /\ app'.open = app.open
        /\ app'.person = NoHolder
      BY <1>t, <1>s, <3>1 DEF PhoneTypeOK
    <3>3. PhoneTypeOK'
      BY <1>t, <2>1, <3>1, <3>2, FourKeys DEF PhoneTypeOK
    <3>4. PhoneCalmInv'
      BY <1>t, <2>1, <2>4, <3>1, <3>2 DEF PhoneCalmInv, OneCallAtATime, InOrder, NothingCut,
         OfOne, MemberKept,
         KeysOf, KeysBefore, KeysFrom, Renewing
    <3> QED
      BY <2>2, <3>3, <3>4
  <2> QED
    BY <2>1, <2>3, <2>4
<1>7. CASE LogoutFails
  <2>1. /\ leaving \in 1 .. 4 /\ stops < MaxStops /\ leaving' = 0 /\ stops' = stops + 1
        /\ UNCHANGED <<recognised, store, app, member, isRefreshing, call>>
    BY <1>7, FourKeys DEF LogoutFails
  <2>2. PhoneTypeOK'
    BY <1>m, <1>t, <2>1, FourKeys DEF PhoneTypeOK
  <2>3. OneRenews' /\ FromTheFirst'
    BY <1>t, <2>1 DEF OneRenews, FromTheFirst
  <2>4. PhoneCalmInv'
    BY <1>m, <1>t, <2>1 DEF PhoneCalmInv, OneCallAtATime, InOrder, NothingCut, OfOne, MemberKept,
         KeysOf, KeysBefore, KeysFrom, Renewing
  <2> QED
    BY <2>2, <2>3, <2>4
<1>8. CASE PhoneStops
  <2>1. /\ app.open /\ stops < MaxStops /\ app' = [open |-> FALSE, person |-> NoHolder]
        /\ leaving' = 0 /\ isRefreshing' = FALSE /\ stops' = stops + 1
        /\ call' = [h \in Handler |-> NoCall] /\ UNCHANGED <<recognised, store, member>>
    BY <1>8 DEF PhoneStops
  <2>2. PhoneTypeOK'
    <3>1. app' \in [open : BOOLEAN, person : Somebody]
      BY <1>s, <2>1
    <3>2. leaving' \in 0 .. Len(StoreKeys) + 1 /\ stops' \in 0 .. MaxStops
      BY <1>m, <2>1, FourKeys
    <3>3. call' \in [Handler -> CallRow]
      BY <2>1, NoCallTyped
    <3> QED
      BY <1>t, <2>1, <3>1, <3>2, <3>3 DEF PhoneTypeOK
  <2>3. OneRenews' /\ FromTheFirst'
    BY <1>t, <2>1, NoCallTyped DEF OneRenews, FromTheFirst, Renewing
  <2>4. ASSUME calm, stops = 0, store.details # NoHolder PROVE KeysOf({store.details, NoHolder})
    <3>0. InOrder /\ NothingCut /\ OfOne
      BY <1>t, <2>4 DEF PhoneCalmInv
    <3>1. CASE app.person # NoHolder
      BY <2>4, <3>0, <3>1 DEF OfOne, KeysOf
    <3>2. CASE app.person = NoHolder /\ \A h \in Handler : call[h].at # "keep"
      BY <2>4, <3>0, <3>2 DEF NothingCut, KeysOf
    <3>3. ASSUME NEW h \in Handler, call[h].at = "keep" PROVE KeysOf({store.details, NoHolder})
      <4>1. KeysBefore(call[h].key, {call[h].of}) /\ KeysFrom(call[h].key, {NoHolder})
          /\ call[h].key \in 0 .. 5
        BY <1>s, <2>4, <3>0, <3>3, CallRows DEF InOrder, NothingCut
      <4> QED
        BY <2>4, <4>1 DEF KeysBefore, KeysFrom, KeysOf
    <3> QED
      BY <3>1, <3>2, <3>3
  <2>5. PhoneCalmInv'
    BY <1>m, <1>t, <2>1, <2>4, NoCallTyped DEF PhoneCalmInv, OneCallAtATime, InOrder,
       NothingCut, OfOne, MemberKept,
         KeysOf, KeysBefore, KeysFrom, Renewing
  <2> QED
    BY <2>2, <2>3, <2>5
<1>9. CASE AppOpens
  <2>1. /\ ~app.open /\ UNCHANGED <<recognised, store, member, leaving, isRefreshing, call,
                                    stops>>
        /\ app'.open /\ app' \in [open : BOOLEAN, person : Somebody]
        /\ app'.person = IF store.token # NoKey
            /\ store.phone # NoHolder THEN store.details ELSE NoHolder
    BY <1>9, <1>s DEF AppOpens
  <2>2. PhoneTypeOK'
    BY <1>t, <2>1 DEF PhoneTypeOK
  <2>3. OneRenews' /\ FromTheFirst'
    BY <1>t, <2>1 DEF OneRenews, FromTheFirst
  <2>4. NoKey.of = NoHolder
    BY DEF NoKey
  <2>5. PhoneCalmInv'
    BY <1>m, <1>t, <2>1, <2>4 DEF PhoneCalmInv, OneCallAtATime, InOrder, NothingCut, OfOne,
       MemberKept,
         KeysOf, KeysBefore, KeysFrom, Renewing
  <2> QED
    BY <2>2, <2>3, <2>5
<1>10. ASSUME NEW h \in Handler, PhoneRequest(h)
       PROVE  PhoneTypeOK' /\ OneRenews' /\ FromTheFirst' /\ PhoneCalmInv'
  <2>0. PICK p \in Somebody, good \in BOOLEAN : p = store.token.of /\ good = store.token.good
    BY <1>s
  <2>1. PICK r : r = [NoCall EXCEPT !.at = "sent", !.of = p, !.good = good]
    OBVIOUS
  <2>2. r \in CallRow /\ r.at = "sent" /\ r.retry = FALSE
    BY <2>1, NewRequest
  <2>3. /\ call' = [call EXCEPT ![h] = r] /\ app.open /\ app.person # NoHolder
        /\ call[h].at = "idle"
        /\ calm => leaving = 0 /\ \A g \in Handler : call[g].at = "idle"
        /\ UNCHANGED <<recognised, store, app, member, leaving, isRefreshing, stops>>
    BY <1>10, <1>o, <2>0, <2>1 DEF PhoneRequest
  <2>4. OneRenews' /\ FromTheFirst' /\ call' \in [Handler -> CallRow] /\ call'[h] = r
        /\ \A g \in Handler \ {h} : call'[g] = call[g]
    BY <1>r, <2>2, <2>3 DEF Renewing
  <2>5. PhoneTypeOK'
    BY <1>t, <2>3, <2>4 DEF PhoneTypeOK
  <2>6. PhoneCalmInv'
    BY <1>t, <2>2, <2>3, <2>4 DEF PhoneCalmInv, OneCallAtATime, InOrder, NothingCut, OfOne,
       MemberKept,
         KeysOf, KeysBefore, KeysFrom, Renewing
  <2> QED
    BY <2>4, <2>5, <2>6
<1>11. ASSUME NEW h \in Handler, NEW r \in CallRow, call' = [call EXCEPT ![h] = r],
              UNCHANGED <<recognised, store, app, member, isRefreshing, stops>>,
              leaving' = leaving \/ (leaving = 0 /\ leaving' = 1),
              call[h].at \in {"login", "sent", "refused"}, r.at = "idle",
              leaving' = leaving \/ ~(calm /\ recognised /\ member # NoHolder)
       PROVE  PhoneTypeOK' /\ OneRenews' /\ FromTheFirst' /\ PhoneCalmInv'
  <2>4. OneRenews' /\ FromTheFirst' /\ call' \in [Handler -> CallRow] /\ call'[h] = r
        /\ \A g \in Handler \ {h} : call'[g] = call[g]
    BY <1>r, <1>11 DEF Renewing
  <2>5. PhoneTypeOK'
    BY <1>t, <1>11, <2>4, FourKeys DEF PhoneTypeOK
  <2>6. PhoneCalmInv'
    BY <1>s, <1>t, <1>11, <2>4 DEF PhoneCalmInv, OneCallAtATime, InOrder, NothingCut, OfOne,
       MemberKept,
         KeysOf, KeysBefore, KeysFrom, Renewing
  <2> QED
    BY <2>4, <2>5, <2>6
<1>12. ASSUME NEW h \in Handler, CallAnswered(h)
       PROVE  PhoneTypeOK' /\ OneRenews' /\ FromTheFirst' /\ PhoneCalmInv'
  <2>1. call[h].at = "sent" /\ UNCHANGED <<recognised, store, app, member, leaving, isRefreshing,
                                           stops>>
    BY <1>12 DEF CallAnswered
  <2>2. CASE call[h].good /\ recognised
    BY <1>11, <1>12, <2>1, <2>2, NoCallTyped DEF CallAnswered, Renewing
  <2>3. CASE ~(call[h].good /\ recognised)
    <3>0. PICK c \in CallRow : c = call[h]
      BY <1>s
    <3>1. PICK r : r = [c EXCEPT !.at = "refused"]
      OBVIOUS
    <3>2. r \in CallRow /\ r.at = "refused" /\ r.retry = c.retry
      BY <3>1, NextAt
    <3>3. call' = [call EXCEPT ![h] = r]
      BY <1>12, <1>t, <2>3, <3>0, <3>1 DEF CallAnswered, PhoneTypeOK
    <3>4. OneRenews' /\ FromTheFirst' /\ call' \in [Handler -> CallRow] /\ call'[h] = r
        /\ \A g \in Handler \ {h} : call'[g] = call[g]
      BY <1>r, <2>1, <3>2, <3>3 DEF Renewing
    <3>5. PhoneTypeOK'
      BY <1>t, <2>1, <3>4 DEF PhoneTypeOK
    <3>6. PhoneCalmInv'
      BY <1>t, <2>1, <2>3, <3>0, <3>2, <3>4 DEF PhoneCalmInv, OneCallAtATime, InOrder,
         NothingCut, OfOne, MemberKept,
         KeysOf, KeysBefore, KeysFrom, Renewing
    <3> QED
      BY <3>4, <3>5, <3>6
  <2> QED
    BY <2>2, <2>3
<1>13. ASSUME NEW h \in Handler, SessionGivenUp(h)
       PROVE  PhoneTypeOK' /\ OneRenews' /\ FromTheFirst' /\ PhoneCalmInv'
  <2>1. /\ call[h].at = "refused" /\ call[h].retry /\ call' = [call EXCEPT ![h] = NoCall]
        /\ leaving' = (IF leaving = 0 THEN 1 ELSE leaving)
        /\ UNCHANGED <<recognised, store, app, member, isRefreshing, stops>>
    BY <1>13 DEF SessionGivenUp
  <2>2. ~(calm /\ recognised /\ member # NoHolder)
    BY <1>t, <2>1 DEF PhoneCalmInv, MemberKept
  <2> QED
    BY <1>11, <2>1, <2>2, NoCallTyped DEF Renewing
<1>14. ASSUME NEW h \in Handler, WaitsForToken(h)
       PROVE  PhoneTypeOK' /\ OneRenews' /\ FromTheFirst' /\ PhoneCalmInv'
  <2>1. /\ call[h].at = "refused" /\ isRefreshing
        /\ UNCHANGED <<recognised, store, app, member, leaving, isRefreshing, stops>>
    BY <1>14 DEF WaitsForToken
  <2>0. PICK c \in CallRow : c = call[h]
    BY <1>s
  <2>2. PICK r : r = [c EXCEPT !.at = "queued"]
    OBVIOUS
  <2>3. r \in CallRow /\ r.at = "queued"
    BY <2>2, NextAt
  <2>4. call' = [call EXCEPT ![h] = r]
    BY <1>14, <1>t, <2>0, <2>2 DEF WaitsForToken, PhoneTypeOK
  <2>5. OneRenews' /\ FromTheFirst' /\ call' \in [Handler -> CallRow] /\ call'[h] = r
        /\ \A g \in Handler \ {h} : call'[g] = call[g]
    BY <1>r, <2>1, <2>3, <2>4 DEF Renewing
  <2>6. PhoneTypeOK'
    BY <1>t, <2>1, <2>5 DEF PhoneTypeOK
  <2>7. PhoneCalmInv'
    BY <1>t, <2>1, <2>3, <2>5 DEF PhoneCalmInv, OneCallAtATime, InOrder, NothingCut, OfOne,
       MemberKept,
         KeysOf, KeysBefore, KeysFrom, Renewing
  <2> QED
    BY <2>5, <2>6, <2>7
<1>15. ASSUME NEW h \in Handler, CallBreaks(h)
       PROVE  PhoneTypeOK' /\ OneRenews' /\ FromTheFirst' /\ PhoneCalmInv'
  <2>1. /\ call[h].at \in {"login", "sent"} /\ call' = [call EXCEPT ![h] = NoCall]
        /\ UNCHANGED <<recognised, store, app, member, leaving, isRefreshing, stops>>
    BY <1>15 DEF CallBreaks
  <2> QED
    BY <1>11, <2>1, NoCallTyped DEF Renewing
<1>16. CASE TokenExpires
  <2>1. /\ store' = [store EXCEPT !.token.good = FALSE]
        /\ UNCHANGED <<recognised, app, member, leaving, isRefreshing, call, stops>>
    BY <1>16 DEF TokenExpires
  <2>2. /\ store' \in [token : TokenKey, refresh : TokenKey, phone : Somebody, details : Somebody]
        /\ store'.token.of = store.token.of /\ store'.refresh.of = store.refresh.of
        /\ store'.phone = store.phone /\ store'.details = store.details
    <3>1. PICK key : key = [store.token EXCEPT !.good = FALSE]
      OBVIOUS
    <3>2. key \in TokenKey /\ key.of = store.token.of
      BY <1>s, <3>1 DEF TokenKey
    <3>3. store' = [store EXCEPT !.token = key]
      BY <1>t, <2>1, <3>1 DEF PhoneTypeOK
    <3> QED
      BY <1>t, <3>2, <3>3 DEF PhoneTypeOK
  <2>3. PhoneTypeOK'
    BY <1>t, <2>1, <2>2 DEF PhoneTypeOK
  <2>4. OneRenews' /\ FromTheFirst'
    BY <1>t, <2>1 DEF OneRenews, FromTheFirst
  <2>5. PhoneCalmInv'
    BY <1>t, <2>1, <2>2 DEF PhoneCalmInv, OneCallAtATime, InOrder, NothingCut, OfOne, MemberKept,
         KeysOf, KeysBefore, KeysFrom, Renewing
  <2> QED
    BY <2>3, <2>4, <2>5
<1>17. ASSUME NEW h \in Handler, TokenRenewed(h)
       PROVE  PhoneTypeOK' /\ OneRenews' /\ FromTheFirst' /\ PhoneCalmInv'
  <2>0. PICK p \in Somebody, q \in Somebody, good \in BOOLEAN :
            p = store.refresh.of /\ q = store.phone /\ good = store.refresh.good
    BY <1>s
  <2>1. PICK r : r = [at |-> "refresh", of |-> p, retry |-> TRUE, good |-> good, key |-> 0, number |-> q]
    OBVIOUS
  <2>2. r \in CallRow /\ r.at = "refresh" /\ r.of = p /\ r.number = q
    BY <2>1, NewCalls
  <2>3. /\ call[h].at = "refused" /\ isRefreshing = FALSE /\ isRefreshing' = TRUE
        /\ call' = [call EXCEPT ![h] = r]
        /\ UNCHANGED <<recognised, store, app, member, leaving, stops>>
    BY <1>17, <1>t, <2>0, <2>1 DEF TokenRenewed, PhoneTypeOK
  <2>4. call' \in [Handler -> CallRow] /\ call'[h] = r
      /\ \A g \in Handler \ {h} : call'[g] = call[g]
    BY <1>t, <2>2, <2>3 DEF PhoneTypeOK
  <2>5. OneRenews' /\ FromTheFirst'
    BY <1>t, <2>2, <2>3, <2>4 DEF OneRenews, FromTheFirst, Renewing
  <2>6. PhoneTypeOK'
    BY <1>t, <2>3, <2>4 DEF PhoneTypeOK
  <2>7. PhoneCalmInv'
    BY <1>t, <2>0, <2>2, <2>3, <2>4 DEF PhoneCalmInv, OneCallAtATime, InOrder, NothingCut,
       OfOne, MemberKept,
         KeysOf, KeysBefore, KeysFrom, Renewing
  <2> QED
    BY <2>5, <2>6, <2>7
\* A renewal goes on.
<1>18. ASSUME NEW h \in Handler, NEW r \in CallRow, call[h].at \in Renewing, r.at \in Renewing,
              call' = [call EXCEPT ![h] = r], UNCHANGED <<recognised, app, member, leaving,
                                                          isRefreshing, stops>>,
              r.of \in {call[h].of, call[h].number}, call[h].at # "refresh" => r.of = call[h].of,
                  r.at # "refresh",
              store' \in [token : TokenKey, refresh : TokenKey, phone : Somebody, details : Somebody],
              store'.token.of \in {store.token.of, r.of}, store'.refresh.of = store.refresh.of,
              store'.phone = store.phone, store'.details = store.details
       PROVE  PhoneTypeOK' /\ OneRenews' /\ FromTheFirst' /\ PhoneCalmInv'
  <2>1. call' \in [Handler -> CallRow] /\ call'[h] = r
      /\ \A g \in Handler \ {h} : call'[g] = call[g]
    BY <1>t, <1>18 DEF PhoneTypeOK
  <2>2. OneRenews' /\ FromTheFirst'
    BY <1>t, <1>18, <2>1 DEF OneRenews, FromTheFirst, Renewing
  <2>3. PhoneTypeOK'
    BY <1>t, <1>18, <2>1 DEF PhoneTypeOK
  <2>4. ASSUME calm PROVE OneCallAtATime' /\ InOrder' /\ NothingCut' /\ OfOne' /\ MemberKept'
    <3>0. OneCallAtATime /\ InOrder /\ NothingCut /\ OfOne /\ MemberKept
      BY <1>t, <2>4 DEF PhoneCalmInv
    <3>1. /\ leaving = 0 /\ app.open /\ call[h].at \notin {"idle", "login", "keep"}
          /\ \A g \in Handler \ {h} : call'[g].at = "idle" /\ call[g].at = "idle"
      BY <1>18, <2>1, <3>0 DEF OneCallAtATime, Renewing
    <3>2. OneCallAtATime' /\ InOrder'
      BY <1>18, <2>1, <3>1 DEF OneCallAtATime, InOrder, KeysBefore, Renewing
    <3>3. /\ stops <= 1 => /\ app.person # NoHolder /\ call[h].of \in {app.person, NoHolder}
                           /\ r.of \in {app.person, NoHolder} /\ KeysOf({app.person, NoHolder})
      BY <1>18, <3>0 DEF OfOne, Renewing
    <3>4. recognised /\ member # NoHolder => KeysOf({member}) /\ r.of = member
        /\ app.person = member
      BY <1>18, <3>0, <3>1 DEF MemberKept, Renewing
    <3>5. NothingCut' /\ OfOne'
      BY <1>m, <1>18, <2>1, <3>1, <3>3 DEF NothingCut, OfOne, KeysOf, Renewing
    <3>6. MemberKept'
      BY <1>18, <2>1, <3>1, <3>4 DEF MemberKept, KeysOf, Renewing
    <3> QED
      BY <3>2, <3>5, <3>6
  <2> QED
    BY <1>t, <2>2, <2>3, <2>4 DEF PhoneCalmInv
<1>19. ASSUME NEW h \in Handler, RefreshServed(h)
       PROVE  PhoneTypeOK' /\ OneRenews' /\ FromTheFirst' /\ PhoneCalmInv'
  <2>0. PICK c \in CallRow : c = call[h]
    BY <1>s
  <2>1. PICK p : p = IF c.good THEN c.of ELSE c.number
    OBVIOUS
  <2>2. p \in Somebody /\ p \in {c.of, c.number}
    BY <2>1, CallRows
  <2>3. PICK r : r = [c EXCEPT !.at = "rotated", !.of = p]
    OBVIOUS
  <2>4. r \in CallRow /\ r.at = "rotated" /\ r.of = p
    BY <2>2, <2>3, Rotated
  <2>5. call' = [call EXCEPT ![h] = r]
    <3>1. call' = [call EXCEPT ![h] = [c EXCEPT !.at = "rotated", !.of = IF c.good THEN @ ELSE c.number]]
      BY <1>19, <1>t, <2>0 DEF RefreshServed, PhoneTypeOK
    <3>2. [c EXCEPT !.at = "rotated", !.of = IF c.good THEN @ ELSE c.number] = r
      BY <2>1, <2>3 DEF CallRow
    <3> QED
      BY <3>1, <3>2
  <2>6. call[h].at = "refresh" /\ UNCHANGED <<recognised, app, member, leaving, isRefreshing,
                                              stops>>
    BY <1>19 DEF RefreshServed
  <2>7. /\ store' \in [token : TokenKey, refresh : TokenKey, phone : Somebody, details : Somebody]
        /\ store'.token.of = store.token.of /\ store'.refresh.of = store.refresh.of
        /\ store'.phone = store.phone /\ store'.details = store.details
    <3>1. PICK key : key = [store.refresh EXCEPT !.good = FALSE]
      OBVIOUS
    <3>2. key \in TokenKey /\ key.of = store.refresh.of
      BY <1>s, <3>1 DEF TokenKey
    <3>3. store' = [store EXCEPT !.refresh = key] \/ store' = store
      BY <1>19, <1>t, <3>1 DEF RefreshServed, PhoneTypeOK
    <3> QED
      BY <1>t, <3>2, <3>3 DEF PhoneTypeOK
  <2> QED
    BY <1>18, <2>0, <2>2, <2>4, <2>5, <2>6, <2>7 DEF Renewing
<1>20. ASSUME NEW h \in Handler, TokenStored(h)
       PROVE  PhoneTypeOK' /\ OneRenews' /\ FromTheFirst' /\ PhoneCalmInv'
  <2>0. PICK c \in CallRow : c = call[h]
    BY <1>s
  <2>1. PICK r : r = [c EXCEPT !.at = "rotate"]
    OBVIOUS
  <2>2. r \in CallRow /\ r.at = "rotate" /\ r.of = c.of
    BY <2>1, NextAt
  <2>3. call' = [call EXCEPT ![h] = r]
    BY <1>20, <1>t, <2>0, <2>1 DEF TokenStored, PhoneTypeOK
  <2>4. call[h].at = "rotated" /\ UNCHANGED <<recognised, app, member, leaving, isRefreshing,
                                              stops>>
    BY <1>20 DEF TokenStored
  <2>5. /\ store' \in [token : TokenKey, refresh : TokenKey, phone : Somebody, details : Somebody]
        /\ store'.token.of = c.of /\ store'.refresh.of = store.refresh.of
        /\ store'.phone = store.phone /\ store'.details = store.details
    <3>1. PICK key : key = [of |-> c.of, good |-> TRUE]
      OBVIOUS
    <3>2. key \in TokenKey /\ key.of = c.of
      BY <3>1, CallRows DEF TokenKey
    <3>3. store' = [store EXCEPT !.token = key]
      BY <1>20, <2>0, <3>1 DEF TokenStored
    <3> QED
      BY <1>t, <3>2, <3>3 DEF PhoneTypeOK
  <2> QED
    BY <1>18, <2>0, <2>2, <2>3, <2>4, <2>5 DEF Renewing
<1>21. ASSUME NEW h \in Handler, RefreshStored(h)
       PROVE  PhoneTypeOK' /\ OneRenews' /\ FromTheFirst' /\ PhoneCalmInv'
  <2>0. PICK p \in Somebody : p = call[h].of
    BY <1>s, CallRows
  <2>1. /\ call[h].at = "rotate" /\ isRefreshing' = FALSE
        /\ call' = [g \in Handler |-> IF g = h \/ call[g].at = "queued"
                                      THEN [call[g] EXCEPT !.at = "sent", !.of = p, !.good = TRUE] ELSE call[g]]
        /\ store' = [store EXCEPT !.refresh = [of |-> p, good |-> TRUE]]
        /\ UNCHANGED <<recognised, app, member, leaving, stops>>
    BY <1>21, <2>0 DEF RefreshStored
  <2>2. \A g \in Handler :
            /\ [call[g] EXCEPT !.at = "sent", !.of = p, !.good = TRUE] \in CallRow
            /\ [call[g] EXCEPT !.at = "sent", !.of = p, !.good = TRUE].at = "sent"
            /\ [call[g] EXCEPT !.at = "sent", !.of = p, !.good = TRUE].good = TRUE
    BY <1>s, SentAgain
  <2>3. /\ call' \in [Handler -> CallRow] /\ call'[h].at = "sent" /\ call'[h].good
        /\ \A g \in Handler : IF g = h
            \/ call[g].at = "queued" THEN call'[g].at = "sent" ELSE call'[g] = call[g]
    <3>1. \A g \in Handler : call'[g] \in CallRow
      BY <1>s, <2>1, <2>2
    <3>2. call' \in [Handler -> CallRow]
      BY <2>1, <3>1
    <3> QED
      BY <2>1, <2>2, <3>2
  <2>4. /\ store' \in [token : TokenKey, refresh : TokenKey, phone : Somebody, details : Somebody]
        /\ store'.token.of = store.token.of /\ store'.refresh.of = p
        /\ store'.phone = store.phone /\ store'.details = store.details
    <3>1. PICK key : key = [of |-> p, good |-> TRUE]
      OBVIOUS
    <3>2. key \in TokenKey /\ key.of = p
      BY <3>1 DEF TokenKey
    <3>3. store' = [store EXCEPT !.refresh = key]
      BY <2>1, <3>1
    <3> QED
      BY <1>t, <3>2, <3>3 DEF PhoneTypeOK
  <2>5. PhoneTypeOK'
    BY <1>t, <2>1, <2>3, <2>4 DEF PhoneTypeOK
  <2>6. OneRenews' /\ FromTheFirst'
    BY <1>t, <2>1, <2>3 DEF OneRenews, FromTheFirst, Renewing
  <2>7. ASSUME calm PROVE OneCallAtATime' /\ InOrder' /\ NothingCut' /\ OfOne' /\ MemberKept'
    <3>0. OneCallAtATime /\ InOrder /\ NothingCut /\ OfOne /\ MemberKept
      BY <1>t, <2>7 DEF PhoneCalmInv
    <3>1. /\ leaving = 0 /\ app.open /\ call[h].at \notin {"idle", "login", "keep"}
          /\ \A g \in Handler \ {h} : call'[g].at = "idle" /\ call[g].at = "idle"
      BY <2>1, <2>3, <3>0 DEF OneCallAtATime
    <3>2. OneCallAtATime' /\ InOrder'
      <4>1. /\ leaving' = 0 /\ app' = app
            /\ \A g \in Handler : call'[g].at \notin {"login", "keep"}
            /\ \A g \in Handler \ {h} : call'[g].at = "idle"
        BY <2>1, <2>3, <3>1
      <4> QED
        BY <3>1, <4>1 DEF OneCallAtATime, InOrder, KeysBefore
    <3>3. stops <= 1 => app.person # NoHolder /\ p \in {app.person, NoHolder}
        /\ KeysOf({app.person, NoHolder})
      BY <2>0, <2>1, <3>0 DEF OfOne, Renewing
    <3>4. recognised /\ member # NoHolder => KeysOf({member}) /\ p = member /\ app.person = member
      BY <2>0, <2>1, <3>0, <3>1 DEF MemberKept, Renewing
    <3>5. NothingCut' /\ OfOne'
      <4>1. \A g \in Handler : call'[g].at \notin {"keep", "refresh", "rotated", "rotate"}
        BY <2>3, <3>1
      <4>2. stops' = stops /\ app' = app
        BY <2>1
      <4>3. stops = 0 => stops <= 1
        OBVIOUS
      <4> QED
        BY <2>4, <3>1, <3>3, <4>1, <4>2, <4>3 DEF NothingCut, OfOne, KeysOf, Renewing
    <3>6. MemberKept'
      BY <2>1, <2>3, <2>4, <3>1, <3>4 DEF MemberKept, KeysOf, Renewing
    <3> QED
      BY <3>2, <3>5, <3>6
  <2> QED
    BY <1>t, <2>5, <2>6, <2>7 DEF PhoneCalmInv
<1>22. ASSUME NEW h \in Handler, RefreshFails(h)
       PROVE  PhoneTypeOK' /\ OneRenews' /\ FromTheFirst' /\ PhoneCalmInv'
  <2>1. /\ call[h].at \in {"refused", "refresh"} /\ (call[h].at = "refused" => ~isRefreshing)
        /\ isRefreshing' = FALSE /\ leaving' = (IF leaving = 0 THEN 1 ELSE leaving)
        /\ call' = [g \in Handler |-> IF g = h \/ call[g].at = "queued" THEN NoCall ELSE call[g]]
        /\ UNCHANGED <<recognised, store, app, member, stops>>
    BY <1>22 DEF RefreshFails
  <2>2. calm => call[h].at = "refused" /\ (store.refresh = NoKey \/ store.phone = NoHolder)
    BY <1>22 DEF RefreshFails, MayBreak
  <2>3. /\ call' \in [Handler -> CallRow] /\ call'[h].at = "idle"
        /\ \A g \in Handler : IF g = h
            \/ call[g].at = "queued" THEN call'[g].at = "idle" ELSE call'[g] = call[g]
    BY <1>s, <2>1, NoCallTyped
  <2>4. PhoneTypeOK'
    <3>1. leaving' \in 0 .. Len(StoreKeys) + 1
      BY <1>s, <2>1, FourKeys
    <3> QED
      BY <1>t, <2>1, <2>3, <3>1 DEF PhoneTypeOK
  <2>5. OneRenews' /\ FromTheFirst'
    BY <1>t, <2>1, <2>3 DEF OneRenews, FromTheFirst, Renewing
  <2>6. ASSUME calm PROVE OneCallAtATime' /\ InOrder' /\ NothingCut' /\ OfOne' /\ MemberKept'
    <3>0. OneCallAtATime /\ InOrder /\ NothingCut /\ OfOne /\ MemberKept
      BY <1>t, <2>6 DEF PhoneCalmInv
    <3>1. /\ leaving = 0 /\ app.open /\ leaving' = 1
          /\ \A g \in Handler : call'[g].at = "idle" /\ (g # h => call[g].at = "idle")
      BY <2>1, <2>3, <3>0 DEF OneCallAtATime
    <3>2. NoKey.of = NoHolder
      BY DEF NoKey
    <3>3. ~(recognised /\ member # NoHolder)
      BY <2>2, <2>6, <3>0, <3>2 DEF MemberKept, KeysOf
    <3>4. OneCallAtATime' /\ InOrder' /\ MemberKept'
      BY <2>1, <3>1, <3>3 DEF OneCallAtATime, InOrder, MemberKept, KeysBefore, Renewing
    <3>5. NothingCut' /\ OfOne'
      BY <2>1, <2>2, <2>6, <3>0, <3>1 DEF NothingCut, OfOne, KeysOf, Renewing
    <3> QED
      BY <3>4, <3>5
  <2> QED
    BY <1>t, <2>4, <2>5, <2>6 DEF PhoneCalmInv
<1> QED
  BY <1>1, <1>2, <1>3, <1>4, <1>5, <1>6, <1>7, <1>8, <1>9, <1>10, <1>12, <1>13, <1>14, <1>15,
     <1>16,
     <1>17, <1>19, <1>20, <1>21, <1>22 DEF PhoneNext

\* PhoneInv is inductive.
LEMMA PhoneStep == PhoneInv /\ [PhoneNext]_<<calm, phoneVars>> => PhoneInv'
<1>1. PhoneInv /\ UNCHANGED <<calm, phoneVars>> => PhoneInv'
  BY DEF phoneVars, PhoneInv, PhoneTypeOK, OneRenews, FromTheFirst, PhoneCalmInv,
     OneCallAtATime, InOrder,
     NothingCut, OfOne, MemberKept, KeysOf, KeysBefore, KeysFrom, Renewing
<1> QED
  BY <1>1, PhoneNextKeeps

\* However calls overlap and wherever the app stops, PhoneInv holds (the app's
\* useAuthStore and apiRequest).
THEOREM PhoneInvariance == PhoneSpec => []PhoneInv
  BY PhoneInitially, PhoneStep, PTL DEF PhoneSpec

\* For any employees and requests at a phone: the name shown is that of the token,
\* whoever is recognised stays signed in where requests do not overlap, and who waits for
\* a renewal is woken (authStore.ts, api.ts).
THEOREM PhoneStaysSound == PhoneSpec => []PhoneSound
  BY PhoneImplied, PhoneInvariance, PTL

-----------------------------------------------------------------------------
(*************************************************************************)
(* PINs.  The PIN that was issued last opens, for a hash that replaces   *)
(* it is written only for an account from before the hash, of what was   *)
(* sent and matched.                                                     *)
(*************************************************************************)

\* A request brings a PIN.  In a calm history it is the only one, and it writes a hash of
\* what was sent only for an account from before the hash.
PinKnown(h) ==
    LET e == pinOf[h].employee
    IN  /\ pinAt[h] = "migrate" => e \in legacy
        /\ pinAt[h] = "answer" /\ e \notin legacy => pinOf[h].valid = (pinOf[h].pin = issued[e])

\* Types, and without overlap the hash of the issued PIN.
PinInv ==
    /\ PinTypeOK
    /\ \A h \in Handler : pinAt[h] # "idle" => pinOf[h].pin \in Pin
    /\ calm =>
        /\ \A g, h \in Handler : pinAt[g] # "idle" /\ pinAt[h] # "idle" => g = h
        /\ \A e \in Employed \ legacy : pinHash[e] = issued[e]
        /\ \A h \in Handler : PinKnown(h)

\* It implies that the issued PIN opens.
LEMMA PinImplied == PinInv => IssuedPinOpens
  BY DEF PinInv, IssuedPinOpens, PinKnown

\* No request changes what kind of history it is.
LEMMA PinCalm == PinNext => calm' = calm
  BY DEF PinNext, PinsReissued, PinsHashedInPlace, EmployeeFound, Migrated, LoginAnswered,
     PinWritten, PinBreaks, EmployeeLogin, ResetMobilePin, PinTake

\* PinInv holds of accounts as they are.
LEMMA PinInitially == CalmInit /\ PinInit => PinInv
  BY PinAssumption DEF PinInit, PinInv, PinTypeOK, PinKnown, NoAttempt, Pin, NoPin, Hashed

\* PinInv is inductive.
LEMMA PinStep == PinInv /\ [PinNext]_<<calm, pinVars>> => PinInv'
<1> SUFFICES ASSUME PinInv, [PinNext]_<<calm, pinVars>> PROVE PinInv'
  OBVIOUS
<1>0. NoAttempt \in [employee : Employed, pin : Pin \cup {NoPin}, valid : BOOLEAN]
  BY PinAssumption DEF NoAttempt
<1>00. 0 \notin Pin
  BY DEF Pin
<1> USE DEF PinInv, PinTypeOK, PinKnown, PinGo, NoPin
<1>1. ASSUME NEW h \in Handler, NEW e \in Employed, NEW pin \in Pin,
             EmployeeLogin(h, e, pin) \/ ResetMobilePin(h, e, pin)
      PROVE  PinInv'
  <2> DEFINE t == [employee |-> e, pin |-> pin, valid |-> FALSE]
  <2>1. /\ pinOf' = [pinOf EXCEPT ![h] = t] /\ UNCHANGED <<issued, ussdPin, pinHash, legacy,
                                                           calm>>
        /\ pinAt' = [pinAt EXCEPT ![h] = "find"] \/ pinAt' = [pinAt EXCEPT ![h] = "reset"]
        /\ pinAt[h] = "idle" /\ (calm => \A g \in Handler : pinAt[g] = "idle")
    BY <1>1 DEF EmployeeLogin, ResetMobilePin, PinTake, MayTake
  <2>2. t \in [employee : Employed, pin : Pin \cup {NoPin}, valid : BOOLEAN] /\ t.pin \in Pin
    OBVIOUS
  <2> HIDE DEF t
  <2>3. PinTypeOK' /\ \A g \in Handler : pinAt'[g] # "idle" => pinOf'[g].pin \in Pin
    BY <2>1, <2>2
  <2> QED
    BY <2>1, <2>3
<1>2. ASSUME NEW h \in Handler, EmployeeFound(h) PROVE PinInv'
  <2> DEFINE e == pinOf[h].employee
  <2>0. e \in Employed /\ pinAt[h] = "find" /\ pinOf[h].pin \in Pin
    BY <1>2 DEF EmployeeFound
  <2>1. UNCHANGED <<issued, ussdPin, pinHash, legacy, calm>>
    BY <1>2 DEF EmployeeFound
  <2>2. PICK v \in BOOLEAN, next \in {"answer", "migrate"} :
            /\ pinOf' = [pinOf EXCEPT ![h].valid = v] /\ pinAt' = [pinAt EXCEPT ![h] = next]
            /\ next = "migrate" => pinHash[e] = 0
            /\ next = "answer" => pinHash[e] = 0 \/ v = (pinHash[e] = pinOf[h].pin)
    <3>1. CASE pinHash[e] # 0
      <4>1. (pinHash[e] = pinOf[h].pin) \in BOOLEAN
        OBVIOUS
      <4> QED
        BY <1>2, <3>1, <4>1 DEF EmployeeFound
    <3>2. CASE pinHash[e] = 0 /\ ussdPin[e] # 0
      <4>1. (ussdPin[e] = pinOf[h].pin) \in BOOLEAN
        OBVIOUS
      <4> QED
        BY <1>2, <3>2, <4>1 DEF EmployeeFound
    <3>3. CASE pinHash[e] = 0 /\ ussdPin[e] = 0
      <4>1. pinOf' = pinOf /\ pinAt' = [pinAt EXCEPT ![h] = "answer"]
        BY <1>2, <3>3 DEF EmployeeFound
      <4>2. pinOf[h].valid \in BOOLEAN /\ pinOf' = [pinOf EXCEPT ![h].valid = pinOf[h].valid]
        BY <4>1
      <4> QED
        BY <3>3, <4>1, <4>2
    <3> QED
      BY <3>1, <3>2, <3>3
  <2>3. \A g \in Handler : /\ pinOf'[g].employee = pinOf[g].employee
                           /\ pinOf'[g].pin = pinOf[g].pin
                           /\ pinOf'[g].valid = IF g = h THEN v ELSE pinOf[g].valid
    BY <2>2
  <2>4. \A g \in Handler : pinAt'[g] = IF g = h THEN next ELSE pinAt[g]
    BY <2>2
  <2>5. PinTypeOK'
    BY <2>1, <2>2
  <2>6. \A g \in Handler : pinAt'[g] # "idle" => pinOf'[g].pin \in Pin
    BY <2>0, <2>3, <2>4
  <2>7. ASSUME calm PROVE PinKnown(h)'
    <3>1. e \notin legacy => pinHash[e] = issued[e] /\ pinHash[e] # 0
      BY <1>00, <2>0, <2>7
    <3> QED
      BY <2>0, <2>1, <2>2, <2>3, <2>4, <3>1
  <2> QED
    BY <2>0, <2>1, <2>3, <2>4, <2>5, <2>6, <2>7
<1>3. ASSUME NEW h \in Handler, Migrated(h) PROVE PinInv'
  BY <1>3 DEF Migrated
<1>4. ASSUME NEW h \in Handler, LoginAnswered(h) PROVE PinInv'
  BY <1>0, <1>4 DEF LoginAnswered, PinEnds
<1>5. ASSUME NEW h \in Handler, PinWritten(h) PROVE PinInv'
  BY <1>0, <1>5 DEF PinWritten, PinEnds
<1>6. ASSUME NEW h \in Handler, PinBreaks(h) PROVE PinInv'
  BY <1>0, <1>6 DEF PinBreaks, PinEnds, MayBreak
<1>7. CASE PinsReissued
  BY <1>7 DEF PinsReissued
<1>8. CASE PinsHashedInPlace
  BY <1>8 DEF PinsHashedInPlace
<1>9. CASE UNCHANGED <<calm, pinVars>>
  BY <1>9 DEF pinVars
<1> QED
  BY <1>1, <1>2, <1>3, <1>4, <1>5, <1>6, <1>7, <1>8, <1>9 DEF PinNext

\* However PINs are checked, issued and set, PinInv holds (AuthService, EmployeeService,
\* rehash-legacy-pins).
THEOREM PinInvariance == PinSpec => []PinInv
  BY PinInitially, PinStep, PTL DEF PinSpec

\* For any employees: where requests do not overlap, the PIN issued last opens and no
\* other (AuthService.employeeLogin).
THEOREM IssuedPinsOpen == PinSpec => []IssuedPinOpens
  BY PinImplied, PinInvariance, PTL

-----------------------------------------------------------------------------
(*************************************************************************)
(* The lifecycle guard.  What it remembers, or has read and not stored   *)
(* yet, the tenant has had: an entry ends no later than its life and the *)
(* longest read after that, and a read has not seen more than the tenant *)
(* had when it was read.                                                 *)
(*************************************************************************)

\* The status is known to have been had, and so is what was read of it and when.
ReadsHad ==
    /\ standing \in DOMAIN lastHad /\ lastHad[standing] = instant
    /\ \A s \in DOMAIN lastHad : lastHad[s] <= instant
    /\ \A h \in Handler : ask[h].at = "read" =>
        /\ ask[h].status \in DOMAIN lastHad
        /\ ask[h].since <= lastHad[ask[h].status]

\* An entry that has not ended yet is not older than it may be.
EntryFresh ==
    remembered.expires > instant =>
        /\ remembered.status \in DOMAIN lastHad
        /\ remembered.expires <= lastHad[remembered.status] + EntryLife + longest

\* Types, what has been read, what is remembered, and what was said.
GuardInv == GuardTypeOK /\ ReadsHad /\ EntryFresh /\ GuardLag

\* GuardInv holds before the first request.
LEMMA GuardInitially == CalmInit /\ GuardInit => GuardInv
  BY GuardAssumption DEF GuardInit, GuardInv, GuardTypeOK, ReadsHad, EntryFresh, GuardLag,
     NotRemembered, NoAsk, NoVerdict, Standing, GuardWay

\* No request changes what kind of history it is.
LEMMA GuardCalm == GuardNext => calm' = calm
  BY DEF GuardNext, Restate, Later, Remembered, LookUp, RowRead, Remember, LookUpFails

\* A status is noted at an instant that has come, and no other is forgotten.
LEMMA Noted ==
  ASSUME GuardTypeOK, NEW s \in Standing, NEW t \in 0 .. LastInstant, Note(s, t),
         \A x \in DOMAIN lastHad : lastHad[x] <= t
  PROVE  /\ DOMAIN lastHad' = DOMAIN lastHad \cup {s} /\ lastHad'[s] = t
         /\ \A x \in DOMAIN lastHad : lastHad[x] <= lastHad'[x]
         /\ DOMAIN lastHad' \subseteq Standing
         /\ \A x \in DOMAIN lastHad' : lastHad'[x] \in 0 .. LastInstant /\ lastHad'[x] <= t
  BY GuardAssumption DEF GuardTypeOK, Note

\* What a decision by a status says is one that GuardLag allows, if the tenant has had
\* that status not too long ago.
LEMMA Ruled ==
  ASSUME NEW s \in DOMAIN lastHad, instant < lastHad[s] + EntryLife + longest',
         DecideBy(s), UNCHANGED <<instant, lastHad>>
  PROVE  GuardLag' /\ verdict' \in [way : GuardWay \cup {"none"}, admitted : BOOLEAN]
<1>1. PICK way \in GuardWay : verdict' = [way |-> way, admitted |-> Opens(s, way)]
  BY DEF DecideBy
<1>2. Opens(s, way) \in BOOLEAN
  BY DEF Opens
<1>3. verdict'.way = way /\ verdict'.admitted = Opens(s, way)
  BY <1>1
<1>4. GuardLag'
  BY <1>3 DEF GuardLag, Opens
<1> QED
  BY <1>1, <1>2, <1>4

\* GuardInv is inductive.
LEMMA GuardStep == GuardInv /\ [GuardNext]_<<guardVars, calm>> => GuardInv'
<1> SUFFICES ASSUME GuardInv, [GuardNext]_<<guardVars, calm>> PROVE GuardInv'
  OBVIOUS
<1>t. GuardTypeOK /\ ReadsHad /\ EntryFresh /\ GuardLag
  BY DEF GuardInv
<1>n. /\ EntryLife \in Nat \ {0} /\ LastInstant \in Nat /\ instant \in Nat /\ longest \in Nat
      /\ remembered.expires \in Nat
      /\ \A s \in DOMAIN lastHad : lastHad[s] \in Nat /\ lastHad[s] <= instant
      /\ DOMAIN lastHad \subseteq Standing
  BY <1>t, GuardAssumption DEF GuardTypeOK, ReadsHad
<1>1. CASE Restate
  <2>1. /\ standing' \in Standing /\ Note(standing', instant)
        /\ UNCHANGED <<instant, remembered, ask, verdict, longest, calm>>
    BY <1>1 DEF Restate
  <2>2. PICK s \in Standing : s = standing'
    BY <2>1
  <2>3. /\ DOMAIN lastHad' = DOMAIN lastHad \cup {s} /\ lastHad'[s] = instant
        /\ \A x \in DOMAIN lastHad : lastHad[x] <= lastHad'[x]
        /\ DOMAIN lastHad' \subseteq Standing
        /\ \A x \in DOMAIN lastHad' : lastHad'[x] \in 0 .. LastInstant /\ lastHad'[x] <= instant
    BY <1>n, <1>t, <2>1, <2>2, Noted DEF GuardTypeOK
  <2>4. GuardTypeOK'
    BY <1>t, <2>1, <2>3 DEF GuardTypeOK
  <2>5. ReadsHad'
    <3>1. ASSUME NEW h \in Handler, ask[h].at = "read"
          PROVE  ask[h].status \in DOMAIN lastHad' /\ ask[h].since <= lastHad'[ask[h].status]
      <4>1. /\ ask[h].status \in DOMAIN lastHad /\ ask[h].since <= lastHad[ask[h].status]
            /\ ask[h].since \in Nat
        BY <1>t, <3>1 DEF ReadsHad, GuardTypeOK
      <4> QED
        BY <1>n, <2>3, <4>1
    <3> QED
      BY <2>1, <2>2, <2>3, <3>1 DEF ReadsHad
  <2>6. EntryFresh'
    BY <1>n, <1>t, <2>1, <2>3 DEF EntryFresh
  <2>7. GuardLag'
    BY <1>n, <1>t, <2>1, <2>3 DEF GuardLag, Opens
  <2> QED
    BY <2>4, <2>5, <2>6, <2>7 DEF GuardInv
<1>2. CASE Later
  <2>1. /\ instant < LastInstant /\ instant' = instant + 1 /\ Note(standing, instant + 1)
        /\ verdict' = NoVerdict
        /\ UNCHANGED <<standing, remembered, ask, longest, calm>>
    BY <1>2 DEF Later
  <2>2. instant + 1 \in 0 .. LastInstant /\ standing \in Standing
    BY <1>n, <1>t, <2>1 DEF GuardTypeOK
  <2>3. /\ DOMAIN lastHad' = DOMAIN lastHad \cup {standing} /\ lastHad'[standing] = instant + 1
        /\ \A x \in DOMAIN lastHad : lastHad[x] <= lastHad'[x]
        /\ DOMAIN lastHad' \subseteq Standing
        /\ \A x \in DOMAIN lastHad' :
             lastHad'[x] \in 0 .. LastInstant /\ lastHad'[x] <= instant + 1
    <3>1. \A x \in DOMAIN lastHad : lastHad[x] <= instant + 1
      BY <1>n
    <3> QED
      BY <1>t, <2>1, <2>2, <3>1, Noted
  <2>4. GuardTypeOK'
    BY <1>t, <2>1, <2>2, <2>3 DEF GuardTypeOK, NoVerdict
  <2>5. ReadsHad'
    <3>1. ASSUME NEW h \in Handler, ask[h].at = "read"
          PROVE  ask[h].status \in DOMAIN lastHad' /\ ask[h].since <= lastHad'[ask[h].status]
      <4>1. /\ ask[h].status \in DOMAIN lastHad /\ ask[h].since <= lastHad[ask[h].status]
            /\ ask[h].since \in Nat
        BY <1>t, <3>1 DEF ReadsHad, GuardTypeOK
      <4> QED
        BY <1>n, <2>3, <4>1
    <3> QED
      BY <2>1, <2>3, <3>1 DEF ReadsHad
  <2>6. EntryFresh'
    BY <1>n, <1>t, <2>1, <2>3 DEF EntryFresh
  <2>7. GuardLag'
    BY <2>1 DEF GuardLag, NoVerdict
  <2> QED
    BY <2>4, <2>5, <2>6, <2>7 DEF GuardInv
<1>3. ASSUME NEW h \in Handler, Remembered(h) PROVE GuardInv'
  <2>1. /\ remembered.expires > instant /\ DecideBy(remembered.status)
        /\ UNCHANGED <<instant, standing, remembered, ask, lastHad, longest, calm>>
    BY <1>3 DEF Remembered
  <2>2. PICK s \in DOMAIN lastHad : s = remembered.status
    BY <1>t, <2>1 DEF EntryFresh
  <2>3. instant < lastHad[s] + EntryLife + longest
    BY <1>n, <1>t, <2>1, <2>2 DEF EntryFresh
  <2>4. GuardLag' /\ verdict' \in [way : GuardWay \cup {"none"}, admitted : BOOLEAN]
    BY <2>1, <2>2, <2>3, Ruled
  <2> QED
    BY <1>t, <2>1, <2>4 DEF GuardInv, GuardTypeOK, ReadsHad, EntryFresh
<1>4. ASSUME NEW h \in Handler, LookUp(h) PROVE GuardInv'
  <2>1. /\ ask' = [ask EXCEPT ![h].at = "asked"]
        /\ UNCHANGED <<instant, standing, remembered, verdict, lastHad, longest, calm>>
    BY <1>4 DEF LookUp
  <2>2. GuardTypeOK'
    BY <1>t, <2>1 DEF GuardTypeOK
  <2>3. \A g \in Handler : ask'[g].at = "read" => ask'[g] = ask[g]
    BY <1>t, <2>1 DEF GuardTypeOK
  <2> QED
    BY <1>t, <2>1, <2>2, <2>3 DEF GuardInv, ReadsHad, EntryFresh, GuardLag
<1>5. ASSUME NEW h \in Handler, RowRead(h) PROVE GuardInv'
  <2>1. /\ ask' = [ask EXCEPT ![h] = [at |-> "read", status |-> standing, since |-> instant]]
        /\ UNCHANGED <<instant, standing, remembered, verdict, lastHad, longest, calm>>
    BY <1>5 DEF RowRead
  <2>2. GuardTypeOK'
    BY <1>t, <2>1 DEF GuardTypeOK
  <2>3. /\ ask'[h].status = standing /\ ask'[h].since = instant
        /\ \A g \in Handler \ {h} : ask'[g] = ask[g]
    BY <1>t, <2>1 DEF GuardTypeOK
  <2>4. ReadsHad'
    BY <1>n, <1>t, <2>1, <2>3 DEF ReadsHad
  <2> QED
    BY <1>t, <2>1, <2>2, <2>4 DEF GuardInv, EntryFresh, GuardLag
<1>6. ASSUME NEW h \in Handler, Remember(h) PROVE GuardInv'
  <2>1. PICK s \in DOMAIN lastHad, since \in 0 .. LastInstant :
          /\ ask[h].at = "read" /\ s = ask[h].status /\ since = ask[h].since
          /\ since <= lastHad[s]
    BY <1>6, <1>t DEF Remember, ReadsHad, GuardTypeOK
  <2>2. /\ remembered' = [status |-> s, expires |-> instant + EntryLife]
        /\ longest' = IF instant - since > longest THEN instant - since ELSE longest
        /\ DecideBy(s) /\ ask' = [ask EXCEPT ![h] = NoAsk]
        /\ UNCHANGED <<instant, standing, lastHad, calm>>
    BY <1>6, <2>1 DEF Remember
  <2>3. /\ since <= instant /\ lastHad[s] \in Nat /\ s \in Standing
        /\ longest' \in 0 .. LastInstant
        /\ longest <= longest' /\ instant <= lastHad[s] + longest'
    <3>1. since <= instant /\ lastHad[s] \in Nat /\ s \in Standing
      BY <1>n, <2>1
    <3>2. longest \in 0 .. LastInstant /\ instant \in 0 .. LastInstant
      BY <1>t DEF GuardTypeOK
    <3> QED
      BY <1>n, <2>1, <2>2, <3>1, <3>2
  <2>4. GuardLag' /\ verdict' \in [way : GuardWay \cup {"none"}, admitted : BOOLEAN]
    <3>1. instant < lastHad[s] + EntryLife + longest'
      BY <1>n, <2>3
    <3> QED
      BY <2>2, <3>1, Ruled
  <2>5. GuardTypeOK'
    <3>1. remembered' \in [status : Standing \cup {"none"}, expires : Nat]
      BY <1>n, <2>2, <2>3
    <3>2. ask' \in [Handler -> [at : {"idle", "asked", "read"}, status : Standing \cup {"none"},
                                since : 0 .. LastInstant]]
      BY <1>n, <1>t, <2>2 DEF GuardTypeOK, NoAsk
    <3> QED
      BY <1>t, <2>2, <2>3, <2>4, <3>1, <3>2 DEF GuardTypeOK
  <2>6. ReadsHad'
    <3>1. \A g \in Handler : ask'[g].at = "read" => ask'[g] = ask[g]
      BY <1>t, <2>2 DEF GuardTypeOK, NoAsk
    <3> QED
      BY <1>t, <2>2, <3>1 DEF ReadsHad
  <2>7. EntryFresh'
    <3>1. remembered'.status = s /\ remembered'.expires = instant + EntryLife
      BY <2>2
    <3> QED
      BY <1>n, <2>2, <2>3, <3>1 DEF EntryFresh
  <2> QED
    BY <2>4, <2>5, <2>6, <2>7 DEF GuardInv
<1>7. ASSUME NEW h \in Handler, LookUpFails(h) PROVE GuardInv'
  <2>1. /\ ask' = [ask EXCEPT ![h] = NoAsk]
        /\ UNCHANGED <<instant, standing, remembered, verdict, lastHad, longest, calm>>
    BY <1>7 DEF LookUpFails
  <2>2. GuardTypeOK' /\ \A g \in Handler : ask'[g].at = "read" => ask'[g] = ask[g]
    BY <1>n, <1>t, <2>1 DEF GuardTypeOK, NoAsk
  <2> QED
    BY <1>t, <2>1, <2>2 DEF GuardInv, ReadsHad, EntryFresh, GuardLag
<1>8. CASE UNCHANGED <<guardVars, calm>>
  BY <1>t, <1>8 DEF guardVars, GuardInv, GuardTypeOK, ReadsHad, EntryFresh, GuardLag
<1> QED
  BY <1>1, <1>2, <1>3, <1>4, <1>5, <1>6, <1>7, <1>8 DEF GuardNext

\* However requests are admitted and the status changes, GuardInv holds
\* (TenantLifecycleGuard).
THEOREM GuardInvariance == GuardSpec => []GuardInv
  BY GuardInitially, GuardStep, PTL DEF GuardSpec

\* For any number of requests, any life of an entry and any reads: what the guard says is
\* what a status says that the tenant had less than a life and the longest read ago
\* (TenantLifecycleGuard.canActivate).
THEOREM GuardIsCurrent == GuardSpec => []GuardLag
<1>1. GuardInv => GuardLag
  BY DEF GuardInv
<1> QED
  BY <1>1, GuardInvariance, PTL

=============================================================================

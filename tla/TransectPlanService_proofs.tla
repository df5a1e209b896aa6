--------------------- MODULE TransectPlanService_proofs ---------------------
(* Theorems about TransectPlanService, for every value of its constants.    *)
(* Those about edits and locks suppose that clients send versions they were *)
(* shown (KnownVersions).                                                   *)
EXTENDS TransectPlanService, TLAPS

-----------------------------------------------------------------------------
(* Types *)

Drawings == CreateRequest
Changes == UpdateRequest \cup LockRequest

\* The request of a busy slot is of the kind that its handler serves.
RequestKinds ==
    \A s \in Slot :
        /\ pc[s] = "generate.get_area" => request[s] \in GenerateRequest
        /\ pc[s] \in {"get_area", "insert", "get_created"} => request[s] \in Drawings
        /\ pc[s] = "get" => request[s] \in Changes \cup CopyRequest
        /\ pc[s] = "update" => request[s] \in UpdateRequest
        /\ pc[s] = "lock" => request[s] \in LockRequest
        /\ pc[s] = "insert_copy" => request[s] \in CopyRequest
        /\ pc[s] = "get_updated" => request[s] \in Changes
        /\ pc[s] = "audit" => request[s] \in Drawings \cup Changes \cup CopyRequest

\* A slot past its read or its insert works on a row of the table; before
\* its read it asks for an id.
SubjectExists ==
    \A s \in Slot :
        /\ pc[s] = "get" => subject[s] \in PlanId
        /\ pc[s] \in {"update", "lock", "insert_copy", "get_updated", "audit"} =>
               subject[s] \in DOMAIN plans

\* The rows that a slot holds are there when it uses them.
RowsHeld ==
    \A s \in Slot :
        /\ pc[s] \in {"update", "lock", "insert_copy", "get_updated"} => before[s] \in Row
        /\ pc[s] = "audit" => /\ after[s] \in Row
                              /\ request[s] \notin Drawings => before[s] \in Row

Typed == TypeOK /\ RequestKinds /\ SubjectExists /\ RowsHeld

\* The tables that seed leaves: at most one plan, locked at version 1.
LEMMA SeededPlans ==
    ASSUME Init
    PROVE  /\ areas \in [Area -> AreaRow \cup {NoArea}]
           /\ DOMAIN plans \subseteq PlanId
           /\ \A id \in DOMAIN plans : /\ plans[id] \in Row
                                      /\ plans[id].version = 1
                                      /\ plans[id].state = "locked"
  <1>1. \A area \in Area : SeedPlan(area) \in Row
    BY SeedAssumption DEF SeedPlan, Row, PlanStates
  <1>2. [status |-> "active", boundary |-> SeedBoundary] \in AreaRow
    BY SeedAssumption DEF AreaRow, AreaStates
  <1>3. areas \in [Area -> AreaRow \cup {NoArea}]
    BY <1>2 DEF Init, SeededTables
  <1>4. \/ plans = [id \in {} |-> NoRow]
        \/ \E area \in Area, seeded \in PlanId : plans = [id \in {seeded} |-> SeedPlan(area)]
    BY DEF Init, SeededTables
  <1>5. CASE plans = [id \in {} |-> NoRow]
    BY <1>3, <1>5
  <1>6. ASSUME NEW area \in Area, NEW seeded \in PlanId,
               plans = [id \in {seeded} |-> SeedPlan(area)]
        PROVE  /\ DOMAIN plans \subseteq PlanId
               /\ \A id \in DOMAIN plans : /\ plans[id] \in Row
                                          /\ plans[id].version = 1
                                          /\ plans[id].state = "locked"
    BY <1>1, <1>6 DEF SeedPlan
  <1> QED
    BY <1>3, <1>4, <1>5, <1>6

LEMMA InitTyped == Init => Typed
  <1> SUFFICES ASSUME Init PROVE Typed
    OBVIOUS
  <1>1. lost \subseteq PlanId \X Nat /\ DOMAIN first = DOMAIN plans
    BY SeededPlans DEF Init, Row
  <1> QED
    BY <1>1, SeededPlans DEF Init, Typed, TypeOK, RequestKinds, SubjectExists, RowsHeld, Calls,
       Replies

\* The field op tells the requests apart.
LEMMA RequestOps ==
    /\ \A r \in CreateRequest : r.op = "create"
    /\ \A r \in UpdateRequest : r.op = "update"
    /\ \A r \in LockRequest : r.op = "lock"
    /\ \A r \in CopyRequest : r.op = "copy"
  BY DEF CreateRequest, UpdateRequest, LockRequest, CopyRequest

\* A new plan and a copy that fits are rows.
LEMMA NewPlanType == ASSUME NEW create \in CreateRequest PROVE NewPlan(create) \in Row
  BY DEF NewPlan, Row, CreateRequest, PlanStates

LEMMA CopyType ==
    ASSUME NEW s \in Slot, before[s] \in Row, ~CopyTooLong(s)
    PROVE  CopyOf(before[s]) \in Row
  <1>1. before[s].name \in NameLength
    BY DEF Row
  <1>2. before[s].name \in Nat /\ before[s].name + CopySuffix \in Nat
    <2>1. before[s].name \in Nat
      BY <1>1, LinesAssumption
    <2> QED
      BY <2>1 DEF CopySuffix
  <1>3. before[s].name + CopySuffix \in NameLength
    <2>1. MaxName \in Nat
      BY LinesAssumption
    <2>2. before[s].name + CopySuffix <= MaxName
      BY <1>2, <2>1 DEF CopyTooLong
    <2> QED
      BY <1>1, <2>2, LinesAssumption
  <1> QED
    BY <1>3 DEF CopyOf, Row, PlanStates

\* A successful INSERT adds one row and leaves the others alone.
LEMMA InsertEffect ==
    ASSUME Typed, NEW s \in Slot, NEW id \in PlanId, NEW row \in Row, InsertRow(s, id, row)
    PROVE  /\ id \notin DOMAIN plans
           /\ DOMAIN plans' = DOMAIN plans \cup {id}
           /\ \A i \in DOMAIN plans : plans'[i] = plans[i]
           /\ plans'[id] = row
           /\ DOMAIN plans' \subseteq PlanId
           /\ \A i \in DOMAIN plans' : plans'[i] \in Row
           /\ DOMAIN first' = DOMAIN plans'
           /\ subject'[s] = id
           /\ \A t \in Slot \ {s} : subject'[t] = subject[t]
           /\ subject' \in [Slot -> PlanId \cup {NoPlan}]
  BY DEF InsertRow, Typed, TypeOK

\* The two kinds of updates write rows.
LEMMA UpdateEffect ==
    ASSUME Typed, NEW s \in Slot,
           \/ pc[s] = "update" /\ UpdatePlan(s)
           \/ pc[s] = "lock" /\ LockPlan(s)
    PROVE  /\ subject[s] \in DOMAIN plans
           /\ plans[subject[s]].version = request[s].expected
           /\ \E row \in Row :
                  /\ plans' = [plans EXCEPT ![subject[s]] = row]
                  /\ row.area = plans[subject[s]].area
                  /\ row.version = plans[subject[s]].version + 1
                  /\ pc[s] = "lock" => row.state = "locked" /\ plans[subject[s]].state = "draft"
  <1>1. subject[s] \in DOMAIN plans /\ plans[subject[s]] \in Row
    BY DEF Typed, TypeOK, SubjectExists
  <1>2. CASE pc[s] = "update" /\ UpdatePlan(s)
    <2>1. request[s] \in UpdateRequest
      BY <1>2 DEF Typed, RequestKinds
    <2>2. Edited(s) \in Row
      BY <1>1, <2>1 DEF Edited, Row, UpdateRequest
    <2> QED
      BY <1>1, <1>2, <2>2 DEF UpdatePlan, UpdateMatches, Edited
  <1>3. CASE pc[s] = "lock" /\ LockPlan(s)
    <2>1. Locked(plans[subject[s]]) \in Row
      BY <1>1 DEF Locked, Row, PlanStates
    <2> QED
      BY <1>1, <1>3, <2>1 DEF LockPlan, LockMatches, Locked
  <1> QED
    BY <1>2, <1>3

\* After such an update the table has the same ids and holds rows.
LEMMA UpdateKeepsTable ==
    ASSUME Typed, NEW s \in Slot,
           \/ pc[s] = "update" /\ UpdatePlan(s)
           \/ pc[s] = "lock" /\ LockPlan(s)
    PROVE  DOMAIN plans' = DOMAIN plans /\ \A id \in DOMAIN plans' : plans'[id] \in Row
  <1>1. PICK row \in Row : plans' = [plans EXCEPT ![subject[s]] = row]
    BY UpdateEffect
  <1> QED
    BY <1>1 DEF Typed, TypeOK

-----------------------------------------------------------------------------
(* Every action keeps the types. *)

LEMMA SubmitTyped ==
    ASSUME Typed, NEW s \in Slot, Submit(s)
    PROVE  Typed'
  <1>1. ASSUME NEW drawing \in CreateInput, SubmitDrawn(s, drawing, "get_area")
        PROVE  Typed'
    BY <1>1, InputsAssumption DEF SubmitDrawn, Proceed, Typed, TypeOK, RequestKinds,
       SubjectExists, RowsHeld, Calls, Drawings, tables, history
  <1>2. ASSUME NEW drawing \in GenerateInput, SubmitDrawn(s, drawing, "generate.get_area")
        PROVE  Typed'
    BY <1>2, InputsAssumption DEF SubmitDrawn, Proceed, Typed, TypeOK, RequestKinds,
       SubjectExists, RowsHeld, Calls, tables, history
  <1>3. ASSUME NEW change \in Changes \cup CopyRequest, SubmitChange(s, change)
        PROVE  Typed'
    <2>1. change.id \in PlanId
      BY DEF Changes, UpdateRequest, LockRequest, CopyRequest
    <2> QED
      BY <1>3, <2>1 DEF SubmitChange, Proceed, Typed, TypeOK, RequestKinds,
         SubjectExists, RowsHeld, Calls, Changes, tables, history
  <1>4. \A id \in CopyInput : [op |-> "copy", id |-> id] \in CopyRequest
    BY InputsAssumption DEF CopyRequest
  <1> QED
    BY <1>1, <1>2, <1>3, <1>4, InputsAssumption DEF Submit, Changes

LEMMA CollectTyped ==
    ASSUME Typed, NEW s \in Slot, Collect(s)
    PROVE  Typed'
  BY DEF Collect, Typed, TypeOK, RequestKinds, SubjectExists, RowsHeld, Calls, Replies, tables,
     history

\* An answer that changes nothing but pc and reply keeps the types.
LEMMA AnswerTyped ==
    ASSUME Typed, NEW s \in Slot, NEW code \in Replies, Answer(s, code),
           UNCHANGED <<areas, plans, audits, request, subject, before, after, first, lost>>
    PROVE  Typed'
  BY DEF Answer, Typed, TypeOK, RequestKinds, SubjectExists, RowsHeld

\* What Generate draws on a boundary is accepted by Create, or is an error.
LEMMA TransectsType ==
    ASSUME NEW row \in AreaRow, NEW generate \in GenerateRequest
    PROVE  /\ Transects[row.boundary, generate.spacing] \in Lines \cup GenerateErrors
           /\ GenerateErrors \subseteq Replies
  <1>1. <<row.boundary, generate.spacing>> \in Boundary \X Spacing
    BY DEF AreaRow, GenerateRequest
  <1>2. Transects[<<row.boundary, generate.spacing>>] \in ParsableLines \cup GenerateErrors
    BY <1>1, LinesAssumption
  <1> QED
    BY <1>2, LinesAssumption DEF Replies

LEMMA GenerateGetAreaTyped ==
    ASSUME Typed, NEW s \in Slot, GenerateGetArea(s)
    PROVE  Typed'
  <1>1. /\ request[s] \in GenerateRequest
        /\ areas[request[s].area] \in AreaRow \cup {NoArea}
    BY DEF GenerateGetArea, Typed, TypeOK, RequestKinds, GenerateRequest
  <1>2. UNCHANGED <<areas, plans, audits, subject, before, after, first, lost>>
    BY DEF GenerateGetArea, tables, history
  <1>3. CASE Answer(s, "NOT_FOUND") /\ UNCHANGED request
    BY <1>2, <1>3, AnswerTyped DEF Replies
  <1>4. ASSUME NEW code \in GenerateErrors, Answer(s, code), UNCHANGED request
        PROVE  Typed'
    BY <1>2, <1>4, AnswerTyped DEF Replies
  <1>5. ASSUME NEW lines \in Lines,
               request' = [request EXCEPT ![s] =
                               [op |-> "create", area |-> request[s].area,
                                lines |-> lines, name |-> request[s].name]],
               Proceed(s, "get_area")
        PROVE  Typed'
    <2> DEFINE drawing == [op |-> "create", area |-> request[s].area,
                           lines |-> lines, name |-> request[s].name]
    <2>1. drawing \in CreateRequest
      BY <1>1 DEF CreateRequest, GenerateRequest
    <2>2. request' = [request EXCEPT ![s] = drawing]
      BY <1>5
    <2> HIDE DEF drawing
    <2> QED
      BY <1>2, <1>5, <2>1, <2>2 DEF Proceed, Typed, TypeOK, RequestKinds, SubjectExists,
         RowsHeld, Calls, Drawings
  <1> QED
    BY <1>1, <1>3, <1>4, <1>5, TransectsType DEF GenerateGetArea

LEMMA CreateGetAreaTyped ==
    ASSUME Typed, NEW s \in Slot, CreateGetArea(s)
    PROVE  Typed'
  BY DEF CreateGetArea, CreateError, Answer, Proceed, Typed, TypeOK, RequestKinds,
     SubjectExists, RowsHeld, Calls, Replies, tables, registers, history

\* The two inserts of a handler and the audit event that it makes next.
LEMMA InsertTyped ==
    ASSUME Typed, NEW s \in Slot, NEW id \in PlanId, NEW row \in Row, InsertRow(s, id, row),
           after' = [after EXCEPT ![s] = row], Proceed(s, "audit"),
           UNCHANGED <<areas, audits, request, before, lost>>,
           request[s] \in Drawings \cup CopyRequest,
           request[s] \notin Drawings => before[s] \in Row
    PROVE  Typed'
  <1>1. /\ pc' = [pc EXCEPT ![s] = "audit"] /\ reply' = reply
    BY DEF Proceed
  <1>2. TypeOK'
    BY <1>1, InsertEffect DEF Typed, TypeOK, Calls
  <1>3. /\ DOMAIN plans \subseteq DOMAIN plans' /\ subject'[s] \in DOMAIN plans'
        /\ \A t \in Slot \ {s} : /\ pc'[t] = pc[t] /\ subject'[t] = subject[t]
                                 /\ after'[t] = after[t]
        /\ pc'[s] = "audit" /\ after'[s] = row
    <2>1. DOMAIN plans \subseteq DOMAIN plans' /\ subject'[s] \in DOMAIN plans'
      BY DEF InsertRow, Typed, TypeOK
    <2>2. \A t \in Slot \ {s} : subject'[t] = subject[t]
      BY DEF InsertRow
    <2>3. /\ \A t \in Slot \ {s} : pc'[t] = pc[t] /\ after'[t] = after[t]
          /\ pc'[s] = "audit" /\ after'[s] = row
      BY <1>1 DEF Typed, TypeOK
    <2> QED
      BY <2>1, <2>2, <2>3
  <1>4. RequestKinds'
    <2>1. request[s] \in Drawings \cup Changes \cup CopyRequest
      OBVIOUS
    <2> QED
      BY <1>3, <2>1 DEF Typed, RequestKinds
  <1>5. SubjectExists'
    BY <1>3 DEF Typed, SubjectExists
  <1>6. RowsHeld'
    BY <1>3 DEF Typed, RowsHeld
  <1> QED
    BY <1>2, <1>4, <1>5, <1>6 DEF Typed

LEMMA CreateInsertTyped ==
    ASSUME Typed, NEW s \in Slot, CreateInsert(s)
    PROVE  Typed'
  <1>1. request[s] \in Drawings
    BY DEF CreateInsert, Typed, RequestKinds
  <1>2. NewPlan(request[s]) \in Row
    BY <1>1, NewPlanType DEF Drawings
  <1> QED
    BY <1>1, <1>2, InsertTyped DEF CreateInsert

LEMMA CopyInsertTyped ==
    ASSUME Typed, NEW s \in Slot, CopyInsert(s)
    PROVE  Typed'
  <1>1. CASE Answer(s, "VALUE_TOO_LONG") /\ UNCHANGED <<plans, first, subject, after>>
    BY <1>1, AnswerTyped DEF CopyInsert, Replies
  <1>2. ASSUME ~CopyTooLong(s), NEW id \in PlanId, InsertRow(s, id, CopyOf(before[s])),
               after' = [after EXCEPT ![s] = CopyOf(before[s])], Proceed(s, "audit")
        PROVE  Typed'
    <2>1. request[s] \in CopyRequest /\ before[s] \in Row
      BY DEF CopyInsert, Typed, RequestKinds, RowsHeld
    <2>2. CopyOf(before[s]) \in Row
      BY <1>2, <2>1, CopyType
    <2> QED
      BY <1>2, <2>1, <2>2, InsertTyped DEF CopyInsert
  <1> QED
    BY <1>1, <1>2 DEF CopyInsert

LEMMA CreateGetCreatedTyped ==
    ASSUME Typed, NEW s \in Slot, CreateGetCreated(s)
    PROVE  Typed'
  BY AnswerTyped DEF CreateGetCreated, Replies, tables, registers, history

LEMMA ChangeGetTyped ==
    ASSUME Typed, NEW s \in Slot, ChangeGet(s)
    PROVE  Typed'
  <1>1. CASE Answer(s, "NOT_FOUND") /\ UNCHANGED before
    BY <1>1, AnswerTyped DEF ChangeGet, Replies, tables, history
  <1>2. CASE /\ subject[s] \in DOMAIN plans
             /\ before' = [before EXCEPT ![s] = plans[subject[s]]]
             /\ Answer(s, ChangeError(request[s], plans[subject[s]]))
    <2>1. ChangeError(request[s], plans[subject[s]]) \in Replies
      BY DEF ChangeError, Replies
    <2> QED
      BY <1>2, <2>1 DEF ChangeGet, Answer, Typed, TypeOK, RequestKinds, SubjectExists, RowsHeld,
         tables, history
  <1>3. CASE /\ subject[s] \in DOMAIN plans
             /\ before' = [before EXCEPT ![s] = plans[subject[s]]]
             /\ Proceed(s, WriteCall(request[s].op))
    <2>1. request[s] \in Changes \cup CopyRequest /\ plans[subject[s]] \in Row
      BY <1>3 DEF ChangeGet, Typed, TypeOK, RequestKinds
    <2>2. /\ request[s] \in UpdateRequest => WriteCall(request[s].op) = "update"
          /\ request[s] \in LockRequest => WriteCall(request[s].op) = "lock"
          /\ request[s] \in CopyRequest => WriteCall(request[s].op) = "insert_copy"
      BY RequestOps DEF WriteCall
    <2>3. WriteCall(request[s].op) \in {"update", "lock", "insert_copy"}
      BY <2>1, <2>2 DEF Changes
    <2>4. /\ pc' = [pc EXCEPT ![s] = WriteCall(request[s].op)] /\ reply' = reply
          /\ UNCHANGED <<areas, plans, audits, request, subject, after, first, lost>>
      BY <1>3 DEF ChangeGet, Proceed, tables, history
    <2>5. TypeOK'
      BY <1>3, <2>1, <2>3, <2>4 DEF Typed, TypeOK, Calls
    <2>6. /\ pc'[s] = WriteCall(request[s].op) /\ before'[s] = plans[subject[s]]
          /\ \A t \in Slot \ {s} : pc'[t] = pc[t] /\ before'[t] = before[t]
      BY <1>3, <2>4 DEF Typed, TypeOK
    <2>7. RequestKinds'
      <3>1. /\ pc'[s] = "update" => request[s] \in UpdateRequest
            /\ pc'[s] = "lock" => request[s] \in LockRequest
            /\ pc'[s] = "insert_copy" => request[s] \in CopyRequest
        BY <2>1, <2>2, <2>6 DEF Changes
      <3> QED
        BY <2>3, <2>4, <2>6, <3>1 DEF Typed, RequestKinds
    <2>8. SubjectExists' /\ RowsHeld'
      BY <1>3, <2>1, <2>3, <2>4, <2>6 DEF Typed, SubjectExists, RowsHeld
    <2> QED
      BY <2>5, <2>7, <2>8 DEF Typed
  <1> QED
    BY <1>1, <1>2, <1>3 DEF ChangeGet

LEMMA ChangeWriteTyped ==
    ASSUME Typed, NEW s \in Slot, ChangeUpdate(s) \/ ChangeLock(s)
    PROVE  Typed'
  <1>1. CASE Answer(s, "VERSION_CONFLICT") /\ UNCHANGED plans
    BY <1>1, AnswerTyped DEF ChangeUpdate, ChangeLock, Replies, registers, history
  <1>2. CASE /\ \/ pc[s] = "update" /\ UpdatePlan(s)
                \/ pc[s] = "lock" /\ LockPlan(s)
             /\ Proceed(s, "get_updated")
    <2>1. DOMAIN plans' = DOMAIN plans /\ \A id \in DOMAIN plans' : plans'[id] \in Row
      BY <1>2, UpdateKeepsTable
    <2>2. /\ pc' = [pc EXCEPT ![s] = "get_updated"] /\ reply' = reply
          /\ UNCHANGED <<areas, audits, request, subject, before, after, first, lost>>
      BY <1>2 DEF ChangeUpdate, ChangeLock, Proceed, registers, history
    <2>3. request[s] \in Changes /\ subject[s] \in DOMAIN plans /\ before[s] \in Row
      BY <1>2 DEF Typed, RequestKinds, SubjectExists, RowsHeld, Changes
    <2> QED
      BY <2>1, <2>2, <2>3 DEF Typed, TypeOK, RequestKinds, SubjectExists, RowsHeld, Calls
  <1> QED
    BY <1>1, <1>2 DEF ChangeUpdate, ChangeLock

LEMMA ChangeGetUpdatedTyped ==
    ASSUME Typed, NEW s \in Slot, ChangeGetUpdated(s)
    PROVE  Typed'
  <1>1. plans[subject[s]] \in Row /\ subject[s] \in DOMAIN plans /\ before[s] \in Row
        /\ request[s] \in Changes
    BY DEF ChangeGetUpdated, Typed, TypeOK, RequestKinds, SubjectExists, RowsHeld
  <1> QED
    BY <1>1 DEF ChangeGetUpdated, Proceed, Typed, TypeOK, RequestKinds, SubjectExists, RowsHeld,
       Calls, tables, history

\* The version that a handler has written, or is about to insert.
LEMMA WroteType ==
    ASSUME Typed, NEW s \in Slot, pc[s] \in {"insert", "insert_copy", "update", "lock",
                                             "get_updated", "audit"}
    PROVE  WroteVersion(s) \in Nat
  <1>1. CASE request[s] \in CreateRequest
    BY <1>1, RequestOps DEF WroteVersion
  <1>2. CASE request[s] \in Changes
    BY <1>2, RequestOps DEF WroteVersion, Changes, UpdateRequest, LockRequest
  <1>3. CASE request[s] \in CopyRequest
    <2>1. request[s].op = "copy" /\ request[s] \notin Drawings
      BY <1>3, RequestOps DEF Drawings
    <2>2. before[s] \in Row
      <3>1. pc[s] \in {"insert", "audit", "insert_copy"}
        BY <2>1, RequestOps DEF Typed, RequestKinds, Changes
      <3> QED
        BY <2>1, <3>1 DEF Typed, RequestKinds, RowsHeld
    <2> QED
      BY <2>1, <2>2 DEF WroteVersion, Row
  <1> QED
    BY <1>1, <1>2, <1>3 DEF Typed, RequestKinds, Changes, Drawings

LEMMA RecordAuditTyped ==
    ASSUME Typed, NEW s \in Slot, pc[s] = "audit", RecordAudit(s)
    PROVE  audits' \subseteq AuditEvent
  <1>1. request[s].op \in Operations
    BY RequestOps DEF Typed, RequestKinds, Drawings, Changes, Operations
  <1>2. subject[s] \in PlanId /\ WroteVersion(s) \in Nat
    BY WroteType DEF Typed, TypeOK, SubjectExists
  <1>3. before[s] \in Row \cup {NoRow} /\ after[s] \in Row
    BY DEF Typed, TypeOK, RowsHeld
  <1>4. [op |-> request[s].op, id |-> subject[s], wrote |-> WroteVersion(s),
         before |-> before[s], after |-> after[s]] \in AuditEvent
    BY <1>1, <1>2, <1>3 DEF AuditEvent
  <1> QED
    BY <1>4 DEF RecordAudit, Typed, TypeOK

LEMMA AuditTyped ==
    ASSUME Typed, NEW s \in Slot, Audit(s) \/ AuditUnacknowledged(s)
    PROVE  Typed'
  <1>1. audits' \subseteq AuditEvent
    BY RecordAuditTyped DEF Audit, AuditUnacknowledged
  <1>2. /\ UNCHANGED <<areas, plans, request, subject, before, after, first, lost>>
        /\ pc[s] = "audit"
    BY DEF Audit, AuditUnacknowledged, registers, history
  <1>3. CASE Answer(s, "CREATED") \/ Answer(s, "OK") \/ Answer(s, "INTERNAL")
    BY <1>1, <1>2, <1>3 DEF Answer, Typed, TypeOK, RequestKinds, SubjectExists, RowsHeld, Replies
  <1>4. CASE request[s].op = "create" /\ Proceed(s, "get_created")
    <2>1. request[s] \in Drawings
      BY <1>2, <1>4, RequestOps DEF Typed, RequestKinds, Changes
    <2> QED
      BY <1>1, <1>2, <1>4, <2>1 DEF Proceed, Typed, TypeOK, RequestKinds, SubjectExists,
         RowsHeld, Calls
  <1> QED
    BY <1>3, <1>4 DEF Audit, AuditUnacknowledged

LEMMA UnauditedType ==
    ASSUME Typed, NEW s \in Slot
    PROVE  Unaudited(s) \subseteq PlanId \X Nat
  <1>1. CASE pc[s] \in UnauditedCalls
    <2>1. subject[s] \in PlanId /\ WroteVersion(s) \in Nat
      BY <1>1, WroteType DEF Typed, TypeOK, SubjectExists, UnauditedCalls
    <2> QED
      BY <1>1, <2>1 DEF Unaudited
  <1>2. CASE pc[s] \notin UnauditedCalls
    BY <1>2 DEF Unaudited
  <1> QED
    BY <1>1, <1>2

LEMMA DatabaseErrorTyped ==
    ASSUME Typed, NEW s \in Slot, DatabaseError(s)
    PROVE  Typed'
  <1>1. lost' \subseteq PlanId \X Nat
    BY UnauditedType DEF DatabaseError, Typed, TypeOK
  <1> QED
    BY <1>1 DEF DatabaseError, Answer, Typed, TypeOK, RequestKinds, SubjectExists, RowsHeld,
       Replies, tables, registers

LEMMA InsertUnacknowledgedTyped ==
    ASSUME Typed, NEW s \in Slot, InsertUnacknowledged(s)
    PROVE  Typed'
  <1>1. PICK id \in PlanId, row \in Row :
            /\ InsertRow(s, id, row)
            /\ lost' = lost \cup {<<id, WroteVersion(s)>>}
            /\ pc[s] \in {"insert", "insert_copy"}
    <2>1. pc[s] = "insert" => NewPlan(request[s]) \in Row
      BY NewPlanType DEF Typed, RequestKinds, Drawings
    <2>2. pc[s] = "insert_copy" /\ ~CopyTooLong(s) => CopyOf(before[s]) \in Row
      BY CopyType DEF Typed, RowsHeld
    <2> QED
      BY <2>1, <2>2 DEF InsertUnacknowledged
  <1>2. lost' \subseteq PlanId \X Nat
    BY <1>1, WroteType DEF Typed, TypeOK
  <1>3. /\ pc' = [pc EXCEPT ![s] = "replied"] /\ reply' = [reply EXCEPT ![s] = "INTERNAL"]
        /\ UNCHANGED <<areas, audits, request, before, after>>
    BY DEF InsertUnacknowledged, Answer
  <1>4. TypeOK'
    <2>1. reply' \in [Slot -> Replies] /\ pc' \in [Slot -> {"idle", "replied"} \cup Calls]
      BY <1>3 DEF Typed, TypeOK, Replies
    <2> QED
      BY <1>1, <1>2, <1>3, <2>1, InsertEffect DEF Typed, TypeOK
  <1>5. /\ DOMAIN plans \subseteq DOMAIN plans'
        /\ \A t \in Slot \ {s} : pc'[t] = pc[t] /\ subject'[t] = subject[t]
        /\ pc'[s] = "replied"
    BY <1>1, <1>3, InsertEffect DEF Typed, TypeOK
  <1>6. RequestKinds' /\ SubjectExists' /\ RowsHeld'
    BY <1>3, <1>5 DEF Typed, RequestKinds, SubjectExists, RowsHeld
  <1> QED
    BY <1>4, <1>6 DEF Typed

LEMMA UpdateUnacknowledgedTyped ==
    ASSUME Typed, NEW s \in Slot, UpdateUnacknowledged(s)
    PROVE  Typed'
  <1>1. DOMAIN plans' = DOMAIN plans /\ \A id \in DOMAIN plans' : plans'[id] \in Row
    BY UpdateKeepsTable DEF UpdateUnacknowledged
  <1>2. lost' \subseteq PlanId \X Nat
    <2>1. subject[s] \in PlanId /\ WroteVersion(s) \in Nat
      BY WroteType DEF UpdateUnacknowledged, Typed, TypeOK, SubjectExists
    <2> QED
      BY <2>1 DEF UpdateUnacknowledged, Typed, TypeOK
  <1>3. /\ pc' = [pc EXCEPT ![s] = "replied"] /\ reply' = [reply EXCEPT ![s] = "INTERNAL"]
        /\ UNCHANGED <<areas, audits, request, subject, before, after, first>>
    BY DEF UpdateUnacknowledged, Answer, registers
  <1> QED
    BY <1>1, <1>2, <1>3 DEF Typed, TypeOK, RequestKinds, SubjectExists, RowsHeld, Replies

LEMMA CrashTyped ==
    ASSUME Typed, Crash
    PROVE  Typed'
  <1>1. lost' \subseteq PlanId \X Nat
    BY UnauditedType DEF Crash, Typed, TypeOK
  <1> QED
    BY <1>1 DEF Crash, Typed, TypeOK, RequestKinds, SubjectExists, RowsHeld, Replies, Calls,
       tables

LEMMA AreaStepTyped ==
    ASSUME Typed, NEW a \in Area, AreaStep(a)
    PROVE  Typed'
  BY InputsAssumption DEF AreaStep, Typed, TypeOK, RequestKinds, SubjectExists, RowsHeld, slots,
     registers, history

LEMMA StutterTyped ==
    ASSUME Typed, UNCHANGED vars
    PROVE  Typed'
  BY DEF Typed, TypeOK, RequestKinds, SubjectExists, RowsHeld, vars, tables, slots, registers,
     history

LEMMA NextTyped ==
    ASSUME Typed, [Next]_vars
    PROVE  Typed'
  <1>1. ASSUME NEW s \in Slot, HandlerStep(s)
        PROVE  Typed'
    BY <1>1, GenerateGetAreaTyped, CreateGetAreaTyped, CreateInsertTyped, CreateGetCreatedTyped,
       ChangeGetTyped, ChangeWriteTyped, ChangeGetUpdatedTyped, CopyInsertTyped, AuditTyped
       DEF HandlerStep
  <1>2. ASSUME NEW s \in Slot, Fault(s)
        PROVE  Typed'
    BY <1>2, DatabaseErrorTyped, InsertUnacknowledgedTyped, UpdateUnacknowledgedTyped,
       AuditTyped DEF Fault
  <1> QED
    BY <1>1, <1>2, SubmitTyped, CollectTyped, CrashTyped, AreaStepTyped, StutterTyped
       DEF Next, RequestStep

\* The handlers never leave the types of their variables.
THEOREM TypeCorrect == Spec => []TypeOK
  <1>1. Typed => TypeOK
    BY DEF Typed
  <1> QED
    BY InitTyped, NextTyped, <1>1, PTL DEF Spec
-----------------------------------------------------------------------------
(* What a handler has read and what a client may know *)

\* No version is 0.
Numbered == \A id \in DOMAIN plans : plans[id].version >= 1

\* The version of an edit or a lock has been shown.
Shown(s) ==
    pc[s] = "get" /\ request[s] \in Changes => request[s].expected <= ShownVersion(subject[s])

\* What a handler has read is an earlier form of its row: with the same
\* version it is the same row.
ReadRow(s) ==
    pc[s] \in {"update", "lock", "insert_copy"} =>
        /\ before[s].version \in 1..plans[subject[s]].version
        /\ before[s].version = plans[subject[s]].version => before[s] = plans[subject[s]]

\* An edit or a lock goes on from a draft, not older than the version it names.
ReadDraft(s) ==
    pc[s] \in {"update", "lock"} => /\ before[s].state = "draft"
                                    /\ before[s].version >= request[s].expected

\* A handler that has edited or locked holds the draft that it has replaced.
EditPending(s) ==
    pc[s] \in {"get_updated", "audit"} /\ request[s] \in Changes =>
        before[s].state = "draft" /\ before[s].version = request[s].expected

\* The plan of a handler that has locked it stays as it is.
LockPending(s) ==
    pc[s] \in {"get_updated", "audit"} /\ request[s] \in LockRequest =>
        /\ plans[subject[s]].state = "locked"
        /\ pc[s] = "audit" => after[s] = plans[subject[s]]

SlotChecked(s) == Shown(s) /\ ReadRow(s) /\ ReadDraft(s) /\ EditPending(s) /\ LockPending(s)

\* The plan that a recorded lock names stays as the event shows it.
LockEvents ==
    \A event \in audits :
        event.op = "lock" => /\ event.id \in DOMAIN plans
                             /\ plans[event.id].state = "locked"
                             /\ event.after = plans[event.id]

Checked == /\ Typed /\ Numbered
           /\ \A s \in Slot : SlotChecked(s)
           /\ EditsFollowTheirSnapshot
           /\ LockEvents

-----------------------------------------------------------------------------
(* What one step does to the table and to a slot *)

\* A draft from version 1, or from the version after an existing plan's.
NewRow(id, row) ==
    /\ plans' = [i \in DOMAIN plans \cup {id} |-> IF i = id THEN row ELSE plans[i]]
    /\ id \notin DOMAIN plans
    /\ row.state = "draft"
    /\ row.version = 1 \/ \E i \in DOMAIN plans : row.version \in 2..(plans[i].version + 1)

\* A draft is replaced, or locked.
EditRow(id, row) ==
    /\ plans' = [plans EXCEPT ![id] = row]
    /\ plans[id].state = "draft"
    /\ row.area = plans[id].area
    /\ row.version = plans[id].version + 1

TableStep == \/ UNCHANGED plans
             \/ \E id \in PlanId, row \in Row : NewRow(id, row)
             \/ \E id \in DOMAIN plans, row \in Row : EditRow(id, row)

\* The draft of a handler that matches its WHERE clause is the row it finds.
LEMMA MatchedDraft ==
    ASSUME Typed, NEW s \in Slot, SlotChecked(s),
           \/ pc[s] = "update" /\ UpdatePlan(s)
           \/ pc[s] = "lock" /\ LockPlan(s)
    PROVE  /\ before[s] = plans[subject[s]]
           /\ before[s].state = "draft"
           /\ before[s].version = request[s].expected
  <1>1. subject[s] \in DOMAIN plans /\ plans[subject[s]].version = request[s].expected
    BY UpdateEffect
  <1>2. plans[subject[s]].version \in Nat
    BY <1>1 DEF Typed, TypeOK, Row
  <1> QED
    BY <1>1, <1>2 DEF SlotChecked, ReadRow, ReadDraft

LEMMA UpdateIsEdit ==
    ASSUME Typed, NEW s \in Slot, SlotChecked(s),
           \/ pc[s] = "update" /\ UpdatePlan(s)
           \/ pc[s] = "lock" /\ LockPlan(s)
    PROVE  TableStep
  <1>1. subject[s] \in DOMAIN plans
    BY UpdateEffect
  <1>2. PICK row \in Row : /\ plans' = [plans EXCEPT ![subject[s]] = row]
                           /\ row.area = plans[subject[s]].area
                           /\ row.version = plans[subject[s]].version + 1
    BY UpdateEffect
  <1>3. EditRow(subject[s], row)
    BY <1>2, MatchedDraft DEF EditRow
  <1> QED
    BY <1>1, <1>3 DEF TableStep

LEMMA CreateIsNew ==
    ASSUME Typed, NEW s \in Slot, NEW id \in PlanId, pc[s] = "insert",
           InsertRow(s, id, NewPlan(request[s]))
    PROVE  TableStep
  <1>1. NewPlan(request[s]) \in Row
    BY NewPlanType DEF Typed, RequestKinds, Drawings
  <1>2. NewRow(id, NewPlan(request[s]))
    BY DEF NewRow, InsertRow, NewPlan
  <1> QED
    BY <1>1, <1>2 DEF TableStep

LEMMA CopyIsNew ==
    ASSUME Typed, NEW s \in Slot, SlotChecked(s), NEW id \in PlanId, pc[s] = "insert_copy",
           ~CopyTooLong(s), InsertRow(s, id, CopyOf(before[s]))
    PROVE  TableStep
  <1>1. before[s] \in Row /\ subject[s] \in DOMAIN plans
    BY DEF Typed, RowsHeld, SubjectExists
  <1>2. CopyOf(before[s]) \in Row
    BY <1>1, CopyType
  <1>3. before[s].version + 1 \in 2..(plans[subject[s]].version + 1)
    <2>1. plans[subject[s]].version \in Nat
      BY <1>1 DEF Typed, TypeOK, Row
    <2> QED
      BY <2>1 DEF SlotChecked, ReadRow
  <1>4. NewRow(id, CopyOf(before[s]))
    <2>1. CopyOf(before[s]).version = before[s].version + 1 /\ CopyOf(before[s]).state = "draft"
      BY DEF CopyOf
    <2> QED
      BY <1>1, <1>3, <2>1 DEF NewRow, InsertRow
  <1> QED
    BY <1>2, <1>4 DEF TableStep

LEMMA NextTable ==
    ASSUME Typed, \A s \in Slot : SlotChecked(s), [Next]_vars
    PROVE  TableStep
  <1>1. CASE UNCHANGED plans
    BY <1>1 DEF TableStep
  <1>2. ASSUME NEW s \in Slot, HandlerStep(s), plans' # plans
        PROVE  TableStep
    <2>1. CASE CreateInsert(s)
      BY <2>1, CreateIsNew DEF CreateInsert
    <2>2. CASE ChangeUpdate(s) \/ ChangeLock(s)
      BY <1>2, <2>2, UpdateIsEdit DEF ChangeUpdate, ChangeLock
    <2>3. CASE CopyInsert(s)
      BY <1>2, <2>3, CopyIsNew DEF CopyInsert
    <2>4. CASE GenerateGetArea(s) \/ CreateGetArea(s) \/ CreateGetCreated(s) \/ ChangeGet(s)
               \/ ChangeGetUpdated(s) \/ Audit(s)
      BY <1>2, <2>4 DEF GenerateGetArea, CreateGetArea, CreateGetCreated, ChangeGet,
         ChangeGetUpdated, Audit, tables
    <2> QED
      BY <1>2, <2>1, <2>2, <2>3, <2>4 DEF HandlerStep
  <1>3. ASSUME NEW s \in Slot, Fault(s), plans' # plans
        PROVE  TableStep
    <2>1. CASE InsertUnacknowledged(s)
      BY <2>1, CreateIsNew, CopyIsNew DEF InsertUnacknowledged
    <2>2. CASE UpdateUnacknowledged(s)
      BY <2>2, UpdateIsEdit DEF UpdateUnacknowledged
    <2>3. CASE DatabaseError(s) \/ AuditUnacknowledged(s)
      BY <1>3, <2>3 DEF DatabaseError, AuditUnacknowledged, tables
    <2> QED
      BY <1>3, <2>1, <2>2, <2>3 DEF Fault
  <1>4. ASSUME NEW s \in Slot, Submit(s) \/ Collect(s)
        PROVE  UNCHANGED plans
    BY <1>4 DEF Submit, SubmitDrawn, SubmitChange, Collect, tables
  <1>5. Crash \/ (\E a \in Area : AreaStep(a)) \/ UNCHANGED vars => UNCHANGED plans
    BY DEF Crash, AreaStep, vars, tables
  <1> QED
    BY <1>1, <1>2, <1>3, <1>4, <1>5 DEF Next, RequestStep

\* A plan keeps its id and its area; it changes only as a draft, and counts
\* its version up.
RowsGrow ==
    \A id \in DOMAIN plans :
        /\ id \in DOMAIN plans'
        /\ \/ plans'[id] = plans[id]
           \/ /\ plans[id].state = "draft"
              /\ plans'[id].version = plans[id].version + 1

LEMMA TableGrows ==
    ASSUME Typed, Numbered, TableStep
    PROVE  RowsGrow /\ Numbered'
  <1>1. CASE UNCHANGED plans
    BY <1>1 DEF RowsGrow, Numbered
  <1>2. ASSUME NEW id \in PlanId, NEW row \in Row, NewRow(id, row)
        PROVE  RowsGrow /\ Numbered'
    <2>1. /\ DOMAIN plans' = DOMAIN plans \cup {id} /\ plans'[id] = row
          /\ \A i \in DOMAIN plans : plans'[i] = plans[i]
      BY <1>2 DEF NewRow
    <2>2. row.version >= 1
      <3>1. \A i \in DOMAIN plans : plans[i].version \in Nat
        BY DEF Typed, TypeOK, Row
      <3> QED
        BY <1>2, <3>1 DEF NewRow
    <2> QED
      BY <2>1, <2>2 DEF RowsGrow, Numbered
  <1>3. ASSUME NEW id \in DOMAIN plans, NEW row \in Row, EditRow(id, row)
        PROVE  RowsGrow /\ Numbered'
    <2>1. /\ DOMAIN plans' = DOMAIN plans /\ plans'[id] = row
          /\ \A i \in DOMAIN plans \ {id} : plans'[i] = plans[i]
      BY <1>3 DEF EditRow
    <2>2. plans[id].version \in Nat
      BY DEF Typed, TypeOK, Row
    <2> QED
      BY <1>3, <2>1, <2>2 DEF EditRow, RowsGrow, Numbered
  <1> QED
    BY <1>1, <1>2, <1>3 DEF TableStep

SlotSame(t) == /\ pc'[t] = pc[t] /\ request'[t] = request[t] /\ subject'[t] = subject[t]
               /\ before'[t] = before[t] /\ after'[t] = after[t]

\* The steps of another slot leave a slot alone.
LEMMA OtherSlot ==
    ASSUME Typed, NEW s \in Slot, NEW t \in Slot, s # t,
           Submit(s) \/ Collect(s) \/ HandlerStep(s) \/ Fault(s)
    PROVE  SlotSame(t)
  <1>1. CASE Submit(s) \/ Collect(s)
    BY <1>1 DEF Submit, SubmitDrawn, SubmitChange, Proceed, Collect, SlotSame, Typed, TypeOK
  <1>2. CASE GenerateGetArea(s) \/ CreateGetArea(s) \/ CreateGetCreated(s)
    BY <1>2 DEF GenerateGetArea, CreateGetArea, CreateGetCreated, Proceed, Answer, SlotSame,
       Typed, TypeOK, registers
  <1>3. CASE CreateInsert(s) \/ CopyInsert(s)
    BY <1>3 DEF CreateInsert, CopyInsert, InsertRow, Proceed, Answer, SlotSame, Typed, TypeOK
  <1>4. CASE ChangeGet(s) \/ ChangeGetUpdated(s)
    BY <1>4 DEF ChangeGet, ChangeGetUpdated, Proceed, Answer, SlotSame, Typed, TypeOK
  <1>5. CASE ChangeUpdate(s) \/ ChangeLock(s) \/ Audit(s)
    BY <1>5 DEF ChangeUpdate, ChangeLock, Audit, Proceed, Answer, SlotSame, Typed, TypeOK,
       registers
  <1>6. CASE Fault(s)
    BY <1>6 DEF Fault, DatabaseError, InsertUnacknowledged, UpdateUnacknowledged,
       AuditUnacknowledged, InsertRow, Answer, SlotSame, Typed, TypeOK, registers
  <1> QED
    BY <1>1, <1>2, <1>3, <1>4, <1>5, <1>6 DEF HandlerStep

\* A step leaves a slot alone, ends its request, or is one of its own.
LEMMA SlotStep ==
    ASSUME Typed, [Next]_vars, NEW t \in Slot
    PROVE  SlotSame(t) \/ pc'[t] \in {"idle", "replied"} \/ Submit(t) \/ HandlerStep(t)
  <1>1. ASSUME Collect(t) \/ Fault(t)
        PROVE  pc'[t] \in {"idle", "replied"}
    BY <1>1 DEF Collect, Fault, DatabaseError, InsertUnacknowledged, UpdateUnacknowledged,
       AuditUnacknowledged, Answer, Typed, TypeOK
  <1>2. Crash => pc'[t] = "idle"
    BY DEF Crash
  <1>3. (\E a \in Area : AreaStep(a)) \/ UNCHANGED vars => SlotSame(t)
    BY DEF AreaStep, vars, slots, registers, SlotSame
  <1> QED
    BY <1>1, <1>2, <1>3, OtherSlot DEF Next, RequestStep
-----------------------------------------------------------------------------
(* The invariants about reads, edits and locks are inductive. *)

\* A step that grows the table keeps what a slot left alone knows.
LEMMA SameSlotChecked ==
    ASSUME Checked, Typed', RowsGrow, Numbered', NEW t \in Slot, SlotSame(t)
    PROVE  SlotChecked(t)'
  <1> DEFINE id == subject[t]
  <1>1. id \in DOMAIN plans => plans[id].version \in Nat
    BY DEF Checked, Typed, TypeOK, Row
  <1>2. ASSUME pc[t] = "get", request[t] \in Changes
        PROVE  request[t].expected <= ShownVersion(subject[t])'
    <2>1. request[t].expected \in Nat /\ request[t].expected <= ShownVersion(subject[t])
      BY <1>2 DEF Checked, SlotChecked, Shown, Changes, UpdateRequest, LockRequest
    <2>2. subject'[t] = subject[t]
      BY DEF SlotSame
    <2>3. CASE id \in DOMAIN plans
      BY <1>1, <2>1, <2>2, <2>3 DEF RowsGrow, ShownVersion
    <2>4. CASE id \notin DOMAIN plans /\ id \in DOMAIN plans'
      <3>1. plans'[id].version >= 1 /\ request[t].expected <= 1
        BY <2>1, <2>4 DEF Numbered, ShownVersion
      <3>2. plans'[id].version \in Nat
        BY <2>4 DEF Typed, TypeOK, Row
      <3> QED
        BY <2>1, <2>2, <2>4, <3>1, <3>2 DEF ShownVersion
    <2>5. CASE id \notin DOMAIN plans /\ id \notin DOMAIN plans'
      BY <2>1, <2>2, <2>5 DEF ShownVersion
    <2> QED
      BY <2>3, <2>4, <2>5
  <1>3. ASSUME pc[t] \in {"update", "lock", "insert_copy"}
        PROVE  /\ before[t].version \in 1..plans'[id].version
               /\ before[t].version = plans'[id].version => before[t] = plans'[id]
    <2>1. id \in DOMAIN plans
      BY <1>3 DEF Checked, Typed, SubjectExists
    <2>2. /\ before[t].version \in 1..plans[id].version
          /\ before[t].version = plans[id].version => before[t] = plans[id]
      BY <1>3 DEF Checked, SlotChecked, ReadRow
    <2> QED
      BY <1>1, <2>1, <2>2 DEF RowsGrow
  <1>4. ASSUME pc[t] \in {"get_updated", "audit"}, request[t] \in LockRequest
        PROVE  /\ plans'[id].state = "locked"
               /\ pc[t] = "audit" => after[t] = plans'[id]
    <2>1. id \in DOMAIN plans /\ plans[id].state = "locked"
      BY <1>4 DEF Checked, Typed, SubjectExists, SlotChecked, LockPending
    <2>2. plans'[id] = plans[id]
      BY <2>1 DEF RowsGrow
    <2> QED
      BY <1>4, <2>1, <2>2 DEF Checked, SlotChecked, LockPending
  <1>5. /\ pc'[t] = pc[t] /\ request'[t] = request[t] /\ subject'[t] = id
        /\ before'[t] = before[t] /\ after'[t] = after[t]
    BY DEF SlotSame
  <1> HIDE DEF id
  <1>6. SlotChecked(t)
    BY DEF Checked
  <1>7. Shown(t)' /\ ReadRow(t)' /\ LockPending(t)'
    BY <1>2, <1>3, <1>4, <1>5 DEF Shown, ReadRow, LockPending
  <1>8. ReadDraft(t)' /\ EditPending(t)'
    BY <1>5, <1>6 DEF SlotChecked, ReadDraft, EditPending
  <1> QED
    BY <1>7, <1>8 DEF SlotChecked

\* A slot that neither holds a row that it will use nor has used it promises
\* nothing.
LEMMA NothingHeld ==
    ASSUME NEW t \in Slot,
           \/ pc'[t] \in {"idle", "replied", "generate.get_area", "get_area", "insert",
                          "get_created"}
           \/ pc'[t] \in {"get", "audit"} /\ request'[t] \notin Changes
    PROVE  SlotChecked(t)'
  BY DEF SlotChecked, Shown, ReadRow, ReadDraft, EditPending, LockPending, Changes

LEMMA SubmitChecked ==
    ASSUME Checked, Typed', KnownVersions, NEW t \in Slot, Submit(t)
    PROVE  SlotChecked(t)'
  <1>1. ASSUME NEW drawing, NEW call \in {"get_area", "generate.get_area"},
               SubmitDrawn(t, drawing, call)
        PROVE  SlotChecked(t)'
    <2>1. pc'[t] = call
      BY <1>1 DEF SubmitDrawn, Proceed, Checked, Typed, TypeOK
    <2> QED
      BY <2>1, NothingHeld
  <1>2. ASSUME NEW change \in UpdateInput \cup LockInput, MaySend(change), SubmitChange(t, change)
        PROVE  SlotChecked(t)'
    <2>1. /\ pc'[t] = "get" /\ request'[t] = change /\ subject'[t] = change.id
          /\ plans' = plans
      BY <1>2 DEF SubmitChange, Proceed, Checked, Typed, TypeOK, tables
    <2>2. change.expected <= ShownVersion(change.id)
      BY <1>2 DEF MaySend
    <2>3. Shown(t)'
      BY <2>1, <2>2 DEF Shown, ShownVersion
    <2> QED
      BY <2>1, <2>3 DEF SlotChecked, ReadRow, ReadDraft, EditPending, LockPending
  <1>3. ASSUME NEW id \in CopyInput, SubmitChange(t, [op |-> "copy", id |-> id])
        PROVE  SlotChecked(t)'
    <2>1. pc'[t] = "get" /\ request'[t] = [op |-> "copy", id |-> id]
      BY <1>3 DEF SubmitChange, Proceed, Checked, Typed, TypeOK
    <2>2. request'[t] \notin Changes
      BY <2>1, RequestOps DEF Changes
    <2> QED
      BY <2>1, <2>2, NothingHeld
  <1> QED
    BY <1>1, <1>2, <1>3 DEF Submit

LEMMA DrawnChecked ==
    ASSUME Checked, NEW t \in Slot,
           GenerateGetArea(t) \/ CreateGetArea(t) \/ CreateGetCreated(t) \/ Audit(t)
    PROVE  SlotChecked(t)'
  <1>1. pc'[t] \in {"replied", "get_area", "insert", "get_created"}
    BY DEF GenerateGetArea, CreateGetArea, CreateGetCreated, Audit, Answer, Proceed, Checked,
       Typed, TypeOK
  <1> QED
    BY <1>1, NothingHeld

LEMMA InsertChecked ==
    ASSUME Checked, NEW t \in Slot, CreateInsert(t) \/ CopyInsert(t)
    PROVE  SlotChecked(t)'
  <1>1. pc'[t] \in {"replied", "audit"} /\ request'[t] = request[t]
    BY DEF CreateInsert, CopyInsert, Answer, Proceed, Checked, Typed, TypeOK
  <1>2. request[t] \in Drawings \cup CopyRequest
    BY DEF CreateInsert, CopyInsert, Checked, Typed, RequestKinds
  <1>3. request[t] \notin Changes
    BY <1>2, RequestOps DEF Drawings, Changes
  <1> QED
    BY <1>1, <1>3, NothingHeld

LEMMA GetChecked ==
    ASSUME Checked, NEW t \in Slot, ChangeGet(t)
    PROVE  SlotChecked(t)'
  <1>1. CASE pc'[t] = "replied"
    BY <1>1, NothingHeld
  <1>2. CASE /\ subject[t] \in DOMAIN plans
             /\ before' = [before EXCEPT ![t] = plans[subject[t]]]
             /\ ChangeError(request[t], plans[subject[t]]) = "none"
             /\ Proceed(t, WriteCall(request[t].op))
    <2>1. /\ pc'[t] = WriteCall(request[t].op) /\ before'[t] = plans[subject[t]]
          /\ request' = request /\ subject' = subject /\ plans' = plans
      BY <1>2 DEF ChangeGet, Proceed, Checked, Typed, TypeOK, tables
    <2>2. plans[subject[t]].version \in Nat /\ plans[subject[t]].version >= 1
      BY <1>2 DEF Checked, Typed, TypeOK, Row, Numbered
    <2>3. pc[t] = "get" /\ request[t] \in Changes \cup CopyRequest
      BY DEF ChangeGet, Checked, Typed, RequestKinds
    <2>4. ReadRow(t)'
      BY <2>1, <2>2 DEF ReadRow
    <2>5. CASE request[t] \in CopyRequest
      <3>1. pc'[t] = "insert_copy"
        BY <2>1, <2>5, RequestOps DEF WriteCall
      <3> QED
        BY <2>4, <3>1 DEF SlotChecked, Shown, ReadDraft, EditPending, LockPending
    <2>6. CASE request[t] \in Changes
      <3>1. request[t].op \in {"update", "lock"} /\ request[t].expected \in Nat
        BY <2>6, RequestOps DEF Changes, UpdateRequest, LockRequest
      <3>2. pc'[t] \in {"update", "lock"}
        BY <2>1, <3>1 DEF WriteCall
      <3>3. plans[subject[t]].state = "draft"
        BY <1>2, <3>1 DEF ChangeError
      <3>4. request[t].expected <= plans[subject[t]].version
        BY <1>2, <2>3, <2>6 DEF Checked, SlotChecked, Shown, ShownVersion
      <3>5. ReadDraft(t)'
        BY <2>1, <2>2, <3>1, <3>3, <3>4 DEF ReadDraft
      <3> QED
        BY <2>4, <3>2, <3>5 DEF SlotChecked, Shown, EditPending, LockPending
    <2> QED
      BY <2>3, <2>5, <2>6
  <1> QED
    BY <1>1, <1>2 DEF ChangeGet, Answer, Checked, Typed, TypeOK

LEMMA WriteChecked ==
    ASSUME Checked, NEW t \in Slot, ChangeUpdate(t) \/ ChangeLock(t)
    PROVE  SlotChecked(t)'
  <1>1. CASE pc'[t] = "replied"
    BY <1>1, NothingHeld
  <1>2. CASE /\ \/ pc[t] = "update" /\ UpdatePlan(t)
                \/ pc[t] = "lock" /\ LockPlan(t)
             /\ Proceed(t, "get_updated")
    <2>1. /\ pc'[t] = "get_updated" /\ request' = request /\ subject' = subject
          /\ before' = before
      BY <1>2 DEF ChangeUpdate, ChangeLock, Proceed, Checked, Typed, TypeOK, registers
    <2>2. before[t].state = "draft" /\ before[t].version = request[t].expected
      BY <1>2, MatchedDraft DEF Checked
    <2>3. EditPending(t)'
      BY <2>1, <2>2 DEF EditPending
    <2>4. request[t] \in LockRequest => plans'[subject[t]].state = "locked"
      <3>1. request[t] \in LockRequest => pc[t] = "lock"
        BY <1>2, RequestOps DEF Checked, Typed, RequestKinds
      <3>2. PICK row \in Row : /\ plans' = [plans EXCEPT ![subject[t]] = row]
                               /\ pc[t] = "lock" => row.state = "locked"
        BY <1>2, UpdateEffect DEF Checked
      <3>3. subject[t] \in DOMAIN plans
        BY <1>2, UpdateEffect DEF Checked
      <3> QED
        BY <3>1, <3>2, <3>3
    <2>5. LockPending(t)'
      BY <2>1, <2>4 DEF LockPending
    <2> QED
      BY <2>1, <2>3, <2>5 DEF SlotChecked, Shown, ReadRow, ReadDraft
  <1> QED
    BY <1>1, <1>2 DEF ChangeUpdate, ChangeLock, Answer, Checked, Typed, TypeOK

LEMMA GetUpdatedChecked ==
    ASSUME Checked, NEW t \in Slot, ChangeGetUpdated(t)
    PROVE  SlotChecked(t)'
  <1>1. /\ pc[t] = "get_updated" /\ pc'[t] = "audit" /\ after'[t] = plans[subject[t]]
        /\ request' = request /\ subject' = subject /\ before' = before /\ plans' = plans
    BY DEF ChangeGetUpdated, Proceed, Checked, Typed, TypeOK, tables
  <1>2. EditPending(t) /\ LockPending(t)
    BY DEF Checked, SlotChecked
  <1>3. EditPending(t)' /\ LockPending(t)'
    BY <1>1, <1>2 DEF EditPending, LockPending
  <1> QED
    BY <1>1, <1>3 DEF SlotChecked, Shown, ReadRow, ReadDraft

\* The audit events of a step: none, or the one of a handler that is due.
LEMMA NextAudits ==
    ASSUME Typed, [Next]_vars
    PROVE  \/ UNCHANGED audits
           \/ \E s \in Slot : pc[s] = "audit" /\ RecordAudit(s) /\ UNCHANGED plans
  <1>1. ASSUME NEW s \in Slot, HandlerStep(s), audits' # audits
        PROVE  pc[s] = "audit" /\ RecordAudit(s) /\ UNCHANGED plans
    BY <1>1 DEF HandlerStep, GenerateGetArea, CreateGetArea, CreateInsert, CreateGetCreated,
       ChangeGet, ChangeUpdate, ChangeLock, ChangeGetUpdated, CopyInsert, Audit, tables
  <1>2. ASSUME NEW s \in Slot, Fault(s), audits' # audits
        PROVE  pc[s] = "audit" /\ RecordAudit(s) /\ UNCHANGED plans
    BY <1>2 DEF Fault, DatabaseError, InsertUnacknowledged, UpdateUnacknowledged,
       AuditUnacknowledged, tables
  <1>3. ASSUME NEW s \in Slot, Submit(s) \/ Collect(s)
        PROVE  UNCHANGED audits
    BY <1>3 DEF Submit, SubmitDrawn, SubmitChange, Collect, tables
  <1>4. Crash \/ (\E a \in Area : AreaStep(a)) \/ UNCHANGED vars => UNCHANGED audits
    BY DEF Crash, AreaStep, vars, tables
  <1> QED
    BY <1>1, <1>2, <1>3, <1>4 DEF Next, RequestStep

\* What is recorded of an edit or a lock is what its handler holds.
LEMMA EventsChecked ==
    ASSUME Checked, RowsGrow, [Next]_vars
    PROVE  EditsFollowTheirSnapshot' /\ LockEvents'
  <1>1. CASE UNCHANGED audits
    BY <1>1 DEF Checked, RowsGrow, EditsFollowTheirSnapshot, LockEvents
  <1>2. ASSUME NEW s \in Slot, pc[s] = "audit", RecordAudit(s), UNCHANGED plans
        PROVE  EditsFollowTheirSnapshot' /\ LockEvents'
    <2> DEFINE event == [op |-> request[s].op, id |-> subject[s], wrote |-> WroteVersion(s),
                         before |-> before[s], after |-> after[s]]
    <2>1. /\ request[s].op \in {"update", "lock"} => request[s] \in Changes
          /\ request[s].op = "lock" => request[s] \in LockRequest
      BY <1>2, RequestOps DEF Checked, Typed, RequestKinds, Drawings, Changes
    <2>2. event.op \in {"update", "lock"} => /\ event.before.version = event.wrote - 1
                                             /\ event.before.state = "draft"
      <3>1. ASSUME request[s].op \in {"update", "lock"}
            PROVE  /\ before[s].version = WroteVersion(s) - 1
                   /\ before[s].state = "draft"
        <4>1. before[s].state = "draft" /\ before[s].version = request[s].expected
          BY <1>2, <2>1, <3>1 DEF Checked, SlotChecked, EditPending
        <4>2. request[s].expected \in Nat
          BY <2>1, <3>1 DEF Changes, UpdateRequest, LockRequest
        <4>3. WroteVersion(s) = request[s].expected + 1
          BY <3>1 DEF WroteVersion
        <4> QED
          BY <4>1, <4>2, <4>3
      <3> QED
        BY <3>1
    <2>3. event.op = "lock" => /\ event.id \in DOMAIN plans
                               /\ plans[event.id].state = "locked"
                               /\ event.after = plans[event.id]
      BY <1>2, <2>1 DEF Checked, Typed, SubjectExists, SlotChecked, LockPending
    <2>4. audits' = audits \cup {event}
      BY <1>2 DEF RecordAudit
    <2> HIDE DEF event
    <2> QED
      BY <1>2, <2>2, <2>3, <2>4 DEF Checked, EditsFollowTheirSnapshot, LockEvents
  <1> QED
    BY <1>1, <1>2, NextAudits DEF Checked

LEMMA NextChecked ==
    ASSUME Checked, KnownVersions, [Next]_vars
    PROVE  Checked'
  <1>1. Typed'
    BY NextTyped DEF Checked
  <1>2. RowsGrow /\ Numbered'
    BY NextTable, TableGrows DEF Checked
  <1>3. ASSUME NEW t \in Slot
        PROVE  SlotChecked(t)'
    <2>1. CASE SlotSame(t)
      BY <1>1, <1>2, <2>1, SameSlotChecked
    <2>2. CASE pc'[t] \in {"idle", "replied"}
      BY <2>2, NothingHeld
    <2>3. CASE HandlerStep(t)
      BY <2>3, DrawnChecked, InsertChecked, GetChecked, WriteChecked, GetUpdatedChecked
         DEF HandlerStep
    <2> QED
      BY <1>1, <2>1, <2>2, <2>3, SubmitChecked, SlotStep DEF Checked
  <1> QED
    BY <1>1, <1>2, <1>3, EventsChecked DEF Checked

LEMMA InitChecked == Init => Checked
  <1> SUFFICES ASSUME Init PROVE Checked
    OBVIOUS
  <1>1. Typed
    BY InitTyped
  <1>2. \A s \in Slot : SlotChecked(s)
    BY DEF Init, SlotChecked, Shown, ReadRow, ReadDraft, EditPending, LockPending
  <1>3. Numbered
    BY SeededPlans DEF Numbered
  <1> QED
    BY <1>1, <1>2, <1>3 DEF Init, Checked, EditsFollowTheirSnapshot, LockEvents

-----------------------------------------------------------------------------
(* Theorems on edits and locks *)

\* As long as clients send versions that they were shown, the audit event of
\* a lock shows the plan as it is ever after.
THEOREM LockStands == KnownVersions => (Spec => []LockAuditStands)
  <1> SUFFICES ASSUME KnownVersions PROVE Spec => []LockAuditStands
    OBVIOUS
  <1>1. Checked /\ [Next]_vars => Checked'
    BY NextChecked
  <1>2. Checked => LockAuditStands
    BY DEF Checked, LockEvents, LockAuditStands
  <1> QED
    BY InitChecked, <1>1, <1>2, PTL DEF Spec

\* Under the same assumption the snapshot of an edit is the draft that its
\* statement replaced.
THEOREM EditsFollow == KnownVersions => (Spec => []EditsFollowTheirSnapshot)
  <1> SUFFICES ASSUME KnownVersions PROVE Spec => []EditsFollowTheirSnapshot
    OBVIOUS
  <1>1. Checked /\ [Next]_vars => Checked'
    BY NextChecked
  <1>2. Checked => EditsFollowTheirSnapshot
    BY DEF Checked
  <1> QED
    BY InitChecked, <1>1, <1>2, PTL DEF Spec

-----------------------------------------------------------------------------
(* Refinement *)

\* The abstract rows of a table.
RowsOf(table) == [id \in DOMAIN table |-> AbstractRow(table[id])]

LEMMA InitImplements == Init => Lifecycle!Init
  <1> SUFFICES ASSUME Init PROVE Lifecycle!Init
    OBVIOUS
  <1>1. CASE plans = [id \in {} |-> NoRow]
    BY <1>1 DEF Lifecycle!Init
  <1>2. CASE \E area \in Area, seeded \in PlanId : plans = [id \in {seeded} |-> SeedPlan(area)]
    BY <1>2 DEF Lifecycle!Init
  <1> QED
    BY <1>1, <1>2 DEF Init, SeededTables

\* An insert is a Create of the abstract table.
LEMMA NewRowImplements ==
    ASSUME Typed, NEW id \in PlanId, NEW row \in Row, NewRow(id, row)
    PROVE  \E key \in Area, body \in Lines \X NameLength, version \in Lifecycle!FirstVersions :
               Lifecycle!Create(id, key, body, version)
  <1>1. row.area \in Area /\ <<row.lines, row.name>> \in Lines \X NameLength
    BY DEF Row
  <1>2. row.version \in Lifecycle!FirstVersions
    <2>1. ASSUME NEW i \in DOMAIN plans, row.version \in 2..(plans[i].version + 1)
          PROVE  row.version \in Lifecycle!FirstVersions
      BY <2>1 DEF Lifecycle!FirstVersions, AbstractRow
    <2>2. row.version = 1 => row.version \in Lifecycle!FirstVersions
      BY DEF Lifecycle!FirstVersions
    <2> QED
      BY <2>1, <2>2 DEF NewRow
  <1>3. RowsOf(plans)' = [i \in DOMAIN RowsOf(plans) \cup {id} |->
                              IF i = id THEN AbstractRow(row) ELSE RowsOf(plans)[i]]
    BY DEF NewRow, RowsOf
  <1>4. Lifecycle!Create(id, row.area, <<row.lines, row.name>>, row.version)
    <2>1. row.state # "locked" /\ id \notin DOMAIN plans
      BY DEF NewRow
    <2> QED
      BY <1>3, <2>1 DEF Lifecycle!Create, RowsOf, AbstractRow
  <1> QED
    BY <1>1, <1>2, <1>4

\* An update is an Edit of the abstract table.
LEMMA EditRowImplements ==
    ASSUME Typed, NEW id \in DOMAIN plans, NEW row \in Row, EditRow(id, row)
    PROVE  \E body \in Lines \X NameLength, frozen \in BOOLEAN : Lifecycle!Edit(id, body, frozen)
  <1>1. <<row.lines, row.name>> \in Lines \X NameLength
    BY DEF Row
  <1>2. RowsOf(plans)' = [RowsOf(plans) EXCEPT ![id] = AbstractRow(row)]
    BY DEF EditRow, RowsOf
  <1>3. AbstractRow(row) = [key |-> AbstractRow(plans[id]).key, body |-> <<row.lines, row.name>>,
                            frozen |-> row.state = "locked",
                            version |-> AbstractRow(plans[id]).version + 1]
    BY DEF EditRow, AbstractRow
  <1>4. Lifecycle!Edit(id, <<row.lines, row.name>>, row.state = "locked")
    <2>1. plans[id].state # "locked"
      BY DEF EditRow
    <2> QED
      BY <1>2, <1>3, <2>1 DEF Lifecycle!Edit, RowsOf, AbstractRow
  <1> QED
    BY <1>1, <1>4

LEMMA NextImplements ==
    ASSUME Checked, [Next]_vars
    PROVE  [Lifecycle!Next]_(RowsOf(plans))
  <1>1. CASE UNCHANGED plans
    BY <1>1 DEF RowsOf
  <1>2. ASSUME NEW id \in PlanId, NEW row \in Row, NewRow(id, row)
        PROVE  Lifecycle!Next
    BY <1>2, NewRowImplements DEF Checked, Lifecycle!Next
  <1>3. ASSUME NEW id \in DOMAIN plans, NEW row \in Row, EditRow(id, row)
        PROVE  Lifecycle!Next
    BY <1>3, EditRowImplements DEF Checked, Lifecycle!Next
  <1> QED
    BY <1>1, <1>2, <1>3, NextTable DEF Checked, TableStep

\* As long as clients send versions that they were shown, the table of plans
\* behaves as a table of editable rows: no edit is lost and a locked plan
\* never changes.
THEOREM Refinement == KnownVersions => (Spec => ImplementsEditableRows)
  <1> SUFFICES ASSUME KnownVersions PROVE Spec => ImplementsEditableRows
    OBVIOUS
  <1>1. Checked /\ [Next]_vars => Checked'
    BY NextChecked
  <1>2. Checked /\ [Next]_vars => [Lifecycle!Next]_(RowsOf(plans))
    BY NextImplements
  <1> QED
    BY InitChecked, InitImplements, <1>1, <1>2, PTL
       DEF Spec, ImplementsEditableRows, Lifecycle!Spec, RowsOf, AbstractRow

-----------------------------------------------------------------------------
(* The audit ledger, whatever versions the clients send *)

Owed == [t \in Slot |-> Unaudited(t)]

\* A slot's step changes what its own handler owes and nothing else of what
\* is owed.
LEMMA OwedStep ==
    ASSUME Typed, NEW s \in Slot, Submit(s) \/ Collect(s) \/ HandlerStep(s) \/ Fault(s)
    PROVE  Owed' = [Owed EXCEPT ![s] = Unaudited(s)']
  <1>1. ASSUME NEW t \in Slot, t # s
        PROVE  Unaudited(t)' = Unaudited(t)
    <2>1. SlotSame(t)
      BY <1>1, OtherSlot
    <2> QED
      BY <2>1 DEF SlotSame, Unaudited, WroteVersion
  <1> QED
    BY <1>1 DEF Owed

\* A plan has not fallen behind the version it was made with.
Firsts == \A id \in DOMAIN plans : first[id] \in Nat /\ first[id] <= plans[id].version

\* A row that a create or a copy inserts.
Inserts(s, id) ==
    \/ pc[s] = "insert" /\ InsertRow(s, id, NewPlan(request[s]))
    \/ /\ pc[s] = "insert_copy" /\ ~CopyTooLong(s)
       /\ InsertRow(s, id, CopyOf(before[s]))

Edits(s) == \/ pc[s] = "update" /\ UpdatePlan(s)
            \/ pc[s] = "lock" /\ LockPlan(s)

\* An INSERT makes its row with the version that its handler reports.
LEMMA InsertVersion ==
    ASSUME Typed, NEW s \in Slot, NEW id \in PlanId, Inserts(s, id)
    PROVE  \E row \in Row : InsertRow(s, id, row) /\ row.version = WroteVersion(s)
  <1>1. CASE pc[s] = "insert" /\ InsertRow(s, id, NewPlan(request[s]))
    <2>1. request[s] \in CreateRequest
      BY <1>1 DEF Typed, RequestKinds, Drawings
    <2>2. NewPlan(request[s]) \in Row /\ WroteVersion(s) = 1
      BY <2>1, NewPlanType, RequestOps DEF WroteVersion
    <2>3. NewPlan(request[s]).version = 1
      BY DEF NewPlan
    <2> QED
      BY <1>1, <2>2, <2>3
  <1>2. CASE /\ pc[s] = "insert_copy" /\ ~CopyTooLong(s)
             /\ InsertRow(s, id, CopyOf(before[s]))
    <2>1. request[s] \in CopyRequest /\ before[s] \in Row
      BY <1>2 DEF Typed, RequestKinds, RowsHeld
    <2>2. CopyOf(before[s]) \in Row /\ WroteVersion(s) = before[s].version + 1
      BY <1>2, <2>1, CopyType, RequestOps DEF WroteVersion
    <2>3. CopyOf(before[s]).version = before[s].version + 1
      BY DEF CopyOf
    <2> QED
      BY <1>2, <2>2, <2>3
  <1> QED
    BY <1>1, <1>2 DEF Inserts

LEMMA InsertWrites ==
    ASSUME Typed, Firsts, NEW s \in Slot, NEW id \in PlanId, Inserts(s, id)
    PROVE  /\ <<id, WroteVersion(s)>> \notin Written
           /\ Written' = Written \cup {<<id, WroteVersion(s)>>}
           /\ Firsts'
  <1> DEFINE n == WroteVersion(s)
  <1>1. PICK row \in Row : InsertRow(s, id, row) /\ row.version = n
    BY InsertVersion
  <1>2. /\ id \notin DOMAIN plans
        /\ DOMAIN plans' = DOMAIN plans \cup {id}
        /\ \A i \in DOMAIN plans : plans'[i] = plans[i]
        /\ plans'[id] = row
    BY <1>1 DEF InsertRow
  <1>3. /\ \A i \in DOMAIN plans : first'[i] = first[i]
        /\ first'[id] = n
    BY <1>1, <1>2 DEF InsertRow, Typed, TypeOK
  <1>4. n \in Nat /\ n..n = {n}
    <2>1. n \in Nat
      BY <1>1 DEF Row
    <2> QED
      BY <2>1
  <1> HIDE DEF n
  <1>5. ASSUME NEW i, NEW v
        PROVE  i \in DOMAIN plans' /\ v \in first'[i]..plans'[i].version
                   <=> (i \in DOMAIN plans /\ v \in first[i]..plans[i].version)
                       \/ (i = id /\ v = n)
    BY <1>1, <1>2, <1>3, <1>4
  <1>6. Written' = Written \cup {<<id, n>>} /\ <<id, n>> \notin Written
    BY <1>2, <1>5 DEF Written
  <1>7. Firsts'
    BY <1>1, <1>2, <1>3, <1>4 DEF Firsts
  <1> QED
    BY <1>6, <1>7 DEF n

\* An UPDATE writes the version after the one that the client expected.
LEMMA UpdateWrites ==
    ASSUME Typed, Firsts, NEW s \in Slot, Edits(s), first' = first
    PROVE  /\ <<subject[s], WroteVersion(s)>> \notin Written
           /\ Written' = Written \cup {<<subject[s], WroteVersion(s)>>}
           /\ Firsts'
  <1> DEFINE id == subject[s]
             n == request[s].expected
  <1>1. id \in DOMAIN plans /\ plans[id].version = n
    BY UpdateEffect DEF Edits
  <1>2. PICK row \in Row : /\ plans' = [plans EXCEPT ![id] = row]
                           /\ row.version = plans[id].version + 1
    BY UpdateEffect DEF Edits
  <1>3. n \in Nat /\ WroteVersion(s) = n + 1
    <2>1. request[s] \in UpdateRequest \cup LockRequest
      BY DEF Edits, Typed, RequestKinds
    <2> QED
      BY <2>1, RequestOps DEF WroteVersion, UpdateRequest, LockRequest
  <1> HIDE DEF id, n
  <1>4. /\ DOMAIN plans' = DOMAIN plans /\ plans'[id].version = n + 1
        /\ \A i \in DOMAIN plans : i # id => plans'[i] = plans[i]
        /\ first[id] \in Nat /\ first[id] <= n
    BY <1>1, <1>2 DEF Firsts
  <1>5. first[id]..(n + 1) = first[id]..n \cup {n + 1} /\ n + 1 \notin first[id]..n
    BY <1>3, <1>4
  <1>6. ASSUME NEW i, NEW v
        PROVE  i \in DOMAIN plans' /\ v \in first'[i]..plans'[i].version
                   <=> (i \in DOMAIN plans /\ v \in first[i]..plans[i].version)
                       \/ (i = id /\ v = n + 1)
    BY <1>1, <1>4, <1>5
  <1>7. Written' = Written \cup {<<id, n + 1>>} /\ <<id, n + 1>> \notin Written
    BY <1>1, <1>5, <1>6 DEF Written
  <1>8. Firsts'
    BY <1>1, <1>3, <1>4 DEF Firsts
  <1> QED
    BY <1>3, <1>7, <1>8 DEF id

\* The event that is recorded names the write that the handler owes it for.
LEMMA RecordPays ==
    ASSUME NEW s \in Slot, pc[s] = "audit", RecordAudit(s)
    PROVE  Recorded' = Recorded \cup Unaudited(s)
  <1> DEFINE event == [op |-> request[s].op, id |-> subject[s], wrote |-> WroteVersion(s),
                       before |-> before[s], after |-> after[s]]
  <1>1. audits' = audits \cup {event}
    BY DEF RecordAudit
  <1>2. Unaudited(s) = {<<event.id, event.wrote>>}
    BY DEF Unaudited, UnauditedCalls
  <1> HIDE DEF event
  <1> QED
    BY <1>1, <1>2 DEF Recorded

TrailUnchanged == UNCHANGED <<Written, Recorded, Owed, lost>>

\* What a step means for the audit trail.
TrailStep == Firsts' /\ (TrailUnchanged \/ Trail!Next)

\* A step that writes nothing and records nothing, of a handler that owes
\* as much as before.
LEMMA NeutralStep ==
    ASSUME Typed, Firsts, NEW s \in Slot, Submit(s) \/ Collect(s) \/ HandlerStep(s) \/ Fault(s),
           UNCHANGED <<plans, first, audits, lost>>, Unaudited(s)' = Unaudited(s)
    PROVE  TrailStep
  <1>1. Owed' = Owed
    BY OwedStep DEF Owed
  <1> QED
    BY <1>1 DEF TrailStep, TrailUnchanged, Written, Recorded, Firsts

LEMMA SubmitOnTrail ==
    ASSUME Typed, Firsts, NEW s \in Slot, Submit(s) \/ Collect(s)
    PROVE  TrailStep
  <1>1. UNCHANGED <<plans, first, audits, lost>>
    BY DEF Submit, SubmitDrawn, SubmitChange, Collect, tables, history
  <1>2. Unaudited(s) = {} /\ Unaudited(s)' = {}
    BY DEF Submit, SubmitDrawn, SubmitChange, Proceed, Collect, Unaudited, UnauditedCalls,
       Typed, TypeOK
  <1> QED
    BY <1>1, <1>2, NeutralStep

LEMMA ReadsOnTrail ==
    ASSUME Typed, Firsts, NEW s \in Slot,
           GenerateGetArea(s) \/ CreateGetArea(s) \/ CreateGetCreated(s) \/ ChangeGet(s)
    PROVE  TrailStep
  <1>1. UNCHANGED <<plans, first, audits, lost>>
    BY DEF GenerateGetArea, CreateGetArea, CreateGetCreated, ChangeGet, tables, history
  <1>2. Unaudited(s) = {}
    BY DEF GenerateGetArea, CreateGetArea, CreateGetCreated, ChangeGet, Unaudited,
       UnauditedCalls
  <1>3. Unaudited(s)' = {}
    <2>1. CASE GenerateGetArea(s) \/ CreateGetArea(s) \/ CreateGetCreated(s)
      BY <2>1 DEF GenerateGetArea, CreateGetArea, CreateGetCreated, Answer, Proceed, Unaudited,
         UnauditedCalls, Typed, TypeOK
    <2>2. CASE ChangeGet(s)
      <3>1. request[s].op \in {"update", "lock", "copy"}
        BY <2>2, RequestOps DEF ChangeGet, Typed, RequestKinds, Changes
      <3>2. WriteCall(request[s].op) \in {"update", "lock", "insert_copy"}
        BY <3>1 DEF WriteCall
      <3> QED
        BY <2>2, <3>2 DEF ChangeGet, Answer, Proceed, Unaudited, UnauditedCalls, Typed, TypeOK
    <2> QED
      BY <2>1, <2>2
  <1> QED
    BY <1>1, <1>2, <1>3, NeutralStep DEF HandlerStep

LEMMA GetUpdatedOnTrail ==
    ASSUME Typed, Firsts, NEW s \in Slot, ChangeGetUpdated(s)
    PROVE  TrailStep
  <1>1. UNCHANGED <<plans, first, audits, lost, request, subject, before>>
    BY DEF ChangeGetUpdated, tables, history
  <1>2. pc[s] = "get_updated" /\ pc'[s] = "audit"
    BY DEF ChangeGetUpdated, Proceed, Typed, TypeOK
  <1>3. Unaudited(s)' = Unaudited(s)
    BY <1>1, <1>2 DEF Unaudited, UnauditedCalls, WroteVersion
  <1> QED
    BY <1>1, <1>3, NeutralStep DEF HandlerStep

\* A refused write leaves the table alone.
LEMMA RefusalOnTrail ==
    ASSUME Typed, Firsts, NEW s \in Slot, HandlerStep(s), NEW code, Answer(s, code),
           pc[s] \in {"insert_copy", "update", "lock"},
           UNCHANGED <<plans, first, audits, lost>>
    PROVE  TrailStep
  <1>1. Unaudited(s) = {} /\ Unaudited(s)' = {}
    BY DEF Answer, Unaudited, UnauditedCalls, Typed, TypeOK
  <1> QED
    BY <1>1, NeutralStep

\* A write that the handler learns of: it owes the event from now on.
LEMMA CommitOnTrail ==
    ASSUME Typed, NEW s \in Slot, HandlerStep(s), NEW w,
           Unaudited(s) = {}, Unaudited(s)' = {w},
           w \notin Written, Written' = Written \cup {w}, UNCHANGED <<audits, lost>>
    PROVE  Trail!Next
  <1>1. Owed' = [Owed EXCEPT ![s] = {w}] /\ Owed[s] = {}
    BY OwedStep DEF Owed
  <1>2. UNCHANGED <<Recorded, lost>>
    BY DEF Recorded
  <1>3. Trail!Commit(s, w)
    BY <1>1, <1>2 DEF Trail!Commit, Trail!Write, Owed
  <1> QED
    BY <1>3 DEF Trail!Next

\* A write that the handler does not learn of.
LEMMA LostCommitOnTrail ==
    ASSUME Typed, NEW s \in Slot, Fault(s), NEW w,
           Unaudited(s) = {}, Unaudited(s)' = {},
           w \notin Written, Written' = Written \cup {w}, audits' = audits,
           lost' = lost \cup {w}
    PROVE  Trail!Next
  <1>1. Owed' = Owed
    BY OwedStep DEF Owed
  <1>2. Recorded' = Recorded
    BY DEF Recorded
  <1>3. Trail!CommitUnacknowledged(w)
    BY <1>1, <1>2 DEF Trail!CommitUnacknowledged, Trail!Write, Owed
  <1> QED
    BY <1>3 DEF Trail!Next

LEMMA InsertOnTrail ==
    ASSUME Typed, Firsts, NEW s \in Slot, CreateInsert(s) \/ CopyInsert(s)
    PROVE  TrailStep
  <1>1. CASE CopyInsert(s) /\ Answer(s, "VALUE_TOO_LONG") /\ UNCHANGED <<plans, first>>
    BY <1>1, RefusalOnTrail DEF CopyInsert, HandlerStep
  <1>2. ASSUME NEW id \in PlanId, Inserts(s, id), Proceed(s, "audit"),
               UNCHANGED <<audits, request, before, lost>>
        PROVE  TrailStep
    <2> DEFINE w == <<id, WroteVersion(s)>>
    <2>1. /\ pc[s] \in {"insert", "insert_copy"} /\ pc'[s] = "audit" /\ subject'[s] = id
      BY <1>2 DEF Inserts, InsertRow, Proceed, Typed, TypeOK
    <2>2. WroteVersion(s)' = WroteVersion(s)
      BY <1>2 DEF WroteVersion
    <2>3. Unaudited(s) = {} /\ Unaudited(s)' = {w}
      BY <2>1, <2>2 DEF Unaudited, UnauditedCalls
    <2>4. w \notin Written /\ Written' = Written \cup {w} /\ Firsts'
      BY <1>2, InsertWrites
    <2> HIDE DEF w
    <2>5. Trail!Next
      BY <1>2, <2>3, <2>4, CommitOnTrail DEF HandlerStep
    <2> QED
      BY <2>4, <2>5 DEF TrailStep
  <1> QED
    BY <1>1, <1>2 DEF CreateInsert, CopyInsert, Inserts

LEMMA EditOnTrail ==
    ASSUME Typed, Firsts, NEW s \in Slot, ChangeUpdate(s) \/ ChangeLock(s)
    PROVE  TrailStep
  <1>1. CASE Answer(s, "VERSION_CONFLICT") /\ UNCHANGED plans
    BY <1>1, RefusalOnTrail DEF ChangeUpdate, ChangeLock, HandlerStep, history
  <1>2. CASE Edits(s) /\ Proceed(s, "get_updated")
    <2> DEFINE w == <<subject[s], WroteVersion(s)>>
    <2>1. UNCHANGED <<audits, request, subject, before, first, lost>>
      BY DEF ChangeUpdate, ChangeLock, registers, history
    <2>2. /\ pc[s] \in {"update", "lock"} /\ pc'[s] = "get_updated"
      BY <1>2 DEF Edits, Proceed, Typed, TypeOK
    <2>3. WroteVersion(s)' = WroteVersion(s)
      BY <2>1 DEF WroteVersion
    <2>4. Unaudited(s) = {} /\ Unaudited(s)' = {w}
      BY <2>1, <2>2, <2>3 DEF Unaudited, UnauditedCalls
    <2>5. w \notin Written /\ Written' = Written \cup {w} /\ Firsts'
      BY <1>2, <2>1, UpdateWrites
    <2> HIDE DEF w
    <2>6. Trail!Next
      BY <2>1, <2>4, <2>5, CommitOnTrail DEF HandlerStep
    <2> QED
      BY <2>5, <2>6 DEF TrailStep
  <1> QED
    BY <1>1, <1>2 DEF ChangeUpdate, ChangeLock, Edits

LEMMA UnacknowledgedOnTrail ==
    ASSUME Typed, Firsts, NEW s \in Slot, InsertUnacknowledged(s) \/ UpdateUnacknowledged(s)
    PROVE  TrailStep
  <1>1. Unaudited(s) = {} /\ Unaudited(s)' = {} /\ audits' = audits
    BY DEF InsertUnacknowledged, UpdateUnacknowledged, Answer, Unaudited, UnauditedCalls,
       Typed, TypeOK
  <1>2. PICK w : /\ w \notin Written /\ Written' = Written \cup {w} /\ Firsts'
                 /\ lost' = lost \cup {w}
    <2>1. CASE InsertUnacknowledged(s)
      <3>1. PICK id \in PlanId : Inserts(s, id) /\ lost' = lost \cup {<<id, WroteVersion(s)>>}
        BY <2>1 DEF InsertUnacknowledged, Inserts
      <3> QED
        BY <3>1, InsertWrites
    <2>2. CASE UpdateUnacknowledged(s)
      <3>1. /\ Edits(s) /\ first' = first
            /\ lost' = lost \cup {<<subject[s], WroteVersion(s)>>}
        BY <2>2 DEF UpdateUnacknowledged, Edits
      <3> QED
        BY <3>1, UpdateWrites
    <2> QED
      BY <2>1, <2>2
  <1>3. Trail!Next
    BY <1>1, <1>2, LostCommitOnTrail DEF Fault
  <1> QED
    BY <1>2, <1>3 DEF TrailStep

LEMMA AuditOnTrail ==
    ASSUME Typed, Firsts, NEW s \in Slot, Audit(s) \/ AuditUnacknowledged(s)
    PROVE  TrailStep
  <1>1. Unaudited(s)' = {}
    BY DEF Audit, AuditUnacknowledged, Answer, Proceed, Unaudited, UnauditedCalls, Typed, TypeOK
  <1>2. Owed' = [Owed EXCEPT ![s] = {}]
    BY <1>1, OwedStep DEF HandlerStep, Fault
  <1>3. Recorded' = Recorded \cup Owed[s]
    BY RecordPays DEF Audit, AuditUnacknowledged, Owed
  <1>4. UNCHANGED <<Written, lost>> /\ Firsts'
    BY DEF Audit, AuditUnacknowledged, Written, Firsts, history
  <1>5. Trail!Record(s)
    BY <1>2, <1>3, <1>4 DEF Trail!Record, Owed
  <1> QED
    BY <1>4, <1>5 DEF TrailStep, Trail!Next

LEMMA DatabaseErrorOnTrail ==
    ASSUME Typed, Firsts, NEW s \in Slot, DatabaseError(s)
    PROVE  TrailStep
  <1>1. Unaudited(s)' = {}
    BY DEF DatabaseError, Answer, Unaudited, UnauditedCalls, Typed, TypeOK
  <1>2. Owed' = [Owed EXCEPT ![s] = {}]
    BY <1>1, OwedStep DEF Fault
  <1>3. lost' = lost \cup Owed[s]
    BY DEF DatabaseError, Owed
  <1>4. UNCHANGED <<Written, Recorded>> /\ Firsts'
    BY DEF DatabaseError, Written, Recorded, Firsts, tables
  <1>5. Trail!Lose(s)
    BY <1>2, <1>3, <1>4 DEF Trail!Lose, Owed
  <1> QED
    BY <1>4, <1>5 DEF TrailStep, Trail!Next

LEMMA CrashOnTrail ==
    ASSUME Firsts, Crash
    PROVE  TrailStep
  <1>1. Owed' = [t \in Slot |-> {}]
    BY DEF Crash, Owed, Unaudited, UnauditedCalls
  <1>2. lost' = lost \cup UNION {Owed[s] : s \in Slot}
    BY DEF Crash, Owed
  <1>3. UNCHANGED <<Written, Recorded>> /\ Firsts'
    BY DEF Crash, Written, Recorded, Firsts, tables
  <1>4. Trail!Crash
    BY <1>1, <1>2, <1>3 DEF Trail!Crash, Owed
  <1> QED
    BY <1>3, <1>4 DEF TrailStep, Trail!Next

\* Every step of the service is a step of the audit trail or leaves it alone.
LEMMA NextTrail ==
    ASSUME Typed, Firsts, [Next]_vars
    PROVE  TrailStep
  <1>1. ASSUME NEW s \in Slot, HandlerStep(s)
        PROVE  TrailStep
    BY <1>1, ReadsOnTrail, InsertOnTrail, EditOnTrail, GetUpdatedOnTrail, AuditOnTrail
       DEF HandlerStep
  <1>2. ASSUME NEW s \in Slot, Fault(s)
        PROVE  TrailStep
    BY <1>2, DatabaseErrorOnTrail, UnacknowledgedOnTrail, AuditOnTrail DEF Fault
  <1>3. CASE (\E a \in Area : AreaStep(a)) \/ UNCHANGED vars
    BY <1>3 DEF AreaStep, vars, tables, slots, registers, history, TrailStep, TrailUnchanged,
       Written, Recorded, Owed, Unaudited, WroteVersion, Firsts
  <1> QED
    BY <1>1, <1>2, <1>3, SubmitOnTrail, CrashOnTrail DEF Next, RequestStep

LEMMA InitTrail == Init => Trail!Init /\ Firsts
  <1> SUFFICES ASSUME Init PROVE Trail!Init /\ Firsts
    OBVIOUS
  <1>1. \A id \in DOMAIN plans : first[id] = 1 /\ plans[id].version = 1
    BY SeededPlans DEF Init
  <1>2. lost = {<<id, 1>> : id \in DOMAIN plans}
    BY <1>1 DEF Init
  <1>3. \A id \in DOMAIN plans : first[id]..plans[id].version = {1}
    BY <1>1
  <1>4. Written = lost
    BY <1>2, <1>3 DEF Written
  <1> QED
    BY <1>1, <1>4 DEF Init, Trail!Init, Recorded, Unaudited, UnauditedCalls, Firsts

LEMMA TrailSteps == Typed /\ Firsts /\ [Next]_vars => [Trail!Next]_(Trail!vars) /\ Firsts'
  BY NextTrail DEF TrailStep, TrailUnchanged, Trail!vars, Owed

\* The writes of the service and their audit events are an audit trail.
THEOREM TrailRefinement == Spec => ImplementsAuditTrail
  BY InitTyped, NextTyped, InitTrail, TrailSteps, PTL DEF Spec, ImplementsAuditTrail, Trail!Spec

\* One write has one audit event.
UniqueEvents == \A e, f \in audits : e.id = f.id /\ e.wrote = f.wrote => e = f

LEMMA UniqueEventsKept ==
    ASSUME Typed, UniqueEvents, Trail!Ledger, [Next]_vars
    PROVE  UniqueEvents'
  <1>1. CASE UNCHANGED audits
    BY <1>1 DEF UniqueEvents
  <1>2. ASSUME NEW s \in Slot, pc[s] = "audit", RecordAudit(s)
        PROVE  UniqueEvents'
    <2>1. <<subject[s], WroteVersion(s)>> \in Unaudited(s)
      BY <1>2 DEF Unaudited, UnauditedCalls
    <2>2. <<subject[s], WroteVersion(s)>> \notin Recorded
      BY <2>1 DEF Trail!Ledger, Trail!Pending
    <2>3. \A e \in audits : ~(e.id = subject[s] /\ e.wrote = WroteVersion(s))
      BY <2>2 DEF Recorded
    <2> QED
      BY <1>2, <2>3 DEF RecordAudit, UniqueEvents
  <1> QED
    BY <1>1, <1>2, NextAudits

\* Each write is recorded once, or pending, or lost.
THEOREM AuditLedgerHolds == Spec => []AuditLedger
  <1>1. Init => UniqueEvents /\ Trail!Ledger
    BY InitTrail, Trail!InitLedger DEF Init, UniqueEvents
  <1>2. Typed /\ Firsts /\ UniqueEvents /\ Trail!Ledger /\ [Next]_vars
            => UniqueEvents' /\ Trail!Ledger'
    BY TrailSteps, Trail!NextLedger, UniqueEventsKept
  <1>3. UniqueEvents /\ Trail!Ledger => AuditLedger
    BY DEF UniqueEvents, Trail!Ledger, Trail!Pending, AuditLedger, Pending
  <1> QED
    BY <1>1, <1>2, <1>3, InitTyped, NextTyped, InitTrail, TrailSteps, PTL DEF Spec
=============================================================================

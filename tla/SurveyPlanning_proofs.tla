------------------------ MODULE SurveyPlanning_proofs ------------------------
(* Theorems for every value of the constants: about the area service        *)
(* (SurveyAreaService), and about the composition, in which it changes      *)
(* areas only as the plan service supposes.  The refinement of EditableRows *)
(* supposes that clients send versions that they were shown                 *)
(* (KnownVersions); the others suppose nothing of the clients.              *)
EXTENDS SurveyPlanning, TLAPS

-----------------------------------------------------------------------------
(* Types *)

\* The request of a busy slot is of the kind that its handler serves.
RequestKinds ==
    \A s \in Slot :
        /\ pc[s] \in CreateCalls => request[s] \in CreateRequest
        /\ pc[s] \in UpdateCalls => request[s] \in UpdateRequest

\* A slot past its read or its insert works on a row of the table; before
\* its read it asks for an id.
SubjectExists ==
    \A s \in Slot :
        /\ pc[s] = "update.get" => subject[s] \in AreaId
        /\ pc[s] \in {"create.audit", "update.update", "update.get_updated", "update.audit"} =>
               subject[s] \in DOMAIN areas

\* A slot that has read no row holds none, and the rows that it uses are there.
RowsHeld ==
    \A s \in Slot :
        /\ pc[s] \in {"idle", "update.get"} \cup CreateCalls => before[s] = NoRow
        /\ pc[s] \in {"update.update", "update.get_updated", "update.audit"} => before[s] \in Row
        /\ pc[s] \in {"create.audit", "update.audit"} => after[s] \in Row

Typed == TypeOK /\ RequestKinds /\ SubjectExists /\ RowsHeld

\* The table that seed leaves: at most one row, at version 1.
LEMMA SeededAreas ==
    ASSUME Init
    PROVE  /\ DOMAIN areas \subseteq AreaId
           /\ \A id \in DOMAIN areas : areas[id] \in Row /\ areas[id].version = 1
           /\ \A i, j \in DOMAIN areas : i = j
  <1>1. SeedArea \in Row /\ SeedArea.version = 1
    BY SeedAssumption DEF SeedArea, Row, AreaStates
  <1>2. \/ areas = [id \in {} |-> NoRow]
        \/ \E seeded \in AreaId : areas = [id \in {seeded} |-> SeedArea]
    BY DEF Init, SeededTable
  <1> QED
    BY <1>1, <1>2

LEMMA InitTyped == Init => Typed
  <1> SUFFICES ASSUME Init PROVE Typed
    OBVIOUS
  <1>1. lost \subseteq AreaId \X Nat
    BY SeededAreas DEF Init, Row
  <1> QED
    BY <1>1, SeededAreas DEF Init, Typed, TypeOK, RequestKinds, SubjectExists, RowsHeld,
       CreateCalls, UpdateCalls, Replies

LEMMA NewAreaType == ASSUME NEW create \in CreateRequest PROVE NewArea(create) \in Row
  <1>1. Normalized[create.code] \in AreaCode
    BY ContentAssumption DEF CreateRequest
  <1> QED
    BY <1>1 DEF NewArea, Row, CreateRequest, AreaStates

\* The INSERT adds one row, with a code that no other has.
LEMMA InsertEffect ==
    ASSUME Typed, NEW s \in Slot, pc[s] = "create.insert", NEW id \in AreaId, InsertArea(s, id)
    PROVE  /\ id \notin DOMAIN areas
           /\ DOMAIN areas' = DOMAIN areas \cup {id}
           /\ \A i \in DOMAIN areas : areas'[i] = areas[i]
           /\ areas'[id] = NewArea(request[s])
           /\ NewArea(request[s]) \in Row
           /\ \A i \in DOMAIN areas : areas[i].code # NewArea(request[s]).code
           /\ subject' = [subject EXCEPT ![s] = id]
           /\ subject'[s] = id
           /\ \A t \in Slot \ {s} : subject'[t] = subject[t]
  <1>1. request[s] \in CreateRequest
    BY DEF Typed, RequestKinds, CreateCalls
  <1>2. NewArea(request[s]) \in Row
    BY <1>1, NewAreaType
  <1>3. \A i \in DOMAIN areas : areas[i].code # NewArea(request[s]).code
    BY DEF InsertArea, CodeTaken, NewArea
  <1> QED
    BY <1>2, <1>3 DEF InsertArea, Typed, TypeOK

\* The UPDATE replaces one row by its next version.
LEMMA UpdateEffect ==
    ASSUME Typed, NEW s \in Slot, pc[s] = "update.update", UpdateArea(s)
    PROVE  /\ subject[s] \in DOMAIN areas
           /\ areas[subject[s]].version = request[s].expected
           /\ \E row \in Row : /\ areas' = [areas EXCEPT ![subject[s]] = row]
                               /\ row.code = areas[subject[s]].code
                               /\ row.version = areas[subject[s]].version + 1
  <1>1. subject[s] \in DOMAIN areas /\ areas[subject[s]] \in Row
    BY DEF Typed, TypeOK, SubjectExists
  <1>2. request[s] \in UpdateRequest
    BY DEF Typed, RequestKinds, UpdateCalls
  <1>3. Edited(s) \in Row
    BY <1>1, <1>2 DEF Edited, Row, UpdateRequest
  <1> QED
    BY <1>1, <1>3 DEF UpdateArea, UpdateMatches, Edited

-----------------------------------------------------------------------------
(* Every action keeps the types. *)

LEMMA SubmitTyped ==
    ASSUME Typed, NEW s \in Slot, Submit(s)
    PROVE  Typed'
  <1>1. ASSUME NEW create \in CreateInput, SubmitCreate(s, create)
        PROVE  Typed'
    <2>1. create \in CreateRequest /\ GeometryError[create.content] \in GeometryErrors \cup {"none"}
      BY ContentAssumption DEF CreateRequest
    <2>2. /\ request' = [request EXCEPT ![s] = create]
          /\ UNCHANGED <<areas, audits, subject, before, after, lost>>
      BY <1>1 DEF SubmitCreate, tables
    <2>3. CASE Proceed(s, "create.insert")
      BY <1>1, <2>1, <2>2, <2>3 DEF SubmitCreate, Proceed, Typed, TypeOK, RequestKinds,
         SubjectExists, RowsHeld, CreateCalls, UpdateCalls
    <2>4. CASE Answer(s, GeometryError[create.content])
      BY <2>1, <2>2, <2>4 DEF Answer, Typed, TypeOK, RequestKinds, SubjectExists, RowsHeld,
         CreateCalls, UpdateCalls, Replies
    <2> QED
      BY <1>1, <2>3, <2>4 DEF SubmitCreate
  <1>2. ASSUME NEW update \in UpdateInput, SubmitUpdate(s, update)
        PROVE  Typed'
    <2>1. update \in UpdateRequest /\ update.id \in AreaId
      BY ContentAssumption DEF UpdateRequest
    <2> QED
      BY <1>2, <2>1 DEF SubmitUpdate, Typed, TypeOK, RequestKinds, SubjectExists, RowsHeld,
         CreateCalls, UpdateCalls, tables
  <1> QED
    BY <1>1, <1>2 DEF Submit

LEMMA CollectTyped ==
    ASSUME Typed, NEW s \in Slot, Collect(s)
    PROVE  Typed'
  BY DEF Collect, Typed, TypeOK, RequestKinds, SubjectExists, RowsHeld, CreateCalls, UpdateCalls,
     Replies, tables

\* An answer that changes nothing else that is typed by the position of the
\* handler keeps the types.
LEMMA AnswerTyped ==
    ASSUME Typed, NEW s \in Slot, NEW code \in Replies, Answer(s, code),
           audits' \subseteq AuditEvent, lost' \subseteq AreaId \X Nat,
           UNCHANGED <<areas, request, subject, before, after>>
    PROVE  Typed'
  BY DEF Answer, Typed, TypeOK, RequestKinds, SubjectExists, RowsHeld, CreateCalls, UpdateCalls

LEMMA CreateInsertTyped ==
    ASSUME Typed, NEW s \in Slot, CreateInsert(s)
    PROVE  Typed'
  <1>1. CASE Answer(s, "DUPLICATE_RESOURCE") /\ UNCHANGED <<areas, subject, after>>
    BY <1>1, AnswerTyped DEF CreateInsert, Typed, TypeOK, Replies
  <1>2. ASSUME NEW id \in AreaId, InsertArea(s, id),
               after' = [after EXCEPT ![s] = NewArea(request[s])], Proceed(s, "create.audit")
        PROVE  Typed'
    <2>1. /\ pc[s] = "create.insert" /\ pc' = [pc EXCEPT ![s] = "create.audit"]
          /\ UNCHANGED <<audits, request, before, reply, lost>>
      BY <1>2 DEF CreateInsert, Proceed
    <2>2. /\ DOMAIN areas' = DOMAIN areas \cup {id} /\ areas'[id] = NewArea(request[s])
          /\ \A i \in DOMAIN areas : areas'[i] = areas[i]
          /\ NewArea(request[s]) \in Row
          /\ subject' = [subject EXCEPT ![s] = id] /\ subject'[s] = id
          /\ \A t \in Slot \ {s} : subject'[t] = subject[t]
      BY <1>2, <2>1, InsertEffect
    <2>3. TypeOK'
      BY <1>2, <2>1, <2>2 DEF Typed, TypeOK, CreateCalls
    <2>4. /\ pc'[s] = "create.audit" /\ after'[s] = NewArea(request[s])
          /\ \A t \in Slot \ {s} : pc'[t] = pc[t] /\ after'[t] = after[t]
      BY <1>2, <2>1 DEF Typed, TypeOK
    <2>5. RequestKinds' /\ SubjectExists'
      BY <2>1, <2>2, <2>4 DEF Typed, RequestKinds, SubjectExists, CreateCalls, UpdateCalls
    <2>6. RowsHeld'
      BY <2>1, <2>2, <2>4 DEF Typed, RowsHeld, CreateCalls
    <2> QED
      BY <2>3, <2>5, <2>6 DEF Typed
  <1> QED
    BY <1>1, <1>2 DEF CreateInsert

\* What RecordAudit inserts is an event.
LEMMA RecordTyped ==
    ASSUME Typed, NEW s \in Slot, pc[s] \in {"create.audit", "update.audit"}, RecordAudit(s)
    PROVE  audits' \subseteq AuditEvent
  <1>1. subject[s] \in AreaId
    BY DEF Typed, TypeOK, SubjectExists
  <1>2. WroteVersion(s) \in Nat
    BY DEF Typed, RequestKinds, UpdateCalls, UpdateRequest, WroteVersion
  <1>3. before[s] \in Row \cup {NoRow} /\ after[s] \in Row
    BY DEF Typed, TypeOK, RowsHeld
  <1>4. [id |-> subject[s], wrote |-> WroteVersion(s),
         before |-> before[s], after |-> after[s]] \in AuditEvent
    BY <1>1, <1>2, <1>3 DEF AuditEvent
  <1> QED
    BY <1>4 DEF RecordAudit, Typed, TypeOK

LEMMA AuditTyped ==
    ASSUME Typed, NEW s \in Slot, CreateAudit(s) \/ UpdateAudit(s) \/ AuditUnacknowledged(s)
    PROVE  Typed'
  <1>1. audits' \subseteq AuditEvent
    BY RecordTyped DEF CreateAudit, UpdateAudit, AuditUnacknowledged
  <1>2. UNCHANGED <<areas, request, subject, before, after, lost>>
    BY DEF CreateAudit, UpdateAudit, AuditUnacknowledged, registers
  <1>3. CASE AuditUnacknowledged(s)
    BY <1>1, <1>2, <1>3, AnswerTyped DEF AuditUnacknowledged, Typed, TypeOK, Replies
  <1>4. ASSUME NEW call \in ViewCalls, Proceed(s, call)
        PROVE  Typed'
    BY <1>1, <1>2, <1>4 DEF Proceed, Typed, TypeOK, RequestKinds, SubjectExists, RowsHeld,
       CreateCalls, UpdateCalls, ViewCalls
  <1> QED
    BY <1>3, <1>4 DEF CreateAudit, UpdateAudit, ViewCalls

LEMMA ViewTyped ==
    ASSUME Typed, NEW s \in Slot, View(s)
    PROVE  Typed'
  BY AnswerTyped DEF View, Typed, TypeOK, Replies, tables, registers

LEMMA UpdateGetTyped ==
    ASSUME Typed, NEW s \in Slot, UpdateGet(s)
    PROVE  Typed'
  <1>1. CASE Answer(s, "NOT_FOUND") /\ UNCHANGED before
    BY <1>1, AnswerTyped DEF UpdateGet, Typed, TypeOK, Replies, tables
  <1>2. CASE /\ subject[s] \in DOMAIN areas
             /\ before' = [before EXCEPT ![s] = areas[subject[s]]]
             /\ \/ Answer(s, UpdateError(s, areas[subject[s]]))
                \/ Proceed(s, "update.update")
    <2>1. areas[subject[s]] \in Row /\ request[s] \in UpdateRequest
      BY <1>2 DEF UpdateGet, Typed, TypeOK, RequestKinds, UpdateCalls
    <2>2. UpdateError(s, areas[subject[s]]) \in Replies
      <3>1. GeometryError[request[s].content] \in GeometryErrors \cup {"none"}
        BY <2>1, ContentAssumption DEF UpdateRequest
      <3> QED
        BY <3>1 DEF UpdateError, Replies
    <2>3. UNCHANGED <<areas, audits, request, subject, after, lost>>
      BY DEF UpdateGet, tables
    <2>4. CASE Answer(s, UpdateError(s, areas[subject[s]]))
      BY <1>2, <2>1, <2>2, <2>3, <2>4 DEF Answer, Typed, TypeOK, RequestKinds, SubjectExists,
         RowsHeld, CreateCalls, UpdateCalls
    <2>5. CASE Proceed(s, "update.update")
      BY <1>2, <2>1, <2>3, <2>5 DEF Proceed, Typed, TypeOK, RequestKinds, SubjectExists,
         RowsHeld, CreateCalls, UpdateCalls
    <2> QED
      BY <1>2, <2>4, <2>5
  <1> QED
    BY <1>1, <1>2 DEF UpdateGet

\* After an UPDATE the table has the same ids and holds rows.
LEMMA UpdateKeepsTable ==
    ASSUME Typed, NEW s \in Slot, pc[s] = "update.update", UpdateArea(s)
    PROVE  DOMAIN areas' = DOMAIN areas /\ \A id \in DOMAIN areas' : areas'[id] \in Row
  <1>1. PICK row \in Row : areas' = [areas EXCEPT ![subject[s]] = row]
    BY UpdateEffect
  <1> QED
    BY <1>1 DEF Typed, TypeOK

LEMMA UpdateUpdateTyped ==
    ASSUME Typed, NEW s \in Slot, UpdateUpdate(s)
    PROVE  Typed'
  <1>1. CASE Answer(s, "VERSION_CONFLICT") /\ UNCHANGED areas
    BY <1>1, AnswerTyped DEF UpdateUpdate, Typed, TypeOK, Replies, registers
  <1>2. CASE UpdateArea(s) /\ Proceed(s, "update.get_updated")
    <2>1. DOMAIN areas' = DOMAIN areas /\ \A id \in DOMAIN areas' : areas'[id] \in Row
      BY <1>2, UpdateKeepsTable DEF UpdateUpdate
    <2>2. /\ pc[s] = "update.update" /\ pc' = [pc EXCEPT ![s] = "update.get_updated"]
          /\ UNCHANGED <<audits, request, subject, before, after, reply, lost>>
      BY <1>2 DEF UpdateUpdate, Proceed, registers
    <2>3. /\ request[s] \in UpdateRequest /\ subject[s] \in DOMAIN areas /\ before[s] \in Row
      BY <2>2 DEF Typed, RequestKinds, SubjectExists, RowsHeld, UpdateCalls
    <2> QED
      BY <2>1, <2>2, <2>3 DEF Typed, TypeOK, RequestKinds, SubjectExists, RowsHeld, CreateCalls,
         UpdateCalls
  <1> QED
    BY <1>1, <1>2 DEF UpdateUpdate

LEMMA UpdateGetUpdatedTyped ==
    ASSUME Typed, NEW s \in Slot, UpdateGetUpdated(s)
    PROVE  Typed'
  <1>1. /\ areas[subject[s]] \in Row /\ subject[s] \in DOMAIN areas /\ before[s] \in Row
        /\ request[s] \in UpdateRequest
    BY DEF UpdateGetUpdated, Typed, TypeOK, RequestKinds, SubjectExists, RowsHeld, UpdateCalls
  <1> QED
    BY <1>1 DEF UpdateGetUpdated, Proceed, Typed, TypeOK, RequestKinds, SubjectExists, RowsHeld,
       CreateCalls, UpdateCalls, tables

LEMMA UnauditedType ==
    ASSUME Typed, NEW s \in Slot
    PROVE  Unaudited(s) \subseteq AreaId \X Nat
  <1>1. CASE pc[s] \in UnauditedCalls
    <2>1. subject[s] \in AreaId
      BY <1>1 DEF Typed, TypeOK, SubjectExists, UnauditedCalls
    <2>2. WroteVersion(s) \in Nat
      BY <1>1 DEF Typed, RequestKinds, UpdateCalls, UpdateRequest, WroteVersion, UnauditedCalls
    <2> QED
      BY <1>1, <2>1, <2>2 DEF Unaudited
  <1>2. CASE pc[s] \notin UnauditedCalls
    BY <1>2 DEF Unaudited
  <1> QED
    BY <1>1, <1>2

LEMMA DatabaseErrorTyped ==
    ASSUME Typed, NEW s \in Slot, DatabaseError(s)
    PROVE  Typed'
  <1>1. lost' \subseteq AreaId \X Nat
    BY UnauditedType DEF DatabaseError, Typed, TypeOK
  <1> QED
    BY <1>1, AnswerTyped DEF DatabaseError, Typed, TypeOK, Replies, tables, registers

LEMMA CreateUnacknowledgedTyped ==
    ASSUME Typed, NEW s \in Slot, CreateUnacknowledged(s)
    PROVE  Typed'
  <1>1. PICK id \in AreaId : InsertArea(s, id) /\ lost' = lost \cup {<<id, 1>>}
    BY DEF CreateUnacknowledged
  <1>2. /\ pc[s] = "create.insert" /\ pc' = [pc EXCEPT ![s] = "replied"]
        /\ reply' = [reply EXCEPT ![s] = "INTERNAL"]
        /\ UNCHANGED <<audits, request, before, after>>
    BY DEF CreateUnacknowledged, Answer
  <1>3. /\ DOMAIN areas' = DOMAIN areas \cup {id} /\ areas'[id] = NewArea(request[s])
        /\ \A i \in DOMAIN areas : areas'[i] = areas[i]
        /\ NewArea(request[s]) \in Row
        /\ subject' = [subject EXCEPT ![s] = id]
        /\ \A t \in Slot \ {s} : subject'[t] = subject[t]
    BY <1>1, <1>2, InsertEffect
  <1>4. TypeOK'
    BY <1>1, <1>2, <1>3 DEF Typed, TypeOK, Replies
  <1>5. pc'[s] = "replied" /\ \A t \in Slot \ {s} : pc'[t] = pc[t]
    BY <1>2 DEF Typed, TypeOK
  <1>6. RequestKinds' /\ SubjectExists' /\ RowsHeld'
    BY <1>2, <1>3, <1>5 DEF Typed, RequestKinds, SubjectExists, RowsHeld, CreateCalls, UpdateCalls
  <1> QED
    BY <1>4, <1>6 DEF Typed

LEMMA UpdateUnacknowledgedTyped ==
    ASSUME Typed, NEW s \in Slot, UpdateUnacknowledged(s)
    PROVE  Typed'
  <1>1. DOMAIN areas' = DOMAIN areas /\ \A id \in DOMAIN areas' : areas'[id] \in Row
    BY UpdateKeepsTable DEF UpdateUnacknowledged
  <1>2. lost' \subseteq AreaId \X Nat
    <2>1. subject[s] \in AreaId
      BY DEF UpdateUnacknowledged, Typed, TypeOK, SubjectExists
    <2>2. WroteVersion(s) \in Nat
      BY DEF UpdateUnacknowledged, Typed, RequestKinds, UpdateCalls, UpdateRequest, WroteVersion
    <2> QED
      BY <2>1, <2>2 DEF UpdateUnacknowledged, Typed, TypeOK
  <1>3. /\ pc' = [pc EXCEPT ![s] = "replied"] /\ reply' = [reply EXCEPT ![s] = "INTERNAL"]
        /\ UNCHANGED <<audits, request, subject, before, after>>
    BY DEF UpdateUnacknowledged, Answer, registers
  <1> QED
    BY <1>1, <1>2, <1>3 DEF Typed, TypeOK, RequestKinds, SubjectExists, RowsHeld, CreateCalls,
       UpdateCalls, Replies

LEMMA CrashTyped ==
    ASSUME Typed, Crash
    PROVE  Typed'
  <1>1. lost' \subseteq AreaId \X Nat
    BY UnauditedType DEF Crash, Typed, TypeOK
  <1> QED
    BY <1>1 DEF Crash, Typed, TypeOK, RequestKinds, SubjectExists, RowsHeld, CreateCalls,
       UpdateCalls, Replies, tables

LEMMA StutterTyped ==
    ASSUME Typed, UNCHANGED vars
    PROVE  Typed'
  BY DEF Typed, TypeOK, RequestKinds, SubjectExists, RowsHeld, vars, tables, slots, registers

LEMMA NextTyped ==
    ASSUME Typed, [Next]_vars
    PROVE  Typed'
  <1>1. ASSUME NEW s \in Slot, HandlerStep(s)
        PROVE  Typed'
    BY <1>1, CreateInsertTyped, AuditTyped, ViewTyped, UpdateGetTyped, UpdateUpdateTyped,
       UpdateGetUpdatedTyped DEF HandlerStep
  <1>2. ASSUME NEW s \in Slot, Fault(s)
        PROVE  Typed'
    BY <1>2, DatabaseErrorTyped, CreateUnacknowledgedTyped, UpdateUnacknowledgedTyped, AuditTyped
       DEF Fault
  <1> QED
    BY <1>1, <1>2, SubmitTyped, CollectTyped, CrashTyped, StutterTyped DEF Next, RequestStep

\* The handlers never leave the types of their variables.
THEOREM TypeCorrect == Spec => []TypeOK
  <1>1. Typed => TypeOK
    BY DEF Typed
  <1> QED
    BY InitTyped, NextTyped, <1>1, PTL DEF Spec

-----------------------------------------------------------------------------
(* The table *)

\* A row is inserted by a create or replaced by an update.
Inserts(s, id) == pc[s] = "create.insert" /\ InsertArea(s, id)
Updates(s) == pc[s] = "update.update" /\ UpdateArea(s)

TableStep ==
    \/ UNCHANGED areas
    \/ \E s \in Slot : Updates(s) \/ \E id \in AreaId : Inserts(s, id)

LEMMA NextTable ==
    ASSUME [Next]_vars
    PROVE  TableStep
  <1>1. ASSUME NEW s \in Slot, HandlerStep(s)
        PROVE  UNCHANGED areas \/ Updates(s) \/ \E id \in AreaId : Inserts(s, id)
    BY <1>1 DEF HandlerStep, CreateInsert, CreateAudit, View, UpdateGet, UpdateUpdate,
       UpdateGetUpdated, UpdateAudit, tables, Updates, Inserts
  <1>2. ASSUME NEW s \in Slot, Fault(s)
        PROVE  UNCHANGED areas \/ Updates(s) \/ \E id \in AreaId : Inserts(s, id)
    BY <1>2 DEF Fault, DatabaseError, CreateUnacknowledged, UpdateUnacknowledged,
       AuditUnacknowledged, tables, Updates, Inserts
  <1>3. ASSUME NEW s \in Slot, Submit(s) \/ Collect(s)
        PROVE  UNCHANGED areas
    BY <1>3 DEF Submit, SubmitCreate, SubmitUpdate, Collect, tables
  <1>4. Crash \/ UNCHANGED vars => UNCHANGED areas
    BY DEF Crash, vars, tables
  <1> QED
    BY <1>1, <1>2, <1>3, <1>4 DEF Next, RequestStep, TableStep

LEMMA CodesKept ==
    ASSUME Typed, CodesUnique, [Next]_vars
    PROVE  CodesUnique'
  <1>1. CASE UNCHANGED areas
    BY <1>1 DEF CodesUnique
  <1>2. ASSUME NEW s \in Slot, Updates(s)
        PROVE  CodesUnique'
    <2>1. PICK row \in Row : /\ areas' = [areas EXCEPT ![subject[s]] = row]
                             /\ row.code = areas[subject[s]].code
      BY <1>2, UpdateEffect DEF Updates
    <2>2. \A i \in DOMAIN areas' : i \in DOMAIN areas /\ areas'[i].code = areas[i].code
      BY <2>1
    <2> QED
      BY <2>2 DEF CodesUnique
  <1>3. ASSUME NEW s \in Slot, NEW id \in AreaId, Inserts(s, id)
        PROVE  CodesUnique'
    <2>1. /\ DOMAIN areas' = DOMAIN areas \cup {id} /\ areas'[id] = NewArea(request[s])
          /\ \A i \in DOMAIN areas : areas'[i] = areas[i]
          /\ \A i \in DOMAIN areas : areas[i].code # NewArea(request[s]).code
      BY <1>3, InsertEffect DEF Inserts
    <2> QED
      BY <2>1 DEF CodesUnique
  <1> QED
    BY <1>1, <1>2, <1>3, NextTable DEF TableStep

\* No two areas share a stored code, whatever creates and edits interleave.
THEOREM CodesStayUnique == Spec => []CodesUnique
  <1>1. Init => CodesUnique
    BY SeededAreas DEF CodesUnique
  <1> QED
    BY InitTyped, NextTyped, <1>1, CodesKept, PTL DEF Spec
-----------------------------------------------------------------------------
(* What one step does to the table and to a slot *)

\* Every row keeps its id and its code and counts its version up; a new row
\* has version 1.
RowsGrow ==
    /\ \A id \in DOMAIN areas :
           /\ id \in DOMAIN areas'
           /\ \/ areas'[id] = areas[id]
              \/ areas'[id].version = areas[id].version + 1
    /\ \A id \in DOMAIN areas' \ DOMAIN areas : areas'[id].version = 1

LEMMA TableGrows ==
    ASSUME Typed, [Next]_vars
    PROVE  RowsGrow
  <1>1. CASE UNCHANGED areas
    BY <1>1 DEF RowsGrow
  <1>2. ASSUME NEW s \in Slot, Updates(s)
        PROVE  RowsGrow
    <2>1. PICK row \in Row : /\ areas' = [areas EXCEPT ![subject[s]] = row]
                             /\ row.version = areas[subject[s]].version + 1
      BY <1>2, UpdateEffect DEF Updates
    <2> QED
      BY <2>1 DEF RowsGrow
  <1>3. ASSUME NEW s \in Slot, NEW id \in AreaId, Inserts(s, id)
        PROVE  RowsGrow
    <2>1. /\ DOMAIN areas' = DOMAIN areas \cup {id} /\ areas'[id] = NewArea(request[s])
          /\ \A i \in DOMAIN areas : areas'[i] = areas[i]
      BY <1>3, InsertEffect DEF Inserts
    <2> QED
      BY <2>1 DEF RowsGrow, NewArea
  <1> QED
    BY <1>1, <1>2, <1>3, NextTable DEF TableStep

SlotSame(t) == /\ pc'[t] = pc[t] /\ request'[t] = request[t] /\ subject'[t] = subject[t]
               /\ before'[t] = before[t] /\ after'[t] = after[t]

\* The steps of another slot leave a slot alone.
LEMMA OtherSlot ==
    ASSUME Typed, NEW s \in Slot, NEW t \in Slot, s # t,
           Submit(s) \/ Collect(s) \/ HandlerStep(s) \/ Fault(s)
    PROVE  SlotSame(t)
  <1>1. CASE Submit(s) \/ Collect(s)
    BY <1>1 DEF Submit, SubmitCreate, SubmitUpdate, Answer, Proceed, Collect, SlotSame, Typed,
       TypeOK
  <1>2. CASE CreateInsert(s) \/ CreateAudit(s) \/ View(s)
    BY <1>2 DEF CreateInsert, CreateAudit, View, InsertArea, Proceed, Answer, SlotSame, Typed,
       TypeOK, registers
  <1>3. CASE UpdateGet(s) \/ UpdateUpdate(s)
    BY <1>3 DEF UpdateGet, UpdateUpdate, Proceed, Answer, SlotSame, Typed, TypeOK, registers
  <1>4. CASE UpdateGetUpdated(s) \/ UpdateAudit(s)
    BY <1>4 DEF UpdateGetUpdated, UpdateAudit, Proceed, SlotSame, Typed, TypeOK, registers
  <1>5. CASE Fault(s)
    BY <1>5 DEF Fault, DatabaseError, CreateUnacknowledged, UpdateUnacknowledged,
       AuditUnacknowledged, InsertArea, Answer, SlotSame, Typed, TypeOK, registers
  <1> QED
    BY <1>1, <1>2, <1>3, <1>4, <1>5 DEF HandlerStep

\* A step leaves a slot alone, ends its request, or is one of its own.
LEMMA SlotStep ==
    ASSUME Typed, [Next]_vars, NEW t \in Slot
    PROVE  SlotSame(t) \/ pc'[t] \in {"idle", "replied"} \/ Submit(t) \/ HandlerStep(t)
  <1>1. ASSUME Collect(t) \/ Fault(t)
        PROVE  pc'[t] \in {"idle", "replied"}
    BY <1>1 DEF Collect, Fault, DatabaseError, CreateUnacknowledged, UpdateUnacknowledged,
       AuditUnacknowledged, Answer, Typed, TypeOK
  <1>2. Crash => pc'[t] = "idle"
    BY DEF Crash
  <1>3. UNCHANGED vars => SlotSame(t)
    BY DEF vars, slots, registers, SlotSame
  <1> QED
    BY <1>1, <1>2, <1>3, OtherSlot DEF Next, RequestStep

\* The audit events of a step: none, or the one of a handler that is due.
LEMMA NextAudits ==
    ASSUME Typed, [Next]_vars
    PROVE  \/ UNCHANGED audits
           \/ \E s \in Slot : /\ pc[s] \in {"create.audit", "update.audit"}
                              /\ RecordAudit(s)
                              /\ UNCHANGED areas
  <1>1. ASSUME NEW s \in Slot, HandlerStep(s), audits' # audits
        PROVE  pc[s] \in {"create.audit", "update.audit"} /\ RecordAudit(s) /\ UNCHANGED areas
    BY <1>1 DEF HandlerStep, CreateInsert, CreateAudit, View, UpdateGet, UpdateUpdate,
       UpdateGetUpdated, UpdateAudit, tables
  <1>2. ASSUME NEW s \in Slot, Fault(s), audits' # audits
        PROVE  pc[s] \in {"create.audit", "update.audit"} /\ RecordAudit(s) /\ UNCHANGED areas
    BY <1>2 DEF Fault, DatabaseError, CreateUnacknowledged, UpdateUnacknowledged,
       AuditUnacknowledged, tables
  <1>3. ASSUME NEW s \in Slot, Submit(s) \/ Collect(s)
        PROVE  UNCHANGED audits
    BY <1>3 DEF Submit, SubmitCreate, SubmitUpdate, Collect, tables
  <1>4. Crash \/ UNCHANGED vars => UNCHANGED audits
    BY DEF Crash, vars, tables
  <1> QED
    BY <1>1, <1>2, <1>3, <1>4 DEF Next, RequestStep

-----------------------------------------------------------------------------
(* The audit ledger *)

Owed == [t \in Slot |-> Unaudited(t)]

\* A slot's step changes what its own handler owes and nothing else of what
\* is owed.
LEMMA OwedStep ==
    ASSUME Typed, NEW s \in Slot, Submit(s) \/ Collect(s) \/ HandlerStep(s) \/ Fault(s)
    PROVE  Owed' = [Owed EXCEPT ![s] = Unaudited(s)']
  <1>1. ASSUME NEW t \in Slot, t # s
        PROVE  Unaudited(t)' = Unaudited(t)
    <2>1. SlotSame(t)
      BY <1>1, OtherSlot
    <2> QED
      BY <2>1 DEF SlotSame, Unaudited, WroteVersion
  <1> QED
    BY <1>1 DEF Owed

\* The INSERT writes the first version of an area.
LEMMA InsertWrites ==
    ASSUME Typed, NEW s \in Slot, NEW id \in AreaId, Inserts(s, id)
    PROVE  <<id, 1>> \notin Written /\ Written' = Written \cup {<<id, 1>>}
  <1>1. /\ id \notin DOMAIN areas
        /\ DOMAIN areas' = DOMAIN areas \cup {id}
        /\ \A i \in DOMAIN areas : areas'[i] = areas[i]
        /\ areas'[id] = NewArea(request[s])
    BY InsertEffect DEF Inserts
  <1>2. areas'[id].version = 1 /\ 1..1 = {1}
    BY <1>1 DEF NewArea
  <1>3. ASSUME NEW i, NEW v
        PROVE  i \in DOMAIN areas' /\ v \in 1..areas'[i].version
                   <=> (i \in DOMAIN areas /\ v \in 1..areas[i].version) \/ (i = id /\ v = 1)
    BY <1>1, <1>2
  <1> QED
    BY <1>1, <1>3 DEF Written

\* The UPDATE writes the version after the one that the client expected.
LEMMA UpdateWrites ==
    ASSUME Typed, NEW s \in Slot, Updates(s)
    PROVE  /\ <<subject[s], request[s].expected + 1>> \notin Written
           /\ Written' = Written \cup {<<subject[s], request[s].expected + 1>>}
  <1> DEFINE id == subject[s]
             n == request[s].expected
  <1>1. id \in DOMAIN areas /\ areas[id].version = n
    BY UpdateEffect DEF Updates
  <1>2. PICK row \in Row : /\ areas' = [areas EXCEPT ![id] = row]
                           /\ row.version = areas[id].version + 1
    BY UpdateEffect DEF Updates
  <1>3. n \in Nat
    BY DEF Updates, Typed, RequestKinds, UpdateCalls, UpdateRequest
  <1> HIDE DEF id, n
  <1>4. /\ DOMAIN areas' = DOMAIN areas /\ areas'[id].version = n + 1
        /\ \A i \in DOMAIN areas : i # id => areas'[i] = areas[i]
    BY <1>1, <1>2
  <1>5. 1..(n + 1) = 1..n \cup {n + 1} /\ n + 1 \notin 1..n
    BY <1>3
  <1>6. ASSUME NEW i, NEW v
        PROVE  i \in DOMAIN areas' /\ v \in 1..areas'[i].version
                   <=> (i \in DOMAIN areas /\ v \in 1..areas[i].version) \/ (i = id /\ v = n + 1)
    BY <1>1, <1>4, <1>5
  <1>7. Written' = Written \cup {<<id, n + 1>>} /\ <<id, n + 1>> \notin Written
    BY <1>1, <1>5, <1>6 DEF Written
  <1> QED
    BY <1>7 DEF id, n

\* The event that is recorded names the write that the handler owes it for.
LEMMA RecordPays ==
    ASSUME NEW s \in Slot, pc[s] \in {"create.audit", "update.audit"}, RecordAudit(s)
    PROVE  Recorded' = Recorded \cup Unaudited(s)
  <1> DEFINE event == [id |-> subject[s], wrote |-> WroteVersion(s),
                       before |-> before[s], after |-> after[s]]
  <1>1. audits' = audits \cup {event}
    BY DEF RecordAudit
  <1>2. Unaudited(s) = {<<event.id, event.wrote>>}
    BY DEF Unaudited, UnauditedCalls
  <1> HIDE DEF event
  <1> QED
    BY <1>1, <1>2 DEF Recorded

\* What a step means for the audit trail.
TrailUnchanged == UNCHANGED <<Written, Recorded, Owed, lost>>
TrailStep == TrailUnchanged \/ Trail!Next

\* A step that writes nothing and records nothing, of a handler that owes as
\* much as before.
LEMMA NeutralStep ==
    ASSUME Typed, NEW s \in Slot, Submit(s) \/ Collect(s) \/ HandlerStep(s) \/ Fault(s),
           UNCHANGED <<areas, audits, lost>>, Unaudited(s)' = Unaudited(s)
    PROVE  TrailStep
  <1>1. Owed' = Owed
    BY OwedStep DEF Owed
  <1> QED
    BY <1>1 DEF TrailStep, TrailUnchanged, Written, Recorded

LEMMA SubmitOnTrail ==
    ASSUME Typed, NEW s \in Slot, Submit(s) \/ Collect(s)
    PROVE  TrailStep
  <1>1. UNCHANGED <<areas, audits, lost>>
    BY DEF Submit, SubmitCreate, SubmitUpdate, Collect, tables
  <1>2. Unaudited(s) = {} /\ Unaudited(s)' = {}
    BY DEF Submit, SubmitCreate, SubmitUpdate, Answer, Proceed, Collect, Unaudited,
       UnauditedCalls, Typed, TypeOK
  <1> QED
    BY <1>1, <1>2, NeutralStep

LEMMA ReadsOnTrail ==
    ASSUME Typed, NEW s \in Slot, UpdateGet(s) \/ View(s)
    PROVE  TrailStep
  <1>1. UNCHANGED <<areas, audits, lost>>
    BY DEF UpdateGet, View, tables
  <1>2. Unaudited(s) = {} /\ Unaudited(s)' = {}
    BY DEF UpdateGet, View, Answer, Proceed, Unaudited, UnauditedCalls, Typed, TypeOK
  <1> QED
    BY <1>1, <1>2, NeutralStep DEF HandlerStep

LEMMA GetUpdatedOnTrail ==
    ASSUME Typed, NEW s \in Slot, UpdateGetUpdated(s)
    PROVE  TrailStep
  <1>1. UNCHANGED <<areas, audits, lost, request, subject>>
    BY DEF UpdateGetUpdated, tables
  <1>2. pc[s] = "update.get_updated" /\ pc'[s] = "update.audit"
    BY DEF UpdateGetUpdated, Proceed, Typed, TypeOK
  <1>3. Unaudited(s)' = Unaudited(s)
    BY <1>1, <1>2 DEF Unaudited, UnauditedCalls, WroteVersion
  <1> QED
    BY <1>1, <1>3, NeutralStep DEF HandlerStep

\* A refused write leaves the table alone.
LEMMA RefusalOnTrail ==
    ASSUME Typed, NEW s \in Slot, HandlerStep(s), NEW code, Answer(s, code),
           pc[s] \in {"create.insert", "update.update"}, UNCHANGED <<areas, audits, lost>>
    PROVE  TrailStep
  <1>1. Unaudited(s) = {} /\ Unaudited(s)' = {}
    BY DEF Answer, Unaudited, UnauditedCalls, Typed, TypeOK
  <1> QED
    BY <1>1, NeutralStep

\* A write that the handler learns of: it owes the event from now on.
LEMMA CommitOnTrail ==
    ASSUME Typed, NEW s \in Slot, HandlerStep(s), NEW w,
           Unaudited(s) = {}, Unaudited(s)' = {w},
           w \notin Written, Written' = Written \cup {w}, UNCHANGED <<audits, lost>>
    PROVE  TrailStep
  <1>1. Owed' = [Owed EXCEPT ![s] = {w}] /\ Owed[s] = {}
    BY OwedStep DEF Owed
  <1>2. UNCHANGED <<Recorded, lost>>
    BY DEF Recorded
  <1>3. Trail!Commit(s, w)
    BY <1>1, <1>2 DEF Trail!Commit, Trail!Write, Owed
  <1> QED
    BY <1>3 DEF TrailStep, Trail!Next

\* A write that the handler does not learn of.
LEMMA LostCommitOnTrail ==
    ASSUME Typed, NEW s \in Slot, Fault(s), NEW w,
           Unaudited(s) = {}, Unaudited(s)' = {},
           w \notin Written, Written' = Written \cup {w}, audits' = audits,
           lost' = lost \cup {w}
    PROVE  TrailStep
  <1>1. Owed' = Owed
    BY OwedStep DEF Owed
  <1>2. Recorded' = Recorded
    BY DEF Recorded
  <1>3. Trail!CommitUnacknowledged(w)
    BY <1>1, <1>2 DEF Trail!CommitUnacknowledged, Trail!Write, Owed
  <1> QED
    BY <1>3 DEF TrailStep, Trail!Next

LEMMA InsertOnTrail ==
    ASSUME Typed, NEW s \in Slot, CreateInsert(s)
    PROVE  TrailStep
  <1>1. CASE Answer(s, "DUPLICATE_RESOURCE") /\ UNCHANGED areas
    BY <1>1, RefusalOnTrail DEF CreateInsert, HandlerStep
  <1>2. ASSUME NEW id \in AreaId, InsertArea(s, id), Proceed(s, "create.audit")
        PROVE  TrailStep
    <2> DEFINE w == <<id, 1>>
    <2>1. /\ pc[s] = "create.insert" /\ pc'[s] = "create.audit" /\ subject'[s] = id
          /\ UNCHANGED <<audits, lost>>
      BY <1>2 DEF CreateInsert, InsertArea, Proceed, Typed, TypeOK
    <2>2. Unaudited(s) = {} /\ Unaudited(s)' = {w}
      BY <2>1 DEF Unaudited, UnauditedCalls, WroteVersion
    <2>3. w \notin Written /\ Written' = Written \cup {w}
      BY <1>2, <2>1, InsertWrites DEF Inserts
    <2> HIDE DEF w
    <2> QED
      BY <2>1, <2>2, <2>3, CommitOnTrail DEF HandlerStep
  <1> QED
    BY <1>1, <1>2 DEF CreateInsert

LEMMA EditOnTrail ==
    ASSUME Typed, NEW s \in Slot, UpdateUpdate(s)
    PROVE  TrailStep
  <1>1. CASE Answer(s, "VERSION_CONFLICT") /\ UNCHANGED areas
    BY <1>1, RefusalOnTrail DEF UpdateUpdate, HandlerStep
  <1>2. CASE UpdateArea(s) /\ Proceed(s, "update.get_updated")
    <2> DEFINE w == <<subject[s], request[s].expected + 1>>
    <2>1. /\ pc[s] = "update.update" /\ pc'[s] = "update.get_updated"
          /\ UNCHANGED <<audits, request, subject, lost>>
      BY <1>2 DEF UpdateUpdate, Proceed, Typed, TypeOK, registers
    <2>2. Unaudited(s) = {} /\ Unaudited(s)' = {w}
      BY <2>1 DEF Unaudited, UnauditedCalls, WroteVersion
    <2>3. w \notin Written /\ Written' = Written \cup {w}
      BY <1>2, <2>1, UpdateWrites DEF Updates
    <2> HIDE DEF w
    <2> QED
      BY <2>1, <2>2, <2>3, CommitOnTrail DEF HandlerStep
  <1> QED
    BY <1>1, <1>2 DEF UpdateUpdate

LEMMA UnacknowledgedOnTrail ==
    ASSUME Typed, NEW s \in Slot, CreateUnacknowledged(s) \/ UpdateUnacknowledged(s)
    PROVE  TrailStep
  <1>1. Unaudited(s) = {} /\ Unaudited(s)' = {} /\ audits' = audits
    BY DEF CreateUnacknowledged, UpdateUnacknowledged, Answer, Unaudited, UnauditedCalls,
       Typed, TypeOK
  <1>2. PICK w : w \notin Written /\ Written' = Written \cup {w} /\ lost' = lost \cup {w}
    <2>1. CASE CreateUnacknowledged(s)
      <3>1. PICK id \in AreaId : Inserts(s, id) /\ lost' = lost \cup {<<id, 1>>}
        BY <2>1 DEF CreateUnacknowledged, Inserts
      <3> QED
        BY <3>1, InsertWrites
    <2>2. CASE UpdateUnacknowledged(s)
      <3>1. Updates(s) /\ lost' = lost \cup {<<subject[s], request[s].expected + 1>>}
        BY <2>2 DEF UpdateUnacknowledged, Updates, WroteVersion
      <3> QED
        BY <3>1, UpdateWrites
    <2> QED
      BY <2>1, <2>2
  <1> QED
    BY <1>1, <1>2, LostCommitOnTrail DEF Fault

LEMMA AuditOnTrail ==
    ASSUME Typed, NEW s \in Slot, CreateAudit(s) \/ UpdateAudit(s) \/ AuditUnacknowledged(s)
    PROVE  TrailStep
  <1>1. Unaudited(s)' = {}
    BY DEF CreateAudit, UpdateAudit, AuditUnacknowledged, Answer, Proceed, Unaudited,
       UnauditedCalls, Typed, TypeOK
  <1>2. Owed' = [Owed EXCEPT ![s] = {}]
    BY <1>1, OwedStep DEF HandlerStep, Fault
  <1>3. Recorded' = Recorded \cup Owed[s]
    BY RecordPays DEF CreateAudit, UpdateAudit, AuditUnacknowledged, Owed
  <1>4. UNCHANGED <<Written, lost>>
    BY DEF CreateAudit, UpdateAudit, AuditUnacknowledged, Written
  <1>5. Trail!Record(s)
    BY <1>2, <1>3, <1>4 DEF Trail!Record, Owed
  <1> QED
    BY <1>5 DEF TrailStep, Trail!Next

LEMMA DatabaseErrorOnTrail ==
    ASSUME Typed, NEW s \in Slot, DatabaseError(s)
    PROVE  TrailStep
  <1>1. Unaudited(s)' = {}
    BY DEF DatabaseError, Answer, Unaudited, UnauditedCalls, Typed, TypeOK
  <1>2. Owed' = [Owed EXCEPT ![s] = {}]
    BY <1>1, OwedStep DEF Fault
  <1>3. lost' = lost \cup Owed[s]
    BY DEF DatabaseError, Owed
  <1>4. UNCHANGED <<Written, Recorded>>
    BY DEF DatabaseError, Written, Recorded, tables
  <1>5. Trail!Lose(s)
    BY <1>2, <1>3, <1>4 DEF Trail!Lose, Owed
  <1> QED
    BY <1>5 DEF TrailStep, Trail!Next

LEMMA CrashOnTrail ==
    ASSUME Crash
    PROVE  TrailStep
  <1>1. Owed' = [t \in Slot |-> {}]
    BY DEF Crash, Owed, Unaudited, UnauditedCalls
  <1>2. lost' = lost \cup UNION {Owed[s] : s \in Slot}
    BY DEF Crash, Owed
  <1>3. UNCHANGED <<Written, Recorded>>
    BY DEF Crash, Written, Recorded, tables
  <1>4. Trail!Crash
    BY <1>1, <1>2, <1>3 DEF Trail!Crash, Owed
  <1> QED
    BY <1>4 DEF TrailStep, Trail!Next

\* Every step of the service is a step of the audit trail or leaves it alone.
LEMMA NextTrail ==
    ASSUME Typed, [Next]_vars
    PROVE  TrailStep
  <1>1. ASSUME NEW s \in Slot, HandlerStep(s)
        PROVE  TrailStep
    BY <1>1, ReadsOnTrail, InsertOnTrail, EditOnTrail, GetUpdatedOnTrail, AuditOnTrail
       DEF HandlerStep
  <1>2. ASSUME NEW s \in Slot, Fault(s)
        PROVE  TrailStep
    BY <1>2, DatabaseErrorOnTrail, UnacknowledgedOnTrail, AuditOnTrail DEF Fault
  <1>3. CASE UNCHANGED vars
    BY <1>3 DEF vars, tables, slots, registers, TrailStep, TrailUnchanged, Written, Recorded,
       Owed, Unaudited, WroteVersion
  <1> QED
    BY <1>1, <1>2, <1>3, SubmitOnTrail, CrashOnTrail DEF Next, RequestStep

LEMMA InitTrail == Init => Trail!Init
  <1> SUFFICES ASSUME Init PROVE Trail!Init
    OBVIOUS
  <1>1. \A id \in DOMAIN areas : areas[id].version = 1
    BY SeededAreas
  <1>2. lost = {<<id, 1>> : id \in DOMAIN areas}
    BY <1>1 DEF Init
  <1>3. \A id \in DOMAIN areas : 1..areas[id].version = {1}
    BY <1>1
  <1>4. Written = lost
    BY <1>2, <1>3 DEF Written
  <1> QED
    BY <1>4 DEF Init, Trail!Init, Recorded, Unaudited, UnauditedCalls

LEMMA TrailSteps == Typed /\ [Next]_vars => [Trail!Next]_(Trail!vars)
  BY NextTrail DEF TrailStep, TrailUnchanged, Trail!vars, Owed

\* The writes of the service and their audit events are an audit trail.
THEOREM TrailRefinement == Spec => ImplementsAuditTrail
  BY InitTyped, NextTyped, InitTrail, TrailSteps, PTL DEF Spec, ImplementsAuditTrail, Trail!Spec

\* One write has one audit event.
UniqueEvents == \A e, f \in audits : e.id = f.id /\ e.wrote = f.wrote => e = f

LEMMA UniqueEventsKept ==
    ASSUME Typed, UniqueEvents, Trail!Ledger, [Next]_vars
    PROVE  UniqueEvents'
  <1>1. CASE UNCHANGED audits
    BY <1>1 DEF UniqueEvents
  <1>2. ASSUME NEW s \in Slot, pc[s] \in {"create.audit", "update.audit"}, RecordAudit(s)
        PROVE  UniqueEvents'
    <2>1. <<subject[s], WroteVersion(s)>> \in Unaudited(s)
      BY <1>2 DEF Unaudited, UnauditedCalls
    <2>2. <<subject[s], WroteVersion(s)>> \notin Recorded
      BY <2>1 DEF Trail!Ledger, Trail!Pending
    <2>3. \A e \in audits : ~(e.id = subject[s] /\ e.wrote = WroteVersion(s))
      BY <2>2 DEF Recorded
    <2> QED
      BY <1>2, <2>3 DEF RecordAudit, UniqueEvents
  <1> QED
    BY <1>1, <1>2, NextAudits

\* Each write is recorded once, or pending, or lost.
THEOREM AuditLedgerHolds == Spec => []AuditLedger
  <1>1. Init => UniqueEvents /\ Trail!Ledger
    BY InitTrail, Trail!InitLedger DEF Init, UniqueEvents
  <1>2. Typed /\ UniqueEvents /\ Trail!Ledger /\ [Next]_vars => UniqueEvents' /\ Trail!Ledger'
    BY TrailSteps, Trail!NextLedger, UniqueEventsKept
  <1>3. UniqueEvents /\ Trail!Ledger => AuditLedger
    BY DEF UniqueEvents, Trail!Ledger, Trail!Pending, AuditLedger, Pending
  <1> QED
    BY <1>1, <1>2, <1>3, InitTyped, NextTyped, PTL DEF Spec
-----------------------------------------------------------------------------
(* The snapshots of the audit log *)

\* A snapshot that a handler holds and will put in its event.
HoldsBefore(s, row) ==
    pc[s] \in {"update.update", "update.get_updated", "update.audit"} /\ row = before[s]

HoldsAfter(s, row) == pc[s] \in {"create.audit", "update.audit"} /\ row = after[s]

Shows(event, row) == (row = event.before /\ row # NoRow) \/ row = event.after

\* All that is told of an area: by the table, by an event or by a handler.
Told(id, row) ==
    \/ id \in DOMAIN areas /\ row = areas[id]
    \/ \E event \in audits : event.id = id /\ Shows(event, row)
    \/ \E s \in Slot : subject[s] = id /\ (HoldsBefore(s, row) \/ HoldsAfter(s, row))

\* All that is told of an area is one history, and none of it is ahead of the
\* table.
OneHistory ==
    /\ \A id, row : Told(id, row) => /\ id \in DOMAIN areas /\ row \in Row
                                     /\ row.version <= areas[id].version
    /\ \A id, row, other :
           Told(id, row) /\ Told(id, other) /\ row.version = other.version => row = other

\* What a handler holds after a step was told before, or is in the table.
LEMMA HeldWasTold ==
    ASSUME Typed, [Next]_vars, NEW t \in Slot, NEW row,
           HoldsBefore(t, row)' \/ HoldsAfter(t, row)'
    PROVE  Told(subject'[t], row) \/ (subject'[t] \in DOMAIN areas' /\ row = areas'[subject'[t]])
  <1>1. CASE SlotSame(t)
    BY <1>1 DEF SlotSame, HoldsBefore, HoldsAfter, Told
  <1>2. CASE pc'[t] \in {"idle", "replied"}
    BY <1>2 DEF HoldsBefore, HoldsAfter
  <1>3. CASE Submit(t) \/ CreateAudit(t) \/ View(t) \/ UpdateAudit(t)
    <2>1. pc'[t] \in {"create.insert", "replied", "update.get"} \cup ViewCalls
      BY <1>3 DEF Submit, SubmitCreate, SubmitUpdate, CreateAudit, View, UpdateAudit, Answer,
         Proceed, ViewCalls, Typed, TypeOK
    <2> QED
      BY <2>1 DEF HoldsBefore, HoldsAfter, ViewCalls
  <1>4. CASE CreateInsert(t)
    <2>1. pc'[t] \in {"replied", "create.audit"}
      BY <1>4 DEF CreateInsert, Answer, Proceed, Typed, TypeOK
    <2>2. pc'[t] = "create.audit" /\ row = after'[t]
      BY <2>1 DEF HoldsBefore, HoldsAfter
    <2>3. PICK id \in AreaId : InsertArea(t, id) /\ pc[t] = "create.insert"
                               /\ after' = [after EXCEPT ![t] = NewArea(request[t])]
      BY <1>4, <2>2 DEF CreateInsert, Answer, Typed, TypeOK
    <2>4. /\ subject'[t] = id /\ id \in DOMAIN areas' /\ areas'[id] = NewArea(request[t])
      BY <2>3, InsertEffect
    <2>5. row = NewArea(request[t])
      BY <2>2, <2>3 DEF Typed, TypeOK
    <2> QED
      BY <2>4, <2>5
  <1>5. CASE UpdateGet(t)
    <2>1. pc'[t] \in {"replied", "update.update"}
      BY <1>5 DEF UpdateGet, Answer, Proceed, Typed, TypeOK
    <2>2. pc'[t] = "update.update" /\ row = before'[t]
      BY <2>1 DEF HoldsBefore, HoldsAfter
    <2>3. subject[t] \in DOMAIN areas /\ before'[t] = areas[subject[t]] /\ subject' = subject
      BY <1>5, <2>2 DEF UpdateGet, Answer, Typed, TypeOK
    <2> QED
      BY <2>2, <2>3 DEF Told
  <1>6. CASE UpdateUpdate(t)
    <2>1. pc'[t] \in {"replied", "update.get_updated"} /\ subject' = subject /\ before' = before
      BY <1>6 DEF UpdateUpdate, Answer, Proceed, Typed, TypeOK, registers
    <2>2. pc[t] = "update.update" /\ row = before[t]
      BY <1>6, <2>1 DEF UpdateUpdate, HoldsBefore, HoldsAfter
    <2> QED
      BY <2>1, <2>2 DEF Told, HoldsBefore
  <1>7. CASE UpdateGetUpdated(t)
    <2>1. /\ pc[t] = "update.get_updated" /\ pc'[t] = "update.audit" /\ subject' = subject
          /\ before' = before /\ after'[t] = areas[subject[t]]
      BY <1>7 DEF UpdateGetUpdated, Proceed, Typed, TypeOK
    <2>2. subject[t] \in DOMAIN areas
      BY <2>1 DEF Typed, SubjectExists
    <2>3. row = before[t] \/ row = areas[subject[t]]
      BY <2>1 DEF HoldsBefore, HoldsAfter
    <2> QED
      BY <2>1, <2>2, <2>3 DEF Told, HoldsBefore
  <1> QED
    BY <1>1, <1>2, <1>3, <1>4, <1>5, <1>6, <1>7, SlotStep DEF HandlerStep

\* What an event shows after a step was told before.
LEMMA EventWasTold ==
    ASSUME Typed, [Next]_vars, NEW event \in audits', NEW row, Shows(event, row)
    PROVE  Told(event.id, row)
  <1>1. CASE event \in audits
    BY <1>1 DEF Told
  <1>2. CASE event \notin audits
    <2>1. PICK s \in Slot : pc[s] \in {"create.audit", "update.audit"} /\ RecordAudit(s)
      BY <1>2, NextAudits
    <2>2. event = [id |-> subject[s], wrote |-> WroteVersion(s),
                   before |-> before[s], after |-> after[s]]
      BY <1>2, <2>1 DEF RecordAudit
    <2>3. event.id = subject[s] /\ event.before = before[s] /\ event.after = after[s]
      BY <2>2
    <2>4. CASE row = after[s]
      BY <2>1, <2>3, <2>4 DEF Told, HoldsAfter
    <2>5. CASE row = before[s] /\ row # NoRow
      <3>1. pc[s] = "update.audit"
        BY <2>1, <2>5 DEF Typed, RowsHeld, CreateCalls
      <3> QED
        BY <2>3, <2>5, <3>1 DEF Told, HoldsBefore
    <2> QED
      BY <2>3, <2>4, <2>5 DEF Shows
  <1> QED
    BY <1>1, <1>2

LEMMA NextHistory ==
    ASSUME Typed, OneHistory, [Next]_vars
    PROVE  OneHistory'
  <1>1. RowsGrow /\ Typed'
    BY TableGrows, NextTyped
  <1>2. ASSUME NEW id, NEW row, Told(id, row)'
        PROVE  Told(id, row) \/ (id \in DOMAIN areas' /\ row = areas'[id])
    <2>1. ASSUME NEW event \in audits', event.id = id, Shows(event, row)
          PROVE  Told(id, row)
      BY <2>1, EventWasTold
    <2>2. ASSUME NEW s \in Slot, subject'[s] = id, HoldsBefore(s, row)' \/ HoldsAfter(s, row)'
          PROVE  Told(id, row) \/ (id \in DOMAIN areas' /\ row = areas'[id])
      BY <2>2, HeldWasTold
    <2> QED
      BY <1>2, <2>1, <2>2 DEF Told, Shows
  <1>3. ASSUME NEW id, NEW row, Told(id, row)
        PROVE  /\ id \in DOMAIN areas /\ id \in DOMAIN areas' /\ row \in Row
               /\ row.version \in Nat /\ areas[id].version \in Nat
               /\ row.version <= areas[id].version
               /\ \/ areas'[id] = areas[id]
                  \/ areas'[id].version = areas[id].version + 1
    <2>1. id \in DOMAIN areas /\ row \in Row /\ row.version <= areas[id].version
      BY <1>3 DEF OneHistory
    <2>2. areas[id] \in Row
      BY <2>1 DEF Typed, TypeOK
    <2> QED
      BY <1>1, <2>1, <2>2 DEF RowsGrow, Row
  <1>4. ASSUME NEW id \in DOMAIN areas'
        PROVE  areas'[id] \in Row /\ areas'[id].version \in Nat
    <2>1. areas'[id] \in Row
      BY <1>1, <1>4 DEF Typed, TypeOK
    <2> QED
      BY <2>1 DEF Row
  <1>5. ASSUME NEW id, NEW row, Told(id, row)'
        PROVE  id \in DOMAIN areas' /\ row \in Row /\ row.version <= areas'[id].version
    BY <1>2, <1>3, <1>4, <1>5
  <1>6. ASSUME NEW id, NEW row, Told(id, row), id \in DOMAIN areas',
               row.version = areas'[id].version
        PROVE  row = areas'[id]
    <2>1. areas'[id] = areas[id]
      BY <1>3, <1>6
    <2>2. Told(id, areas[id])
      BY <1>3, <1>6 DEF Told
    <2> QED
      BY <1>6, <2>1, <2>2 DEF OneHistory
  <1>7. ASSUME NEW id, NEW row, NEW other, Told(id, row)', Told(id, other)',
               row.version = other.version
        PROVE  row = other
    <2>1. CASE Told(id, row) /\ Told(id, other)
      BY <1>7, <2>1 DEF OneHistory
    <2> QED
      BY <1>2, <1>6, <1>7, <2>1
  <1> QED
    BY <1>5, <1>7 DEF OneHistory

LEMMA InitHistory == Init => OneHistory
  <1> SUFFICES ASSUME Init PROVE OneHistory
    OBVIOUS
  <1>1. \A id, row : Told(id, row) => id \in DOMAIN areas /\ row = areas[id]
    BY DEF Init, Told, HoldsBefore, HoldsAfter
  <1> QED
    BY <1>1, SeededAreas DEF OneHistory, Row

LEMMA HistoryAgrees ==
    ASSUME OneHistory
    PROVE  SnapshotsAgree
  <1>1. ASSUME NEW x \in Snapshots
        PROVE  Told(x[1], x[2]) /\ x = <<x[1], x[2]>>
    BY DEF Snapshots, Told, Shows
  <1>2. ASSUME NEW x \in Snapshots, NEW y \in Snapshots,
               x[1] = y[1], x[2].version = y[2].version
        PROVE  x = y
    <2>1. x[2] = y[2]
      BY <1>1, <1>2 DEF OneHistory
    <2> QED
      BY <1>1, <1>2, <2>1
  <1> QED
    BY <1>2 DEF SnapshotsAgree

\* The snapshots of the audit log tell one history of each area.
THEOREM SnapshotsTellOneHistory == Spec => []SnapshotsAgree
  BY InitTyped, NextTyped, InitHistory, NextHistory, HistoryAgrees, PTL DEF Spec

-----------------------------------------------------------------------------
(* What a handler has read and what a client may know *)

\* No version is 0.
Numbered == \A id \in DOMAIN areas : areas[id].version >= 1

\* The version of an update has been shown.
Shown(s) == pc[s] = "update.get" => request[s].expected <= ShownVersion(subject[s])

\* What a handler has read is an earlier form of its row: with the same
\* version it is the same row.
ReadRow(s) ==
    pc[s] = "update.update" =>
        /\ before[s].version <= areas[subject[s]].version
        /\ before[s].version = areas[subject[s]].version => before[s] = areas[subject[s]]

\* An update goes on from an area that is not archived, and not older than
\* the version that it names.
ReadOpen(s) ==
    pc[s] = "update.update" => /\ before[s].status # "archived"
                               /\ before[s].version >= request[s].expected

SlotChecked(s) == Shown(s) /\ ReadRow(s) /\ ReadOpen(s)

Checked == Typed /\ Numbered /\ \A s \in Slot : SlotChecked(s)

LEMMA NumberedKept ==
    ASSUME Typed, Numbered, RowsGrow
    PROVE  Numbered'
  <1>1. \A id \in DOMAIN areas : areas[id].version \in Nat /\ areas[id].version >= 1
    BY DEF Numbered, Typed, TypeOK, Row
  <1> QED
    BY <1>1 DEF RowsGrow, Numbered

\* A step that grows the table keeps what a slot left alone knows.
LEMMA SameSlotChecked ==
    ASSUME Checked, RowsGrow, NEW t \in Slot, SlotSame(t)
    PROVE  SlotChecked(t)'
  <1> DEFINE id == subject[t]
  <1>1. id \in DOMAIN areas => areas[id].version \in Nat
    BY DEF Checked, Typed, TypeOK, Row
  <1>2. ASSUME pc[t] = "update.get"
        PROVE  request[t].expected <= ShownVersion(subject[t])'
    <2>1. request[t].expected \in Nat /\ request[t].expected <= ShownVersion(subject[t])
      BY <1>2 DEF Checked, Typed, RequestKinds, UpdateCalls, UpdateRequest, SlotChecked, Shown
    <2>2. subject'[t] = subject[t]
      BY DEF SlotSame
    <2>3. CASE id \in DOMAIN areas
      BY <1>1, <2>1, <2>2, <2>3 DEF RowsGrow, ShownVersion
    <2>4. CASE id \notin DOMAIN areas
      BY <2>1, <2>2, <2>4 DEF RowsGrow, ShownVersion
    <2> QED
      BY <2>3, <2>4
  <1>3. ASSUME pc[t] = "update.update"
        PROVE  /\ before[t].version <= areas'[id].version
               /\ before[t].version = areas'[id].version => before[t] = areas'[id]
    <2>1. id \in DOMAIN areas /\ before[t].version \in Nat
      BY <1>3 DEF Checked, Typed, SubjectExists, RowsHeld, Row
    <2>2. /\ before[t].version <= areas[id].version
          /\ before[t].version = areas[id].version => before[t] = areas[id]
      BY <1>3 DEF Checked, SlotChecked, ReadRow
    <2> QED
      BY <1>1, <2>1, <2>2 DEF RowsGrow
  <1>4. /\ pc'[t] = pc[t] /\ request'[t] = request[t] /\ subject'[t] = id
        /\ before'[t] = before[t]
    BY DEF SlotSame
  <1> HIDE DEF id
  <1>5. Shown(t)' /\ ReadRow(t)'
    BY <1>2, <1>3, <1>4 DEF Shown, ReadRow
  <1>6. ReadOpen(t)'
    BY <1>4 DEF Checked, SlotChecked, ReadOpen
  <1> QED
    BY <1>5, <1>6 DEF SlotChecked

LEMMA NothingHeld ==
    ASSUME NEW t \in Slot, pc'[t] \notin {"update.get", "update.update"}
    PROVE  SlotChecked(t)'
  BY DEF SlotChecked, Shown, ReadRow, ReadOpen

LEMMA SubmitChecked ==
    ASSUME Checked, KnownVersions, NEW t \in Slot, Submit(t)
    PROVE  SlotChecked(t)'
  <1>1. ASSUME NEW create \in CreateInput, SubmitCreate(t, create)
        PROVE  SlotChecked(t)'
    <2>1. pc'[t] \in {"create.insert", "replied"}
      BY <1>1 DEF SubmitCreate, Answer, Proceed, Checked, Typed, TypeOK
    <2> QED
      BY <2>1, NothingHeld
  <1>2. ASSUME NEW update \in UpdateInput, SubmitUpdate(t, update)
        PROVE  SlotChecked(t)'
    <2>1. /\ pc'[t] = "update.get" /\ request'[t] = update /\ subject'[t] = update.id
          /\ areas' = areas /\ update.expected <= ShownVersion(update.id)
      BY <1>2 DEF SubmitUpdate, Checked, Typed, TypeOK, tables
    <2> QED
      BY <2>1 DEF SlotChecked, Shown, ShownVersion, ReadRow, ReadOpen
  <1> QED
    BY <1>1, <1>2 DEF Submit

LEMMA HandlerChecked ==
    ASSUME Checked, NEW t \in Slot, HandlerStep(t), ~UpdateGet(t)
    PROVE  SlotChecked(t)'
  <1>1. pc'[t] \notin {"update.get", "update.update"}
    BY DEF HandlerStep, CreateInsert, CreateAudit, View, UpdateUpdate, UpdateGetUpdated,
       UpdateAudit, Answer, Proceed, Checked, Typed, TypeOK
  <1> QED
    BY <1>1, NothingHeld

LEMMA GetChecked ==
    ASSUME Checked, NEW t \in Slot, UpdateGet(t)
    PROVE  SlotChecked(t)'
  <1>1. CASE pc'[t] = "replied"
    BY <1>1, NothingHeld
  <1>2. CASE /\ subject[t] \in DOMAIN areas
             /\ before' = [before EXCEPT ![t] = areas[subject[t]]]
             /\ UpdateError(t, areas[subject[t]]) = "none"
             /\ Proceed(t, "update.update")
    <2>1. /\ pc'[t] = "update.update" /\ before'[t] = areas[subject[t]]
          /\ request' = request /\ subject' = subject /\ areas' = areas
      BY <1>2 DEF UpdateGet, Proceed, Checked, Typed, TypeOK, tables
    <2>2. areas[subject[t]].status # "archived"
      BY <1>2 DEF UpdateError
    <2>3. areas[subject[t]].version \in Nat /\ request[t].expected \in Nat
      BY <1>2 DEF UpdateGet, Checked, Typed, TypeOK, Row, RequestKinds, UpdateCalls,
         UpdateRequest
    <2>4. request[t].expected <= areas[subject[t]].version
      BY <1>2 DEF UpdateGet, Checked, SlotChecked, Shown, ShownVersion
    <2> QED
      BY <2>1, <2>2, <2>3, <2>4 DEF SlotChecked, Shown, ReadRow, ReadOpen
  <1> QED
    BY <1>1, <1>2 DEF UpdateGet, Answer, Checked, Typed, TypeOK

LEMMA NextChecked ==
    ASSUME Checked, KnownVersions, [Next]_vars
    PROVE  Checked'
  <1>1. Typed' /\ RowsGrow /\ Numbered'
    BY NextTyped, TableGrows, NumberedKept DEF Checked
  <1>2. ASSUME NEW t \in Slot
        PROVE  SlotChecked(t)'
    <2>1. CASE SlotSame(t)
      BY <1>1, <2>1, SameSlotChecked
    <2>2. CASE pc'[t] \in {"idle", "replied"}
      BY <2>2, NothingHeld
    <2> QED
      BY <2>1, <2>2, SubmitChecked, HandlerChecked, GetChecked, SlotStep DEF Checked
  <1> QED
    BY <1>1, <1>2 DEF Checked

LEMMA InitChecked == Init => Checked
  <1> SUFFICES ASSUME Init PROVE Checked
    OBVIOUS
  <1>1. Typed
    BY InitTyped
  <1> QED
    BY <1>1, SeededAreas DEF Init, Checked, Numbered, SlotChecked, Shown, ReadRow, ReadOpen

-----------------------------------------------------------------------------
(* Refinement of the editable rows *)

\* The abstract rows of a table.
RowsOf(table) == [id \in DOMAIN table |-> AbstractRow(table[id])]

LEMMA InitImplements == Init => Lifecycle!Init
  <1> SUFFICES ASSUME Init PROVE Lifecycle!Init
    OBVIOUS
  <1>1. CASE areas = [id \in {} |-> NoRow]
    BY <1>1 DEF Lifecycle!Init
  <1>2. CASE \E seeded \in AreaId : areas = [id \in {seeded} |-> SeedArea]
    BY <1>2 DEF Lifecycle!Init
  <1> QED
    BY <1>1, <1>2 DEF Init, SeededTable

\* The row that a matching update replaces is the one that was checked.
LEMMA MatchedOpen ==
    ASSUME Checked, NEW s \in Slot, Updates(s)
    PROVE  areas[subject[s]].status # "archived"
  <1>1. subject[s] \in DOMAIN areas /\ areas[subject[s]].version = request[s].expected
    BY UpdateEffect DEF Updates, Checked
  <1>2. areas[subject[s]].version \in Nat /\ before[s].version \in Nat
    BY <1>1 DEF Updates, Checked, Typed, TypeOK, RowsHeld, Row
  <1>3. before[s].version >= request[s].expected /\ before[s].status # "archived"
    BY DEF Updates, Checked, SlotChecked, ReadOpen
  <1>4. before[s] = areas[subject[s]]
    BY <1>1, <1>2, <1>3 DEF Updates, Checked, SlotChecked, ReadRow
  <1> QED
    BY <1>3, <1>4

LEMMA InsertImplements ==
    ASSUME Typed, NEW s \in Slot, NEW id \in AreaId, Inserts(s, id)
    PROVE  Lifecycle!Next
  <1> DEFINE row == NewArea(request[s])
  <1>1. /\ row \in Row /\ id \notin DOMAIN areas /\ DOMAIN areas' = DOMAIN areas \cup {id}
        /\ areas'[id] = row /\ \A i \in DOMAIN areas : areas'[i] = areas[i]
    BY InsertEffect DEF Inserts
  <1>2. row.status # "archived" /\ row.version = 1
    BY DEF NewArea
  <1> HIDE DEF row
  <1>3. row.code \in AreaCode /\ <<row.content, row.status>> \in Content \X AreaStates
    BY <1>1 DEF Row
  <1>4. 1 \in Lifecycle!FirstVersions
    BY DEF Lifecycle!FirstVersions
  <1>5. RowsOf(areas)' = [i \in DOMAIN RowsOf(areas) \cup {id} |->
                              IF i = id THEN AbstractRow(row) ELSE RowsOf(areas)[i]]
    BY <1>1 DEF RowsOf
  <1>6. Lifecycle!Create(id, row.code, <<row.content, row.status>>, 1)
    BY <1>1, <1>2, <1>5 DEF Lifecycle!Create, RowsOf, AbstractRow
  <1> QED
    BY <1>3, <1>4, <1>6 DEF Lifecycle!Next

LEMMA UpdateImplements ==
    ASSUME Checked, NEW s \in Slot, Updates(s)
    PROVE  Lifecycle!Next
  <1> DEFINE id == subject[s]
  <1>1. id \in DOMAIN areas /\ areas[id].status # "archived"
    BY UpdateEffect, MatchedOpen DEF Updates, Checked
  <1>2. PICK row \in Row : /\ areas' = [areas EXCEPT ![id] = row]
                           /\ row.code = areas[id].code
                           /\ row.version = areas[id].version + 1
    BY UpdateEffect DEF Updates, Checked
  <1> HIDE DEF id
  <1>3. <<row.content, row.status>> \in Content \X AreaStates
    BY DEF Row
  <1>4. RowsOf(areas)' = [RowsOf(areas) EXCEPT ![id] = AbstractRow(row)]
    BY <1>1, <1>2 DEF RowsOf
  <1>5. AbstractRow(row) = [key |-> AbstractRow(areas[id]).key,
                            body |-> <<row.content, row.status>>,
                            frozen |-> row.status = "archived",
                            version |-> AbstractRow(areas[id]).version + 1]
    BY <1>2 DEF AbstractRow
  <1>6. Lifecycle!Edit(id, <<row.content, row.status>>, row.status = "archived")
    BY <1>1, <1>4, <1>5 DEF Lifecycle!Edit, RowsOf, AbstractRow
  <1>7. id \in DOMAIN RowsOf(areas)
    BY <1>1 DEF RowsOf
  <1> QED
    BY <1>3, <1>6, <1>7 DEF Lifecycle!Next, RowsOf, AbstractRow

LEMMA NextImplements ==
    ASSUME Checked, [Next]_vars
    PROVE  [Lifecycle!Next]_(RowsOf(areas))
  <1>1. CASE UNCHANGED areas
    BY <1>1 DEF RowsOf
  <1> QED
    BY <1>1, NextTable, InsertImplements, UpdateImplements DEF TableStep, Checked

\* As long as clients send versions that they were shown, the table of areas
\* behaves as a table of editable rows: no edit is lost and an archived area
\* never changes.
THEOREM Refinement == KnownVersions => (Spec => ImplementsEditableRows)
  <1> SUFFICES ASSUME KnownVersions PROVE Spec => ImplementsEditableRows
    OBVIOUS
  <1>1. Checked /\ [Next]_vars => Checked'
    BY NextChecked
  <1>2. Checked /\ [Next]_vars => [Lifecycle!Next]_(RowsOf(areas))
    BY NextImplements
  <1> QED
    BY InitChecked, InitImplements, <1>1, <1>2, PTL
       DEF Spec, ImplementsEditableRows, Lifecycle!Spec, RowsOf, AbstractRow

-----------------------------------------------------------------------------
(* The composition: what the plan service supposes of the areas. *)

\* What holds of the area service while the plan service runs beside it.
AreasInv == Typed /\ (KnownVersions => Checked)

\* The area service takes its own steps or none.
LEMMA AreaServiceSteps == [PlanningNext]_<<vars, planVars>> => [Next]_vars
  BY DEF PlanningNext, AreaRequestStep, PlanRequestStep, ProcessCrash, Next

LEMMA NextAreasInv == AreasInv /\ [PlanningNext]_<<vars, planVars>> => AreasInv'
  BY AreaServiceSteps, NextTyped, NextChecked DEF AreasInv

\* The row that the plan service reads of an area.
ViewOf(area) == [status |-> area.status, boundary |-> BoundaryOf[area.content]]

LEMMA ViewType ==
    ASSUME NEW area \in Row
    PROVE  ViewOf(area) \in [status : AreaStates, boundary : Boundary]
  BY BoundaryAssumption DEF ViewOf, Row

LEMMA ViewAt ==
    ASSUME NEW id \in AreaId
    PROVE  AreaView[id] = IF id \in DOMAIN areas THEN ViewOf(areas[id]) ELSE NoAreaRow
  BY DEF AreaView, ViewOf

\* A new area appears to the plan service as a draft that was not there.
LEMMA InsertSeen ==
    ASSUME AreasInv, NEW s \in Slot, NEW id \in AreaId, Inserts(s, id), UNCHANGED planVars
    PROVE  Plans!AreaStep(id)
  <1> DEFINE row == ViewOf(NewArea(request[s]))
  <1>1. /\ id \notin DOMAIN areas /\ DOMAIN areas' = DOMAIN areas \cup {id}
        /\ areas'[id] = NewArea(request[s]) /\ NewArea(request[s]) \in Row
        /\ \A i \in DOMAIN areas : areas'[i] = areas[i]
    BY InsertEffect DEF Inserts, AreasInv
  <1>2. row \in [status : AreaStates, boundary : Boundary] /\ row.status = "draft"
    BY <1>1, ViewType DEF ViewOf, NewArea
  <1>3. AreaView[id] = NoAreaRow
    BY <1>1, ViewAt
  <1>4. AreaView' = [AreaView EXCEPT ![id] = row]
    BY <1>1 DEF AreaView, ViewOf
  <1> HIDE DEF row
  <1> QED
    BY <1>2, <1>3, <1>4 DEF Plans!AreaStep, Plans!slots, Plans!registers, Plans!history, planVars

\* An edit appears as the edit of an area that the client may still edit.
LEMMA UpdateSeen ==
    ASSUME AreasInv, NEW s \in Slot, Updates(s), UNCHANGED planVars
    PROVE  Plans!AreaStep(subject[s])
  <1> DEFINE id == subject[s]
  <1>1. KnownVersions => areas[id].status # "archived"
    BY MatchedOpen DEF AreasInv
  <1>2. PICK new \in Row : areas' = [areas EXCEPT ![id] = new]
    BY UpdateEffect DEF Updates, AreasInv
  <1>3. id \in DOMAIN areas /\ id \in AreaId /\ areas[id] \in Row
    BY UpdateEffect DEF Updates, AreasInv, Typed, TypeOK
  <1> HIDE DEF id
  <1>4. ViewOf(new) \in [status : AreaStates, boundary : Boundary]
    BY ViewType
  <1>5. /\ AreaView[id] = ViewOf(areas[id])
        /\ AreaView[id] \in [status : AreaStates, boundary : Boundary]
        /\ AreaView[id] # NoAreaRow
    BY <1>3, ViewAt, ViewType, NoAreaRowAssumption
  <1>6. KnownVersions => AreaView[id].status # "archived"
    BY <1>1, <1>3, <1>5 DEF ViewOf
  <1>7. AreaView' = [AreaView EXCEPT ![id] = ViewOf(new)]
    BY <1>2, <1>3 DEF AreaView, ViewOf
  <1>8. Plans!AreaStep(id)
    BY <1>4, <1>5, <1>6, <1>7 DEF Plans!AreaStep, Plans!slots, Plans!registers, Plans!history,
       planVars
  <1> QED
    BY <1>8 DEF id

PlansUnchanged == UNCHANGED <<AreaView, planVars>>

LEMMA NextSeen ==
    ASSUME AreasInv, [PlanningNext]_<<vars, planVars>>
    PROVE  Plans!Next \/ PlansUnchanged
  <1>1. CASE AreaRequestStep
    <2>1. UNCHANGED planVars
      BY <1>1 DEF AreaRequestStep
    <2>2. TableStep
      BY <1>1, NextTable DEF AreaRequestStep, Next
    <2>3. CASE UNCHANGED areas
      BY <2>1, <2>3 DEF PlansUnchanged, AreaView
    <2>4. ASSUME NEW s \in Slot, NEW id \in AreaId, Inserts(s, id)
          PROVE  Plans!Next
      BY <2>1, <2>4, InsertSeen DEF Plans!Next
    <2>5. ASSUME NEW s \in Slot, Updates(s)
          PROVE  Plans!Next
      <3>1. subject[s] \in AreaId
        BY <2>5 DEF Updates, AreasInv, Typed, TypeOK, SubjectExists
      <3> QED
        BY <2>1, <2>5, <3>1, UpdateSeen DEF Plans!Next
    <2> QED
      BY <2>2, <2>3, <2>4, <2>5 DEF TableStep
  <1>2. CASE PlanRequestStep
    BY <1>2 DEF PlanRequestStep, Plans!Next
  <1>3. CASE ProcessCrash
    BY <1>3 DEF ProcessCrash, Plans!Next
  <1>4. CASE UNCHANGED <<vars, planVars>>
    BY <1>4 DEF vars, tables, PlansUnchanged, AreaView
  <1> QED
    BY <1>1, <1>2, <1>3, <1>4 DEF PlanningNext

LEMMA SeenSteps == AreasInv /\ [PlanningNext]_<<vars, planVars>> => [Plans!Next]_(Plans!vars)
  BY NextSeen DEF PlansUnchanged, Plans!vars, Plans!tables, Plans!slots, Plans!registers,
     Plans!history, planVars

\* Beside the real area service the plan service behaves as its own module
\* describes it, whatever the handlers of the two services interleave with.
THEOREM AssumptionsHold == PlanningSpec => PlanServiceAssumptionsHold
  <1>1. PlanningInit => AreasInv /\ Plans!Init
    BY InitTyped, InitChecked DEF PlanningInit, AreasInv
  <1> QED
    BY <1>1, NextAreasInv, SeenSteps, PTL DEF PlanningSpec, PlanServiceAssumptionsHold, Plans!Spec
=============================================================================

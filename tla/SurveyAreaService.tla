------------------------- MODULE SurveyAreaService -------------------------
(***************************************************************************)
(* service.SurveyAreaService over repository.SurveyAreaRepository: the     *)
(* creation and the edits of survey areas.  Each request has a slot and    *)
(* each GORM call is one action, as in SonarRunService.                    *)
(***************************************************************************)
EXTENDS WorkflowStates, FiniteSets

CONSTANTS
    Slot,          \* handler goroutines
    AreaId,        \* primary keys of table survey_areas
    TypedCode,     \* area codes as clients type them
    AreaCode,      \* area codes as they are stored
    Normalized,    \* typed code -> stored code: trimmed and in upper case
    Content,       \* boundary, coordinate system and the other editable columns
    GeometryError, \* content -> what validateAreaGeometry answers, or "none"
    CreateInput,   \* the create requests that clients send
    UpdateInput,   \* the update requests that clients send
    SeedCode,      \* the code of the area that seed stores
    SeedContent,   \* its content
    KnownVersions, \* clients send no version that they have not been shown
    NoRequest,     \* the request of a slot that serves none
    NoArea         \* the subject of a slot before it has one

GeometryErrors == {"COORDINATE_SYSTEM_INVALID", "GEOJSON_INVALID", "AREA_TOO_LARGE"}

CreateRequest == [code : TypedCode, content : Content]

\* dto.UpdateSurveyAreaRequest: binding admits only the three states, so that
\* the answer AREA_STATUS_INVALID of Update is never given.
UpdateRequest == [id : AreaId, content : Content, status : AreaStates,
                  expected : Nat \ {0}]

ASSUME ContentAssumption ==
    /\ Normalized \in [TypedCode -> AreaCode]
    /\ GeometryError \in [Content -> GeometryErrors \cup {"none"}]
    /\ CreateInput \subseteq CreateRequest
    /\ UpdateInput \subseteq UpdateRequest
    /\ KnownVersions \in BOOLEAN

ASSUME SeedAssumption == /\ SeedCode \in AreaCode
                         /\ SeedContent \in Content

ASSUME NoneAssumption == NoArea \notin AreaId

VARIABLES
    areas,     \* table survey_areas: a function on the ids in use
    audits,    \* table audit_events, the events of areas
    pc,        \* slot -> the database call it makes next
    request,   \* slot -> the bound request
    subject,   \* slot -> the id of the area it works on
    before,    \* slot -> the row read first
    after,     \* slot -> the row it will put in the audit event
    reply,     \* slot -> the code of the HTTP response
    lost       \* history: writes (id, version) without an audit event: it has
               \*   been cut off, or seed has made the row

tables == <<areas, audits>>
registers == <<request, subject, before, after>>
slots == <<pc, reply, registers>>
vars == <<tables, slots, lost>>

-----------------------------------------------------------------------------
(* Data *)

Row == [code : AreaCode, content : Content, status : AreaStates, version : Nat]

NoRow == [status |-> "none", version |-> 0]

\* wrote is no column: it is the version that the audited statement produced.
AuditEvent == [id : AreaId, wrote : Nat, before : Row \cup {NoRow}, after : Row]

CreateCalls == {"create.insert", "create.audit"}

UpdateCalls == {"update.get", "update.update", "update.get_updated", "update.audit"}

ViewCalls == {"view.created", "view.updated"}

UnauditedCalls == {"create.audit", "update.get_updated", "update.audit"}

Replies == {"none", "OK", "CREATED", "NOT_FOUND", "AREA_ARCHIVED", "DUPLICATE_RESOURCE",
            "VERSION_CONFLICT", "INTERNAL"} \cup GeometryErrors

WroteVersion(s) == IF pc[s] = "create.audit" THEN 1 ELSE request[s].expected + 1

-----------------------------------------------------------------------------
(* The client's side of a slot *)

\* The area that seed stores, already active and without an audit event.
SeedArea == [code |-> SeedCode, content |-> SeedContent, status |-> "active", version |-> 1]

\* What seed leaves before the server listens: without SEED_DATA, nothing.
SeededTable == \/ areas = [id \in {} |-> NoRow]
               \/ \E seeded \in AreaId : areas = [id \in {seeded} |-> SeedArea]

Init ==
    /\ SeededTable
    /\ audits = {}
    /\ pc = [s \in Slot |-> "idle"]
    /\ request = [s \in Slot |-> NoRequest]
    /\ subject = [s \in Slot |-> NoArea]
    /\ before = [s \in Slot |-> NoRow]
    /\ after = [s \in Slot |-> NoRow]
    /\ reply = [s \in Slot |-> "none"]
    /\ lost = {<<id, areas[id].version>> : id \in DOMAIN areas}

Answer(s, code) ==
    /\ pc' = [pc EXCEPT ![s] = "replied"]
    /\ reply' = [reply EXCEPT ![s] = code]

Proceed(s, call) ==
    /\ pc' = [pc EXCEPT ![s] = call]
    /\ UNCHANGED reply

\* Create validates the geometry before its first call.
SubmitCreate(s, create) ==
    /\ pc[s] = "idle"
    /\ request' = [request EXCEPT ![s] = create]
    /\ IF GeometryError[create.content] = "none"
       THEN Proceed(s, "create.insert")
       ELSE Answer(s, GeometryError[create.content])
    /\ UNCHANGED <<tables, subject, before, after, lost>>

\* The version that a client has been shown, at most.
ShownVersion(id) == IF id \in DOMAIN areas THEN areas[id].version ELSE 1

SubmitUpdate(s, update) ==
    /\ pc[s] = "idle"
    /\ KnownVersions => update.expected <= ShownVersion(update.id)
    /\ pc' = [pc EXCEPT ![s] = "update.get"]
    /\ request' = [request EXCEPT ![s] = update]
    /\ subject' = [subject EXCEPT ![s] = update.id]
    /\ UNCHANGED <<tables, before, after, reply, lost>>

Collect(s) ==
    /\ pc[s] = "replied"
    /\ pc' = [pc EXCEPT ![s] = "idle"]
    /\ request' = [request EXCEPT ![s] = NoRequest]
    /\ subject' = [subject EXCEPT ![s] = NoArea]
    /\ before' = [before EXCEPT ![s] = NoRow]
    /\ after' = [after EXCEPT ![s] = NoRow]
    /\ reply' = [reply EXCEPT ![s] = "none"]
    /\ UNCHANGED <<tables, lost>>

-----------------------------------------------------------------------------
(* SurveyAreaService.Create *)

\* Mutant: the code is compared as it was typed.
CodeTakenAsTyped(create) == \E id \in DOMAIN areas : areas[id].code = create.code

\* The unique index on area_code, which holds the normalized codes.
CodeTaken(create) == \E id \in DOMAIN areas : areas[id].code = Normalized[create.code]

\* Mutant: the status of a new row is left to the column's default.
NewAreaWithoutStatus(create) == [code |-> Normalized[create.code],
                                 content |-> create.content, status |-> "none", version |-> 1]

NewArea(create) == [code |-> Normalized[create.code], content |-> create.content,
                    status |-> "draft", version |-> 1]

InsertArea(s, id) ==
    /\ ~CodeTaken(request[s])
    /\ id \notin DOMAIN areas
    /\ areas' = [i \in DOMAIN areas \cup {id} |->
                     IF i = id THEN NewArea(request[s]) ELSE areas[i]]
    /\ subject' = [subject EXCEPT ![s] = id]

CreateInsert(s) ==
    /\ pc[s] = "create.insert"
    /\ \/ /\ CodeTaken(request[s])
          /\ Answer(s, "DUPLICATE_RESOURCE")
          /\ UNCHANGED <<areas, subject, after>>
       \/ /\ \E id \in AreaId : InsertArea(s, id)
          /\ after' = [after EXCEPT ![s] = NewArea(request[s])]
          /\ Proceed(s, "create.audit")
    /\ UNCHANGED <<audits, request, before, lost>>

\* Mutant: the audit event is forgotten.
RecordNothing(s) == audits' = audits

\* AuditService.Record: the snapshots are those the handler holds.
RecordAudit(s) ==
    audits' = audits \cup {[id |-> subject[s], wrote |-> WroteVersion(s),
                            before |-> before[s], after |-> after[s]]}

CreateAudit(s) ==
    /\ pc[s] = "create.audit"
    /\ RecordAudit(s)
    /\ Proceed(s, "view.created")
    /\ UNCHANGED <<areas, registers, lost>>

\* Get and Summary read five times for the view: they change nothing, and
\* only that one of them may fail matters (DatabaseError).
View(s) ==
    /\ \/ pc[s] = "view.created" /\ Answer(s, "CREATED")
       \/ pc[s] = "view.updated" /\ Answer(s, "OK")
    /\ UNCHANGED <<tables, registers, lost>>

-----------------------------------------------------------------------------
(* SurveyAreaService.Update *)

\* Mutant: Update does not look at the status.
UpdateErrorAnyStatus(s, row) == GeometryError[request[s].content]

UpdateError(s, row) ==
    IF row.status = "archived" THEN "AREA_ARCHIVED" ELSE GeometryError[request[s].content]

UpdateGet(s) ==
    /\ pc[s] = "update.get"
    /\ \/ /\ subject[s] \notin DOMAIN areas
          /\ Answer(s, "NOT_FOUND")
          /\ UNCHANGED before
       \/ /\ subject[s] \in DOMAIN areas
          /\ before' = [before EXCEPT ![s] = areas[subject[s]]]
          /\ LET error == UpdateError(s, areas[subject[s]])
             IN  \/ error # "none" /\ Answer(s, error)
                 \/ error = "none" /\ Proceed(s, "update.update")
    /\ UNCHANGED <<tables, request, subject, after, lost>>

\* Mutant: the WHERE clause without the version.
UpdateMatchesAnyVersion(s) == subject[s] \in DOMAIN areas

\* WHERE id = ? AND version = ?
UpdateMatches(s) == areas[subject[s]].version = request[s].expected

\* Mutant: the version stays as it is.
EditedSameVersion(s) == [code |-> areas[subject[s]].code, content |-> request[s].content,
                         status |-> request[s].status, version |-> areas[subject[s]].version]

\* Every editable column is set, the status among them.
Edited(s) == [code |-> areas[subject[s]].code, content |-> request[s].content,
              status |-> request[s].status, version |-> areas[subject[s]].version + 1]

UpdateArea(s) ==
    /\ UpdateMatches(s)
    /\ areas' = [areas EXCEPT ![subject[s]] = Edited(s)]

UpdateUpdate(s) ==
    /\ pc[s] = "update.update"
    /\ \/ /\ ~UpdateMatches(s)
          /\ Answer(s, "VERSION_CONFLICT")
          /\ UNCHANGED areas
       \/ /\ UpdateArea(s)
          /\ Proceed(s, "update.get_updated")
    /\ UNCHANGED <<audits, registers, lost>>

\* repository.Update reads the row again in a statement of its own.
UpdateGetUpdated(s) ==
    /\ pc[s] = "update.get_updated"
    /\ after' = [after EXCEPT ![s] = areas[subject[s]]]
    /\ Proceed(s, "update.audit")
    /\ UNCHANGED <<tables, request, subject, before, lost>>

UpdateAudit(s) ==
    /\ pc[s] = "update.audit"
    /\ RecordAudit(s)
    /\ Proceed(s, "view.updated")
    /\ UNCHANGED <<areas, registers, lost>>

-----------------------------------------------------------------------------
(* Database errors and crashes *)

Unaudited(s) == IF pc[s] \in UnauditedCalls
                THEN {<<subject[s], WroteVersion(s)>>} ELSE {}

\* A statement fails and has no effect: the handler answers with 500.
DatabaseError(s) ==
    /\ pc[s] \in CreateCalls \cup UpdateCalls \cup ViewCalls
    /\ Answer(s, "INTERNAL")
    /\ lost' = lost \cup Unaudited(s)
    /\ UNCHANGED <<tables, registers>>

\* A write commits and its acknowledgement is lost with the connection.
CreateUnacknowledged(s) ==
    /\ pc[s] = "create.insert"
    /\ \E id \in AreaId : InsertArea(s, id) /\ lost' = lost \cup {<<id, 1>>}
    /\ Answer(s, "INTERNAL")
    /\ UNCHANGED <<audits, request, before, after>>

UpdateUnacknowledged(s) ==
    /\ pc[s] = "update.update"
    /\ UpdateArea(s)
    /\ lost' = lost \cup {<<subject[s], WroteVersion(s)>>}
    /\ Answer(s, "INTERNAL")
    /\ UNCHANGED <<audits, registers>>

AuditUnacknowledged(s) ==
    /\ pc[s] \in {"create.audit", "update.audit"}
    /\ RecordAudit(s)
    /\ Answer(s, "INTERNAL")
    /\ UNCHANGED <<areas, registers, lost>>

\* The process dies or is shut down with handlers in flight; tables survive.
Crash ==
    /\ lost' = lost \cup UNION {Unaudited(s) : s \in Slot}
    /\ pc' = [s \in Slot |-> "idle"]
    /\ request' = [s \in Slot |-> NoRequest]
    /\ subject' = [s \in Slot |-> NoArea]
    /\ before' = [s \in Slot |-> NoRow]
    /\ after' = [s \in Slot |-> NoRow]
    /\ reply' = [s \in Slot |-> "none"]
    /\ UNCHANGED tables

-----------------------------------------------------------------------------
(* Specification *)

Submit(s) ==
    \/ \E create \in CreateInput : SubmitCreate(s, create)
    \/ \E update \in UpdateInput : SubmitUpdate(s, update)

HandlerStep(s) ==
    \/ CreateInsert(s)
    \/ CreateAudit(s)
    \/ View(s)
    \/ UpdateGet(s)
    \/ UpdateUpdate(s)
    \/ UpdateGetUpdated(s)
    \/ UpdateAudit(s)

Fault(s) ==
    \/ DatabaseError(s)
    \/ CreateUnacknowledged(s)
    \/ UpdateUnacknowledged(s)
    \/ AuditUnacknowledged(s)

RequestStep == \E s \in Slot : Submit(s) \/ Collect(s) \/ HandlerStep(s) \/ Fault(s)

Next == RequestStep \/ Crash

Spec == Init /\ [][Next]_vars

-----------------------------------------------------------------------------
(* Properties *)

\* Every variable keeps its type.
TypeOK ==
    /\ DOMAIN areas \subseteq AreaId
    /\ \A id \in DOMAIN areas : areas[id] \in Row
    /\ audits \subseteq AuditEvent
    /\ pc \in [Slot -> {"idle", "replied"} \cup CreateCalls \cup UpdateCalls \cup ViewCalls]
    /\ request \in [Slot -> CreateRequest \cup UpdateRequest \cup {NoRequest}]
    /\ subject \in [Slot -> AreaId \cup {NoArea}]
    /\ before \in [Slot -> Row \cup {NoRow}]
    /\ after \in [Slot -> Row \cup {NoRow}]
    /\ reply \in [Slot -> Replies]
    /\ lost \subseteq AreaId \X Nat

\* Two spellings of one code never make two areas (the code is normalized
\* before the insert, and the index is on the stored form).
CodesUnique ==
    \A i, j \in DOMAIN areas : areas[i].code = areas[j].code => i = j

\* Every version of an area was written by one handler: it has its audit
\* event, or its handler is about to record it, or an error or a crash has cut
\* the event off; never two of these.  Only the write of seed never had one.
Written == UNION {{<<id, v>> : v \in 1..areas[id].version} : id \in DOMAIN areas}

Recorded == {<<event.id, event.wrote>> : event \in audits}

Pending == UNION {Unaudited(s) : s \in Slot}

AuditLedger ==
    /\ Written = Recorded \cup Pending \cup lost
    /\ Recorded \cap Pending = {}
    /\ Recorded \cap lost = {}
    /\ Pending \cap lost = {}
    /\ \A s, t \in Slot : s # t => Unaudited(s) \cap Unaudited(t) = {}
    /\ \A e, f \in audits : e.id = f.id /\ e.wrote = f.wrote => e = f

\* The writes and the audit events of the table behave as an audit trail:
\* what is recorded or cut off stays so.
Trail == INSTANCE AuditTrail WITH
    written <- Written, recorded <- Recorded, pending <- [s \in Slot |-> Unaudited(s)]

ImplementsAuditTrail == Trail!Spec

\* The snapshots of the audit log tell one history: two snapshots of an area
\* at the same version agree, whoever took them and when, and one at the
\* current version agrees with the table.
Snapshots == {<<e.id, e.before>> : e \in {f \in audits : f.before # NoRow}}
             \cup {<<e.id, e.after>> : e \in audits}
             \cup {<<id, areas[id]>> : id \in DOMAIN areas}

SnapshotsAgree ==
    \A x, y \in Snapshots : x[1] = y[1] /\ x[2].version = y[2].version => x = y

\* Clients that send versions they were shown never change an archived area
\* and lose no edit, although Update checks the status on a row read in an
\* earlier statement and its WHERE clause does not repeat the check: the table
\* behaves as the abstract one, where "archived" freezes a row.
AbstractRow(area) == [key |-> area.code, body |-> <<area.content, area.status>>,
                      frozen |-> area.status = "archived", version |-> area.version]

Lifecycle == INSTANCE EditableRows WITH
    rows <- [id \in DOMAIN areas |-> AbstractRow(areas[id])],
    Seeds <- {[id \in {seeded} |-> AbstractRow(SeedArea)] : seeded \in AreaId},
    Id <- AreaId, Key <- AreaCode, Body <- Content \X AreaStates

ImplementsEditableRows == Lifecycle!Spec
=============================================================================

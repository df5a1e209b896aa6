------------------------ MODULE TransectPlanService ------------------------
(***************************************************************************)
(* service.TransectPlanService over repository.TransectPlanRepository:     *)
(* drawing, generating, editing, locking and copying plans of survey       *)
(* lines.  Each request has a slot and each GORM call is one action, as in *)
(* SonarRunService; areas are written by other handlers between two calls. *)
(***************************************************************************)
EXTENDS WorkflowStates, FiniteSets

CONSTANTS
    Slot,          \* handler goroutines
    PlanId,        \* primary keys of table transect_plans
    Area,          \* primary keys of table survey_areas
    Boundary,      \* area boundaries
    Lines,         \* line drawings with their heading, swath and spacing
    ParsableLines, \* the drawings whose GeoJSON geometry.ParseLines accepts
    Spacing,       \* the line spacings a client asks for
    Transects,     \* boundary, spacing: the lines generated, or an error
    NameLength,    \* lengths of plan names that are stored
    MaxName,       \* width of column name where it is enforced
    CreateInput,   \* the requests that clients send
    GenerateInput,
    UpdateInput,
    LockInput,
    CopyInput,     \* the ids that clients ask to copy
    AreaInput,     \* the rows that the area service stores
    SeedBoundary,  \* the boundary of the area that seed stores
    SeedLines,     \* the lines of the plan that it stores in the area
    SeedName,      \* the length of the name of that plan
    KnownVersions, \* clients send no version that they have not been shown
    NoRequest, NoPlan, NoArea

\* The length of what Copy appends to the name.
CopySuffix == 7

GenerateErrors == {"LINE_SPACING_INVALID", "NO_TRANSECTS"}

CreateRequest == [op : {"create"}, area : Area, lines : Lines, name : NameLength]

GenerateRequest == [op : {"generate"}, area : Area, spacing : Spacing, name : NameLength]

UpdateRequest == [op : {"update"}, id : PlanId, lines : Lines, name : NameLength,
                  expected : Nat \ {0}]

\* dto.PlanTransitionRequest: binding admits only the target "locked".
LockRequest == [op : {"lock"}, id : PlanId, expected : Nat \ {0}]

CopyRequest == [op : {"copy"}, id : PlanId]

AreaRow == [status : AreaStates, boundary : Boundary]

ASSUME InputsAssumption ==
    /\ AreaInput \subseteq AreaRow
    /\ CreateInput \subseteq CreateRequest
    /\ GenerateInput \subseteq GenerateRequest
    /\ UpdateInput \subseteq UpdateRequest
    /\ LockInput \subseteq LockRequest
    /\ CopyInput \subseteq PlanId
    /\ KnownVersions \in BOOLEAN

ASSUME LinesAssumption ==
    /\ ParsableLines \subseteq Lines
    /\ Transects \in [Boundary \X Spacing -> ParsableLines \cup GenerateErrors]
    /\ NameLength \subseteq Nat
    /\ MaxName \in Nat
    /\ \A n \in NameLength :
           n + CopySuffix <= MaxName => n + CopySuffix \in NameLength

ASSUME SeedAssumption ==
    /\ SeedBoundary \in Boundary
    /\ SeedLines \in Lines
    /\ SeedName \in NameLength

ASSUME NoneAssumption == NoPlan \notin PlanId

VARIABLES
    areas,     \* table survey_areas: status and boundary, or NoArea
    plans,     \* table transect_plans: a function on the ids in use
    audits,    \* table audit_events, the events of plans
    pc,        \* slot -> the database call it makes next
    request,   \* slot -> the bound request
    subject,   \* slot -> the id of the plan it works on
    before,    \* slot -> the row read first
    after,     \* slot -> the row it will put in the audit event
    reply,     \* slot -> the code of the HTTP response
    first,     \* history: plan -> the version it was made with
    lost       \* history: writes (id, version) without an audit event: it has
               \*   been cut off, or seed has made the row

tables == <<areas, plans, audits>>
registers == <<request, subject, before, after>>
slots == <<pc, reply, registers>>
history == <<first, lost>>
vars == <<tables, slots, history>>

-----------------------------------------------------------------------------
(* Data *)

Row == [area : Area, lines : Lines, name : NameLength, state : PlanStates, version : Nat]

NoRow == [state |-> "none", version |-> 0]

Operations == {"create", "update", "lock", "copy"}

\* wrote is no column: it is the version that the audited statement produced.
AuditEvent == [op : Operations, id : PlanId, wrote : Nat,
               before : Row \cup {NoRow}, after : Row]

Calls == {"generate.get_area", "get_area", "insert", "get", "update", "lock",
          "insert_copy", "get_updated", "audit", "get_created"}

UnauditedCalls == {"get_updated", "audit"}

Replies == {"none", "OK", "CREATED", "NOT_FOUND", "AREA_ARCHIVED", "GEOJSON_INVALID",
            "PLAN_LOCKED", "PLAN_STATE_INVALID", "VERSION_CONFLICT", "VALUE_TOO_LONG",
            "INTERNAL"} \cup GenerateErrors

WroteVersion(s) ==
    CASE request[s].op = "create" -> 1
      [] request[s].op = "copy"   -> before[s].version + 1
      [] OTHER                    -> request[s].expected + 1

-----------------------------------------------------------------------------
(* The client's side of a slot *)

\* The plan that seed stores, already locked and without an audit event.
SeedPlan(area) == [area |-> area, lines |-> SeedLines, name |-> SeedName,
                   state |-> "locked", version |-> 1]

\* What seed leaves before the server listens.  Without SEED_DATA, that is
\* nothing.  Its inserts are statements of their own, and a start that died
\* between them is not repaired by the next: the plan may be missing.
SeededTables ==
    \/ /\ areas = [a \in Area |-> NoArea]
       /\ plans = [id \in {} |-> NoRow]
    \/ \E area \in Area :
           /\ areas = [a \in Area |->
                           IF a = area THEN [status |-> "active", boundary |-> SeedBoundary]
                                       ELSE NoArea]
           /\ \/ plans = [id \in {} |-> NoRow]
              \/ \E seeded \in PlanId : plans = [id \in {seeded} |-> SeedPlan(area)]

Init ==
    /\ SeededTables
    /\ audits = {}
    /\ pc = [s \in Slot |-> "idle"]
    /\ request = [s \in Slot |-> NoRequest]
    /\ subject = [s \in Slot |-> NoPlan]
    /\ before = [s \in Slot |-> NoRow]
    /\ after = [s \in Slot |-> NoRow]
    /\ reply = [s \in Slot |-> "none"]
    /\ first = [id \in DOMAIN plans |-> plans[id].version]
    /\ lost = {<<id, plans[id].version>> : id \in DOMAIN plans}

Answer(s, code) ==
    /\ pc' = [pc EXCEPT ![s] = "replied"]
    /\ reply' = [reply EXCEPT ![s] = code]

Proceed(s, call) ==
    /\ pc' = [pc EXCEPT ![s] = call]
    /\ UNCHANGED reply

\* Create and Generate read the area first.
SubmitDrawn(s, drawing, call) ==
    /\ pc[s] = "idle"
    /\ Proceed(s, call)
    /\ request' = [request EXCEPT ![s] = drawing]
    /\ UNCHANGED <<tables, subject, before, after, history>>

\* Update, Lock and Copy read the plan first.
SubmitChange(s, change) ==
    /\ pc[s] = "idle"
    /\ Proceed(s, "get")
    /\ request' = [request EXCEPT ![s] = change]
    /\ subject' = [subject EXCEPT ![s] = change.id]
    /\ UNCHANGED <<tables, before, after, history>>

\* The version that a client has been shown, at most.
ShownVersion(id) == IF id \in DOMAIN plans THEN plans[id].version ELSE 1

MaySend(change) == KnownVersions => change.expected <= ShownVersion(change.id)

Collect(s) ==
    /\ pc[s] = "replied"
    /\ pc' = [pc EXCEPT ![s] = "idle"]
    /\ request' = [request EXCEPT ![s] = NoRequest]
    /\ subject' = [subject EXCEPT ![s] = NoPlan]
    /\ before' = [before EXCEPT ![s] = NoRow]
    /\ after' = [after EXCEPT ![s] = NoRow]
    /\ reply' = [reply EXCEPT ![s] = "none"]
    /\ UNCHANGED <<tables, history>>

-----------------------------------------------------------------------------
(* Create and Generate *)

\* Generate hands the lines that it has drawn on the boundary to Create,
\* which reads the area a second time.  Its answer GEOJSON_INVALID to a
\* boundary that does not parse is never given: Create and Update of the area
\* service store only boundaries that parse, and so does seed.
GenerateGetArea(s) ==
    /\ pc[s] = "generate.get_area"
    /\ LET found == areas[request[s].area]
           transects == Transects[found.boundary, request[s].spacing]
       IN  \/ /\ found = NoArea
              /\ Answer(s, "NOT_FOUND")
              /\ UNCHANGED request
           \/ /\ found # NoArea
              /\ transects \in GenerateErrors
              /\ Answer(s, transects)
              /\ UNCHANGED request
           \/ /\ found # NoArea
              /\ transects \notin GenerateErrors
              /\ request' = [request EXCEPT ![s] =
                                 [op |-> "create", area |-> request[s].area,
                                  lines |-> transects, name |-> request[s].name]]
              /\ Proceed(s, "get_area")
    /\ UNCHANGED <<tables, subject, before, after, history>>

\* The checks of Create once the area is read, in source order.
CreateError(create) ==
    CASE areas[create.area] = NoArea               -> "NOT_FOUND"
      [] areas[create.area].status = "archived"    -> "AREA_ARCHIVED"
      [] create.lines \notin ParsableLines         -> "GEOJSON_INVALID"
      [] OTHER                                     -> "none"

CreateGetArea(s) ==
    /\ pc[s] = "get_area"
    /\ LET error == CreateError(request[s])
       IN  \/ error # "none" /\ Answer(s, error)
           \/ error = "none" /\ Proceed(s, "insert")
    /\ UNCHANGED <<tables, registers, history>>

\* Mutant: the state of a new row is left to the column's default.
NewPlanWithoutState(create) ==
    [area |-> create.area, lines |-> create.lines, name |-> create.name,
     state |-> "none", version |-> 1]

NewPlan(create) ==
    [area |-> create.area, lines |-> create.lines, name |-> create.name,
     state |-> "draft", version |-> 1]

\* INSERT INTO transect_plans; no column but the id is unique.
InsertRow(s, id, row) ==
    /\ id \notin DOMAIN plans
    /\ plans' = [i \in DOMAIN plans \cup {id} |-> IF i = id THEN row ELSE plans[i]]
    /\ first' = [i \in DOMAIN first \cup {id} |-> IF i = id THEN row.version ELSE first[i]]
    /\ subject' = [subject EXCEPT ![s] = id]

CreateInsert(s) ==
    /\ pc[s] = "insert"
    /\ \E id \in PlanId : InsertRow(s, id, NewPlan(request[s]))
    /\ after' = [after EXCEPT ![s] = NewPlan(request[s])]
    /\ Proceed(s, "audit")
    /\ UNCHANGED <<areas, audits, request, before, lost>>

\* Create answers with the row as it is after the audit event.
CreateGetCreated(s) ==
    /\ pc[s] = "get_created"
    /\ Answer(s, "CREATED")
    /\ UNCHANGED <<tables, registers, history>>

-----------------------------------------------------------------------------
(* Update, Lock and Copy *)

\* What Update, Lock and Copy check on the row they have read.
ChangeError(change, row) ==
    CASE change.op = "update" /\ row.state # "draft"              -> "PLAN_LOCKED"
      [] change.op = "update" /\ change.lines \notin ParsableLines -> "GEOJSON_INVALID"
      [] change.op = "lock" /\ row.state # "draft"                -> "PLAN_STATE_INVALID"
      [] OTHER                                                    -> "none"

WriteCall(op) ==
    CASE op = "update" -> "update" [] op = "lock" -> "lock" [] op = "copy" -> "insert_copy"

ChangeGet(s) ==
    /\ pc[s] = "get"
    /\ \/ /\ subject[s] \notin DOMAIN plans
          /\ Answer(s, "NOT_FOUND")
          /\ UNCHANGED before
       \/ /\ subject[s] \in DOMAIN plans
          /\ before' = [before EXCEPT ![s] = plans[subject[s]]]
          /\ LET error == ChangeError(request[s], plans[subject[s]])
             IN  \/ error # "none" /\ Answer(s, error)
                 \/ error = "none" /\ Proceed(s, WriteCall(request[s].op))
    /\ UNCHANGED <<tables, request, subject, after, history>>

\* Mutant: the WHERE clause of Update without the version.
UpdateMatchesAnyVersion(s) == subject[s] \in DOMAIN plans

\* Update: WHERE id = ? AND version = ?
UpdateMatches(s) == plans[subject[s]].version = request[s].expected

Edited(s) == [area |-> plans[subject[s]].area, lines |-> request[s].lines,
              name |-> request[s].name, state |-> plans[subject[s]].state,
              version |-> plans[subject[s]].version + 1]

UpdatePlan(s) ==
    /\ UpdateMatches(s)
    /\ plans' = [plans EXCEPT ![subject[s]] = Edited(s)]

ChangeUpdate(s) ==
    /\ pc[s] = "update"
    /\ \/ /\ ~UpdateMatches(s)
          /\ Answer(s, "VERSION_CONFLICT")
          /\ UNCHANGED plans
       \/ /\ UpdatePlan(s)
          /\ Proceed(s, "get_updated")
    /\ UNCHANGED <<areas, audits, registers, history>>

\* Mutant: the WHERE clause of Transition without the version.
LockMatchesAnyVersion(s) == plans[subject[s]].state = "draft"

\* Lock: WHERE id = ? AND version = ? AND plan_state = 'draft'
LockMatches(s) == /\ plans[subject[s]].version = request[s].expected
                  /\ plans[subject[s]].state = "draft"

Locked(row) == [area |-> row.area, lines |-> row.lines, name |-> row.name,
                state |-> "locked", version |-> row.version + 1]

LockPlan(s) ==
    /\ LockMatches(s)
    /\ plans' = [plans EXCEPT ![subject[s]] = Locked(plans[subject[s]])]

ChangeLock(s) ==
    /\ pc[s] = "lock"
    /\ \/ /\ ~LockMatches(s)
          /\ Answer(s, "VERSION_CONFLICT")
          /\ UNCHANGED plans
       \/ /\ LockPlan(s)
          /\ Proceed(s, "get_updated")
    /\ UNCHANGED <<areas, audits, registers, history>>

\* repository.Update and Transition read the row again.
ChangeGetUpdated(s) ==
    /\ pc[s] = "get_updated"
    /\ after' = [after EXCEPT ![s] = plans[subject[s]]]
    /\ Proceed(s, "audit")
    /\ UNCHANGED <<tables, request, subject, before, history>>

\* Mutant: the copy keeps the state of its source.
CopyInAnyState(row) == [area |-> row.area, lines |-> row.lines,
                        name |-> row.name + CopySuffix, state |-> row.state,
                        version |-> row.version + 1]

\* repository.Copy, from the row read first: it looks neither at its state
\* nor at the area.
CopyOf(row) == [area |-> row.area, lines |-> row.lines, name |-> row.name + CopySuffix,
                state |-> "draft", version |-> row.version + 1]

CopyTooLong(s) == before[s].name + CopySuffix > MaxName

CopyInsert(s) ==
    /\ pc[s] = "insert_copy"
    /\ \/ /\ CopyTooLong(s)
          /\ Answer(s, "VALUE_TOO_LONG")
          /\ UNCHANGED <<plans, first, subject, after>>
       \/ /\ ~CopyTooLong(s)
          /\ \E id \in PlanId : InsertRow(s, id, CopyOf(before[s]))
          /\ after' = [after EXCEPT ![s] = CopyOf(before[s])]
          /\ Proceed(s, "audit")
    /\ UNCHANGED <<areas, audits, request, before, lost>>

-----------------------------------------------------------------------------
(* The audit event of all operations *)

\* Mutant: the audit event is forgotten.
RecordNothing(s) == audits' = audits

\* AuditService.Record: the snapshots are those the handler holds.
RecordAudit(s) ==
    audits' = audits \cup {[op |-> request[s].op, id |-> subject[s],
                            wrote |-> WroteVersion(s),
                            before |-> before[s], after |-> after[s]]}

Audit(s) ==
    /\ pc[s] = "audit"
    /\ RecordAudit(s)
    /\ \/ request[s].op = "create" /\ Proceed(s, "get_created")
       \/ request[s].op = "copy" /\ Answer(s, "CREATED")
       \/ request[s].op \in {"update", "lock"} /\ Answer(s, "OK")
    /\ UNCHANGED <<areas, plans, registers, history>>

-----------------------------------------------------------------------------
(* Database errors, crashes and the area service *)

Unaudited(s) == IF pc[s] \in UnauditedCalls
                THEN {<<subject[s], WroteVersion(s)>>} ELSE {}

\* A statement fails and has no effect: the handler answers with 500.
DatabaseError(s) ==
    /\ pc[s] \in Calls
    /\ Answer(s, "INTERNAL")
    /\ lost' = lost \cup Unaudited(s)
    /\ UNCHANGED <<tables, registers, first>>

\* An insert commits and its acknowledgement is lost with the connection.
InsertUnacknowledged(s) ==
    /\ \E id \in PlanId :
           /\ \/ pc[s] = "insert" /\ InsertRow(s, id, NewPlan(request[s]))
              \/ /\ pc[s] = "insert_copy"
                 /\ ~CopyTooLong(s)
                 /\ InsertRow(s, id, CopyOf(before[s]))
           /\ lost' = lost \cup {<<id, WroteVersion(s)>>}
    /\ Answer(s, "INTERNAL")
    /\ UNCHANGED <<areas, audits, request, before, after>>

UpdateUnacknowledged(s) ==
    /\ \/ pc[s] = "update" /\ UpdatePlan(s)
       \/ pc[s] = "lock" /\ LockPlan(s)
    /\ lost' = lost \cup {<<subject[s], WroteVersion(s)>>}
    /\ Answer(s, "INTERNAL")
    /\ UNCHANGED <<areas, audits, registers, first>>

AuditUnacknowledged(s) ==
    /\ pc[s] = "audit"
    /\ RecordAudit(s)
    /\ Answer(s, "INTERNAL")
    /\ UNCHANGED <<areas, plans, registers, history>>

\* The process dies or is shut down with handlers in flight; tables survive.
Crash ==
    /\ lost' = lost \cup UNION {Unaudited(s) : s \in Slot}
    /\ pc' = [s \in Slot |-> "idle"]
    /\ request' = [s \in Slot |-> NoRequest]
    /\ subject' = [s \in Slot |-> NoPlan]
    /\ before' = [s \in Slot |-> NoRow]
    /\ after' = [s \in Slot |-> NoRow]
    /\ reply' = [s \in Slot |-> "none"]
    /\ UNCHANGED <<tables, first>>

\* The area service creates areas in draft and edits those it finds not
\* archived; a client that guesses versions can also revive an archived one.
AreaStep(a) ==
    /\ \E row \in AreaInput :
           /\ IF areas[a] = NoArea THEN row.status = "draft"
                                  ELSE KnownVersions => areas[a].status # "archived"
           /\ areas' = [areas EXCEPT ![a] = row]
    /\ UNCHANGED <<plans, audits, slots, history>>

-----------------------------------------------------------------------------
(* Specification *)

Submit(s) ==
    \/ \E create \in CreateInput : SubmitDrawn(s, create, "get_area")
    \/ \E generate \in GenerateInput : SubmitDrawn(s, generate, "generate.get_area")
    \/ \E change \in UpdateInput \cup LockInput : MaySend(change) /\ SubmitChange(s, change)
    \/ \E id \in CopyInput : SubmitChange(s, [op |-> "copy", id |-> id])

HandlerStep(s) ==
    \/ GenerateGetArea(s)
    \/ CreateGetArea(s)
    \/ CreateInsert(s)
    \/ CreateGetCreated(s)
    \/ ChangeGet(s)
    \/ ChangeUpdate(s)
    \/ ChangeLock(s)
    \/ ChangeGetUpdated(s)
    \/ CopyInsert(s)
    \/ Audit(s)

Fault(s) ==
    \/ DatabaseError(s)
    \/ InsertUnacknowledged(s)
    \/ UpdateUnacknowledged(s)
    \/ AuditUnacknowledged(s)

RequestStep == \E s \in Slot : Submit(s) \/ Collect(s) \/ HandlerStep(s) \/ Fault(s)

Next ==
    \/ RequestStep
    \/ Crash
    \/ \E a \in Area : AreaStep(a)

Spec == Init /\ [][Next]_vars

-----------------------------------------------------------------------------
(* Properties *)

\* Every variable keeps its type.
TypeOK ==
    /\ areas \in [Area -> AreaRow \cup {NoArea}]
    /\ DOMAIN plans \subseteq PlanId
    /\ \A id \in DOMAIN plans : plans[id] \in Row
    /\ audits \subseteq AuditEvent
    /\ pc \in [Slot -> {"idle", "replied"} \cup Calls]
    /\ request \in [Slot -> CreateRequest \cup GenerateRequest \cup UpdateRequest
                            \cup LockRequest \cup CopyRequest \cup {NoRequest}]
    /\ subject \in [Slot -> PlanId \cup {NoPlan}]
    /\ before \in [Slot -> Row \cup {NoRow}]
    /\ after \in [Slot -> Row \cup {NoRow}]
    /\ reply \in [Slot -> Replies]
    /\ DOMAIN first = DOMAIN plans
    /\ lost \subseteq PlanId \X Nat

\* Every version of a plan, from the one a create or a copy made, was written
\* by one handler: it has its audit event, or its handler is about to record
\* it, or an error or a crash has cut the event off; never two of these.  Only
\* the write of seed never had one.
Written == UNION {{<<id, v>> : v \in first[id]..plans[id].version} : id \in DOMAIN plans}

Recorded == {<<event.id, event.wrote>> : event \in audits}

Pending == UNION {Unaudited(s) : s \in Slot}

AuditLedger ==
    /\ Written = Recorded \cup Pending \cup lost
    /\ Recorded \cap Pending = {}
    /\ Recorded \cap lost = {}
    /\ Pending \cap lost = {}
    /\ \A s, t \in Slot : s # t => Unaudited(s) \cap Unaudited(t) = {}
    /\ \A e, f \in audits : e.id = f.id /\ e.wrote = f.wrote => e = f

\* The writes and the audit events of the table behave as an audit trail:
\* what is recorded or cut off stays so.
Trail == INSTANCE AuditTrail WITH
    written <- Written, recorded <- Recorded, pending <- [s \in Slot |-> Unaudited(s)]

ImplementsAuditTrail == Trail!Spec

\* The audit event of a lock shows the plan as it was locked and as it has
\* been ever since: its runs were surveyed along these lines (repository.
\* Transition reads the row in a second statement, and Update repeats no
\* check of the state in its WHERE clause).
LockAuditStands ==
    \A event \in audits : event.op = "lock" => event.after = plans[event.id]

\* The snapshot "before" of an edit or a lock is the row as the statement
\* found it, though it was read earlier.
EditsFollowTheirSnapshot ==
    \A event \in audits :
        event.op \in {"update", "lock"} => /\ event.before.version = event.wrote - 1
                                           /\ event.before.state = "draft"

\* Clients that send versions they were shown never change a locked plan and
\* lose no edit: the table behaves as the abstract one, where "locked" freezes
\* a row.
AbstractRow(plan) == [key |-> plan.area, body |-> <<plan.lines, plan.name>>,
                      frozen |-> plan.state = "locked", version |-> plan.version]

Lifecycle == INSTANCE EditableRows WITH
    rows <- [id \in DOMAIN plans |-> AbstractRow(plans[id])],
    Seeds <- {[id \in {seeded} |-> AbstractRow(SeedPlan(area))] :
                  seeded \in PlanId, area \in Area},
    Id <- PlanId, Key <- Area, Body <- Lines \X NameLength

ImplementsEditableRows == Lifecycle!Spec

=============================================================================

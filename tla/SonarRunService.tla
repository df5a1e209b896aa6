--------------------------- MODULE SonarRunService ---------------------------
(***************************************************************************)
(* service.SonarRunService over repository.SonarRunRepository: the import  *)
(* of survey runs and their state transitions.                             *)
(*                                                                         *)
(* Every HTTP request runs in a goroutine of its own, a slot here.  No     *)
(* transaction spans a handler: each GORM call is one statement that       *)
(* commits by itself, so a handler is a sequence of actions, one per call, *)
(* and the pure code between two calls belongs to the action before it.    *)
(* pc[s] names the call that slot s makes next.                            *)
(***************************************************************************)
EXTENDS WorkflowStates, FiniteSets

CONSTANTS
    Slot,             \* handler goroutines that may be in flight together
    RunId,            \* primary keys of table sonar_runs
    Plan,             \* primary keys of table transect_plans
    Source,           \* what checksumRun hashes besides the plan:
                      \*   track, swath, start and end time
    ParsableSource,   \* the sources whose track geometry.ParseLines accepts
    OrderedSource,    \* the sources that end after they start
    Code,             \* run codes
    ImportInput,      \* the import requests that clients send
    TransitionInput,  \* the transition requests that clients send
    SeedPlan,         \* the plan that seed stores
    SeedSource,       \* stands for the literal checksum of the run that it stores
    SeedCode,         \* the code of that run
    NoRequest,        \* the request of a slot that serves none
    NoRun             \* the subject of a slot before it has one

ASSUME SourcesAssumption == /\ ParsableSource \subseteq Source
                            /\ OrderedSource \subseteq Source

ASSUME NoneAssumption == NoRun \notin RunId

VARIABLES
    plans,     \* the state of each plan, "absent" before it is created
    runs,      \* table sonar_runs: a function on the ids in use
    audits,    \* table audit_events, the events of runs
    pc,        \* slot -> the database call it makes next
    request,   \* slot -> the bound request body
    subject,   \* slot -> the id of the run it works on
    before,    \* slot -> the row read first (state and version)
    after,     \* slot -> the row it will put in the audit event
    reply,     \* slot -> the code of the HTTP response
    acked,     \* history: checksum and id of every successful import reply
    lost       \* history: the writes (id, version) whose audit event a
               \*   database error or a crash has cut off

tables == <<plans, runs, audits>>
slots == <<pc, request, subject, before, after, reply>>
history == <<acked, lost>>
vars == <<tables, slots, history>>

-----------------------------------------------------------------------------
(* Data *)

ImportRequest == [plan : Plan, source : Source, code : Code,
                  nav : NavigationQualities]

\* dto.RunTransitionRequest: a target is any state but "imported", and
\* expected_version is positive.  reasoned: the reason has 4 characters.
TransitionRequest == [id : RunId, target : RunStates \ {"imported"},
                      expected : Nat \ {0}, reasoned : BOOLEAN]

ASSUME InputsAssumption == /\ ImportInput \subseteq ImportRequest
                           /\ TransitionInput \subseteq TransitionRequest

\* The literal is the hash of nothing that a client sends.
ASSUME SeedAssumption == /\ SeedPlan \in Plan
                         /\ SeedSource \in Source
                         /\ SeedCode \in Code
                         /\ \A item \in ImportInput : item.source # SeedSource

Run == [plan : Plan, source : Source, code : Code, nav : NavigationQualities,
        state : RunStates, version : Nat]

\* The columns of a row that change, as a snapshot of the audit log holds them.
Snapshot == [state : RunStates \cup {"none"}, version : Nat]

NoSnapshot == [state |-> "none", version |-> 0]

SnapshotOf(id) == [state |-> runs[id].state, version |-> runs[id].version]

\* wrote is no column: it is the version that the audited statement produced.
AuditEvent == [id : RunId, wrote : Nat, before : Snapshot, after : Snapshot]

\* checksumRun: the run code and the navigation quality are not hashed.
Checksum(item) == <<item.plan, item.source>>

ImportCalls == {"import.get_plan", "import.by_checksum", "import.create",
                "import.audit", "import.get"}

TransitionCalls == {"transition.get", "transition.update",
                    "transition.get_updated", "transition.audit"}

\* Calls a slot reaches only after its own write, before the audit event.
UnauditedCalls == {"import.audit", "transition.get_updated", "transition.audit"}

Replies == {"none", "OK", "CREATED", "IDEMPOTENT", "NOT_FOUND",
            "PLAN_NOT_LOCKED", "GEOJSON_INVALID", "RUN_TIME_INVALID",
            "DUPLICATE_RESOURCE", "RUN_TRANSITION_INVALID",
            "NAVIGATION_INVALID", "REJECTION_REASON_REQUIRED",
            "VERSION_CONFLICT", "INTERNAL"}

\* The version that the write of slot s has produced.
WroteVersion(s) ==
    IF pc[s] = "import.audit" THEN 1 ELSE request[s].expected + 1

-----------------------------------------------------------------------------
(* The client's side of a slot *)

\* The run that seed stores, already processed and without an audit event.
SeedRun == [plan |-> SeedPlan, source |-> SeedSource, code |-> SeedCode,
            nav |-> "good", state |-> "processed", version |-> 1]

\* What seed leaves before the server listens.  Without SEED_DATA, that is
\* nothing.  Its inserts are statements of their own, and a start that died
\* between them is not repaired by the next: the run may be missing.
SeededTables ==
    \/ /\ plans = [p \in Plan |-> "absent"]
       /\ runs = [id \in {} |-> SeedRun]
    \/ /\ plans = [p \in Plan |-> IF p = SeedPlan THEN "locked" ELSE "absent"]
       /\ \/ runs = [id \in {} |-> SeedRun]
          \/ \E first \in RunId : runs = [id \in {first} |-> SeedRun]

Init ==
    /\ SeededTables
    /\ audits = {}
    /\ pc = [s \in Slot |-> "idle"]
    /\ request = [s \in Slot |-> NoRequest]
    /\ subject = [s \in Slot |-> NoRun]
    /\ before = [s \in Slot |-> NoSnapshot]
    /\ after = [s \in Slot |-> NoSnapshot]
    /\ reply = [s \in Slot |-> "none"]
    /\ acked = {}
    /\ lost = {}

SubmitImport(s, item) ==
    /\ pc[s] = "idle"
    /\ pc' = [pc EXCEPT ![s] = "import.get_plan"]
    /\ request' = [request EXCEPT ![s] = item]
    /\ UNCHANGED <<tables, subject, before, after, reply, history>>

SubmitTransition(s, move) ==
    /\ pc[s] = "idle"
    /\ pc' = [pc EXCEPT ![s] = "transition.get"]
    /\ request' = [request EXCEPT ![s] = move]
    /\ subject' = [subject EXCEPT ![s] = move.id]
    /\ UNCHANGED <<tables, before, after, reply, history>>

\* The handler returns: the response waits for the client.
Answer(s, code) ==
    /\ pc' = [pc EXCEPT ![s] = "replied"]
    /\ reply' = [reply EXCEPT ![s] = code]

Proceed(s, call) ==
    /\ pc' = [pc EXCEPT ![s] = call]
    /\ UNCHANGED reply

Collect(s) ==
    /\ pc[s] = "replied"
    /\ pc' = [pc EXCEPT ![s] = "idle"]
    /\ request' = [request EXCEPT ![s] = NoRequest]
    /\ subject' = [subject EXCEPT ![s] = NoRun]
    /\ before' = [before EXCEPT ![s] = NoSnapshot]
    /\ after' = [after EXCEPT ![s] = NoSnapshot]
    /\ reply' = [reply EXCEPT ![s] = "none"]
    /\ UNCHANGED <<tables, history>>

-----------------------------------------------------------------------------
(* SonarRunService.Import *)

\* What Import checks on the request once the plan is read, in source order.
ImportError(item) ==
    CASE plans[item.plan] = "absent"          -> "NOT_FOUND"
      [] plans[item.plan] = "draft"           -> "PLAN_NOT_LOCKED"
      [] item.source \notin ParsableSource    -> "GEOJSON_INVALID"
      [] item.source \notin OrderedSource     -> "RUN_TIME_INVALID"
      [] OTHER                                -> "none"

ImportGetPlan(s) ==
    /\ pc[s] = "import.get_plan"
    /\ LET error == ImportError(request[s])
       IN  \/ error # "none" /\ Answer(s, error)
           \/ error = "none" /\ Proceed(s, "import.by_checksum")
    /\ UNCHANGED <<tables, request, subject, before, after, history>>

SameChecksum(item) == {id \in DOMAIN runs : Checksum(runs[id]) = Checksum(item)}

\* A hit is the idempotent answer; gorm.ErrRecordNotFound goes on to Create.
ImportByChecksum(s) ==
    /\ pc[s] = "import.by_checksum"
    /\ \/ \E id \in SameChecksum(request[s]) :
              /\ Answer(s, "IDEMPOTENT")
              /\ subject' = [subject EXCEPT ![s] = id]
              /\ acked' = acked \cup {<<Checksum(request[s]), id>>}
       \/ /\ SameChecksum(request[s]) = {}
          /\ Proceed(s, "import.create")
          /\ UNCHANGED <<subject, acked>>
    /\ UNCHANGED <<tables, request, before, after, lost>>

\* Mutant: only the run code has a unique index.
ViolatesCodeIndex(item) == \E id \in DOMAIN runs : runs[id].code = item.code

\* The unique indexes on source_checksum and run_code.
ViolatesUniqueIndex(item) ==
    \/ SameChecksum(item) # {}
    \/ \E id \in DOMAIN runs : runs[id].code = item.code

\* Mutant: the state of a new row is left to the column's default.
NewRunWithoutState(item) ==
    [plan |-> item.plan, source |-> item.source, code |-> item.code,
     nav |-> item.nav, state |-> "none", version |-> 1]

NewRun(item) ==
    [plan |-> item.plan, source |-> item.source, code |-> item.code,
     nav |-> item.nav, state |-> "imported", version |-> 1]

\* INSERT INTO sonar_runs; gorm fills in the id of the in-memory row.
InsertRun(s, id) ==
    /\ ~ViolatesUniqueIndex(request[s])
    /\ id \notin DOMAIN runs
    /\ runs' = [i \in DOMAIN runs \cup {id} |->
                    IF i = id THEN NewRun(request[s]) ELSE runs[i]]
    /\ subject' = [subject EXCEPT ![s] = id]

ImportCreate(s) ==
    /\ pc[s] = "import.create"
    /\ \/ /\ ViolatesUniqueIndex(request[s])
          /\ Answer(s, "DUPLICATE_RESOURCE")
          /\ UNCHANGED <<runs, subject, after>>
       \/ /\ \E id \in RunId : InsertRun(s, id)
          /\ Proceed(s, "import.audit")
          /\ after' = [after EXCEPT ![s] = [state |-> "imported", version |-> 1]]
    /\ UNCHANGED <<plans, audits, request, before, history>>

\* Mutant: the handler forgets the audit event.
RecordNothing(s) == audits' = audits

\* AuditService.Record: the snapshots are those the handler holds.
RecordAudit(s) ==
    audits' = audits \cup
        {[id |-> subject[s], wrote |-> WroteVersion(s),
          before |-> before[s], after |-> after[s]]}

ImportAudit(s) ==
    /\ pc[s] = "import.audit"
    /\ RecordAudit(s)
    /\ Proceed(s, "import.get")
    /\ UNCHANGED <<plans, runs, request, subject, before, after, history>>

ImportGet(s) ==
    /\ pc[s] = "import.get"
    /\ Answer(s, "CREATED")
    /\ acked' = acked \cup {<<Checksum(request[s]), subject[s]>>}
    /\ UNCHANGED <<tables, request, subject, before, after, lost>>

-----------------------------------------------------------------------------
(* SonarRunService.Transition *)

\* Mutant: the navigation quality is looked at only when processing ends.
TransitionErrorLateNavigation(move) ==
    LET run == runs[move.id]
    IN  CASE ~RunCanTransition(run.state, move.target) -> "RUN_TRANSITION_INVALID"
          [] move.target = "processed" /\ run.nav = "invalid" -> "NAVIGATION_INVALID"
          [] move.target = "rejected" /\ ~move.reasoned -> "REJECTION_REASON_REQUIRED"
          [] OTHER -> "none"

\* What Transition checks on the row it has read, in source order.
TransitionError(move) ==
    LET run == runs[move.id]
    IN  CASE ~RunCanTransition(run.state, move.target) -> "RUN_TRANSITION_INVALID"
          [] move.target = "quality_checked" /\ run.nav = "invalid" -> "NAVIGATION_INVALID"
          [] move.target = "rejected" /\ ~move.reasoned -> "REJECTION_REASON_REQUIRED"
          [] OTHER -> "none"

TransitionGet(s) ==
    /\ pc[s] = "transition.get"
    /\ \/ /\ subject[s] \notin DOMAIN runs
          /\ Answer(s, "NOT_FOUND")
          /\ UNCHANGED before
       \/ /\ subject[s] \in DOMAIN runs
          /\ before' = [before EXCEPT ![s] = SnapshotOf(subject[s])]
          /\ LET error == TransitionError(request[s])
             IN  \/ error # "none" /\ Answer(s, error)
                 \/ error = "none" /\ Proceed(s, "transition.update")
    /\ UNCHANGED <<tables, request, subject, after, history>>

\* Mutant: the WHERE clause without the state.
UpdateMatchesAnyState(s) ==
    runs[subject[s]].version = request[s].expected

\* Mutant: the WHERE clause without the version.
UpdateMatchesAnyVersion(s) ==
    runs[subject[s]].state = before[s].state

\* Mutant: the client's version compared with the one the update will store.
UpdateMatchesNextVersion(s) ==
    /\ runs[subject[s]].version + 1 = request[s].expected
    /\ runs[subject[s]].state = before[s].state

\* WHERE id = ? AND version = ? AND run_state = ?
UpdateMatches(s) ==
    /\ runs[subject[s]].version = request[s].expected
    /\ runs[subject[s]].state = before[s].state

\* SET run_state = to, version = version + 1
Moved(run, to) ==
    [plan |-> run.plan, source |-> run.source, code |-> run.code,
     nav |-> run.nav, state |-> to, version |-> run.version + 1]

UpdateRun(s) ==
    /\ UpdateMatches(s)
    /\ runs' = [runs EXCEPT ![subject[s]] = Moved(runs[subject[s]], request[s].target)]

TransitionUpdate(s) ==
    /\ pc[s] = "transition.update"
    /\ \/ /\ ~UpdateMatches(s)
          /\ Answer(s, "VERSION_CONFLICT")
          /\ UNCHANGED runs
       \/ /\ UpdateRun(s)
          /\ Proceed(s, "transition.get_updated")
    /\ UNCHANGED <<plans, audits, request, subject, before, after, history>>

\* repository.Transition reads the row again in a statement of its own.
TransitionGetUpdated(s) ==
    /\ pc[s] = "transition.get_updated"
    /\ after' = [after EXCEPT ![s] = SnapshotOf(subject[s])]
    /\ Proceed(s, "transition.audit")
    /\ UNCHANGED <<tables, request, subject, before, history>>

TransitionAudit(s) ==
    /\ pc[s] = "transition.audit"
    /\ RecordAudit(s)
    /\ Answer(s, "OK")
    /\ UNCHANGED <<plans, runs, request, subject, before, after, history>>

-----------------------------------------------------------------------------
(* Database errors and crashes *)

Unaudited(s) == IF pc[s] \in UnauditedCalls
                THEN {<<subject[s], WroteVersion(s)>>} ELSE {}

\* A statement fails and has no effect: the handler answers with 500.
DatabaseError(s) ==
    /\ pc[s] \in ImportCalls \cup TransitionCalls
    /\ Answer(s, "INTERNAL")
    /\ lost' = lost \cup Unaudited(s)
    /\ UNCHANGED <<tables, request, subject, before, after, acked>>

\* A write commits and its acknowledgement is lost with the connection.
CreateUnacknowledged(s) ==
    /\ pc[s] = "import.create"
    /\ \E id \in RunId :
           /\ InsertRun(s, id)
           /\ lost' = lost \cup {<<id, 1>>}
    /\ Answer(s, "INTERNAL")
    /\ UNCHANGED <<plans, audits, request, before, after, acked>>

UpdateUnacknowledged(s) ==
    /\ pc[s] = "transition.update"
    /\ UpdateRun(s)
    /\ lost' = lost \cup {<<subject[s], WroteVersion(s)>>}
    /\ Answer(s, "INTERNAL")
    /\ UNCHANGED <<plans, audits, request, subject, before, after, acked>>

AuditUnacknowledged(s) ==
    /\ pc[s] \in {"import.audit", "transition.audit"}
    /\ RecordAudit(s)
    /\ Answer(s, "INTERNAL")
    /\ UNCHANGED <<plans, runs, request, subject, before, after, history>>

\* The process dies or is shut down with handlers in flight; tables survive.
Crash ==
    /\ lost' = lost \cup UNION {Unaudited(s) : s \in Slot}
    /\ pc' = [s \in Slot |-> "idle"]
    /\ request' = [s \in Slot |-> NoRequest]
    /\ subject' = [s \in Slot |-> NoRun]
    /\ before' = [s \in Slot |-> NoSnapshot]
    /\ after' = [s \in Slot |-> NoSnapshot]
    /\ reply' = [s \in Slot |-> "none"]
    /\ UNCHANGED <<tables, acked>>

\* The plan service creates and locks plans; a locked plan stays locked.
PlanStep(p) ==
    /\ \/ plans[p] = "absent" /\ plans' = [plans EXCEPT ![p] = "draft"]
       \/ plans[p] = "draft" /\ plans' = [plans EXCEPT ![p] = "locked"]
    /\ UNCHANGED <<runs, audits, slots, history>>

-----------------------------------------------------------------------------
(* Specification *)

Submit(s) ==
    \/ \E item \in ImportInput : SubmitImport(s, item)
    \/ \E move \in TransitionInput : SubmitTransition(s, move)

\* The next call of the handler in slot s, answered by the database.
HandlerStep(s) ==
    \/ ImportGetPlan(s)
    \/ ImportByChecksum(s)
    \/ ImportCreate(s)
    \/ ImportAudit(s)
    \/ ImportGet(s)
    \/ TransitionGet(s)
    \/ TransitionUpdate(s)
    \/ TransitionGetUpdated(s)
    \/ TransitionAudit(s)

Fault(s) ==
    \/ DatabaseError(s)
    \/ CreateUnacknowledged(s)
    \/ UpdateUnacknowledged(s)
    \/ AuditUnacknowledged(s)

Next ==
    \/ \E s \in Slot : Submit(s) \/ Collect(s) \/ HandlerStep(s) \/ Fault(s)
    \/ \E p \in Plan : PlanStep(p)
    \/ Crash

Spec == Init /\ [][Next]_vars

-----------------------------------------------------------------------------
(* Properties *)

\* Every variable keeps its type.
TypeOK ==
    /\ plans \in [Plan -> {"absent", "draft", "locked"}]
    /\ DOMAIN runs \subseteq RunId
    /\ \A id \in DOMAIN runs : runs[id] \in Run
    /\ audits \subseteq AuditEvent
    /\ pc \in [Slot -> {"idle", "replied"} \cup ImportCalls \cup TransitionCalls]
    /\ request \in [Slot -> ImportRequest \cup TransitionRequest \cup {NoRequest}]
    /\ subject \in [Slot -> RunId \cup {NoRun}]
    /\ before \in [Slot -> Snapshot]
    /\ after \in [Slot -> Snapshot]
    /\ reply \in [Slot -> Replies]
    /\ acked \subseteq (Plan \X Source) \X RunId
    /\ lost \subseteq RunId \X Nat

\* The versions a run may have in each state: those of the state it was stored
\* in at version 1, and one more for each move that leads on from there.
StageVersions(source) ==
    IF source = SeedSource
    THEN [imported |-> {}, quality_checked |-> {}, processing |-> {},
          processed |-> {1}, superseded |-> {2}, rejected |-> {}]
    ELSE [imported |-> {1}, quality_checked |-> {2}, processing |-> {3},
          processed |-> {4}, superseded |-> {5}, rejected |-> {2, 3, 4}]

\* No transition is lost and none is applied twice, however the handlers
\* interleave and whatever version the clients send: the version of a run
\* counts exactly the moves since it was stored, as "imported" by an import or
\* as "processed" by seed (conditional UPDATE of repository.Transition together
\* with the check of CanTransition on a row read in an earlier statement).
StageVersion ==
    \A id \in DOMAIN runs :
        runs[id].version \in StageVersions(runs[id].source)[runs[id].state]

\* A run with invalid navigation can only be rejected: no order of handlers
\* brings it to quality_checked or beyond (the check on the row read before
\* the update).
InvalidNavigationHeldBack ==
    \A id \in DOMAIN runs :
        runs[id].nav = "invalid" => runs[id].state \in {"imported", "rejected"}

\* All successful answers to imports of one source name the same run, and
\* that run holds the source, across retries, races and crashes (lookup by
\* checksum and unique index in Import).
ImportIdempotent ==
    /\ \A a, b \in acked : a[1] = b[1] => a[2] = b[2]
    /\ \A a \in acked : a[2] \in DOMAIN runs /\ Checksum(runs[a[2]]) = a[1]

\* The first version that a handler writes: seed audits nothing.
FirstWritten(run) == IF run.source = SeedSource THEN 2 ELSE 1

\* Every version of a run but the one that seed stored was written by one
\* handler: it has its audit event, or its handler is about to record it, or a
\* database error or a crash has cut the event off; never two of these.
Written == UNION {{<<id, v>> : v \in FirstWritten(runs[id])..runs[id].version} :
                     id \in DOMAIN runs}

Recorded == {<<event.id, event.wrote>> : event \in audits}

Pending == UNION {Unaudited(s) : s \in Slot}

AuditLedger ==
    /\ Written = Recorded \cup Pending \cup lost
    /\ Recorded \cap Pending = {}
    /\ Recorded \cap lost = {}
    /\ Pending \cap lost = {}
    /\ \A s, t \in Slot : s # t => Unaudited(s) \cap Unaudited(t) = {}
    /\ \A e, f \in audits : e.id = f.id /\ e.wrote = f.wrote => e = f

\* The writes and the audit events of the table behave as an audit trail:
\* what is recorded or cut off stays so.
Trail == INSTANCE AuditTrail WITH
    written <- Written, recorded <- Recorded, pending <- [s \in Slot |-> Unaudited(s)]

ImplementsAuditTrail == Trail!Spec

\* The "before" snapshot of an audit event is the row exactly as the audited
\* update found it, although it was read in an earlier statement and the
\* update compares it by state only; the "after" snapshot is never older than
\* the update.
AuditSnapshots ==
    \A event \in audits :
        /\ event.before.version = event.wrote - 1
        /\ event.after.version >= event.wrote
        /\ event.wrote > 1 =>
               \E to \in RunStates : /\ RunCanTransition(event.before.state, to)
                                     /\ event.wrote \in
                                            StageVersions(runs[event.id].source)[to]

\* Whoever gets VERSION_CONFLICT has to read the run again, and finds it past
\* the version that was sent: that version had been left behind, by updates
\* before the request or during it.  The exception is a version that the run
\* had not reached when the handler read it, which no client can have seen.
ConflictHonest ==
    \A s \in Slot :
        reply[s] = "VERSION_CONFLICT" =>
            \/ request[s].expected < runs[subject[s]].version
            \/ request[s].expected > before[s].version

\* The table behaves as the abstract register of versioned rows, keyed by
\* checksum, whatever the statements of the handlers interleave with.
AbstractRow(run) == [key |-> Checksum(run), body |-> <<run.code, run.nav>>,
                     state |-> run.state, version |-> run.version]

Lifecycle == INSTANCE VersionedLifecycle WITH
    rows <- [id \in DOMAIN runs |-> AbstractRow(runs[id])],
    Seeds <- {[id \in {first} |-> AbstractRow(SeedRun)] : first \in RunId},
    Id <- RunId, Key <- Plan \X Source, Body <- Code \X NavigationQualities,
    Start <- "imported", Edges <- runTransitions

ImplementsLifecycle == Lifecycle!Spec

-----------------------------------------------------------------------------
(* What the documents say and the code does not do *)

=============================================================================

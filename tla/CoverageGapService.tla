------------------------- MODULE CoverageGapService -------------------------
(***************************************************************************)
(* service.CoverageGapService over repository.CoverageGapRepository: the   *)
(* detection of coverage gaps and their review.  As in SonarRunService     *)
(* each request has a slot, each GORM call is one action, and no           *)
(* transaction spans a handler.  Areas and runs are written by other       *)
(* handlers at any moment between two calls.                               *)
(***************************************************************************)
EXTENDS WorkflowStates, Sequences, FiniteSets

CONSTANTS
    Slot,             \* handler goroutines
    GapId,            \* primary keys of table coverage_gaps
    Area,             \* primary keys of table survey_areas
    RunId,            \* primary keys of table sonar_runs
    RunArea,          \* run -> the area of its plan, which never changes
    Boundary, CRS,    \* area boundaries and projected coordinate systems
    Resolution,       \* grid sizes; 0 in a request asks for the area's own
    Algorithm,        \* algorithm versions
    Computable,       \* boundary, resolution: CalculateCoverage succeeds
    AreaInput,        \* area -> the rows that the area service or seed stores for it
    DetectInput,      \* the detection requests that clients send
    ReviewInput,      \* the transition requests that reviewers send
    BaseLength,       \* length of the explanation that Detect writes
    MaxExplanation,   \* width of column explanation where it is enforced
    NoArea, NoRequest, NoGap

\* The text that joins a review note to the explanation.
SeparatorLength == 6

AreaRow == [boundary : Boundary, crs : CRS, resolution : Resolution]

\* keyed: the Idempotency-Key has 8 to 120 characters; it is not stored.
DetectRequest == [area : Area, runs : SUBSET RunId \ {{}}, algorithm : Algorithm,
                  resolution : Resolution \cup {0}, keyed : BOOLEAN]

\* dto.GapTransitionRequest; note is the length of the review note.
ReviewRequest == [id : GapId, target : GapStates \ {"detected"},
                  expected : Nat \ {0}, note : 8..600]

ASSUME RowsAssumption == /\ RunArea \in [RunId -> Area]
                         /\ Resolution \subseteq Nat \ {0}
                         /\ Computable \subseteq Boundary \X Resolution
                         /\ BaseLength \in Nat
                         /\ MaxExplanation \in Nat

ASSUME InputsAssumption == /\ AreaInput \in [Area -> SUBSET AreaRow]
                           /\ DetectInput \subseteq DetectRequest
                           /\ ReviewInput \subseteq ReviewRequest

ASSUME NoneAssumption == NoArea \notin AreaRow /\ NoGap \notin GapId

VARIABLES
    areas,     \* table survey_areas: area -> its row or NoArea
    runState,  \* table sonar_runs: run -> its state, "absent" before import
    gaps,      \* table coverage_gaps: a function on the ids in use
    audits,    \* table audit_events, the events of gaps
    pc,        \* slot -> the database call it makes next
    request,   \* slot -> the bound request
    seen,      \* slot -> the area row that Detect has read
    subject,   \* slot -> the id of the gap it works on
    before,    \* slot -> the gap read first
    after,     \* slot -> the gap it will put in the audit event
    reply,     \* slot -> the code of the HTTP response
    acked,     \* history: the inputs and the gap of every successful detection
    lost       \* history: writes (id, version) whose audit event is cut off

tables == <<areas, runState, gaps, audits>>
registers == <<request, seen, subject, before, after>>
slots == <<pc, reply, registers>>
history == <<acked, lost>>
vars == <<tables, slots, history>>

-----------------------------------------------------------------------------
(* Data *)

\* What StableInputHash hashes: a run stands for its checksum, and the
\* boundary of the area is not part of it.
Hash == [area : Area, crs : CRS, algorithm : Algorithm,
         runs : SUBSET RunId, resolution : Resolution]

\* The review notes in the order they were appended to the explanation.
Gap == [hash : Hash, boundary : Boundary,
        state : GapStates, version : Nat, notes : Seq(8..600)]

Snapshot == [state : GapStates \cup {"none"}, version : Nat, notes : Seq(8..600)]

NoSnapshot == [state |-> "none", version |-> 0, notes |-> <<>>]

SnapshotOf(gap) ==
    [state |-> gap.state, version |-> gap.version, notes |-> gap.notes]

\* wrote is no column: it is the version that the audited statement produced.
AuditEvent == [id : GapId, wrote : Nat, note : 0..600,
               before : Snapshot, after : Snapshot]

DetectCalls == {"detect.get_area", "detect.runs_by_ids", "detect.by_input_hash",
                "detect.create", "detect.audit"}

TransitionCalls == {"transition.get", "transition.update",
                    "transition.get_updated", "transition.audit"}

UnauditedCalls == {"detect.audit", "transition.get_updated", "transition.audit"}

Replies == {"none", "OK", "CREATED", "IDEMPOTENT", "NOT_FOUND",
            "IDEMPOTENCY_KEY_REQUIRED", "RUN_SET_INCOMPLETE", "RUN_AREA_MISMATCH",
            "RUN_NOT_PROCESSED", "COVERAGE_CALCULATION_INVALID", "DUPLICATE_RESOURCE",
            "GAP_TRANSITION_INVALID", "VERSION_CONFLICT", "VALUE_TOO_LONG", "INTERNAL"}

WroteVersion(s) ==
    IF pc[s] = "detect.audit" THEN 1 ELSE request[s].expected + 1

\* The length of column explanation with these notes in it.
ExplanationLength(notes) ==
    LET Length[n \in 0..Len(notes)] ==
            IF n = 0 THEN BaseLength ELSE Length[n - 1] + SeparatorLength + notes[n]
    IN  Length[Len(notes)]

-----------------------------------------------------------------------------
(* The client's side of a slot *)

\* The area and the processed run that seed stores need no initial state of
\* their own: AreaStep and RunStep lead there from the empty tables, and seed
\* stores no gap.
Init ==
    /\ areas = [a \in Area |-> NoArea]
    /\ runState = [r \in RunId |-> "absent"]
    /\ gaps = [id \in {} |-> NoGap]
    /\ audits = {}
    /\ pc = [s \in Slot |-> "idle"]
    /\ request = [s \in Slot |-> NoRequest]
    /\ seen = [s \in Slot |-> NoArea]
    /\ subject = [s \in Slot |-> NoGap]
    /\ before = [s \in Slot |-> NoSnapshot]
    /\ after = [s \in Slot |-> NoSnapshot]
    /\ reply = [s \in Slot |-> "none"]
    /\ acked = {}
    /\ lost = {}

SubmitDetect(s, detect) ==
    /\ pc[s] = "idle"
    /\ pc' = [pc EXCEPT ![s] = "detect.get_area"]
    /\ request' = [request EXCEPT ![s] = detect]
    /\ UNCHANGED <<tables, reply, seen, subject, before, after, history>>

SubmitTransition(s, review) ==
    /\ pc[s] = "idle"
    /\ pc' = [pc EXCEPT ![s] = "transition.get"]
    /\ request' = [request EXCEPT ![s] = review]
    /\ subject' = [subject EXCEPT ![s] = review.id]
    /\ UNCHANGED <<tables, reply, seen, before, after, history>>

Answer(s, code) ==
    /\ pc' = [pc EXCEPT ![s] = "replied"]
    /\ reply' = [reply EXCEPT ![s] = code]

Proceed(s, call) ==
    /\ pc' = [pc EXCEPT ![s] = call]
    /\ UNCHANGED reply

Collect(s) ==
    /\ pc[s] = "replied"
    /\ pc' = [pc EXCEPT ![s] = "idle"]
    /\ request' = [request EXCEPT ![s] = NoRequest]
    /\ seen' = [seen EXCEPT ![s] = NoArea]
    /\ subject' = [subject EXCEPT ![s] = NoGap]
    /\ before' = [before EXCEPT ![s] = NoSnapshot]
    /\ after' = [after EXCEPT ![s] = NoSnapshot]
    /\ reply' = [reply EXCEPT ![s] = "none"]
    /\ UNCHANGED <<tables, history>>

-----------------------------------------------------------------------------
(* CoverageGapService.Detect *)

\* The key is checked before the first call.  Stored coordinate systems are
\* valid, since Create and Update of the area service validate them.
DetectGetArea(s) ==
    /\ pc[s] = "detect.get_area"
    /\ \/ /\ ~request[s].keyed
          /\ Answer(s, "IDEMPOTENCY_KEY_REQUIRED")
          /\ UNCHANGED seen
       \/ /\ request[s].keyed
          /\ areas[request[s].area] = NoArea
          /\ Answer(s, "NOT_FOUND")
          /\ UNCHANGED seen
       \/ /\ request[s].keyed
          /\ areas[request[s].area] # NoArea
          /\ seen' = [seen EXCEPT ![s] = areas[request[s].area]]
          /\ Proceed(s, "detect.runs_by_ids")
    /\ UNCHANGED <<tables, request, subject, before, after, history>>

\* Mutant: runs of any state may be used.
RunErrorAnyState(r, area) == IF RunArea[r] # area THEN "RUN_AREA_MISMATCH" ELSE "none"

\* The checks on one run, in source order.
RunError(r, area) ==
    CASE RunArea[r] # area         -> "RUN_AREA_MISMATCH"
      [] runState[r] # "processed" -> "RUN_NOT_PROCESSED"
      [] OTHER                     -> "none"

\* The database returns the rows in any order, and the first run that fails
\* its checks decides the answer.
DetectRunsByIDs(s) ==
    /\ pc[s] = "detect.runs_by_ids"
    /\ \/ /\ \E r \in request[s].runs : runState[r] = "absent"
          /\ Answer(s, "RUN_SET_INCOMPLETE")
       \/ /\ \A r \in request[s].runs : runState[r] # "absent"
          /\ \E r \in request[s].runs :
                 /\ RunError(r, request[s].area) # "none"
                 /\ Answer(s, RunError(r, request[s].area))
       \/ /\ \A r \in request[s].runs :
                 /\ runState[r] # "absent"
                 /\ RunError(r, request[s].area) = "none"
          /\ Proceed(s, "detect.by_input_hash")
    /\ UNCHANGED <<tables, registers, history>>

EffectiveResolution(s) ==
    IF request[s].resolution = 0 THEN seen[s].resolution ELSE request[s].resolution

\* Mutant: the resolution that the client sent is hashed, not the one in use.
InputHashOfRequest(s) ==
    [area |-> request[s].area, crs |-> seen[s].crs,
     algorithm |-> request[s].algorithm, runs |-> request[s].runs,
     resolution |-> request[s].resolution]

\* geometry.StableInputHash on the inputs that slot s has read.
InputHash(s) ==
    [area |-> request[s].area, crs |-> seen[s].crs,
     algorithm |-> request[s].algorithm, runs |-> request[s].runs,
     resolution |-> EffectiveResolution(s)]

SameHash(hash) == {id \in DOMAIN gaps : gaps[id].hash = hash}

\* What a successful answer is about: the inputs in use and the gap.
Acknowledgement(s, id) ==
    [id |-> id, area |-> request[s].area, crs |-> seen[s].crs,
     algorithm |-> request[s].algorithm, runs |-> request[s].runs,
     resolution |-> EffectiveResolution(s)]

DetectByInputHash(s) ==
    /\ pc[s] = "detect.by_input_hash"
    /\ \/ \E id \in SameHash(InputHash(s)) :
              /\ Answer(s, "IDEMPOTENT")
              /\ subject' = [subject EXCEPT ![s] = id]
              /\ acked' = acked \cup {Acknowledgement(s, id)}
       \/ /\ SameHash(InputHash(s)) = {}
          /\ IF <<seen[s].boundary, EffectiveResolution(s)>> \in Computable
             THEN Proceed(s, "detect.create")
             ELSE Answer(s, "COVERAGE_CALCULATION_INVALID")
          /\ UNCHANGED <<subject, acked>>
    /\ UNCHANGED <<tables, request, seen, before, after, lost>>

\* Mutant: input_hash has a plain index.
ViolatesNothing(s) == FALSE

\* The unique index idx_gap_idempotency on input_hash.
ViolatesUniqueIndex(s) == SameHash(InputHash(s)) # {}

\* Mutant: the state of a new row is left to the column's default.
NewGapWithoutState(s) ==
    [hash |-> InputHash(s), boundary |-> seen[s].boundary,
     state |-> "none", version |-> 1, notes |-> <<>>]

\* The frozen snapshot: the result is computed from the boundary read first.
NewGap(s) ==
    [hash |-> InputHash(s), boundary |-> seen[s].boundary,
     state |-> "detected", version |-> 1, notes |-> <<>>]

InsertGap(s, id) ==
    /\ ~ViolatesUniqueIndex(s)
    /\ id \notin DOMAIN gaps
    /\ gaps' = [i \in DOMAIN gaps \cup {id} |-> IF i = id THEN NewGap(s) ELSE gaps[i]]
    /\ subject' = [subject EXCEPT ![s] = id]

DetectCreate(s) ==
    /\ pc[s] = "detect.create"
    /\ \/ /\ ViolatesUniqueIndex(s)
          /\ Answer(s, "DUPLICATE_RESOURCE")
          /\ UNCHANGED <<gaps, subject, after>>
       \/ /\ \E id \in GapId : InsertGap(s, id)
          /\ after' = [after EXCEPT ![s] = SnapshotOf(NewGap(s))]
          /\ Proceed(s, "detect.audit")
    /\ UNCHANGED <<areas, runState, audits, request, seen, before, history>>

\* Mutant: the audit event is forgotten.
RecordNothing(s, note) == audits' = audits

\* AuditService.Record: the snapshots are those the handler holds.
RecordAudit(s, note) ==
    audits' = audits \cup
        {[id |-> subject[s], wrote |-> WroteVersion(s), note |-> note,
          before |-> before[s], after |-> after[s]]}

\* The answer is the row in memory: there is no second read.
DetectAudit(s) ==
    /\ pc[s] = "detect.audit"
    /\ RecordAudit(s, 0)
    /\ Answer(s, "CREATED")
    /\ acked' = acked \cup {Acknowledgement(s, subject[s])}
    /\ UNCHANGED <<areas, runState, gaps, registers, lost>>

-----------------------------------------------------------------------------
(* CoverageGapService.Transition *)

TransitionGet(s) ==
    /\ pc[s] = "transition.get"
    /\ \/ /\ subject[s] \notin DOMAIN gaps
          /\ Answer(s, "NOT_FOUND")
          /\ UNCHANGED before
       \/ /\ subject[s] \in DOMAIN gaps
          /\ before' = [before EXCEPT ![s] = SnapshotOf(gaps[subject[s]])]
          /\ IF GapCanTransition(gaps[subject[s]].state, request[s].target)
             THEN Proceed(s, "transition.update")
             ELSE Answer(s, "GAP_TRANSITION_INVALID")
    /\ UNCHANGED <<tables, request, seen, subject, after, history>>

\* The explanation is put together from the row read first.
NewNotes(s) == Append(before[s].notes, request[s].note)

TooLong(s) == ExplanationLength(NewNotes(s)) > MaxExplanation

\* Mutant: the WHERE clause without the state.
UpdateMatchesAnyState(s) == gaps[subject[s]].version = request[s].expected

\* Mutant: the WHERE clause without the version.
UpdateMatchesAnyVersion(s) == gaps[subject[s]].state = before[s].state

\* Mutant: the client's version compared with the one the update will store.
UpdateMatchesNextVersion(s) ==
    /\ gaps[subject[s]].version + 1 = request[s].expected
    /\ gaps[subject[s]].state = before[s].state

\* WHERE id = ? AND version = ? AND gap_state = ?
UpdateMatches(s) ==
    /\ gaps[subject[s]].version = request[s].expected
    /\ gaps[subject[s]].state = before[s].state

\* SET gap_state = to, explanation = explanation, version = version + 1
Moved(gap, to, notes) ==
    [hash |-> gap.hash, boundary |-> gap.boundary,
     state |-> to, version |-> gap.version + 1, notes |-> notes]

UpdateGap(s) ==
    /\ UpdateMatches(s)
    /\ ~TooLong(s)
    /\ gaps' = [gaps EXCEPT ![subject[s]] =
                    Moved(gaps[subject[s]], request[s].target, NewNotes(s))]

\* A text that is too long is an error of the statement, which the handler
\* answers with 500; whether the database evaluates it for no matching row
\* is left open.
TransitionUpdate(s) ==
    /\ pc[s] = "transition.update"
    /\ \/ /\ TooLong(s)
          /\ Answer(s, "VALUE_TOO_LONG")
          /\ UNCHANGED gaps
       \/ /\ ~UpdateMatches(s)
          /\ Answer(s, "VERSION_CONFLICT")
          /\ UNCHANGED gaps
       \/ /\ UpdateGap(s)
          /\ Proceed(s, "transition.get_updated")
    /\ UNCHANGED <<areas, runState, audits, registers, history>>

TransitionGetUpdated(s) ==
    /\ pc[s] = "transition.get_updated"
    /\ after' = [after EXCEPT ![s] = SnapshotOf(gaps[subject[s]])]
    /\ Proceed(s, "transition.audit")
    /\ UNCHANGED <<tables, request, seen, subject, before, history>>

TransitionAudit(s) ==
    /\ pc[s] = "transition.audit"
    /\ RecordAudit(s, request[s].note)
    /\ Answer(s, "OK")
    /\ UNCHANGED <<areas, runState, gaps, registers, history>>

-----------------------------------------------------------------------------
(* Database errors, crashes and the other services *)

Unaudited(s) == IF pc[s] \in UnauditedCalls
                THEN {<<subject[s], WroteVersion(s)>>} ELSE {}

\* A statement fails and has no effect: the handler answers with 500.
DatabaseError(s) ==
    /\ pc[s] \in DetectCalls \cup TransitionCalls
    /\ Answer(s, "INTERNAL")
    /\ lost' = lost \cup Unaudited(s)
    /\ UNCHANGED <<tables, registers, acked>>

\* A write commits and its acknowledgement is lost with the connection.
CreateUnacknowledged(s) ==
    /\ pc[s] = "detect.create"
    /\ \E id \in GapId :
           /\ InsertGap(s, id)
           /\ lost' = lost \cup {<<id, 1>>}
    /\ Answer(s, "INTERNAL")
    /\ UNCHANGED <<areas, runState, audits, request, seen, before, after, acked>>

UpdateUnacknowledged(s) ==
    /\ pc[s] = "transition.update"
    /\ UpdateGap(s)
    /\ lost' = lost \cup {<<subject[s], WroteVersion(s)>>}
    /\ Answer(s, "INTERNAL")
    /\ UNCHANGED <<areas, runState, audits, registers, acked>>

AuditUnacknowledged(s) ==
    /\ \/ pc[s] = "detect.audit" /\ RecordAudit(s, 0)
       \/ pc[s] = "transition.audit" /\ RecordAudit(s, request[s].note)
    /\ Answer(s, "INTERNAL")
    /\ UNCHANGED <<areas, runState, gaps, registers, history>>

\* The process dies or is shut down with handlers in flight; tables survive.
Crash ==
    /\ lost' = lost \cup UNION {Unaudited(s) : s \in Slot}
    /\ pc' = [s \in Slot |-> "idle"]
    /\ request' = [s \in Slot |-> NoRequest]
    /\ seen' = [s \in Slot |-> NoArea]
    /\ subject' = [s \in Slot |-> NoGap]
    /\ before' = [s \in Slot |-> NoSnapshot]
    /\ after' = [s \in Slot |-> NoSnapshot]
    /\ reply' = [s \in Slot |-> "none"]
    /\ UNCHANGED <<tables, acked>>

\* The area service creates an area or updates its row.
AreaStep(a) ==
    /\ \E row \in AreaInput[a] : areas' = [areas EXCEPT ![a] = row]
    /\ UNCHANGED <<runState, gaps, audits, slots, history>>

\* The run service imports a run or moves it along its lifecycle.
RunStep(r) ==
    /\ \E to \in RunStates :
           /\ IF runState[r] = "absent" THEN to = "imported"
                                        ELSE RunCanTransition(runState[r], to)
           /\ runState' = [runState EXCEPT ![r] = to]
    /\ UNCHANGED <<areas, gaps, audits, slots, history>>

-----------------------------------------------------------------------------
(* Specification *)

Submit(s) ==
    \/ \E detect \in DetectInput : SubmitDetect(s, detect)
    \/ \E review \in ReviewInput : SubmitTransition(s, review)

HandlerStep(s) ==
    \/ DetectGetArea(s)
    \/ DetectRunsByIDs(s)
    \/ DetectByInputHash(s)
    \/ DetectCreate(s)
    \/ DetectAudit(s)
    \/ TransitionGet(s)
    \/ TransitionUpdate(s)
    \/ TransitionGetUpdated(s)
    \/ TransitionAudit(s)

Fault(s) ==
    \/ DatabaseError(s)
    \/ CreateUnacknowledged(s)
    \/ UpdateUnacknowledged(s)
    \/ AuditUnacknowledged(s)

Next ==
    \/ \E s \in Slot : Submit(s) \/ Collect(s) \/ HandlerStep(s) \/ Fault(s)
    \/ \E a \in Area : AreaStep(a)
    \/ \E r \in RunId : RunStep(r)
    \/ Crash

Spec == Init /\ [][Next]_vars

-----------------------------------------------------------------------------
(* Properties *)

\* Every variable keeps its type.
TypeOK ==
    /\ areas \in [Area -> AreaRow \cup {NoArea}]
    /\ runState \in [RunId -> RunStates \cup {"absent"}]
    /\ DOMAIN gaps \subseteq GapId
    /\ \A id \in DOMAIN gaps : gaps[id] \in Gap
    /\ audits \subseteq AuditEvent
    /\ pc \in [Slot -> {"idle", "replied"} \cup DetectCalls \cup TransitionCalls]
    /\ request \in [Slot -> DetectRequest \cup ReviewRequest \cup {NoRequest}]
    /\ seen \in [Slot -> AreaRow \cup {NoArea}]
    /\ subject \in [Slot -> GapId \cup {NoGap}]
    /\ before \in [Slot -> Snapshot]
    /\ after \in [Slot -> Snapshot]
    /\ reply \in [Slot -> Replies]
    /\ acked \subseteq [id : GapId, area : Area, crs : CRS, algorithm : Algorithm,
                        runs : SUBSET RunId, resolution : Resolution]
    /\ lost \subseteq GapId \X Nat

\* Every successful detection of the same inputs, retried or racing, names the
\* same gap, and that gap was made from exactly these inputs (lookup by hash
\* and unique index in Detect).
DetectIdempotent ==
    /\ \A a, b \in acked : (\A f \in DOMAIN a \ {"id"} : a[f] = b[f]) => a.id = b.id
    /\ \A a \in acked :
           /\ a.id \in DOMAIN gaps
           /\ \A f \in DOMAIN gaps[a.id].hash : gaps[a.id].hash[f] = a[f]

\* The runs behind a gap have finished processing and can never be rejected
\* afterwards, although Detect looked at them in an earlier statement (run
\* checks in Detect, and the run lifecycle).
SourcesStayProcessed ==
    \A id \in DOMAIN gaps : \A r \in gaps[id].hash.runs :
        /\ RunArea[r] = gaps[id].hash.area
        /\ runState[r] \in {"processed", "superseded"}

\* Every version of a gap was written by one handler: it has its audit event,
\* or its handler is about to record it, or an error or a crash has cut the
\* event off; never two of these.
Written == UNION {{<<id, v>> : v \in 1..gaps[id].version} : id \in DOMAIN gaps}

Recorded == {<<event.id, event.wrote>> : event \in audits}

Pending == UNION {Unaudited(s) : s \in Slot}

AuditLedger ==
    /\ Written = Recorded \cup Pending \cup lost
    /\ Recorded \cap Pending = {}
    /\ Recorded \cap lost = {}
    /\ Pending \cap lost = {}
    /\ \A s, t \in Slot : s # t => Unaudited(s) \cap Unaudited(t) = {}
    /\ \A e, f \in audits : e.id = f.id /\ e.wrote = f.wrote => e = f

\* The writes and the audit events of the table behave as an audit trail:
\* what is recorded or cut off stays so.
Trail == INSTANCE AuditTrail WITH
    written <- Written, recorded <- Recorded, pending <- [s \in Slot |-> Unaudited(s)]

ImplementsAuditTrail == Trail!Spec

\* No review overwrites the note of another: Transition rebuilds the whole
\* explanation from a row it read in an earlier statement, and still every
\* move leaves one note, in its place, and every audited note is there.
NotesKept ==
    /\ \A id \in DOMAIN gaps : Len(gaps[id].notes) = gaps[id].version - 1
    /\ \A event \in audits :
           event.wrote > 1 => gaps[event.id].notes[event.wrote - 1] = event.note

\* The "before" snapshot of an audit event is the row as the audited update
\* found it, and the "after" snapshot holds the audited note.
AuditSnapshots ==
    \A event \in audits :
        /\ event.before.version = event.wrote - 1
        /\ event.wrote > 1 =>
               /\ Len(event.after.notes) >= Len(event.before.notes) + 1
               /\ SubSeq(event.after.notes, 1, event.wrote - 1)
                      = Append(event.before.notes, event.note)

\* The table behaves as the abstract register of versioned rows, keyed by the
\* input hash: the result of a detection is frozen while its review moves on.
Lifecycle == INSTANCE VersionedLifecycle WITH
    rows <- [id \in DOMAIN gaps |->
                [key |-> gaps[id].hash, body |-> gaps[id].boundary,
                 state |-> gaps[id].state, version |-> gaps[id].version]],
    Id <- GapId, Key <- Hash, Body <- Boundary,
    Start <- "detected", Edges <- gapTransitions, Seeds <- {}

ImplementsLifecycle == Lifecycle!Spec

-----------------------------------------------------------------------------
(* What the documents say and the code does not do *)

\* gb-532.md:28 has a gap produced by the frozen snapshot of area and runs:
\* an idempotent answer is a result for the area as this request found it.
IdempotentAnswerFits ==
    \A s \in Slot :
        reply[s] = "IDEMPOTENT" => gaps[subject[s]].boundary = seen[s].boundary

\* dto.GapTransitionRequest accepts notes of up to 600 characters: no legal
\* note makes the update fail.
LegalNoteAccepted == \A s \in Slot : reply[s] # "VALUE_TOO_LONG"
=============================================================================

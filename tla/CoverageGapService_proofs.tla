---------------------- MODULE CoverageGapService_proofs ----------------------
(* Theorems about CoverageGapService, for every value of its constants. *)
EXTENDS CoverageGapService, SequenceTheorems, TLAPS

-----------------------------------------------------------------------------
(* Types *)

\* The request of a busy slot is of the kind that its handler serves.
RequestKinds ==
    \A s \in Slot :
        /\ pc[s] \in DetectCalls => request[s] \in DetectRequest
        /\ pc[s] \in TransitionCalls => /\ request[s] \in ReviewRequest
                                        /\ subject[s] = request[s].id

\* A detection past its first read holds a row of the area.
AreaSeen ==
    \A s \in Slot : pc[s] \in DetectCalls \ {"detect.get_area"} => seen[s] \in AreaRow

\* A slot past its read or its insert works on a row of the table.
SubjectExists ==
    \A s \in Slot :
        pc[s] \in {"detect.audit", "transition.update",
                   "transition.get_updated", "transition.audit"}
            => subject[s] \in DOMAIN gaps

Typed == TypeOK /\ RequestKinds /\ AreaSeen /\ SubjectExists

Note == 8..600

LEMMA InitTyped == Init => Typed
  <1>1. <<>> \in Seq(Note)
    OBVIOUS
  <1> QED
    BY <1>1 DEF Init, Typed, TypeOK, RequestKinds, AreaSeen, SubjectExists, DetectCalls,
       TransitionCalls, Snapshot, NoSnapshot, Replies, Note

LEMMA NoSnapshotType == NoSnapshot \in Snapshot
  <1>1. <<>> \in Seq(Note)
    OBVIOUS
  <1> QED
    BY <1>1 DEF Snapshot, NoSnapshot, Note

LEMMA SnapshotType == ASSUME NEW gap \in Gap PROVE SnapshotOf(gap) \in Snapshot
  BY DEF SnapshotOf, Snapshot, Gap

\* A detection past its first read hashes stored inputs.
LEMMA InputHashType ==
    ASSUME Typed, NEW s \in Slot, pc[s] \in DetectCalls \ {"detect.get_area"}
    PROVE  /\ request[s] \in DetectRequest
           /\ seen[s] \in AreaRow
           /\ EffectiveResolution(s) \in Resolution
           /\ InputHash(s) \in Hash
  <1>1. request[s] \in DetectRequest /\ seen[s] \in AreaRow
    BY DEF Typed, RequestKinds, AreaSeen
  <1>2. EffectiveResolution(s) \in Resolution
    BY <1>1 DEF EffectiveResolution, DetectRequest, AreaRow
  <1> QED
    BY <1>1, <1>2 DEF InputHash, Hash, DetectRequest, AreaRow

Acknowledgements ==
    [id : GapId, area : Area, crs : CRS, algorithm : Algorithm,
     runs : SUBSET RunId, resolution : Resolution]

LEMMA AcknowledgementType ==
    ASSUME Typed, NEW s \in Slot, pc[s] \in DetectCalls \ {"detect.get_area"}, NEW id \in GapId
    PROVE  Acknowledgement(s, id) \in Acknowledgements
  BY InputHashType DEF Acknowledgement, Acknowledgements, DetectRequest, AreaRow

\* What the audit event of a slot past its write is made of.
LEMMA AuditEventType ==
    ASSUME Typed, NEW s \in Slot, NEW note \in 0..600,
           pc[s] \in {"detect.audit", "transition.audit"}, RecordAudit(s, note)
    PROVE  audits' \subseteq AuditEvent
  <1>1. subject[s] \in GapId
    BY DEF Typed, TypeOK, SubjectExists
  <1>2. WroteVersion(s) \in Nat
    BY DEF Typed, RequestKinds, TransitionCalls, ReviewRequest, WroteVersion
  <1>3. before[s] \in Snapshot /\ after[s] \in Snapshot
    BY DEF Typed, TypeOK
  <1>4. [id |-> subject[s], wrote |-> WroteVersion(s), note |-> note,
         before |-> before[s], after |-> after[s]] \in AuditEvent
    BY <1>1, <1>2, <1>3 DEF AuditEvent
  <1> QED
    BY <1>4 DEF RecordAudit, Typed, TypeOK

\* A successful UPDATE gives one row its new state, version and notes and
\* leaves the other rows alone.
LEMMA UpdateEffect ==
    ASSUME Typed, NEW s \in Slot, pc[s] = "transition.update", UpdateGap(s)
    PROVE  /\ subject[s] \in DOMAIN gaps
           /\ DOMAIN gaps' = DOMAIN gaps
           /\ \A id \in DOMAIN gaps : id # subject[s] => gaps'[id] = gaps[id]
           /\ gaps'[subject[s]] = Moved(gaps[subject[s]], request[s].target, NewNotes(s))
           /\ gaps'[subject[s]] \in Gap
  <1>1. /\ subject[s] \in DOMAIN gaps /\ request[s].target \in GapStates
        /\ request[s].note \in Note
    BY DEF Typed, RequestKinds, SubjectExists, TransitionCalls, ReviewRequest, Note
  <1>2. gaps[subject[s]] \in Gap /\ before[s].notes \in Seq(Note)
    BY <1>1 DEF Typed, TypeOK, Snapshot, Note
  <1>3. gaps'[subject[s]] = Moved(gaps[subject[s]], request[s].target, NewNotes(s))
    BY <1>1 DEF UpdateGap
  <1>4. NewNotes(s) \in Seq(Note)
    BY <1>1, <1>2, AppendProperties DEF NewNotes
  <1>5. gaps'[subject[s]] \in Gap
    BY <1>1, <1>2, <1>3, <1>4 DEF Gap, Moved, Note
  <1> QED
    BY <1>1, <1>3, <1>5 DEF UpdateGap

LEMMA NewGapType ==
    ASSUME Typed, NEW s \in Slot, pc[s] = "detect.create"
    PROVE  NewGap(s) \in Gap
  <1>1. <<>> \in Seq(Note)
    OBVIOUS
  <1>2. InputHash(s) \in Hash /\ seen[s].boundary \in Boundary
    BY InputHashType DEF DetectCalls, AreaRow
  <1> QED
    BY <1>1, <1>2 DEF NewGap, Gap, GapStates, Note

\* A successful INSERT adds one row and leaves the others alone.
LEMMA InsertEffect ==
    ASSUME Typed, NEW s \in Slot, pc[s] = "detect.create", NEW id \in GapId, InsertGap(s, id)
    PROVE  /\ id \notin DOMAIN gaps
           /\ DOMAIN gaps' = DOMAIN gaps \cup {id}
           /\ \A i \in DOMAIN gaps : gaps'[i] = gaps[i]
           /\ gaps'[id] = NewGap(s)
           /\ DOMAIN gaps' \subseteq GapId
           /\ \A i \in DOMAIN gaps' : gaps'[i] \in Gap
           /\ subject'[s] = id
           /\ \A t \in Slot \ {s} : subject'[t] = subject[t]
           /\ subject' \in [Slot -> GapId \cup {NoGap}]
  BY NewGapType DEF InsertGap, Typed, TypeOK

-----------------------------------------------------------------------------
(* Every action keeps the types. *)

LEMMA SubmitTyped ==
    ASSUME Typed, NEW s \in Slot, Submit(s)
    PROVE  Typed'
  <1> USE InputsAssumption DEF Typed, TypeOK, RequestKinds, AreaSeen, SubjectExists,
          DetectCalls, TransitionCalls, Replies, tables, history
  <1>1. ASSUME NEW detect \in DetectInput, SubmitDetect(s, detect)
        PROVE  Typed'
    BY <1>1 DEF SubmitDetect
  <1>2. ASSUME NEW review \in ReviewInput, SubmitTransition(s, review)
        PROVE  Typed'
    BY <1>2 DEF SubmitTransition, ReviewRequest
  <1> QED
    BY <1>1, <1>2 DEF Submit

LEMMA CollectTyped ==
    ASSUME Typed, NEW s \in Slot, Collect(s)
    PROVE  Typed'
  BY NoSnapshotType DEF Collect, Typed, TypeOK, RequestKinds, AreaSeen, SubjectExists,
     DetectCalls, TransitionCalls, Replies, tables, history

LEMMA DetectGetAreaTyped ==
    ASSUME Typed, NEW s \in Slot, DetectGetArea(s)
    PROVE  Typed'
  BY DEF DetectGetArea, Answer, Proceed, Typed, TypeOK, RequestKinds, AreaSeen, SubjectExists,
     DetectCalls, TransitionCalls, Replies, DetectRequest, tables, history

LEMMA RunErrorType == \A r, area : RunError(r, area) \in Replies
  BY DEF RunError, Replies

LEMMA DetectRunsByIDsTyped ==
    ASSUME Typed, NEW s \in Slot, DetectRunsByIDs(s)
    PROVE  Typed'
  <1>1. pc'[s] \in {"replied", "detect.by_input_hash"} /\ reply' \in [Slot -> Replies]
    BY RunErrorType DEF DetectRunsByIDs, Answer, Proceed, Typed, TypeOK, Replies
  <1>2. pc[s] = "detect.runs_by_ids" /\ pc' = [pc EXCEPT ![s] = pc'[s]]
    BY DEF DetectRunsByIDs, Answer, Proceed, Typed, TypeOK
  <1> QED
    BY <1>1, <1>2 DEF DetectRunsByIDs, Typed, TypeOK, RequestKinds, AreaSeen, SubjectExists,
       DetectCalls, TransitionCalls, tables, registers, history

LEMMA DetectByInputHashTyped ==
    ASSUME Typed, NEW s \in Slot, DetectByInputHash(s)
    PROVE  Typed'
  <1> USE DEF Typed, TypeOK, RequestKinds, AreaSeen, SubjectExists, DetectCalls,
          TransitionCalls, Replies, tables
  <1>1. ASSUME NEW id \in SameHash(InputHash(s)), Answer(s, "IDEMPOTENT"),
               subject' = [subject EXCEPT ![s] = id],
               acked' = acked \cup {Acknowledgement(s, id)}
        PROVE  Typed'
    <2>1. id \in GapId
      BY DEF SameHash
    <2>2. acked' \subseteq Acknowledgements
      BY <1>1, <2>1, AcknowledgementType DEF DetectByInputHash, Acknowledgements
    <2> QED
      BY <1>1, <2>1, <2>2 DEF DetectByInputHash, Answer, Acknowledgements
  <1>2. CASE /\ Proceed(s, "detect.create") \/ Answer(s, "COVERAGE_CALCULATION_INVALID")
             /\ UNCHANGED <<subject, acked>>
    BY <1>2 DEF DetectByInputHash, Proceed, Answer
  <1> QED
    BY <1>1, <1>2 DEF DetectByInputHash

LEMMA DetectCreateTyped ==
    ASSUME Typed, NEW s \in Slot, DetectCreate(s)
    PROVE  Typed'
  <1>1. CASE Answer(s, "DUPLICATE_RESOURCE") /\ UNCHANGED <<gaps, subject, after>>
    BY <1>1 DEF DetectCreate, Answer, Typed, TypeOK, RequestKinds, AreaSeen, SubjectExists,
       DetectCalls, TransitionCalls, Replies, history
  <1>2. ASSUME NEW id \in GapId, InsertGap(s, id), Proceed(s, "detect.audit"),
               after' = [after EXCEPT ![s] = SnapshotOf(NewGap(s))]
        PROVE  Typed'
    <2>1. pc[s] = "detect.create" /\ SnapshotOf(NewGap(s)) \in Snapshot
      BY NewGapType, SnapshotType DEF DetectCreate
    <2>2. /\ pc' = [pc EXCEPT ![s] = "detect.audit"]
          /\ UNCHANGED <<areas, runState, audits, request, seen, before, reply, acked, lost>>
      BY <1>2 DEF DetectCreate, Proceed, history
    <2>3. TypeOK'
      BY <1>2, <2>1, <2>2, InsertEffect DEF Typed, TypeOK, DetectCalls
    <2>4. /\ DOMAIN gaps \subseteq DOMAIN gaps' /\ subject'[s] \in DOMAIN gaps'
          /\ \A t \in Slot \ {s} : pc'[t] = pc[t] /\ subject'[t] = subject[t]
          /\ pc'[s] = "detect.audit"
      BY <1>2, <2>1, <2>2, InsertEffect DEF Typed, TypeOK
    <2>5. RequestKinds' /\ AreaSeen'
      BY <2>1, <2>2, <2>4 DEF Typed, RequestKinds, AreaSeen, DetectCalls, TransitionCalls
    <2>6. SubjectExists'
      BY <2>4 DEF Typed, SubjectExists
    <2> QED
      BY <2>3, <2>5, <2>6 DEF Typed
  <1> QED
    BY <1>1, <1>2 DEF DetectCreate

LEMMA CreateUnacknowledgedTyped ==
    ASSUME Typed, NEW s \in Slot, CreateUnacknowledged(s)
    PROVE  Typed'
  <1>1. PICK id \in GapId : InsertGap(s, id) /\ lost' = lost \cup {<<id, 1>>}
    BY DEF CreateUnacknowledged
  <1>2. /\ pc[s] = "detect.create"
        /\ pc' = [pc EXCEPT ![s] = "replied"] /\ reply' = [reply EXCEPT ![s] = "INTERNAL"]
        /\ UNCHANGED <<areas, runState, audits, request, seen, before, after, acked>>
    BY DEF CreateUnacknowledged, Answer
  <1>3. TypeOK'
    <2>1. lost' \subseteq GapId \X Nat
      BY <1>1 DEF Typed, TypeOK
    <2>2. /\ pc' \in [Slot -> {"idle", "replied"} \cup DetectCalls \cup TransitionCalls]
          /\ reply' \in [Slot -> Replies]
      BY <1>2 DEF Typed, TypeOK, Replies
    <2> QED
      BY <1>1, <1>2, <2>1, <2>2, InsertEffect DEF Typed, TypeOK
  <1>4. /\ DOMAIN gaps \subseteq DOMAIN gaps'
        /\ \A t \in Slot \ {s} : pc'[t] = pc[t] /\ subject'[t] = subject[t]
        /\ pc'[s] = "replied"
    BY <1>1, <1>2, InsertEffect DEF Typed, TypeOK
  <1>5. RequestKinds' /\ AreaSeen'
    BY <1>2, <1>4 DEF Typed, RequestKinds, AreaSeen, DetectCalls, TransitionCalls
  <1>6. SubjectExists'
    BY <1>4 DEF Typed, SubjectExists
  <1> QED
    BY <1>3, <1>5, <1>6 DEF Typed

LEMMA TransitionGetTyped ==
    ASSUME Typed, NEW s \in Slot, TransitionGet(s)
    PROVE  Typed'
  <1>1. subject[s] \in DOMAIN gaps => SnapshotOf(gaps[subject[s]]) \in Snapshot
    BY SnapshotType DEF Typed, TypeOK
  <1> QED
    BY <1>1 DEF TransitionGet, Answer, Proceed, Typed, TypeOK, RequestKinds, AreaSeen,
       SubjectExists, DetectCalls, TransitionCalls, Replies, tables, history

LEMMA TransitionUpdateTyped ==
    ASSUME Typed, NEW s \in Slot, TransitionUpdate(s)
    PROVE  Typed'
  <1> USE DEF Typed, TypeOK, RequestKinds, AreaSeen, SubjectExists, DetectCalls,
          TransitionCalls, Replies, registers, history
  <1>1. CASE /\ Answer(s, "VALUE_TOO_LONG") \/ Answer(s, "VERSION_CONFLICT")
             /\ UNCHANGED gaps
    BY <1>1 DEF TransitionUpdate, Answer
  <1>2. CASE UpdateGap(s) /\ Proceed(s, "transition.get_updated")
    <2>1. DOMAIN gaps' = DOMAIN gaps /\ \A id \in DOMAIN gaps : gaps'[id] \in Gap
      BY <1>2, UpdateEffect DEF TransitionUpdate
    <2> QED
      BY <1>2, <2>1 DEF TransitionUpdate, Proceed
  <1> QED
    BY <1>1, <1>2 DEF TransitionUpdate

LEMMA UpdateUnacknowledgedTyped ==
    ASSUME Typed, NEW s \in Slot, UpdateUnacknowledged(s)
    PROVE  Typed'
  <1>1. DOMAIN gaps' = DOMAIN gaps /\ \A id \in DOMAIN gaps : gaps'[id] \in Gap
    BY UpdateEffect DEF UpdateUnacknowledged, Typed, TypeOK
  <1>2. <<subject[s], WroteVersion(s)>> \in GapId \X Nat
    BY DEF UpdateUnacknowledged, WroteVersion, ReviewRequest, Typed, TypeOK, RequestKinds,
       SubjectExists, TransitionCalls
  <1> QED
    BY <1>1, <1>2 DEF UpdateUnacknowledged, Answer, Typed, TypeOK, RequestKinds, AreaSeen,
       SubjectExists, DetectCalls, TransitionCalls, Replies, registers

LEMMA TransitionGetUpdatedTyped ==
    ASSUME Typed, NEW s \in Slot, TransitionGetUpdated(s)
    PROVE  Typed'
  <1>1. SnapshotOf(gaps[subject[s]]) \in Snapshot
    BY SnapshotType DEF TransitionGetUpdated, Typed, TypeOK, SubjectExists
  <1> QED
    BY <1>1 DEF TransitionGetUpdated, Proceed, Typed, TypeOK, RequestKinds, AreaSeen,
       SubjectExists, DetectCalls, TransitionCalls, tables, history

LEMMA DetectAuditTyped ==
    ASSUME Typed, NEW s \in Slot, DetectAudit(s)
    PROVE  Typed'
  <1>1. audits' \subseteq AuditEvent
    BY AuditEventType DEF DetectAudit
  <1>2. acked' \subseteq Acknowledgements
    BY AcknowledgementType DEF DetectAudit, Acknowledgements, Typed, TypeOK, SubjectExists,
       DetectCalls
  <1> QED
    BY <1>1, <1>2 DEF DetectAudit, Answer, Typed, TypeOK, RequestKinds, AreaSeen, SubjectExists,
       DetectCalls, TransitionCalls, Replies, registers, Acknowledgements

\* The note of a review fits an audit event.
LEMMA AuditNote ==
    ASSUME Typed, NEW s \in Slot, pc[s] = "transition.audit"
    PROVE  request[s].note \in 0..600
  BY DEF Typed, RequestKinds, TransitionCalls, ReviewRequest

LEMMA TransitionAuditTyped ==
    ASSUME Typed, NEW s \in Slot, TransitionAudit(s)
    PROVE  Typed'
  <1>1. audits' \subseteq AuditEvent
    BY AuditEventType, AuditNote DEF TransitionAudit
  <1> QED
    BY <1>1 DEF TransitionAudit, Answer, Typed, TypeOK, RequestKinds, AreaSeen, SubjectExists,
       DetectCalls, TransitionCalls, Replies, registers, history

LEMMA AuditUnacknowledgedTyped ==
    ASSUME Typed, NEW s \in Slot, AuditUnacknowledged(s)
    PROVE  Typed'
  <1>1. audits' \subseteq AuditEvent
    <2>1. CASE pc[s] = "detect.audit" /\ RecordAudit(s, 0)
      <3>1. 0 \in 0..600
        OBVIOUS
      <3> QED
        BY <2>1, <3>1, AuditEventType
    <2>2. CASE pc[s] = "transition.audit" /\ RecordAudit(s, request[s].note)
      BY <2>2, AuditEventType, AuditNote
    <2> QED
      BY <2>1, <2>2 DEF AuditUnacknowledged
  <1>2. pc' = [pc EXCEPT ![s] = "replied"] /\ reply' = [reply EXCEPT ![s] = "INTERNAL"]
    BY DEF AuditUnacknowledged, Answer
  <1>3. UNCHANGED <<areas, runState, gaps, request, seen, subject, before, after, acked, lost>>
    BY DEF AuditUnacknowledged, registers, history
  <1>4. TypeOK'
    BY <1>1, <1>2, <1>3 DEF Typed, TypeOK, Replies
  <1>5. /\ \A t \in Slot \ {s} : pc'[t] = pc[t]
        /\ pc'[s] = "replied"
    BY <1>2 DEF Typed, TypeOK
  <1>6. RequestKinds' /\ AreaSeen' /\ SubjectExists'
    BY <1>3, <1>5 DEF Typed, RequestKinds, AreaSeen, SubjectExists, DetectCalls,
       TransitionCalls
  <1> QED
    BY <1>4, <1>6 DEF Typed

LEMMA UnauditedType ==
    ASSUME Typed, NEW s \in Slot
    PROVE  Unaudited(s) \subseteq GapId \X Nat
  <1>1. CASE pc[s] \in UnauditedCalls
    <2>1. subject[s] \in GapId
      BY <1>1 DEF Typed, TypeOK, SubjectExists, UnauditedCalls
    <2>2. WroteVersion(s) \in Nat
      BY <1>1 DEF Typed, RequestKinds, TransitionCalls, ReviewRequest, WroteVersion,
                  UnauditedCalls
    <2> QED
      BY <1>1, <2>1, <2>2 DEF Unaudited
  <1>2. CASE pc[s] \notin UnauditedCalls
    BY <1>2 DEF Unaudited
  <1> QED
    BY <1>1, <1>2

LEMMA DatabaseErrorTyped ==
    ASSUME Typed, NEW s \in Slot, DatabaseError(s)
    PROVE  Typed'
  <1>1. lost' \subseteq GapId \X Nat
    BY UnauditedType DEF DatabaseError, Typed, TypeOK
  <1> QED
    BY <1>1 DEF DatabaseError, Answer, Typed, TypeOK, RequestKinds, AreaSeen, SubjectExists,
       DetectCalls, TransitionCalls, Replies, tables, registers

LEMMA CrashTyped ==
    ASSUME Typed, Crash
    PROVE  Typed'
  <1>1. lost' \subseteq GapId \X Nat
    BY UnauditedType DEF Crash, Typed, TypeOK
  <1> QED
    BY <1>1, NoSnapshotType DEF Crash, Typed, TypeOK, RequestKinds, AreaSeen, SubjectExists,
       DetectCalls, TransitionCalls, Replies, tables

LEMMA AreaStepTyped ==
    ASSUME Typed, NEW a \in Area, AreaStep(a)
    PROVE  Typed'
  BY InputsAssumption DEF AreaStep, Typed, TypeOK, RequestKinds, AreaSeen, SubjectExists,
     slots, registers, history

LEMMA RunStepTyped ==
    ASSUME Typed, NEW r \in RunId, RunStep(r)
    PROVE  Typed'
  BY DEF RunStep, Typed, TypeOK, RequestKinds, AreaSeen, SubjectExists, slots, registers,
     history

LEMMA StutterTyped ==
    ASSUME Typed, UNCHANGED vars
    PROVE  Typed'
  BY DEF Typed, TypeOK, RequestKinds, AreaSeen, SubjectExists, vars, tables, slots, registers,
     history

LEMMA NextTyped ==
    ASSUME Typed, [Next]_vars
    PROVE  Typed'
  <1>1. ASSUME NEW s \in Slot, HandlerStep(s)
        PROVE  Typed'
    BY <1>1, DetectGetAreaTyped, DetectRunsByIDsTyped, DetectByInputHashTyped,
       DetectCreateTyped, DetectAuditTyped, TransitionGetTyped, TransitionUpdateTyped,
       TransitionGetUpdatedTyped, TransitionAuditTyped DEF HandlerStep
  <1>2. ASSUME NEW s \in Slot, Fault(s)
        PROVE  Typed'
    BY <1>2, DatabaseErrorTyped, CreateUnacknowledgedTyped, UpdateUnacknowledgedTyped,
       AuditUnacknowledgedTyped DEF Fault
  <1> QED
    BY <1>1, <1>2, SubmitTyped, CollectTyped, CrashTyped, AreaStepTyped, RunStepTyped,
       StutterTyped DEF Next

\* The handlers never leave the types of their variables.
THEOREM TypeCorrect == Spec => []TypeOK
  <1>1. Typed => TypeOK
    BY DEF Typed
  <1> QED
    BY InitTyped, NextTyped, <1>1, PTL DEF Spec

-----------------------------------------------------------------------------
(* What a step does to a slot and to the tables *)

\* Between its own steps a slot keeps its place and its registers.
LEMMA SlotStep ==
    ASSUME Typed, [Next]_vars, NEW s \in Slot, pc'[s] \notin {"idle", "replied"}
    PROVE  \/ /\ pc'[s] = pc[s] /\ request'[s] = request[s] /\ seen'[s] = seen[s]
              /\ subject'[s] = subject[s] /\ before'[s] = before[s]
           \/ Submit(s)
           \/ HandlerStep(s)
  <1> DEFINE Kept == /\ pc'[s] = pc[s] /\ request'[s] = request[s] /\ seen'[s] = seen[s]
                     /\ subject'[s] = subject[s] /\ before'[s] = before[s]
  <1> USE DEF Typed, TypeOK
  <1>1. ASSUME NEW t \in Slot, t # s, Submit(t) \/ Collect(t)
        PROVE  Kept
    BY <1>1 DEF Submit, SubmitDetect, SubmitTransition, Collect
  <1>2. ASSUME NEW t \in Slot, t # s, HandlerStep(t)
        PROVE  Kept
    <2>1. CASE DetectGetArea(t) \/ DetectRunsByIDs(t) \/ DetectByInputHash(t)
      BY <1>2, <2>1 DEF DetectGetArea, DetectRunsByIDs, DetectByInputHash, Answer, Proceed,
         registers
    <2>2. CASE DetectCreate(t) \/ DetectAudit(t)
      BY <1>2, <2>2 DEF DetectCreate, InsertGap, DetectAudit, Answer, Proceed, registers
    <2>3. CASE TransitionGet(t) \/ TransitionUpdate(t)
      BY <1>2, <2>3 DEF TransitionGet, TransitionUpdate, Answer, Proceed, registers
    <2>4. CASE TransitionGetUpdated(t) \/ TransitionAudit(t)
      BY <1>2, <2>4 DEF TransitionGetUpdated, TransitionAudit, Answer, Proceed, registers
    <2> QED
      BY <1>2, <2>1, <2>2, <2>3, <2>4 DEF HandlerStep
  <1>3. ASSUME NEW t \in Slot, Fault(t)
        PROVE  Kept
    BY <1>3 DEF Fault, DatabaseError, CreateUnacknowledged, InsertGap, UpdateUnacknowledged,
       AuditUnacknowledged, Answer, registers
  <1>4. ~Collect(s) /\ ~Crash
    BY DEF Collect, Crash
  <1>5. ASSUME (\E a \in Area : AreaStep(a)) \/ (\E r \in RunId : RunStep(r)) \/ UNCHANGED vars
        PROVE  Kept
    BY <1>5 DEF AreaStep, RunStep, slots, registers, vars
  <1> HIDE DEF Kept, Typed, TypeOK
  <1>6. CASE Next
    BY <1>1, <1>2, <1>3, <1>4, <1>5, <1>6 DEF Next, Kept
  <1> QED
    BY <1>5, <1>6 DEF Kept

Done == {"processed", "superseded"}

\* A run that has been processed stays so, or is superseded.
LEMMA RunsStayDone ==
    ASSUME Typed, [Next]_vars, NEW r \in RunId, runState[r] \in Done
    PROVE  runState'[r] \in Done
  <1>1. ASSUME NEW run \in RunId, RunStep(run)
        PROVE  runState'[r] \in Done
    BY <1>1 DEF RunStep, RunCanTransition, runTransitions, RunStates, Done, Typed, TypeOK
  <1>2. ASSUME NEW s \in Slot, Submit(s) \/ Collect(s) \/ HandlerStep(s)
        PROVE  runState' = runState
    BY <1>2 DEF Submit, SubmitDetect, SubmitTransition, Collect, HandlerStep, DetectGetArea,
       DetectRunsByIDs, DetectByInputHash, DetectCreate, DetectAudit, TransitionGet,
       TransitionUpdate, TransitionGetUpdated, TransitionAudit, tables
  <1>3. ASSUME NEW s \in Slot, Fault(s)
        PROVE  runState' = runState
    BY <1>3 DEF Fault, DatabaseError, CreateUnacknowledged, UpdateUnacknowledged,
       AuditUnacknowledged, tables
  <1>4. CASE (\E a \in Area : AreaStep(a)) \/ Crash \/ UNCHANGED vars
    BY <1>4 DEF AreaStep, Crash, tables, vars
  <1> QED
    BY <1>1, <1>2, <1>3, <1>4 DEF Next

-----------------------------------------------------------------------------
(* The checks that a handler has made still stand when it gets to its write. *)

\* Every state but "closed" is reached after one number of moves.
StateVersion == [detected |-> 1, reviewed |-> 2, accepted |-> 3, false_positive |-> 3,
                 resurveyed |-> 4]

Extends(long, short) ==
    /\ Len(short) <= Len(long)
    /\ \A i \in 1..Len(short) : long[i] = short[i]

\* Each move of a row leaves one note, and the state tells their number.
Staged(gap) ==
    /\ Len(gap.notes) = gap.version - 1
    /\ gap.state # "closed" => gap.version = StateVersion[gap.state]

GapsStaged == \A id \in DOMAIN gaps : Staged(gaps[id])

\* The runs of a detection past its check of the runs are processed.
SourcesChecked ==
    \A s \in Slot : pc[s] \in {"detect.by_input_hash", "detect.create", "detect.audit"} =>
        \A r \in request[s].runs : RunArea[r] = request[s].area /\ runState[r] \in Done

\* What a transition has read is an earlier form of its row.
MovesChecked ==
    \A s \in Slot : pc[s] = "transition.update" =>
        /\ before[s].state \in GapStates \ {"closed"}
        /\ GapCanTransition(before[s].state, request[s].target)
        /\ Len(before[s].notes) = StateVersion[before[s].state] - 1
        /\ Extends(gaps[subject[s]].notes, before[s].notes)

Checked == Typed /\ GapsStaged /\ SourcesChecked /\ MovesChecked

NewRow ==
    \E id \in GapId, hash \in Hash, boundary \in Boundary :
        /\ id \notin DOMAIN gaps
        /\ SameHash(hash) = {}
        /\ \A r \in hash.runs : RunArea[r] = hash.area /\ runState[r] \in Done
        /\ gaps' = [i \in DOMAIN gaps \cup {id} |->
                        IF i = id THEN [hash |-> hash, boundary |-> boundary, state |-> "detected",
                                        version |-> 1, notes |-> <<>>]
                        ELSE gaps[i]]

MoveRow ==
    \E id \in DOMAIN gaps, to \in GapStates, notes \in Seq(Note) :
        /\ GapCanTransition(gaps[id].state, to)
        /\ Len(notes) = Len(gaps[id].notes) + 1
        /\ Extends(notes, gaps[id].notes)
        /\ gaps' = [gaps EXCEPT ![id] = Moved(gaps[id], to, notes)]

LEMMA InsertMakesRow ==
    ASSUME Checked, NEW s \in Slot, pc[s] = "detect.create", NEW id \in GapId, InsertGap(s, id)
    PROVE  NewRow
  <1>1. InputHash(s) \in Hash /\ seen[s].boundary \in Boundary
    BY InputHashType DEF Checked, DetectCalls, AreaRow
  <1>2. SameHash(InputHash(s)) = {} /\ id \notin DOMAIN gaps
    BY DEF InsertGap, ViolatesUniqueIndex
  <1>3. \A r \in InputHash(s).runs :
            RunArea[r] = InputHash(s).area /\ runState[r] \in Done
    BY DEF Checked, SourcesChecked, InputHash
  <1> QED
    BY <1>1, <1>2, <1>3 DEF NewRow, InsertGap, NewGap

\* The notes that an update writes are those of the row and one more: the row
\* is in the state that was read, so that it has had no other move since.
LEMMA UpdateAppends ==
    ASSUME Checked, NEW s \in Slot, pc[s] = "transition.update", UpdateGap(s)
    PROVE  /\ NewNotes(s) \in Seq(Note)
           /\ Len(NewNotes(s)) = Len(gaps[subject[s]].notes) + 1
           /\ Len(NewNotes(s)) = request[s].expected
           /\ Extends(NewNotes(s), gaps[subject[s]].notes)
           /\ NewNotes(s)[request[s].expected] = request[s].note
  <1> DEFINE gap == gaps[subject[s]]
             old == before[s].notes
  <1>1. /\ subject[s] \in DOMAIN gaps /\ gap \in Gap /\ old \in Seq(Note)
        /\ request[s].note \in Note
    <2>1. subject[s] \in DOMAIN gaps /\ request[s] \in ReviewRequest
      BY DEF Checked, Typed, RequestKinds, SubjectExists, TransitionCalls
    <2>2. gap \in Gap /\ before[s] \in Snapshot
      BY <2>1 DEF Checked, Typed, TypeOK
    <2> QED
      BY <2>1, <2>2 DEF ReviewRequest, Snapshot, Note
  <1>2. gap.state = before[s].state /\ gap.version = request[s].expected
    BY DEF UpdateGap, UpdateMatches
  <1>3. /\ gap.state # "closed" /\ Len(old) = StateVersion[gap.state] - 1
        /\ Extends(gap.notes, old)
    BY <1>2 DEF Checked, MovesChecked
  <1>4. gap.version = StateVersion[gap.state] /\ Len(gap.notes) = gap.version - 1
    BY <1>1, <1>3 DEF Checked, GapsStaged, Staged
  <1>5. gap.version \in Nat /\ gap.notes \in Seq(Note)
    BY <1>1 DEF Gap, Note
  <1>6. Len(old) = Len(gap.notes) /\ Len(old) \in Nat
    BY <1>1, <1>3, <1>4, <1>5
  <1>7. /\ NewNotes(s) \in Seq(Note) /\ Len(NewNotes(s)) = Len(old) + 1
        /\ \A i \in 1..Len(old) : NewNotes(s)[i] = old[i]
        /\ NewNotes(s)[Len(old) + 1] = request[s].note
    BY <1>1, AppendProperties DEF NewNotes
  <1>8. \A i \in 1..Len(gap.notes) : NewNotes(s)[i] = gap.notes[i]
    BY <1>3, <1>6, <1>7 DEF Extends
  <1>9. Len(old) + 1 = request[s].expected
    BY <1>2, <1>4, <1>5, <1>6
  <1> QED
    BY <1>6, <1>7, <1>8, <1>9 DEF Extends

LEMMA UpdateMovesRow ==
    ASSUME Checked, NEW s \in Slot, pc[s] = "transition.update", UpdateGap(s)
    PROVE  MoveRow
  <1>1. subject[s] \in DOMAIN gaps /\ request[s].target \in GapStates
    BY DEF Checked, Typed, RequestKinds, SubjectExists, TransitionCalls, ReviewRequest
  <1>2. /\ GapCanTransition(gaps[subject[s]].state, request[s].target)
        /\ gaps' = [gaps EXCEPT ![subject[s]] =
                        Moved(gaps[subject[s]], request[s].target, NewNotes(s))]
    BY DEF Checked, MovesChecked, UpdateGap, UpdateMatches
  <1> QED
    BY <1>1, <1>2, UpdateAppends DEF MoveRow

LEMMA TableStep ==
    ASSUME Checked, [Next]_vars
    PROVE  gaps' = gaps \/ NewRow \/ MoveRow
  <1>1. ASSUME NEW s \in Slot, DetectCreate(s) \/ CreateUnacknowledged(s)
        PROVE  gaps' = gaps \/ NewRow
    BY <1>1, InsertMakesRow DEF DetectCreate, CreateUnacknowledged
  <1>2. ASSUME NEW s \in Slot, TransitionUpdate(s) \/ UpdateUnacknowledged(s)
        PROVE  gaps' = gaps \/ MoveRow
    BY <1>2, UpdateMovesRow DEF TransitionUpdate, UpdateUnacknowledged
  <1>3. ASSUME NEW s \in Slot, Submit(s) \/ Collect(s)
        PROVE  gaps' = gaps
    BY <1>3 DEF Submit, SubmitDetect, SubmitTransition, Collect, tables
  <1>4. ASSUME NEW s \in Slot, HandlerStep(s)
        PROVE  gaps' = gaps \/ NewRow \/ MoveRow
    BY <1>4, <1>1, <1>2 DEF HandlerStep, DetectGetArea, DetectRunsByIDs, DetectByInputHash,
       DetectAudit, TransitionGet, TransitionGetUpdated, TransitionAudit, tables
  <1>5. ASSUME NEW s \in Slot, Fault(s)
        PROVE  gaps' = gaps \/ NewRow \/ MoveRow
    BY <1>5, <1>1, <1>2 DEF Fault, DatabaseError, AuditUnacknowledged, tables
  <1> QED
    BY <1>3, <1>4, <1>5 DEF Next, AreaStep, RunStep, Crash, vars, tables

\* Rows stay; what they were made from is frozen, and their notes only grow.
LEMMA RowsGrow ==
    ASSUME Checked, [Next]_vars, NEW id \in DOMAIN gaps
    PROVE  /\ id \in DOMAIN gaps'
           /\ gaps'[id].hash = gaps[id].hash
           /\ gaps'[id].boundary = gaps[id].boundary
           /\ Extends(gaps'[id].notes, gaps[id].notes)
           /\ gaps'[id].notes \in Seq(Note)
  <1>1. gaps[id].notes \in Seq(Note)
    BY DEF Checked, Typed, TypeOK, Gap, Note
  <1>2. Extends(gaps[id].notes, gaps[id].notes)
    BY <1>1 DEF Extends
  <1>3. CASE gaps' = gaps
    BY <1>1, <1>2, <1>3
  <1>4. CASE NewRow
    BY <1>1, <1>2, <1>4 DEF NewRow
  <1>5. CASE MoveRow
    <2>1. PICK i \in DOMAIN gaps, to \in GapStates, notes \in Seq(Note) :
              /\ Extends(notes, gaps[i].notes)
              /\ gaps' = [gaps EXCEPT ![i] = Moved(gaps[i], to, notes)]
      BY <1>5 DEF MoveRow
    <2>2. CASE i = id
      BY <2>1, <2>2 DEF Moved
    <2>3. CASE i # id
      BY <1>1, <1>2, <2>1, <2>3
    <2> QED
      BY <2>2, <2>3
  <1> QED
    BY <1>3, <1>4, <1>5, TableStep

LEMMA CheckedInit == Init => Checked
  BY InitTyped DEF Checked, GapsStaged, SourcesChecked, MovesChecked, Init

\* A move of the graph takes the number of notes of one state to the next.
LEMMA StageOfMove ==
    ASSUME NEW from \in GapStates, NEW to \in GapStates, GapCanTransition(from, to)
    PROVE  /\ from # "closed"
           /\ to # "closed" => StateVersion[to] = StateVersion[from] + 1
  BY DEF GapStates, GapCanTransition, gapTransitions, StateVersion

LEMMA GapsStagedKept ==
    ASSUME Checked, [Next]_vars
    PROVE  GapsStaged'
  <1>1. CASE gaps' = gaps
    BY <1>1 DEF Checked, GapsStaged, Staged
  <1>2. CASE NewRow
    <2>1. Len(<<>>) = 0 /\ StateVersion["detected"] = 1
      BY DEF StateVersion
    <2> QED
      BY <1>2, <2>1 DEF NewRow, Checked, GapsStaged, Staged
  <1>3. CASE MoveRow
    <2>1. PICK i \in DOMAIN gaps, to \in GapStates, notes \in Seq(Note) :
              /\ GapCanTransition(gaps[i].state, to)
              /\ Len(notes) = Len(gaps[i].notes) + 1
              /\ gaps' = [gaps EXCEPT ![i] = Moved(gaps[i], to, notes)]
      BY <1>3 DEF MoveRow
    <2>2. gaps[i].state \in GapStates /\ gaps[i].version \in Nat
      BY DEF Checked, Typed, TypeOK, Gap
    <2>3. Staged(gaps[i])
      BY DEF Checked, GapsStaged
    <2>4. Staged(Moved(gaps[i], to, notes))
      BY <2>1, <2>2, <2>3, StageOfMove DEF Staged, Moved
    <2> QED
      BY <2>1, <2>4 DEF Checked, GapsStaged
  <1> QED
    BY <1>1, <1>2, <1>3, TableStep

LEMMA SourcesCheckedKept ==
    ASSUME Checked, [Next]_vars
    PROVE  SourcesChecked'
  <1> DEFINE Past == {"detect.by_input_hash", "detect.create", "detect.audit"}
  <1> SUFFICES ASSUME NEW s \in Slot, pc'[s] \in Past, NEW r \in request'[s].runs
               PROVE  RunArea[r] = request'[s].area /\ runState'[r] \in Done
    BY DEF SourcesChecked
  <1>1. CASE pc[s] \in Past /\ request'[s] = request[s]
    <2>1. request[s] \in DetectRequest
      BY <1>1 DEF Checked, Typed, RequestKinds, DetectCalls
    <2>2. r \in RunId
      BY <1>1, <2>1 DEF DetectRequest
    <2> QED
      BY <1>1, <2>2, RunsStayDone DEF Checked, SourcesChecked
  <1>2. CASE DetectRunsByIDs(s)
    <2>1. /\ request' = request /\ runState' = runState
          /\ runState[r] # "absent" /\ RunError(r, request[s].area) = "none"
      BY <1>2 DEF DetectRunsByIDs, Answer, tables, registers, Checked, Typed, TypeOK
    <2> QED
      BY <2>1 DEF RunError, Done
  <1>3. ~Submit(s)
    BY DEF Submit, SubmitDetect, SubmitTransition, Checked, Typed, TypeOK
  <1>4. ASSUME HandlerStep(s), ~DetectRunsByIDs(s)
        PROVE  pc[s] \in Past /\ request'[s] = request[s]
    BY <1>4 DEF HandlerStep, DetectGetArea, DetectByInputHash, DetectCreate, DetectAudit,
       TransitionGet, TransitionUpdate, TransitionGetUpdated, TransitionAudit, Answer, Proceed,
       registers, Checked, Typed, TypeOK
  <1> QED
    BY <1>1, <1>2, <1>3, <1>4, SlotStep DEF Checked

LEMMA MovesCheckedKept ==
    ASSUME Checked, [Next]_vars
    PROVE  MovesChecked'
  <1> DEFINE Holds(b, target, gap) ==
                /\ b.state \in GapStates \ {"closed"}
                /\ GapCanTransition(b.state, target)
                /\ Len(b.notes) = StateVersion[b.state] - 1
                /\ Extends(gap.notes, b.notes)
  <1> SUFFICES ASSUME NEW s \in Slot, pc'[s] = "transition.update"
               PROVE  Holds(before'[s], request'[s].target, gaps'[subject'[s]])
    BY DEF MovesChecked
  <1>1. CASE /\ pc[s] = "transition.update" /\ request'[s] = request[s]
             /\ subject'[s] = subject[s] /\ before'[s] = before[s]
    <2>1. Holds(before[s], request[s].target, gaps[subject[s]])
      BY <1>1 DEF Checked, MovesChecked
    <2>2. /\ subject[s] \in DOMAIN gaps /\ before[s].notes \in Seq(Note)
          /\ gaps[subject[s]].notes \in Seq(Note)
      BY <1>1 DEF Checked, Typed, TypeOK, SubjectExists, Snapshot, Gap, Note
    <2>3. Extends(gaps'[subject[s]].notes, gaps[subject[s]].notes)
          /\ gaps'[subject[s]].notes \in Seq(Note)
      BY <2>2, RowsGrow
    <2>4. Extends(gaps'[subject[s]].notes, before[s].notes)
      BY <2>1, <2>2, <2>3 DEF Extends
    <2> QED
      BY <1>1, <2>1, <2>4
  <1>2. CASE TransitionGet(s)
    <2>1. /\ UNCHANGED <<gaps, request, subject>> /\ subject[s] \in DOMAIN gaps
          /\ before'[s] = SnapshotOf(gaps[subject[s]])
          /\ GapCanTransition(gaps[subject[s]].state, request[s].target)
      BY <1>2 DEF TransitionGet, Answer, tables, Checked, Typed, TypeOK
    <2>2. gaps[subject[s]] \in Gap /\ Staged(gaps[subject[s]])
          /\ request[s].target \in GapStates
      BY <1>2, <2>1 DEF Checked, Typed, TypeOK, GapsStaged, TransitionGet, RequestKinds,
         TransitionCalls, ReviewRequest
    <2>3. gaps[subject[s]].state # "closed"
      BY <2>1, <2>2, StageOfMove DEF Gap
    <2>4. Extends(gaps[subject[s]].notes, gaps[subject[s]].notes)
      BY <2>2 DEF Extends, Gap
    <2> QED
      BY <2>1, <2>2, <2>3, <2>4 DEF SnapshotOf, Staged, Gap
  <1>3. ~Submit(s)
    BY DEF Submit, SubmitDetect, SubmitTransition, Checked, Typed, TypeOK
  <1>4. CASE HandlerStep(s) /\ ~TransitionGet(s)
    BY <1>4 DEF HandlerStep, DetectGetArea, DetectRunsByIDs, DetectByInputHash, DetectCreate,
       DetectAudit, TransitionUpdate, TransitionGetUpdated, TransitionAudit, Answer, Proceed,
       Checked, Typed, TypeOK
  <1> HIDE DEF Holds
  <1> QED
    BY <1>1, <1>2, <1>3, <1>4, SlotStep DEF Checked

LEMMA CheckedNext ==
    ASSUME Checked, [Next]_vars
    PROVE  Checked'
  <1>1. Typed'
    BY NextTyped DEF Checked
  <1> QED
    BY <1>1, GapsStagedKept, SourcesCheckedKept, MovesCheckedKept DEF Checked

-----------------------------------------------------------------------------
(* The table *)

\* The runs behind a gap have finished processing when it is stored, and no
\* later step of a run undoes that.
THEOREM SourcesStayProcessedHolds == Spec => []SourcesStayProcessed
  <1>1. Init => SourcesStayProcessed
    BY DEF Init, SourcesStayProcessed
  <1>2. Checked /\ SourcesStayProcessed /\ [Next]_vars => SourcesStayProcessed'
    <2> SUFFICES ASSUME Checked, SourcesStayProcessed, [Next]_vars,
                        NEW id \in DOMAIN gaps', NEW r \in gaps'[id].hash.runs
                 PROVE  RunArea[r] = gaps'[id].hash.area /\ runState'[r] \in Done
      BY DEF SourcesStayProcessed, Done
    <2>1. CASE id \in DOMAIN gaps
      <3>1. gaps'[id].hash = gaps[id].hash
        BY <2>1, RowsGrow
      <3>2. gaps[id].hash \in Hash
        BY <2>1 DEF Checked, Typed, TypeOK, Gap
      <3>3. r \in RunId /\ RunArea[r] = gaps[id].hash.area /\ runState[r] \in Done
        BY <2>1, <3>1, <3>2 DEF SourcesStayProcessed, Hash, Done
      <3> QED
        BY <3>1, <3>3, RunsStayDone DEF Checked
    <2>2. CASE id \notin DOMAIN gaps
      <3>1. NewRow
        BY <2>2, TableStep DEF MoveRow
      <3>2. /\ RunArea[r] = gaps'[id].hash.area /\ runState[r] \in Done
            /\ gaps'[id].hash \in Hash
        BY <2>2, <3>1 DEF NewRow
      <3>3. r \in RunId
        BY <3>2 DEF Hash
      <3> QED
        BY <3>2, <3>3, RunsStayDone DEF Checked
    <2> QED
      BY <2>1, <2>2
  <1> QED
    BY <1>1, <1>2, CheckedInit, CheckedNext, PTL DEF Spec

\* The service implements the register of versioned rows: a detection inserts
\* at most one gap for each input hash, a review moves one gap along one edge,
\* and the frozen result never changes.
THEOREM Refinement == Spec => ImplementsLifecycle
  <1> DEFINE rows == [id \in DOMAIN gaps |->
                [key |-> gaps[id].hash, body |-> gaps[id].boundary,
                 state |-> gaps[id].state, version |-> gaps[id].version]]
  <1>1. Init => Lifecycle!Init
    BY DEF Init, Lifecycle!Init
  <1>2. Checked /\ [Next]_vars => [Lifecycle!Next]_rows
    <2> SUFFICES ASSUME Checked, [Next]_vars
                 PROVE  Lifecycle!Next \/ UNCHANGED rows
      OBVIOUS
    <2>1. CASE gaps' = gaps
      BY <2>1
    <2>2. CASE NewRow
      <3>1. PICK id \in GapId, hash \in Hash, boundary \in Boundary :
                /\ id \notin DOMAIN gaps
                /\ SameHash(hash) = {}
                /\ gaps' = [i \in DOMAIN gaps \cup {id} |->
                        IF i = id THEN [hash |-> hash, boundary |-> boundary,
                                        state |-> "detected", version |-> 1, notes |-> <<>>]
                        ELSE gaps[i]]
        BY <2>2 DEF NewRow
      <3>2. \A i \in DOMAIN gaps : gaps[i].hash # hash
        BY <3>1 DEF SameHash
      <3>3. rows' = [i \in DOMAIN rows \cup {id} |->
                        IF i = id
                        THEN [key |-> hash, body |-> boundary,
                              state |-> "detected", version |-> 1]
                        ELSE rows[i]]
        BY <3>1
      <3>4. Lifecycle!Create(id, hash, boundary)
        BY <3>1, <3>2, <3>3 DEF Lifecycle!Create
      <3> QED
        BY <3>4 DEF Lifecycle!Next
    <2>3. CASE MoveRow
      <3>1. PICK i \in DOMAIN gaps, to \in GapStates, notes \in Seq(Note) :
                /\ GapCanTransition(gaps[i].state, to)
                /\ gaps' = [gaps EXCEPT ![i] = Moved(gaps[i], to, notes)]
        BY <2>3 DEF MoveRow
      <3>2. rows' = [rows EXCEPT ![i].state = to, ![i].version = @ + 1]
        BY <3>1 DEF Moved
      <3>3. to \in gapTransitions[rows[i].state] /\ i \in DOMAIN rows
        BY <3>1 DEF GapCanTransition
      <3>4. Lifecycle!Move(i, to)
        BY <3>2, <3>3 DEF Lifecycle!Move
      <3> QED
        BY <3>3, <3>4 DEF Lifecycle!Next
    <2> QED
      BY <2>1, <2>2, <2>3, TableStep
  <1> QED
    BY <1>1, <1>2, CheckedInit, CheckedNext, PTL DEF Spec, ImplementsLifecycle, Lifecycle!Spec

-----------------------------------------------------------------------------
(* Idempotence of detections *)

\* The unique index on input_hash.
UniqueHashes == \A a, b \in DOMAIN gaps : gaps[a].hash = gaps[b].hash => a = b

\* A detection that has inserted works on the row it inserted.
OwnRow == \A s \in Slot : pc[s] = "detect.audit" => gaps[subject[s]].hash = InputHash(s)

\* The hash of the inputs of an answer.
HashOf(a) == [area |-> a.area, crs |-> a.crs, algorithm |-> a.algorithm,
              runs |-> a.runs, resolution |-> a.resolution]

AckedRows ==
    \A a \in acked : a.id \in DOMAIN gaps /\ gaps[a.id].hash = HashOf(a)

Idempotence == Checked /\ UniqueHashes /\ OwnRow /\ AckedRows

LEMMA UniqueHashesKept ==
    ASSUME Checked, UniqueHashes, [Next]_vars
    PROVE  UniqueHashes'
  <1>1. CASE gaps' = gaps
    BY <1>1 DEF UniqueHashes
  <1>2. CASE NewRow
    BY <1>2 DEF NewRow, SameHash, UniqueHashes
  <1>3. CASE MoveRow
    BY <1>3 DEF MoveRow, Moved, UniqueHashes
  <1> QED
    BY <1>1, <1>2, <1>3, TableStep

LEMMA OwnRowKept ==
    ASSUME Checked, OwnRow, [Next]_vars
    PROVE  OwnRow'
  <1> SUFFICES ASSUME NEW s \in Slot, pc'[s] = "detect.audit"
               PROVE  gaps'[subject'[s]].hash = InputHash(s)'
    BY DEF OwnRow
  <1>1. CASE /\ pc[s] = "detect.audit" /\ request'[s] = request[s]
             /\ seen'[s] = seen[s] /\ subject'[s] = subject[s]
    <2>1. subject[s] \in DOMAIN gaps
      BY <1>1 DEF Checked, Typed, SubjectExists
    <2>2. gaps'[subject[s]].hash = gaps[subject[s]].hash
      BY <2>1, RowsGrow
    <2> QED
      BY <1>1, <2>2 DEF OwnRow, InputHash, EffectiveResolution
  <1>2. CASE DetectCreate(s)
    <2>1. PICK id \in GapId : InsertGap(s, id)
      BY <1>2 DEF DetectCreate, Answer, Checked, Typed, TypeOK
    <2>2. /\ gaps'[id].hash = InputHash(s) /\ subject'[s] = id
          /\ request' = request /\ seen' = seen
      <3>1. pc[s] = "detect.create" /\ request' = request /\ seen' = seen
        BY <1>2 DEF DetectCreate
      <3>2. gaps'[id] = NewGap(s) /\ subject'[s] = id
        BY <2>1, <3>1, InsertEffect DEF Checked
      <3>3. NewGap(s).hash = InputHash(s)
        BY DEF NewGap
      <3> QED
        BY <3>1, <3>2, <3>3
    <2>3. InputHash(s)' = InputHash(s)
      BY <2>2 DEF InputHash, EffectiveResolution
    <2> QED
      BY <2>2, <2>3
  <1>3. ~Submit(s)
    BY DEF Submit, SubmitDetect, SubmitTransition, Checked, Typed, TypeOK
  <1>4. ~(HandlerStep(s) /\ ~DetectCreate(s))
    BY DEF HandlerStep, DetectGetArea, DetectRunsByIDs, DetectByInputHash, DetectAudit,
       TransitionGet, TransitionUpdate, TransitionGetUpdated, TransitionAudit, Answer, Proceed,
       Checked, Typed, TypeOK
  <1> QED
    BY <1>1, <1>2, <1>3, <1>4, SlotStep DEF Checked

LEMMA AcknowledgementHash ==
    \A s, id : Acknowledgement(s, id).id = id /\ HashOf(Acknowledgement(s, id)) = InputHash(s)
  BY DEF Acknowledgement, HashOf, InputHash

\* A successful answer names a row with the hash of its inputs.
LEMMA NewAnswer ==
    ASSUME Idempotence, [Next]_vars, NEW a \in acked', a \notin acked
    PROVE  a.id \in DOMAIN gaps /\ gaps[a.id].hash = HashOf(a)
  <1>1. ASSUME NEW s \in Slot, DetectByInputHash(s)
        PROVE  a.id \in DOMAIN gaps /\ gaps[a.id].hash = HashOf(a)
    BY <1>1, AcknowledgementHash DEF DetectByInputHash, SameHash
  <1>2. ASSUME NEW s \in Slot, DetectAudit(s)
        PROVE  a.id \in DOMAIN gaps /\ gaps[a.id].hash = HashOf(a)
    BY <1>2, AcknowledgementHash
       DEF DetectAudit, Idempotence, OwnRow, Checked, Typed, SubjectExists
  <1>3. ASSUME NEW s \in Slot, HandlerStep(s)
        PROVE  DetectByInputHash(s) \/ DetectAudit(s)
    BY <1>3 DEF HandlerStep, DetectGetArea, DetectRunsByIDs, DetectCreate, TransitionGet,
       TransitionUpdate, TransitionGetUpdated, TransitionAudit, history
  <1> QED
    BY <1>1, <1>2, <1>3 DEF Next, Submit, SubmitDetect, SubmitTransition, Collect, Fault,
       DatabaseError, CreateUnacknowledged, UpdateUnacknowledged, AuditUnacknowledged,
       AreaStep, RunStep, Crash, vars, history

LEMMA AckedRowsKept ==
    ASSUME Idempotence, [Next]_vars
    PROVE  AckedRows'
  <1> SUFFICES ASSUME NEW a \in acked'
               PROVE  a.id \in DOMAIN gaps' /\ gaps'[a.id].hash = HashOf(a)
    BY DEF AckedRows, HashOf
  <1>1. a.id \in DOMAIN gaps /\ gaps[a.id].hash = HashOf(a)
    BY NewAnswer DEF Idempotence, AckedRows
  <1> QED
    BY <1>1, RowsGrow DEF Idempotence

\* All successful detections of the same inputs name one gap, and it was made
\* from these inputs.
THEOREM DetectIdempotentHolds == Spec => []DetectIdempotent
  <1>1. Init => Idempotence
    BY CheckedInit DEF Init, Idempotence, UniqueHashes, OwnRow, AckedRows
  <1>2. Idempotence /\ [Next]_vars => Idempotence'
    BY CheckedNext, UniqueHashesKept, OwnRowKept, AckedRowsKept DEF Idempotence
  <1>3. Idempotence => DetectIdempotent
    <2> SUFFICES ASSUME Idempotence
                 PROVE  DetectIdempotent
      OBVIOUS
    <2>1. \A a \in acked : a \in Acknowledgements
      BY DEF Idempotence, Checked, Typed, TypeOK, Acknowledgements
    <2>2. ASSUME NEW a \in acked, NEW b \in acked,
                 \A f \in DOMAIN a \ {"id"} : a[f] = b[f]
          PROVE  a.id = b.id
      <3>1. HashOf(a) = HashOf(b)
        BY <2>1, <2>2 DEF Acknowledgements, HashOf
      <3> QED
        BY <3>1 DEF Idempotence, AckedRows, UniqueHashes
    <2>3. ASSUME NEW a \in acked
          PROVE  /\ a.id \in DOMAIN gaps
                 /\ \A f \in DOMAIN gaps[a.id].hash : gaps[a.id].hash[f] = a[f]
      <3>1. a.id \in DOMAIN gaps /\ gaps[a.id].hash = HashOf(a)
        BY DEF Idempotence, AckedRows
      <3>2. \A f \in DOMAIN HashOf(a) : HashOf(a)[f] = a[f]
        BY <2>1 DEF HashOf, Acknowledgements
      <3> QED
        BY <3>1, <3>2
    <2> QED
      BY <2>2, <2>3 DEF DetectIdempotent
  <1> QED
    BY <1>1, <1>2, <1>3, PTL DEF Spec

-----------------------------------------------------------------------------
(* The notes of the reviews *)

\* Each audited review has left its note in its place.
AuditedNotes ==
    \A event \in audits :
        /\ event.id \in DOMAIN gaps
        /\ event.wrote > 1 =>
               /\ event.wrote - 1 <= Len(gaps[event.id].notes)
               /\ gaps[event.id].notes[event.wrote - 1] = event.note

\* So has each review that is about to be audited.
PendingNotes ==
    \A s \in Slot : pc[s] \in {"transition.get_updated", "transition.audit"} =>
        /\ request[s].expected <= Len(gaps[subject[s]].notes)
        /\ gaps[subject[s]].notes[request[s].expected] = request[s].note

Noted == Checked /\ AuditedNotes /\ PendingNotes

LEMMA PendingNotesKept ==
    ASSUME Noted, [Next]_vars
    PROVE  PendingNotes'
  <1> DEFINE Past == {"transition.get_updated", "transition.audit"}
  <1> SUFFICES ASSUME NEW s \in Slot, pc'[s] \in Past
               PROVE  /\ request'[s].expected <= Len(gaps'[subject'[s]].notes)
                      /\ gaps'[subject'[s]].notes[request'[s].expected] = request'[s].note
    BY DEF PendingNotes
  <1>1. CASE pc[s] \in Past /\ request'[s] = request[s] /\ subject'[s] = subject[s]
    <2>1. subject[s] \in DOMAIN gaps /\ request[s] \in ReviewRequest
      BY <1>1 DEF Noted, Checked, Typed, SubjectExists, RequestKinds, TransitionCalls
    <2>2. request[s].expected \in Nat \ {0}
      BY <2>1 DEF ReviewRequest
    <2>3. /\ Extends(gaps'[subject[s]].notes, gaps[subject[s]].notes)
          /\ gaps'[subject[s]].notes \in Seq(Note)
      BY <2>1, RowsGrow DEF Noted
    <2>4. gaps[subject[s]].notes \in Seq(Note)
      BY <2>1 DEF Noted, Checked, Typed, TypeOK, Gap, Note
    <2>5. /\ request[s].expected <= Len(gaps[subject[s]].notes)
          /\ gaps[subject[s]].notes[request[s].expected] = request[s].note
      BY <1>1 DEF Noted, PendingNotes
    <2>6. request[s].expected \in 1..Len(gaps[subject[s]].notes)
      BY <2>2, <2>4, <2>5
    <2> DEFINE old == gaps[subject[s]].notes
               new == gaps'[subject[s]].notes
               n == request[s].expected
    <2> HIDE DEF old, new, n
    <2>7. new[n] = old[n]
      BY <2>3, <2>6 DEF Extends, old, new, n
    <2>8. Len(old) <= Len(new) /\ Len(old) \in Nat /\ Len(new) \in Nat
      BY <2>3, <2>4, LenProperties DEF Extends, old, new
    <2>9. n <= Len(new)
      BY <2>2, <2>5, <2>8 DEF old, n
    <2> QED
      BY <1>1, <2>5, <2>7, <2>9 DEF old, new, n
  <1>2. CASE TransitionUpdate(s)
    <2>1. /\ pc[s] = "transition.update" /\ UpdateGap(s)
          /\ request' = request /\ subject' = subject
      BY <1>2 DEF TransitionUpdate, Answer, registers, Noted, Checked, Typed, TypeOK
    <2>2. gaps'[subject[s]].notes = NewNotes(s)
      <3>1. gaps'[subject[s]] = Moved(gaps[subject[s]], request[s].target, NewNotes(s))
        BY <2>1, UpdateEffect DEF Noted, Checked
      <3> QED
        BY <3>1 DEF Moved
    <2>3. request[s].expected \in Nat
      BY <2>1 DEF Noted, Checked, Typed, RequestKinds, TransitionCalls, ReviewRequest
    <2> QED
      BY <2>1, <2>2, <2>3, UpdateAppends DEF Noted
  <1>3. ~Submit(s)
    BY DEF Submit, SubmitDetect, SubmitTransition, Noted, Checked, Typed, TypeOK
  <1>4. ASSUME HandlerStep(s), ~TransitionUpdate(s)
        PROVE  pc[s] \in Past /\ request'[s] = request[s] /\ subject'[s] = subject[s]
    BY <1>4 DEF HandlerStep, DetectGetArea, DetectRunsByIDs, DetectByInputHash, DetectCreate,
       DetectAudit, TransitionGet, TransitionGetUpdated, TransitionAudit, Answer, Proceed,
       Noted, Checked, Typed, TypeOK
  <1> QED
    BY <1>1, <1>2, <1>3, <1>4, SlotStep DEF Noted, Checked

\* Events are recorded by the audit calls only.
LEMMA EventsStep ==
    ASSUME [Next]_vars
    PROVE  \/ audits' = audits
           \/ \E s \in Slot : \/ pc[s] = "detect.audit" /\ RecordAudit(s, 0)
                              \/ pc[s] = "transition.audit" /\ RecordAudit(s, request[s].note)
  <1>1. ASSUME NEW s \in Slot, HandlerStep(s)
        PROVE  audits' = audits \/ DetectAudit(s) \/ TransitionAudit(s)
    BY <1>1 DEF HandlerStep, DetectGetArea, DetectRunsByIDs, DetectByInputHash, DetectCreate,
       TransitionGet, TransitionUpdate, TransitionGetUpdated, tables
  <1>2. ASSUME NEW s \in Slot, Fault(s)
        PROVE  audits' = audits \/ AuditUnacknowledged(s)
    BY <1>2 DEF Fault, DatabaseError, CreateUnacknowledged, UpdateUnacknowledged, tables
  <1>3. ASSUME NEW s \in Slot, Submit(s) \/ Collect(s)
        PROVE  audits' = audits
    BY <1>3 DEF Submit, SubmitDetect, SubmitTransition, Collect, tables
  <1>4. ASSUME (\E a \in Area : AreaStep(a)) \/ (\E r \in RunId : RunStep(r)) \/ Crash
               \/ UNCHANGED vars
        PROVE  audits' = audits
    BY <1>4 DEF AreaStep, RunStep, Crash, tables, vars
  <1>5. \/ audits' = audits
        \/ \E s \in Slot : DetectAudit(s) \/ TransitionAudit(s) \/ AuditUnacknowledged(s)
    BY <1>1, <1>2, <1>3, <1>4 DEF Next
  <1> QED
    BY <1>5 DEF DetectAudit, TransitionAudit, AuditUnacknowledged

\* A new event is about the note that its handler has written.
LEMMA NewEvent ==
    ASSUME Noted, [Next]_vars, NEW event \in audits', event \notin audits
    PROVE  /\ event.id \in DOMAIN gaps
           /\ event.wrote > 1 =>
                  /\ event.wrote - 1 <= Len(gaps[event.id].notes)
                  /\ gaps[event.id].notes[event.wrote - 1] = event.note
  <1> DEFINE Tells == /\ event.id \in DOMAIN gaps
                      /\ event.wrote > 1 =>
                             /\ event.wrote - 1 <= Len(gaps[event.id].notes)
                             /\ gaps[event.id].notes[event.wrote - 1] = event.note
  <1>1. ASSUME NEW s \in Slot, pc[s] = "detect.audit", RecordAudit(s, 0)
        PROVE  Tells
    <2>1. event.id = subject[s] /\ event.wrote = 1
      BY <1>1 DEF RecordAudit, WroteVersion
    <2>2. subject[s] \in DOMAIN gaps
      BY <1>1 DEF Noted, Checked, Typed, SubjectExists
    <2> QED
      BY <2>1, <2>2
  <1>2. ASSUME NEW s \in Slot, pc[s] = "transition.audit", RecordAudit(s, request[s].note)
        PROVE  Tells
    <2>1. /\ event.id = subject[s] /\ event.wrote = request[s].expected + 1
          /\ event.note = request[s].note
      BY <1>2 DEF RecordAudit, WroteVersion
    <2>2. subject[s] \in DOMAIN gaps /\ request[s].expected \in Nat
      BY <1>2 DEF Noted, Checked, Typed, SubjectExists, RequestKinds, TransitionCalls,
         ReviewRequest
    <2>3. event.wrote - 1 = request[s].expected
      BY <2>1, <2>2
    <2> QED
      BY <1>2, <2>1, <2>2, <2>3 DEF Noted, PendingNotes
  <1> HIDE DEF Tells
  <1>3. Tells
    BY <1>1, <1>2, EventsStep
  <1> QED
    BY <1>3 DEF Tells

LEMMA AuditedNotesKept ==
    ASSUME Noted, [Next]_vars
    PROVE  AuditedNotes'
  <1> SUFFICES ASSUME NEW event \in audits'
               PROVE  /\ event.id \in DOMAIN gaps'
                      /\ event.wrote > 1 =>
                             /\ event.wrote - 1 <= Len(gaps'[event.id].notes)
                             /\ gaps'[event.id].notes[event.wrote - 1] = event.note
    BY DEF AuditedNotes
  <1>1. /\ event.id \in DOMAIN gaps
        /\ event.wrote > 1 =>
               /\ event.wrote - 1 <= Len(gaps[event.id].notes)
               /\ gaps[event.id].notes[event.wrote - 1] = event.note
    BY NewEvent DEF Noted, AuditedNotes
  <1>2. /\ Extends(gaps'[event.id].notes, gaps[event.id].notes)
        /\ event.id \in DOMAIN gaps' /\ gaps'[event.id].notes \in Seq(Note)
    BY <1>1, RowsGrow DEF Noted
  <1>3. gaps[event.id].notes \in Seq(Note) /\ event.wrote \in Nat
    <2>1. gaps[event.id].notes \in Seq(Note)
      BY <1>1 DEF Noted, Checked, Typed, TypeOK, Gap, Note
    <2>2. audits' \subseteq AuditEvent
      BY NextTyped DEF Noted, Checked, Typed, TypeOK
    <2> QED
      BY <2>1, <2>2 DEF AuditEvent
  <1>4. event.wrote > 1 => event.wrote - 1 \in 1..Len(gaps[event.id].notes)
    BY <1>1, <1>3
  <1> QED
    BY <1>1, <1>2, <1>3, <1>4 DEF Extends

\* No review overwrites the note of another: every move of a gap leaves one
\* note, and every audited note is in its place.
THEOREM NotesKeptHolds == Spec => []NotesKept
  <1>1. Init => Noted
    BY CheckedInit DEF Init, Noted, AuditedNotes, PendingNotes
  <1>2. Noted /\ [Next]_vars => Noted'
    BY CheckedNext, AuditedNotesKept, PendingNotesKept DEF Noted
  <1>3. Noted => NotesKept
    BY DEF Noted, Checked, GapsStaged, Staged, AuditedNotes, NotesKept
  <1> QED
    BY <1>1, <1>2, <1>3, PTL DEF Spec

-----------------------------------------------------------------------------
(* The audit ledger *)

\* A slot's step leaves the registers of the other slots alone.
LEMMA OtherSlots ==
    ASSUME Typed, NEW s \in Slot, NEW t \in Slot, t # s,
           Submit(s) \/ Collect(s) \/ HandlerStep(s) \/ Fault(s)
    PROVE  UNCHANGED <<pc[t], request[t], subject[t], before[t], after[t]>>
  <1> USE DEF Typed, TypeOK, registers
  <1>1. CASE Submit(s) \/ Collect(s)
    BY <1>1 DEF Submit, SubmitDetect, SubmitTransition, Collect
  <1>2. CASE DetectGetArea(s) \/ DetectRunsByIDs(s) \/ DetectByInputHash(s) \/ DetectAudit(s)
    BY <1>2 DEF DetectGetArea, DetectRunsByIDs, DetectByInputHash, DetectAudit, Answer, Proceed
  <1>3. CASE DetectCreate(s) \/ CreateUnacknowledged(s)
    BY <1>3 DEF DetectCreate, CreateUnacknowledged, InsertGap, Answer, Proceed
  <1>4. CASE \/ TransitionGet(s) \/ TransitionUpdate(s) \/ TransitionGetUpdated(s)
             \/ TransitionAudit(s)
    BY <1>4 DEF TransitionGet, TransitionUpdate, TransitionGetUpdated, TransitionAudit,
       Answer, Proceed
  <1>5. CASE DatabaseError(s) \/ UpdateUnacknowledged(s) \/ AuditUnacknowledged(s)
    BY <1>5 DEF DatabaseError, UpdateUnacknowledged, AuditUnacknowledged, Answer
  <1> QED
    BY <1>1, <1>2, <1>3, <1>4, <1>5 DEF HandlerStep, Fault

Owed == [t \in Slot |-> Unaudited(t)]

\* So it changes what its own handler owes and nothing else of what is owed.
LEMMA OwedStep ==
    ASSUME Typed, NEW s \in Slot, Submit(s) \/ Collect(s) \/ HandlerStep(s) \/ Fault(s)
    PROVE  Owed' = [Owed EXCEPT ![s] = Unaudited(s)']
  <1>1. ASSUME NEW t \in Slot, t # s
        PROVE  Unaudited(t)' = Unaudited(t)
    BY <1>1, OtherSlots DEF Unaudited, WroteVersion
  <1> QED
    BY <1>1 DEF Owed

\* An INSERT writes version 1 of its row.
LEMMA InsertWrites ==
    ASSUME Typed, NEW s \in Slot, pc[s] = "detect.create", NEW id \in GapId, InsertGap(s, id)
    PROVE  <<id, 1>> \notin Written /\ Written' = Written \cup {<<id, 1>>}
  <1>1. /\ id \notin DOMAIN gaps
        /\ DOMAIN gaps' = DOMAIN gaps \cup {id}
        /\ \A i \in DOMAIN gaps : gaps'[i] = gaps[i]
        /\ gaps'[id] = NewGap(s)
    BY InsertEffect
  <1>2. gaps'[id].version = 1 /\ 1..1 = {1}
    BY <1>1 DEF NewGap
  <1>3. ASSUME NEW i, NEW v
        PROVE  i \in DOMAIN gaps' /\ v \in 1..gaps'[i].version
                   <=> (i \in DOMAIN gaps /\ v \in 1..gaps[i].version) \/ (i = id /\ v = 1)
    BY <1>1, <1>2
  <1> QED
    BY <1>1, <1>3 DEF Written

\* An UPDATE writes the version after the one that the client expected.
LEMMA UpdateWrites ==
    ASSUME Typed, NEW s \in Slot, pc[s] = "transition.update", UpdateGap(s)
    PROVE  /\ <<subject[s], WroteVersion(s)>> \notin Written
           /\ Written' = Written \cup {<<subject[s], WroteVersion(s)>>}
  <1> DEFINE id == subject[s]
             n == request[s].expected
  <1>1. /\ id \in DOMAIN gaps
        /\ DOMAIN gaps' = DOMAIN gaps
        /\ \A i \in DOMAIN gaps : i # id => gaps'[i] = gaps[i]
        /\ gaps'[id] = Moved(gaps[id], request[s].target, NewNotes(s))
    BY UpdateEffect
  <1>2. n \in Nat /\ WroteVersion(s) = n + 1
    BY DEF Typed, RequestKinds, TransitionCalls, ReviewRequest, WroteVersion
  <1>3. gaps[id].version = n
    BY DEF UpdateGap, UpdateMatches
  <1> HIDE DEF id, n
  <1>4. gaps'[id].version = n + 1
    BY <1>1, <1>3 DEF Moved
  <1>5. 1..(n + 1) = 1..n \cup {n + 1} /\ n + 1 \notin 1..n
    BY <1>2
  <1>6. ASSUME NEW i, NEW v
        PROVE  i \in DOMAIN gaps' /\ v \in 1..gaps'[i].version
                   <=> (i \in DOMAIN gaps /\ v \in 1..gaps[i].version) \/ (i = id /\ v = n + 1)
    BY <1>1, <1>3, <1>4, <1>5
  <1>7. Written' = Written \cup {<<id, n + 1>>} /\ <<id, n + 1>> \notin Written
    BY <1>3, <1>5, <1>6 DEF Written
  <1> QED
    BY <1>2, <1>7 DEF id

\* The event that is recorded names the write that the handler owes it for.
LEMMA RecordPays ==
    ASSUME NEW s \in Slot, pc[s] \in {"detect.audit", "transition.audit"},
           NEW note, RecordAudit(s, note)
    PROVE  Recorded' = Recorded \cup Unaudited(s)
  <1> DEFINE event == [id |-> subject[s], wrote |-> WroteVersion(s), note |-> note,
                       before |-> before[s], after |-> after[s]]
  <1>1. audits' = audits \cup {event}
    BY DEF RecordAudit
  <1>2. Unaudited(s) = {<<event.id, event.wrote>>}
    BY DEF Unaudited, UnauditedCalls
  <1> HIDE DEF event
  <1> QED
    BY <1>1, <1>2 DEF Recorded

TrailUnchanged == UNCHANGED <<Written, Recorded, Owed, lost>>

\* A step that writes nothing and records nothing, of a handler that owes
\* as much as before.
LEMMA NeutralStep ==
    ASSUME Typed, NEW s \in Slot, Submit(s) \/ Collect(s) \/ HandlerStep(s) \/ Fault(s),
           UNCHANGED <<gaps, audits, lost>>, Unaudited(s)' = Unaudited(s)
    PROVE  TrailUnchanged
  <1>1. Owed' = Owed
    BY OwedStep DEF Owed
  <1> QED
    BY <1>1 DEF TrailUnchanged, Written, Recorded

LEMMA CallsThatWriteNothing ==
    ASSUME Typed, NEW s \in Slot,
           \/ Submit(s) \/ Collect(s) \/ DetectGetArea(s) \/ DetectRunsByIDs(s)
           \/ DetectByInputHash(s) \/ TransitionGet(s) \/ TransitionGetUpdated(s)
    PROVE  TrailUnchanged
  <1> USE DEF Typed, TypeOK, Unaudited, UnauditedCalls
  <1>1. CASE Submit(s) \/ Collect(s)
    <2>1. UNCHANGED <<gaps, audits, lost>> /\ Unaudited(s)' = Unaudited(s)
      BY <1>1 DEF Submit, SubmitDetect, SubmitTransition, Collect, tables, history
    <2> QED
      BY <1>1, <2>1, NeutralStep
  <1>2. CASE DetectGetArea(s) \/ DetectRunsByIDs(s) \/ DetectByInputHash(s) \/ TransitionGet(s)
    <2>1. UNCHANGED <<gaps, audits, lost>> /\ Unaudited(s)' = Unaudited(s)
      BY <1>2 DEF DetectGetArea, DetectRunsByIDs, DetectByInputHash, TransitionGet, Answer,
         Proceed, tables, history
    <2> QED
      BY <1>2, <2>1, NeutralStep DEF HandlerStep
  <1>3. CASE TransitionGetUpdated(s)
    <2>1. UNCHANGED <<gaps, audits, lost>> /\ Unaudited(s)' = Unaudited(s)
      BY <1>3 DEF TransitionGetUpdated, Proceed, tables, history, WroteVersion
    <2> QED
      BY <1>3, <2>1, NeutralStep DEF HandlerStep
  <1> QED
    BY <1>1, <1>2, <1>3

LEMMA CreateOnTrail ==
    ASSUME Typed, NEW s \in Slot, DetectCreate(s)
    PROVE  TrailUnchanged \/ Trail!Next
  <1> USE DEF Typed, TypeOK
  <1>1. CASE Answer(s, "DUPLICATE_RESOURCE") /\ gaps' = gaps
    <2>1. UNCHANGED <<gaps, audits, lost>> /\ Unaudited(s)' = Unaudited(s)
      BY <1>1 DEF DetectCreate, Answer, history, Unaudited, UnauditedCalls
    <2> QED
      BY <2>1, NeutralStep DEF HandlerStep
  <1>2. ASSUME NEW id \in GapId, InsertGap(s, id), Proceed(s, "detect.audit")
        PROVE  Trail!Next
    <2>1. Unaudited(s) = {} /\ Unaudited(s)' = {<<id, 1>>}
      BY <1>2 DEF DetectCreate, InsertGap, Proceed, Unaudited, UnauditedCalls, WroteVersion
    <2>2. Owed' = [Owed EXCEPT ![s] = {<<id, 1>>}] /\ Owed[s] = {}
      BY <2>1, OwedStep DEF HandlerStep, Owed
    <2>3. <<id, 1>> \notin Written /\ Written' = Written \cup {<<id, 1>>}
      BY <1>2, InsertWrites DEF DetectCreate
    <2>4. UNCHANGED <<Recorded, lost>>
      BY DEF DetectCreate, Recorded, history
    <2>5. Trail!Commit(s, <<id, 1>>)
      BY <2>2, <2>3, <2>4 DEF Trail!Commit, Trail!Write, Owed
    <2> QED
      BY <2>3, <2>5 DEF Trail!Next
  <1> QED
    BY <1>1, <1>2 DEF DetectCreate

LEMMA CreateUnacknowledgedOnTrail ==
    ASSUME Typed, NEW s \in Slot, CreateUnacknowledged(s)
    PROVE  Trail!Next
  <1> USE DEF Typed, TypeOK
  <1>1. PICK id \in GapId : InsertGap(s, id) /\ lost' = lost \cup {<<id, 1>>}
    BY DEF CreateUnacknowledged
  <1>2. Unaudited(s) = {} /\ Unaudited(s)' = {}
    BY DEF CreateUnacknowledged, Answer, Unaudited, UnauditedCalls
  <1>3. Owed' = Owed
    BY <1>2, OwedStep DEF Fault, Owed
  <1>4. <<id, 1>> \notin Written /\ Written' = Written \cup {<<id, 1>>}
    BY <1>1, InsertWrites DEF CreateUnacknowledged
  <1>5. Recorded' = Recorded
    BY DEF CreateUnacknowledged, Recorded
  <1>6. Trail!CommitUnacknowledged(<<id, 1>>)
    BY <1>1, <1>3, <1>4, <1>5 DEF Trail!CommitUnacknowledged, Trail!Write, Owed
  <1> QED
    BY <1>4, <1>6 DEF Trail!Next

LEMMA UpdateOnTrail ==
    ASSUME Typed, NEW s \in Slot, TransitionUpdate(s)
    PROVE  TrailUnchanged \/ Trail!Next
  <1> USE DEF Typed, TypeOK
  <1>1. CASE (\E code : Answer(s, code)) /\ gaps' = gaps
    <2>1. UNCHANGED <<gaps, audits, lost>> /\ Unaudited(s)' = Unaudited(s)
      BY <1>1 DEF TransitionUpdate, Answer, history, Unaudited, UnauditedCalls
    <2> QED
      BY <2>1, NeutralStep DEF HandlerStep
  <1>2. CASE UpdateGap(s) /\ Proceed(s, "transition.get_updated")
    <2> DEFINE w == <<subject[s], WroteVersion(s)>>
    <2>1. Unaudited(s) = {} /\ Unaudited(s)' = {w}
      BY <1>2 DEF TransitionUpdate, Proceed, registers, Unaudited, UnauditedCalls, WroteVersion
    <2>2. Owed' = [Owed EXCEPT ![s] = {w}] /\ Owed[s] = {}
      BY <2>1, OwedStep DEF HandlerStep, Owed
    <2>3. w \notin Written /\ Written' = Written \cup {w}
      BY <1>2, UpdateWrites DEF TransitionUpdate
    <2>4. UNCHANGED <<Recorded, lost>>
      BY DEF TransitionUpdate, Recorded, history
    <2> HIDE DEF w
    <2>5. Trail!Commit(s, w)
      BY <2>2, <2>3, <2>4 DEF Trail!Commit, Trail!Write, Owed
    <2> QED
      BY <2>3, <2>5 DEF Trail!Next
  <1> QED
    BY <1>1, <1>2 DEF TransitionUpdate

LEMMA UpdateUnacknowledgedOnTrail ==
    ASSUME Typed, NEW s \in Slot, UpdateUnacknowledged(s)
    PROVE  Trail!Next
  <1> USE DEF Typed, TypeOK
  <1> DEFINE w == <<subject[s], WroteVersion(s)>>
  <1>1. lost' = lost \cup {w}
    BY DEF UpdateUnacknowledged
  <1>2. Unaudited(s) = {} /\ Unaudited(s)' = {}
    BY DEF UpdateUnacknowledged, Answer, Unaudited, UnauditedCalls
  <1>3. Owed' = Owed
    BY <1>2, OwedStep DEF Fault, Owed
  <1>4. w \notin Written /\ Written' = Written \cup {w}
    BY UpdateWrites DEF UpdateUnacknowledged
  <1>5. Recorded' = Recorded
    BY DEF UpdateUnacknowledged, Recorded
  <1> HIDE DEF w
  <1>6. Trail!CommitUnacknowledged(w)
    BY <1>1, <1>3, <1>4, <1>5 DEF Trail!CommitUnacknowledged, Trail!Write, Owed
  <1> QED
    BY <1>4, <1>6 DEF Trail!Next

LEMMA AuditOnTrail ==
    ASSUME Typed, NEW s \in Slot,
           DetectAudit(s) \/ TransitionAudit(s) \/ AuditUnacknowledged(s)
    PROVE  Trail!Next
  <1> USE DEF Typed, TypeOK
  <1>1. Unaudited(s)' = {}
    BY DEF DetectAudit, TransitionAudit, AuditUnacknowledged, Answer, Unaudited, UnauditedCalls
  <1>2. Owed' = [Owed EXCEPT ![s] = {}]
    BY <1>1, OwedStep DEF HandlerStep, Fault
  <1>3. Recorded' = Recorded \cup Owed[s]
    BY RecordPays DEF DetectAudit, TransitionAudit, AuditUnacknowledged, Owed
  <1>4. UNCHANGED <<Written, lost>>
    BY DEF DetectAudit, TransitionAudit, AuditUnacknowledged, Written, history
  <1>5. Trail!Record(s)
    BY <1>2, <1>3, <1>4 DEF Trail!Record, Owed
  <1> QED
    BY <1>5 DEF Trail!Next

LEMMA DatabaseErrorOnTrail ==
    ASSUME Typed, NEW s \in Slot, DatabaseError(s)
    PROVE  Trail!Next
  <1> USE DEF Typed, TypeOK
  <1>1. Unaudited(s)' = {}
    BY DEF DatabaseError, Answer, Unaudited, UnauditedCalls
  <1>2. Owed' = [Owed EXCEPT ![s] = {}]
    BY <1>1, OwedStep DEF Fault
  <1>3. lost' = lost \cup Owed[s]
    BY DEF DatabaseError, Owed
  <1>4. UNCHANGED <<Written, Recorded>>
    BY DEF DatabaseError, Written, Recorded, tables
  <1>5. Trail!Lose(s)
    BY <1>2, <1>3, <1>4 DEF Trail!Lose, Owed
  <1> QED
    BY <1>5 DEF Trail!Next

LEMMA CrashOnTrail ==
    ASSUME Crash
    PROVE  Trail!Next
  <1>1. Owed' = [t \in Slot |-> {}]
    BY DEF Crash, Owed, Unaudited, UnauditedCalls
  <1>2. lost' = lost \cup UNION {Owed[s] : s \in Slot}
    BY DEF Crash, Owed
  <1>3. UNCHANGED <<Written, Recorded>>
    BY DEF Crash, Written, Recorded, tables
  <1>4. Trail!Crash
    BY <1>1, <1>2, <1>3 DEF Trail!Crash, Owed
  <1> QED
    BY <1>4 DEF Trail!Next

\* Every step of the service is a step of the audit trail or leaves it alone.
LEMMA TrailStep ==
    ASSUME Typed, [Next]_vars
    PROVE  TrailUnchanged \/ Trail!Next
  <1>1. ASSUME NEW s \in Slot, HandlerStep(s)
        PROVE  TrailUnchanged \/ Trail!Next
    BY <1>1, CallsThatWriteNothing, CreateOnTrail, UpdateOnTrail, AuditOnTrail DEF HandlerStep
  <1>2. ASSUME NEW s \in Slot, Fault(s)
        PROVE  Trail!Next
    BY <1>2, DatabaseErrorOnTrail, CreateUnacknowledgedOnTrail, UpdateUnacknowledgedOnTrail,
       AuditOnTrail DEF Fault
  <1>3. CASE (\E a \in Area : AreaStep(a)) \/ (\E r \in RunId : RunStep(r)) \/ UNCHANGED vars
    BY <1>3 DEF AreaStep, RunStep, vars, tables, slots, registers, history, TrailUnchanged,
       Written, Recorded, Owed, Unaudited, WroteVersion
  <1> QED
    BY <1>1, <1>2, <1>3, CallsThatWriteNothing, CrashOnTrail DEF Next

LEMMA TrailInit == Init => Trail!Init
  BY DEF Init, Trail!Init, Written, Recorded, Unaudited, UnauditedCalls

\* The writes of the service and their audit events are an audit trail.
THEOREM TrailRefinement == Spec => ImplementsAuditTrail
  <1>1. Typed /\ [Next]_vars => [Trail!Next]_(Trail!vars)
    BY TrailStep DEF TrailUnchanged, Trail!vars, Owed
  <1> QED
    BY <1>1, InitTyped, NextTyped, TrailInit, PTL DEF Spec, ImplementsAuditTrail, Trail!Spec

\* One write has one audit event.
UniqueEvents == \A e, f \in audits : e.id = f.id /\ e.wrote = f.wrote => e = f

LEMMA UniqueEventsKept ==
    ASSUME UniqueEvents, Trail!Ledger, [Next]_vars
    PROVE  UniqueEvents'
  <1>1. CASE audits' = audits
    BY <1>1 DEF UniqueEvents
  <1>2. ASSUME NEW s \in Slot, pc[s] \in {"detect.audit", "transition.audit"},
               NEW note, RecordAudit(s, note)
        PROVE  UniqueEvents'
    <2>1. <<subject[s], WroteVersion(s)>> \in Unaudited(s)
      BY <1>2 DEF Unaudited, UnauditedCalls
    <2>2. <<subject[s], WroteVersion(s)>> \notin Recorded
      BY <2>1 DEF Trail!Ledger, Trail!Pending
    <2>3. \A e \in audits : ~(e.id = subject[s] /\ e.wrote = WroteVersion(s))
      BY <2>2 DEF Recorded
    <2> QED
      BY <1>2, <2>3 DEF RecordAudit, UniqueEvents
  <1> QED
    BY <1>1, <1>2, EventsStep

\* Each write is recorded once, or pending, or lost.
THEOREM AuditLedgerHolds == Spec => []AuditLedger
  <1>1. Init => UniqueEvents /\ Trail!Ledger
    BY TrailInit, Trail!InitLedger DEF Init, UniqueEvents
  <1>2. Typed /\ UniqueEvents /\ Trail!Ledger /\ [Next]_vars => UniqueEvents' /\ Trail!Ledger'
    <2>1. Typed /\ [Next]_vars => [Trail!Next]_(Trail!vars)
      BY TrailStep DEF TrailUnchanged, Trail!vars, Owed
    <2> QED
      BY <2>1, Trail!NextLedger, UniqueEventsKept
  <1>3. UniqueEvents /\ Trail!Ledger => AuditLedger
    BY DEF UniqueEvents, Trail!Ledger, Trail!Pending, AuditLedger, Pending
  <1> QED
    BY <1>1, <1>2, <1>3, InitTyped, NextTyped, PTL DEF Spec

-----------------------------------------------------------------------------
(* The snapshots of the audit events *)

LEMMA ExtendsTransitive ==
    ASSUME NEW a \in Seq(Note), NEW b \in Seq(Note), NEW c \in Seq(Note),
           Extends(c, b), Extends(b, a)
    PROVE  Extends(c, a)
  BY DEF Extends

LEMMA PrefixOfExtension ==
    ASSUME NEW long \in Seq(Note), NEW short \in Seq(Note), Extends(long, short)
    PROVE  SubSeq(long, 1, Len(short)) = short
  <1> DEFINE n == Len(short)
             prefix == SubSeq(long, 1, n)
  <1>1. n \in Nat /\ n <= Len(long) /\ \A i \in 1..n : long[i] = short[i]
    BY DEF Extends
  <1>2. \A i \in 1..n : long[i] \in Note
    BY <1>1
  <1>3. /\ prefix \in Seq(Note)
        /\ Len(prefix) = IF 1 <= n THEN n - 1 + 1 ELSE 0
        /\ \A i \in 1..(n - 1 + 1) : prefix[i] = long[1 + i - 1]
    BY <1>1, <1>2, SubSeqProperties
  <1>4. Len(prefix) = n
    BY <1>1, <1>3
  <1>5. \A i \in 1..n : prefix[i] = short[i]
    BY <1>1, <1>3
  <1> HIDE DEF prefix
  <1>6. prefix = short
    BY <1>3, <1>4, <1>5, SeqEqual
  <1> QED
    BY <1>6 DEF prefix

\* The notes as the update of slot s has left them.
Noting(s) == Append(before[s].notes, request[s].note)

LEMMA NotingType ==
    ASSUME Typed, NEW s \in Slot, pc[s] \in TransitionCalls
    PROVE  /\ Noting(s) \in Seq(Note)
           /\ Len(Noting(s)) = Len(before[s].notes) + 1
           /\ before[s].notes \in Seq(Note)
  <1>1. before[s] \in Snapshot /\ request[s] \in ReviewRequest
    BY DEF Typed, TypeOK, RequestKinds
  <1>2. before[s].notes \in Seq(Note) /\ request[s].note \in Note
    BY <1>1 DEF Snapshot, ReviewRequest, Note
  <1> QED
    BY <1>2, AppendProperties DEF Noting

\* Before its update a slot has read no row, or a row with all its notes.
RowRead(s) ==
    /\ pc[s] \in {"idle"} \cup DetectCalls => before[s] = NoSnapshot
    /\ pc[s] = "transition.update" => Len(before[s].notes) = before[s].version - 1

\* After its write a slot holds what the write has found and left.
WriteHeld(s) ==
    /\ pc[s] \in {"transition.get_updated", "transition.audit"} =>
           /\ before[s].version = request[s].expected
           /\ Len(before[s].notes) = before[s].version - 1
           /\ Extends(gaps[subject[s]].notes, Noting(s))
    /\ pc[s] = "transition.audit" => Extends(after[s].notes, Noting(s))

Faithful(s) == RowRead(s) /\ WriteHeld(s)

Told == Checked /\ \A s \in Slot : Faithful(s)

\* What other handlers do to the table takes nothing of this away.
LEMMA RegistersKept ==
    ASSUME Told, [Next]_vars, NEW t \in Slot,
           UNCHANGED <<pc[t], request[t], subject[t], before[t], after[t]>>
    PROVE  Faithful(t)'
  <1>1. Faithful(t) /\ Checked /\ Typed
    BY DEF Told, Checked
  <1>2. Noting(t)' = Noting(t)
    BY DEF Noting
  <1>3. ASSUME pc[t] \in {"transition.get_updated", "transition.audit"}
        PROVE  Extends(gaps'[subject[t]].notes, Noting(t))
    <2>1. subject[t] \in DOMAIN gaps
      BY <1>1, <1>3 DEF Typed, SubjectExists
    <2>2. /\ gaps[subject[t]].notes \in Seq(Note)
          /\ gaps'[subject[t]].notes \in Seq(Note)
          /\ Extends(gaps'[subject[t]].notes, gaps[subject[t]].notes)
      BY <1>1, <2>1, RowsGrow DEF Typed, TypeOK, Gap, Note
    <2>3. Noting(t) \in Seq(Note)
      BY <1>1, <1>3, NotingType DEF TransitionCalls
    <2>4. Extends(gaps[subject[t]].notes, Noting(t))
      BY <1>1, <1>3 DEF Faithful, WriteHeld
    <2> QED
      BY <2>2, <2>3, <2>4, ExtendsTransitive
  <1>4. Extends(after[t].notes, Noting(t))' <=> Extends(after[t].notes, Noting(t))
    BY <1>2 DEF Extends
  <1>5. Extends(gaps[subject[t]].notes, Noting(t))'
            <=> Extends(gaps'[subject[t]].notes, Noting(t))
    BY <1>2 DEF Extends
  <1> QED
    BY <1>1, <1>3, <1>4, <1>5 DEF Faithful, RowRead, WriteHeld

LEMMA EndedFaithful ==
    ASSUME NEW t \in Slot, pc'[t] = "replied" \/ (pc'[t] = "idle" /\ before'[t] = NoSnapshot)
    PROVE  Faithful(t)'
  BY DEF Faithful, RowRead, WriteHeld, DetectCalls

LEMMA DetectStepsFaithful ==
    ASSUME Told, NEW s \in Slot,
           \/ Submit(s) \/ DetectGetArea(s) \/ DetectRunsByIDs(s) \/ DetectByInputHash(s)
           \/ DetectCreate(s)
    PROVE  Faithful(s)'
  <1> DEFINE Early == {"idle"} \cup DetectCalls
  <1>1. Faithful(s) /\ s \in DOMAIN pc
    BY DEF Told, Checked, Typed, TypeOK
  <1>2. pc[s] \in Early /\ before' = before
    BY DEF Submit, SubmitDetect, SubmitTransition, DetectGetArea, DetectRunsByIDs,
       DetectByInputHash, DetectCreate, DetectCalls, registers
  <1>3. \E call \in Early \cup {"replied", "transition.get"} : pc' = [pc EXCEPT ![s] = call]
    BY DEF Submit, SubmitDetect, SubmitTransition, DetectGetArea, DetectRunsByIDs,
       DetectByInputHash, DetectCreate, Answer, Proceed, DetectCalls
  <1>4. pc'[s] \in Early \cup {"replied", "transition.get"}
    BY <1>1, <1>3
  <1> QED
    BY <1>1, <1>2, <1>4 DEF Faithful, RowRead, WriteHeld, DetectCalls

LEMMA TransitionGetFaithful ==
    ASSUME Told, NEW s \in Slot, TransitionGet(s)
    PROVE  Faithful(s)'
  <1> USE DEF Told, Checked, Typed, TypeOK
  <1>1. CASE pc'[s] = "replied"
    BY <1>1, EndedFaithful
  <1>2. CASE /\ subject[s] \in DOMAIN gaps
             /\ before' = [before EXCEPT ![s] = SnapshotOf(gaps[subject[s]])]
             /\ Proceed(s, "transition.update")
    <2>1. pc'[s] = "transition.update" /\ before'[s] = SnapshotOf(gaps[subject[s]])
      BY <1>2 DEF Proceed
    <2>2. Len(gaps[subject[s]].notes) = gaps[subject[s]].version - 1
      BY <1>2 DEF GapsStaged, Staged
    <2> QED
      BY <2>1, <2>2 DEF Faithful, RowRead, WriteHeld, SnapshotOf, DetectCalls
  <1> QED
    BY <1>1, <1>2 DEF TransitionGet, Answer

LEMMA TransitionUpdateFaithful ==
    ASSUME Told, NEW s \in Slot, TransitionUpdate(s)
    PROVE  Faithful(s)'
  <1> USE DEF Told, Checked, Typed, TypeOK
  <1>1. CASE pc'[s] = "replied"
    BY <1>1, EndedFaithful
  <1>2. CASE UpdateGap(s) /\ Proceed(s, "transition.get_updated")
    <2>1. /\ pc[s] = "transition.update" /\ pc'[s] = "transition.get_updated"
          /\ UNCHANGED <<request, subject, before>>
      BY <1>2 DEF TransitionUpdate, Proceed, registers
    <2>2. /\ NewNotes(s) \in Seq(Note)
          /\ Len(NewNotes(s)) = request[s].expected
      BY <1>2, <2>1, UpdateAppends
    <2>3. NewNotes(s) = Noting(s)
      BY DEF NewNotes, Noting
    <2>4. /\ Len(Noting(s)) = Len(before[s].notes) + 1
          /\ before[s].notes \in Seq(Note)
      BY <2>1, NotingType DEF TransitionCalls
    <2>5. Len(before[s].notes) = before[s].version - 1 /\ before[s].version \in Nat
      BY <2>1 DEF Faithful, RowRead, Snapshot
    <2>6. before[s].version = request[s].expected
      BY <2>2, <2>3, <2>4, <2>5
    <2>7. gaps'[subject[s]].notes = Noting(s)
      <3>1. gaps'[subject[s]] = Moved(gaps[subject[s]], request[s].target, NewNotes(s))
        BY <1>2, <2>1, UpdateEffect
      <3> QED
        BY <2>3, <3>1 DEF Moved
    <2>8. Noting(s)' = Noting(s)
      BY <2>1 DEF Noting
    <2>9. Extends(gaps[subject[s]].notes, Noting(s))'
      BY <2>1, <2>2, <2>3, <2>7, <2>8 DEF Extends
    <2> QED
      BY <2>1, <2>5, <2>6, <2>9 DEF Faithful, RowRead, WriteHeld, DetectCalls
  <1> QED
    BY <1>1, <1>2 DEF TransitionUpdate, Answer

LEMMA TransitionGetUpdatedFaithful ==
    ASSUME Told, NEW s \in Slot, TransitionGetUpdated(s)
    PROVE  Faithful(s)'
  <1> USE DEF Told, Checked, Typed, TypeOK
  <1>1. /\ pc[s] = "transition.get_updated" /\ pc'[s] = "transition.audit"
        /\ after'[s] = SnapshotOf(gaps[subject[s]])
        /\ UNCHANGED <<gaps, request, subject, before>>
    BY DEF TransitionGetUpdated, Proceed, tables
  <1>2. WriteHeld(s)
    BY DEF Faithful
  <1>3. Noting(s)' = Noting(s)
    BY <1>1 DEF Noting
  <1>4. /\ Extends(gaps[subject[s]].notes, Noting(s))'
        /\ Extends(after[s].notes, Noting(s))'
    BY <1>1, <1>2, <1>3 DEF WriteHeld, Extends, SnapshotOf
  <1> QED
    BY <1>1, <1>2, <1>4 DEF Faithful, RowRead, WriteHeld, DetectCalls

LEMMA FaithfulNext ==
    ASSUME Told, [Next]_vars, NEW t \in Slot
    PROVE  Faithful(t)'
  <1> USE DEF Told, Checked
  <1>1. ASSUME NEW s \in Slot, Submit(s) \/ Collect(s) \/ HandlerStep(s) \/ Fault(s)
        PROVE  Faithful(t)'
    <2>1. CASE t # s
      BY <1>1, <2>1, OtherSlots, RegistersKept
    <2>2. CASE t = s
      <3>1. CASE Collect(s) \/ Fault(s) \/ DetectAudit(s) \/ TransitionAudit(s)
        <4>1. Collect(s) \/ \E code : Answer(s, code)
          BY <3>1 DEF Fault, DatabaseError, CreateUnacknowledged, UpdateUnacknowledged,
             AuditUnacknowledged, DetectAudit, TransitionAudit
        <4>2. pc'[s] = "replied" \/ (pc'[s] = "idle" /\ before'[s] = NoSnapshot)
          BY <4>1 DEF Collect, Answer, Typed, TypeOK
        <4> QED
          BY <2>2, <4>2, EndedFaithful
      <3> QED
        BY <1>1, <2>2, <3>1, DetectStepsFaithful, TransitionGetFaithful,
           TransitionUpdateFaithful, TransitionGetUpdatedFaithful DEF HandlerStep
    <2> QED
      BY <2>1, <2>2
  <1>2. CASE (\E a \in Area : AreaStep(a)) \/ (\E r \in RunId : RunStep(r)) \/ UNCHANGED vars
    BY <1>2, RegistersKept DEF AreaStep, RunStep, vars, slots, registers
  <1>3. CASE Crash
    BY <1>3, EndedFaithful DEF Crash
  <1> QED
    BY <1>1, <1>2, <1>3 DEF Next

LEMMA ToldInit == Init => Told
  BY CheckedInit DEF Init, Told, Faithful, RowRead, WriteHeld

LEMMA ToldNext ==
    ASSUME Told, [Next]_vars
    PROVE  Told'
  BY CheckedNext, FaithfulNext DEF Told

\* The snapshots of one event.
SnapshotsFit(event) ==
    /\ event.before.version = event.wrote - 1
    /\ event.wrote > 1 =>
           /\ Len(event.after.notes) >= Len(event.before.notes) + 1
           /\ SubSeq(event.after.notes, 1, event.wrote - 1)
                  = Append(event.before.notes, event.note)

LEMMA NewEventFits ==
    ASSUME Told, [Next]_vars, NEW event \in audits', event \notin audits
    PROVE  SnapshotsFit(event)
  <1> USE DEF Told, Checked
  <1>1. ASSUME NEW s \in Slot, pc[s] = "detect.audit", RecordAudit(s, 0)
        PROVE  SnapshotsFit(event)
    <2>1. event.before = before[s] /\ event.wrote = 1
      BY <1>1 DEF RecordAudit, WroteVersion
    <2>2. before[s] = NoSnapshot
      BY <1>1 DEF Faithful, RowRead, DetectCalls
    <2> QED
      BY <2>1, <2>2 DEF NoSnapshot, SnapshotsFit
  <1>2. ASSUME NEW s \in Slot, pc[s] = "transition.audit", RecordAudit(s, request[s].note)
        PROVE  SnapshotsFit(event)
    <2>1. /\ event.before = before[s] /\ event.after = after[s]
          /\ event.wrote = request[s].expected + 1 /\ event.note = request[s].note
      BY <1>2 DEF RecordAudit, WroteVersion
    <2>2. /\ before[s].version = request[s].expected
          /\ Len(before[s].notes) = before[s].version - 1
          /\ Extends(after[s].notes, Noting(s))
      BY <1>2 DEF Faithful, WriteHeld
    <2>3. /\ Noting(s) \in Seq(Note) /\ Len(Noting(s)) = Len(before[s].notes) + 1
          /\ before[s].notes \in Seq(Note)
      BY <1>2, NotingType DEF TransitionCalls
    <2>4. after[s].notes \in Seq(Note) /\ request[s].expected \in Nat
      BY <1>2 DEF Typed, TypeOK, RequestKinds, TransitionCalls, ReviewRequest, Snapshot, Note
    <2>5. SubSeq(after[s].notes, 1, Len(Noting(s))) = Noting(s)
      BY <2>2, <2>3, <2>4, PrefixOfExtension
    <2>6. Len(Noting(s)) = event.wrote - 1 /\ event.before.version = event.wrote - 1
      BY <2>1, <2>2, <2>3, <2>4
    <2>7. Len(after[s].notes) >= Len(before[s].notes) + 1
      BY <2>2, <2>3, <2>4 DEF Extends
    <2> QED
      BY <2>1, <2>5, <2>6, <2>7 DEF SnapshotsFit, Noting
  <1> QED
    BY <1>1, <1>2, EventsStep

\* An audit event holds the row as its update found it, and the note.
THEOREM AuditSnapshotsHold == Spec => []AuditSnapshots
  <1>1. Init => AuditSnapshots
    BY DEF Init, AuditSnapshots
  <1>2. Told /\ AuditSnapshots /\ [Next]_vars => AuditSnapshots'
    <2> SUFFICES ASSUME Told, AuditSnapshots, [Next]_vars
                 PROVE  AuditSnapshots'
      OBVIOUS
    <2>1. \A event \in audits' : SnapshotsFit(event)
      BY NewEventFits DEF AuditSnapshots, SnapshotsFit
    <2> QED
      BY <2>1 DEF SnapshotsFit, AuditSnapshots
  <1> QED
    BY <1>1, <1>2, ToldInit, ToldNext, PTL DEF Spec
=============================================================================

----------------------- MODULE SonarRunService_proofs -----------------------
(* Theorems about SonarRunService, for every value of its constants. *)
EXTENDS SonarRunService, TLAPS

\* The request of a busy slot is of the kind that its handler serves.
RequestKinds ==
    \A s \in Slot :
        /\ pc[s] \in ImportCalls => request[s] \in ImportInput
        /\ pc[s] \in TransitionCalls => /\ request[s] \in TransitionRequest
                                        /\ subject[s] = request[s].id

\* A slot past its read or its insert works on a row of the table.
SubjectExists ==
    \A s \in Slot :
        pc[s] \in {"import.audit", "import.get", "transition.update",
                   "transition.get_updated", "transition.audit"}
            => subject[s] \in DOMAIN runs

Typed == TypeOK /\ RequestKinds /\ SubjectExists

LEMMA SeedRunType == SeedRun \in Run
  BY SeedAssumption DEF SeedRun, Run, RunStates, NavigationQualities

\* At the start the table is empty or holds the seeded run.
LEMMA InitRows ==
    ASSUME Init
    PROVE  /\ plans \in [Plan -> {"absent", "draft", "locked"}]
           /\ DOMAIN runs \subseteq RunId
           /\ \A id \in DOMAIN runs : runs[id] = SeedRun
           /\ \A i, j \in DOMAIN runs : i = j
  BY DEF Init, SeededTables

LEMMA InitTyped == Init => Typed
  <1> SUFFICES ASSUME Init PROVE Typed
    OBVIOUS
  <1>1. /\ plans \in [Plan -> {"absent", "draft", "locked"}]
        /\ DOMAIN runs \subseteq RunId
        /\ \A id \in DOMAIN runs : runs[id] \in Run
    BY InitRows, SeedRunType
  <1> QED
    BY <1>1 DEF Init, Typed, TypeOK, RequestKinds, SubjectExists, ImportCalls,
                TransitionCalls, Snapshot, NoSnapshot, Replies

\* What the audit event of a slot past its write is made of.
LEMMA AuditEventType ==
    ASSUME Typed, NEW s \in Slot, pc[s] \in {"import.audit", "transition.audit"}
    PROVE  [id |-> subject[s], wrote |-> WroteVersion(s),
            before |-> before[s], after |-> after[s]] \in AuditEvent
  <1>1. subject[s] \in RunId
    BY DEF Typed, TypeOK, SubjectExists
  <1>2. WroteVersion(s) \in Nat
    BY DEF Typed, RequestKinds, TransitionCalls, TransitionRequest, WroteVersion
  <1>3. before[s] \in Snapshot /\ after[s] \in Snapshot
    BY DEF Typed, TypeOK
  <1> QED
    BY <1>1, <1>2, <1>3 DEF AuditEvent

\* A successful UPDATE gives one row its new state and version and leaves
\* the other rows and columns alone.
LEMMA UpdateEffect ==
    ASSUME Typed, NEW s \in Slot, pc[s] = "transition.update", UpdateRun(s)
    PROVE  /\ DOMAIN runs' = DOMAIN runs
           /\ \A id \in DOMAIN runs : id # subject[s] => runs'[id] = runs[id]
           /\ runs[subject[s]] \in Run
           /\ runs'[subject[s]] = Moved(runs[subject[s]], request[s].target)
           /\ runs'[subject[s]] \in Run
  <1>1. subject[s] \in DOMAIN runs /\ request[s].target \in RunStates
    BY DEF Typed, RequestKinds, SubjectExists, TransitionCalls, TransitionRequest
  <1>2. runs[subject[s]] \in Run
    BY <1>1 DEF Typed, TypeOK
  <1>3. runs'[subject[s]] = Moved(runs[subject[s]], request[s].target)
    BY <1>1 DEF UpdateRun
  <1>4. runs'[subject[s]] \in Run
    BY <1>1, <1>2, <1>3 DEF Run, Moved
  <1> QED
    BY <1>1, <1>2, <1>3, <1>4 DEF UpdateRun

\* A successful INSERT adds one row and leaves the others alone.
LEMMA InsertEffect ==
    ASSUME Typed, NEW s \in Slot, pc[s] = "import.create",
           NEW id \in RunId, InsertRun(s, id)
    PROVE  /\ id \notin DOMAIN runs
           /\ DOMAIN runs' = DOMAIN runs \cup {id}
           /\ \A i \in DOMAIN runs : runs'[i] = runs[i]
           /\ runs'[id] = NewRun(request[s])
           /\ runs'[id] \in Run
           /\ request[s].source # SeedSource
  <1>1. request[s] \in ImportRequest /\ request[s].source # SeedSource
    BY InputsAssumption, SeedAssumption DEF Typed, RequestKinds, ImportCalls
  <1>2. NewRun(request[s]) \in Run
    BY <1>1 DEF NewRun, Run, ImportRequest, RunStates
  <1> QED
    BY <1>1, <1>2 DEF InsertRun

-----------------------------------------------------------------------------
(* Every action keeps the types. *)

LEMMA SubmitTyped ==
    ASSUME Typed, NEW s \in Slot, Submit(s)
    PROVE  Typed'
  <1> USE DEF Typed, TypeOK, RequestKinds, SubjectExists, ImportCalls, TransitionCalls, Replies,
     tables, history
  <1>1. TypeOK'
    BY InputsAssumption DEF Submit, SubmitImport, SubmitTransition, TransitionRequest
  <1>2. RequestKinds'
    BY InputsAssumption DEF Submit, SubmitImport, SubmitTransition, TransitionRequest
  <1>3. SubjectExists'
    BY InputsAssumption DEF Submit, SubmitImport, SubmitTransition, TransitionRequest
  <1> QED
    BY <1>1, <1>2, <1>3

LEMMA CollectTyped ==
    ASSUME Typed, NEW s \in Slot, Collect(s)
    PROVE  Typed'
  <1> USE DEF Typed, TypeOK, RequestKinds, SubjectExists, ImportCalls, TransitionCalls, Replies,
     tables, history
  <1>1. TypeOK'
    BY DEF Collect, Snapshot, NoSnapshot
  <1>2. RequestKinds'
    BY DEF Collect, Snapshot, NoSnapshot
  <1>3. SubjectExists'
    BY DEF Collect, Snapshot, NoSnapshot
  <1> QED
    BY <1>1, <1>2, <1>3

LEMMA ImportGetPlanTyped ==
    ASSUME Typed, NEW s \in Slot, ImportGetPlan(s)
    PROVE  Typed'
  <1> USE DEF Typed, TypeOK, RequestKinds, SubjectExists, ImportCalls, TransitionCalls, Replies,
     tables, history
  <1>1. TypeOK'
    BY DEF ImportGetPlan, ImportError, Answer, Proceed
  <1>2. RequestKinds'
    BY DEF ImportGetPlan, ImportError, Answer, Proceed
  <1>3. SubjectExists'
    BY DEF ImportGetPlan, ImportError, Answer, Proceed
  <1> QED
    BY <1>1, <1>2, <1>3

LEMMA ImportByChecksumTyped ==
    ASSUME Typed, NEW s \in Slot, ImportByChecksum(s)
    PROVE  Typed'
  <1> USE DEF Typed, TypeOK, RequestKinds, SubjectExists, ImportCalls, TransitionCalls, Replies,
     tables, history
  <1>1. TypeOK'
    BY InputsAssumption
       DEF ImportByChecksum, SameChecksum, Checksum, ImportRequest, Answer, Proceed
  <1>2. RequestKinds'
    BY InputsAssumption
       DEF ImportByChecksum, SameChecksum, Checksum, ImportRequest, Answer, Proceed
  <1>3. SubjectExists'
    BY InputsAssumption
       DEF ImportByChecksum, SameChecksum, Checksum, ImportRequest, Answer, Proceed
  <1> QED
    BY <1>1, <1>2, <1>3

LEMMA TransitionErrorType == \A move : TransitionError(move) \in Replies
  BY DEF TransitionError, Replies

LEMMA TransitionGetTyped ==
    ASSUME Typed, NEW s \in Slot, TransitionGet(s)
    PROVE  Typed'
  <1> USE DEF Typed, TypeOK, RequestKinds, SubjectExists, ImportCalls, TransitionCalls, tables,
     history
  <1>1. TransitionError(request[s]) \in Replies /\ "NOT_FOUND" \in Replies
    BY TransitionErrorType DEF Replies
  <1>2. subject[s] \in DOMAIN runs => SnapshotOf(subject[s]) \in Snapshot
    BY DEF SnapshotOf, Snapshot, Run
  <1>3. TypeOK'
    BY <1>1, <1>2 DEF TransitionGet, Answer, Proceed
  <1>4. RequestKinds'
    BY DEF TransitionGet, Answer, Proceed
  <1>5. SubjectExists'
    BY DEF TransitionGet, Answer, Proceed
  <1> QED
    BY <1>3, <1>4, <1>5

LEMMA TransitionGetUpdatedTyped ==
    ASSUME Typed, NEW s \in Slot, TransitionGetUpdated(s)
    PROVE  Typed'
  <1> USE DEF Typed, TypeOK, RequestKinds, SubjectExists, ImportCalls, TransitionCalls, Replies,
     tables, history
  <1>1. TypeOK'
    BY DEF TransitionGetUpdated, SnapshotOf, Snapshot, Run, Proceed
  <1>2. RequestKinds'
    BY DEF TransitionGetUpdated, SnapshotOf, Snapshot, Run, Proceed
  <1>3. SubjectExists'
    BY DEF TransitionGetUpdated, SnapshotOf, Snapshot, Run, Proceed
  <1> QED
    BY <1>1, <1>2, <1>3

LEMMA ImportGetTyped ==
    ASSUME Typed, NEW s \in Slot, ImportGet(s)
    PROVE  Typed'
  <1> USE DEF Typed, TypeOK, RequestKinds, SubjectExists, ImportCalls, TransitionCalls, Replies,
     tables, history
  <1>1. TypeOK'
    BY InputsAssumption DEF ImportGet, Checksum, ImportRequest, Answer
  <1>2. RequestKinds'
    BY InputsAssumption DEF ImportGet, Checksum, ImportRequest, Answer
  <1>3. SubjectExists'
    BY InputsAssumption DEF ImportGet, Checksum, ImportRequest, Answer
  <1> QED
    BY <1>1, <1>2, <1>3

\* InsertRun, the other variables and the registers of slot s being typed,
\* keeps the types; ImportCreate and CreateUnacknowledged share this.
LEMMA InsertTyped ==
    ASSUME Typed, NEW s \in Slot, pc[s] = "import.create",
           NEW id \in RunId, InsertRun(s, id)
    PROVE  /\ DOMAIN runs' \subseteq RunId
           /\ \A i \in DOMAIN runs' : runs'[i] \in Run
           /\ subject' \in [Slot -> RunId \cup {NoRun}]
           /\ subject'[s] \in DOMAIN runs'
           /\ \A t \in Slot \ {s} : subject'[t] = subject[t]
           /\ DOMAIN runs \subseteq DOMAIN runs'
  <1>1. /\ DOMAIN runs' = DOMAIN runs \cup {id}
        /\ \A i \in DOMAIN runs : runs'[i] = runs[i]
        /\ runs'[id] \in Run
    BY InsertEffect
  <1>2. /\ DOMAIN runs \subseteq RunId
        /\ \A i \in DOMAIN runs : runs[i] \in Run
        /\ subject \in [Slot -> RunId \cup {NoRun}]
    BY DEF Typed, TypeOK
  <1>3. subject' = [subject EXCEPT ![s] = id]
    BY DEF InsertRun
  <1> QED
    BY <1>1, <1>2, <1>3

LEMMA ImportCreateTyped ==
    ASSUME Typed, NEW s \in Slot, ImportCreate(s)
    PROVE  Typed'
  <1> USE DEF Typed, TypeOK, RequestKinds, SubjectExists, ImportCalls, TransitionCalls, history
  <1>1. CASE ViolatesUniqueIndex(request[s]) /\ Answer(s, "DUPLICATE_RESOURCE")
             /\ UNCHANGED <<runs, subject, after>>
    BY <1>1 DEF ImportCreate, Answer, Replies
  <1>2. ASSUME NEW id \in RunId, InsertRun(s, id), Proceed(s, "import.audit"),
               after' = [after EXCEPT ![s] = [state |-> "imported", version |-> 1]]
        PROVE  Typed'
    <2>1. [state |-> "imported", version |-> 1] \in Snapshot
      BY DEF Snapshot, RunStates
    <2>2. TypeOK'
      BY <1>2, <2>1, InsertTyped DEF ImportCreate, Proceed
    <2>3. RequestKinds'
      BY <1>2, InsertTyped DEF ImportCreate, Proceed
    <2>4. SubjectExists'
      BY <1>2, InsertTyped DEF ImportCreate, Proceed
    <2> QED
      BY <2>2, <2>3, <2>4
  <1> QED
    BY <1>1, <1>2 DEF ImportCreate

LEMMA CreateUnacknowledgedTyped ==
    ASSUME Typed, NEW s \in Slot, CreateUnacknowledged(s)
    PROVE  Typed'
  <1> USE DEF Typed, TypeOK, RequestKinds, SubjectExists, ImportCalls, TransitionCalls
  <1>1. PICK id \in RunId : InsertRun(s, id) /\ lost' = lost \cup {<<id, 1>>}
    BY DEF CreateUnacknowledged
  <1>2. TypeOK'
    BY <1>1, InsertTyped DEF CreateUnacknowledged, Answer, Replies
  <1>3. RequestKinds'
    BY <1>1, InsertTyped DEF CreateUnacknowledged, Answer
  <1>4. SubjectExists'
    BY <1>1, InsertTyped DEF CreateUnacknowledged, Answer
  <1> QED
    BY <1>2, <1>3, <1>4

LEMMA TransitionUpdateTyped ==
    ASSUME Typed, NEW s \in Slot, TransitionUpdate(s)
    PROVE  Typed'
  <1> USE DEF Typed, TypeOK, RequestKinds, SubjectExists, ImportCalls, TransitionCalls, history
  <1>1. CASE Answer(s, "VERSION_CONFLICT") /\ UNCHANGED runs
    BY <1>1 DEF TransitionUpdate, Answer, Replies
  <1>2. CASE UpdateRun(s) /\ Proceed(s, "transition.get_updated")
    <2>1. /\ DOMAIN runs' = DOMAIN runs
          /\ \A id \in DOMAIN runs : runs'[id] \in Run
      BY <1>2, UpdateEffect DEF TransitionUpdate
    <2> QED
      BY <1>2, <2>1 DEF TransitionUpdate, Proceed
  <1> QED
    BY <1>1, <1>2 DEF TransitionUpdate

LEMMA UpdateUnacknowledgedTyped ==
    ASSUME Typed, NEW s \in Slot, UpdateUnacknowledged(s)
    PROVE  Typed'
  <1> USE DEF Typed, TypeOK, RequestKinds, SubjectExists, ImportCalls, TransitionCalls
  <1>1. /\ DOMAIN runs' = DOMAIN runs
        /\ \A id \in DOMAIN runs : runs'[id] \in Run
    BY UpdateEffect DEF UpdateUnacknowledged
  <1>2. <<subject[s], WroteVersion(s)>> \in RunId \X Nat
    BY DEF UpdateUnacknowledged, WroteVersion, TransitionRequest
  <1> QED
    BY <1>1, <1>2 DEF UpdateUnacknowledged, Answer, Replies

LEMMA RecordAuditTyped ==
    ASSUME Typed, NEW s \in Slot, RecordAudit(s),
           pc[s] \in {"import.audit", "transition.audit"}
    PROVE  audits' \subseteq AuditEvent
  BY AuditEventType DEF RecordAudit, Typed, TypeOK

LEMMA AuditStepsTyped ==
    ASSUME Typed, NEW s \in Slot,
           ImportAudit(s) \/ TransitionAudit(s) \/ AuditUnacknowledged(s)
    PROVE  Typed'
  <1> USE DEF Typed, TypeOK, RequestKinds, SubjectExists, ImportCalls, TransitionCalls, history
  <1>1. audits' \subseteq AuditEvent
    BY RecordAuditTyped DEF ImportAudit, TransitionAudit, AuditUnacknowledged
  <1>2. TypeOK'
    BY <1>1 DEF ImportAudit, TransitionAudit, AuditUnacknowledged, Answer, Proceed, Replies
  <1>3. RequestKinds'
    BY DEF ImportAudit, TransitionAudit, AuditUnacknowledged, Answer, Proceed
  <1>4. SubjectExists'
    BY DEF ImportAudit, TransitionAudit, AuditUnacknowledged, Answer, Proceed
  <1> QED
    BY <1>2, <1>3, <1>4

LEMMA UnauditedType ==
    ASSUME Typed, NEW s \in Slot
    PROVE  Unaudited(s) \subseteq RunId \X Nat
  <1>1. CASE pc[s] \in UnauditedCalls
    <2>1. subject[s] \in RunId
      BY <1>1 DEF Typed, TypeOK, SubjectExists, UnauditedCalls
    <2>2. WroteVersion(s) \in Nat
      BY <1>1 DEF Typed, RequestKinds, TransitionCalls, TransitionRequest, WroteVersion,
                  UnauditedCalls
    <2> QED
      BY <1>1, <2>1, <2>2 DEF Unaudited
  <1>2. CASE pc[s] \notin UnauditedCalls
    BY <1>2 DEF Unaudited
  <1> QED
    BY <1>1, <1>2

LEMMA DatabaseErrorTyped ==
    ASSUME Typed, NEW s \in Slot, DatabaseError(s)
    PROVE  Typed'
  <1>1. lost' \subseteq RunId \X Nat
    BY UnauditedType DEF DatabaseError, Typed, TypeOK
  <1> QED
    BY <1>1 DEF DatabaseError, Typed, TypeOK, RequestKinds, SubjectExists, ImportCalls,
                TransitionCalls, tables, Answer, Replies

LEMMA CrashTyped ==
    ASSUME Typed, Crash
    PROVE  Typed'
  <1>1. lost' \subseteq RunId \X Nat
    BY UnauditedType DEF Crash, Typed, TypeOK
  <1> QED
    BY <1>1 DEF Crash, Typed, TypeOK, RequestKinds, SubjectExists, ImportCalls,
                TransitionCalls, tables, Replies, Snapshot, NoSnapshot

LEMMA PlanStepTyped ==
    ASSUME Typed, NEW p \in Plan, PlanStep(p)
    PROVE  Typed'
  BY DEF PlanStep, Typed, TypeOK, RequestKinds, SubjectExists, slots, history

LEMMA StutterTyped ==
    ASSUME Typed, UNCHANGED vars
    PROVE  Typed'
  BY DEF Typed, TypeOK, RequestKinds, SubjectExists, vars, tables, slots, history

LEMMA NextTyped ==
    ASSUME Typed, [Next]_vars
    PROVE  Typed'
  <1>1. ASSUME NEW s \in Slot, HandlerStep(s)
        PROVE  Typed'
    BY <1>1, ImportGetPlanTyped, ImportByChecksumTyped, ImportCreateTyped, AuditStepsTyped,
       ImportGetTyped, TransitionGetTyped, TransitionUpdateTyped, TransitionGetUpdatedTyped
       DEF HandlerStep
  <1>2. ASSUME NEW s \in Slot, Fault(s)
        PROVE  Typed'
    BY <1>2, DatabaseErrorTyped, CreateUnacknowledgedTyped, UpdateUnacknowledgedTyped,
       AuditStepsTyped DEF Fault
  <1> QED
    BY <1>1, <1>2, SubmitTyped, CollectTyped, CrashTyped, PlanStepTyped, StutterTyped DEF Next

\* The handlers never leave the types of their variables.
THEOREM TypeCorrect == Spec => []TypeOK
  <1>1. Typed => TypeOK
    BY DEF Typed
  <1> QED
    BY InitTyped, NextTyped, <1>1, PTL DEF Spec

-----------------------------------------------------------------------------
(* What a step does to table sonar_runs *)

\* The check that a handler made before its UPDATE still stands when it gets
\* there: the graph does not change, the navigation quality is frozen, and
\* the WHERE clause compares the state.
CheckedMoves ==
    \A s \in Slot :
        pc[s] = "transition.update" =>
            /\ before[s].state \in RunStates
            /\ RunCanTransition(before[s].state, request[s].target)
            /\ request[s].target = "quality_checked" => runs[subject[s]].nav # "invalid"

Checked == Typed /\ CheckedMoves

NewRow ==
    \E id \in RunId, item \in ImportInput :
        /\ id \notin DOMAIN runs
        /\ SameChecksum(item) = {}
        /\ runs' = [i \in DOMAIN runs \cup {id} |-> IF i = id THEN NewRun(item) ELSE runs[i]]

MoveRow ==
    \E id \in DOMAIN runs, to \in RunStates :
        /\ RunCanTransition(runs[id].state, to)
        /\ to = "quality_checked" => runs[id].nav # "invalid"
        /\ runs' = [runs EXCEPT ![id] = Moved(runs[id], to)]

LEMMA UpdateMovesRow ==
    ASSUME Checked, NEW s \in Slot, pc[s] = "transition.update", UpdateRun(s)
    PROVE  MoveRow
  <1>1. subject[s] \in DOMAIN runs /\ request[s].target \in RunStates
    BY DEF Checked, Typed, RequestKinds, SubjectExists, TransitionCalls, TransitionRequest
  <1>2. /\ RunCanTransition(runs[subject[s]].state, request[s].target)
        /\ request[s].target = "quality_checked" => runs[subject[s]].nav # "invalid"
        /\ runs' = [runs EXCEPT ![subject[s]] = Moved(runs[subject[s]], request[s].target)]
    BY DEF Checked, CheckedMoves, UpdateRun, UpdateMatches
  <1> QED
    BY <1>1, <1>2 DEF MoveRow

LEMMA InsertMakesRow ==
    ASSUME Checked, NEW s \in Slot, pc[s] = "import.create",
           NEW id \in RunId, InsertRun(s, id)
    PROVE  NewRow
  <1>1. request[s] \in ImportInput
    BY DEF Checked, Typed, RequestKinds, ImportCalls
  <1> QED
    BY <1>1 DEF NewRow, InsertRun, ViolatesUniqueIndex

LEMMA TableStep ==
    ASSUME Checked, [Next]_vars
    PROVE  runs' = runs \/ NewRow \/ MoveRow
  <1>1. ASSUME NEW s \in Slot, ImportCreate(s)
        PROVE  runs' = runs \/ NewRow
    BY <1>1, InsertMakesRow DEF ImportCreate
  <1>2. ASSUME NEW s \in Slot, CreateUnacknowledged(s)
        PROVE  NewRow
    BY <1>2, InsertMakesRow DEF CreateUnacknowledged
  <1>3. ASSUME NEW s \in Slot, TransitionUpdate(s)
        PROVE  runs' = runs \/ MoveRow
    BY <1>3, UpdateMovesRow DEF TransitionUpdate
  <1>4. ASSUME NEW s \in Slot, UpdateUnacknowledged(s)
        PROVE  MoveRow
    BY <1>4, UpdateMovesRow DEF UpdateUnacknowledged
  <1>5. ASSUME NEW s \in Slot, Submit(s) \/ Collect(s)
        PROVE  runs' = runs
    BY <1>5 DEF Submit, SubmitImport, SubmitTransition, Collect, tables
  <1>6. ASSUME NEW s \in Slot, HandlerStep(s)
        PROVE  runs' = runs \/ NewRow \/ MoveRow
    BY <1>6, <1>1, <1>3 DEF HandlerStep, ImportGetPlan, ImportByChecksum, ImportAudit,
       ImportGet, TransitionGet, TransitionGetUpdated, TransitionAudit, tables
  <1>7. ASSUME NEW s \in Slot, Fault(s)
        PROVE  runs' = runs \/ NewRow \/ MoveRow
    BY <1>7, <1>2, <1>4 DEF Fault, DatabaseError, AuditUnacknowledged, tables
  <1> QED
    BY <1>5, <1>6, <1>7 DEF Next, PlanStep, Crash, vars, tables

\* Rows stay, and their identity and navigation quality with them.
LEMMA FrozenColumns ==
    ASSUME Checked, [Next]_vars, NEW id \in DOMAIN runs
    PROVE  /\ id \in DOMAIN runs'
           /\ runs'[id].nav = runs[id].nav
           /\ runs'[id].source = runs[id].source
           /\ Checksum(runs'[id]) = Checksum(runs[id])
  <1>1. CASE runs' = runs
    BY <1>1
  <1>2. CASE NewRow
    BY <1>2 DEF NewRow, Checksum
  <1>3. CASE MoveRow
    <2>1. PICK i \in DOMAIN runs, to \in RunStates :
              runs' = [runs EXCEPT ![i] = Moved(runs[i], to)]
      BY <1>3 DEF MoveRow
    <2> QED
      BY <2>1 DEF Moved, Checksum
  <1> QED
    BY <1>1, <1>2, <1>3, TableStep

\* A slot comes to "transition.update" from its read only, and keeps its
\* registers while it is there.
LEMMA UpdateRegisters ==
    ASSUME Typed, [Next]_vars, NEW s \in Slot, pc'[s] = "transition.update"
    PROVE  \/ /\ pc[s] = "transition.update"
              /\ UNCHANGED <<request[s], subject[s], before[s]>>
           \/ TransitionGet(s)
  <1> USE DEF Typed, TypeOK
  <1>1. ASSUME NEW t \in Slot, Submit(t) \/ Collect(t)
        PROVE  /\ pc[s] = "transition.update"
               /\ UNCHANGED <<request[s], subject[s], before[s]>>
    BY <1>1 DEF Submit, SubmitImport, SubmitTransition, Collect
  <1>2. ASSUME NEW t \in Slot, HandlerStep(t), ~TransitionGet(s)
        PROVE  /\ pc[s] = "transition.update"
               /\ UNCHANGED <<request[s], subject[s], before[s]>>
    BY <1>2 DEF HandlerStep, ImportGetPlan, ImportByChecksum, ImportCreate, InsertRun,
       ImportAudit, ImportGet, TransitionGet, TransitionUpdate, TransitionGetUpdated,
       TransitionAudit, Answer, Proceed
  <1>3. ASSUME NEW t \in Slot, Fault(t)
        PROVE  /\ pc[s] = "transition.update"
               /\ UNCHANGED <<request[s], subject[s], before[s]>>
    BY <1>3 DEF Fault, DatabaseError, CreateUnacknowledged, InsertRun,
       UpdateUnacknowledged, AuditUnacknowledged, Answer
  <1>4. CASE (\E p \in Plan : PlanStep(p)) \/ UNCHANGED vars
    BY <1>4 DEF PlanStep, slots, vars
  <1>5. ~Crash
    BY DEF Crash
  <1> QED
    BY <1>1, <1>2, <1>3, <1>4, <1>5 DEF Next

LEMMA CheckedInit == Init => Checked
  BY InitTyped DEF Checked, CheckedMoves, Init

LEMMA CheckedNext ==
    ASSUME Checked, [Next]_vars
    PROVE  Checked'
  <1>1. Typed'
    BY NextTyped DEF Checked
  <1>2. ASSUME NEW s \in Slot, pc'[s] = "transition.update"
        PROVE  /\ before'[s].state \in RunStates
               /\ RunCanTransition(before'[s].state, request'[s].target)
               /\ request'[s].target = "quality_checked" => runs'[subject'[s]].nav # "invalid"
    <2>1. CASE /\ pc[s] = "transition.update"
               /\ UNCHANGED <<request[s], subject[s], before[s]>>
      <3>1. subject[s] \in DOMAIN runs
        BY <2>1 DEF Checked, Typed, SubjectExists
      <3>2. runs'[subject[s]].nav = runs[subject[s]].nav
        BY <3>1, FrozenColumns
      <3> QED
        BY <2>1, <3>2 DEF Checked, CheckedMoves
    <2>2. CASE TransitionGet(s)
      <3>1. /\ subject[s] \in DOMAIN runs /\ runs[subject[s]] \in Run
            /\ request[s] \in TransitionRequest /\ subject[s] = request[s].id
            /\ UNCHANGED <<runs, request, subject>>
        BY <1>2, <2>2 DEF TransitionGet, Answer, tables, Checked, Typed, TypeOK, RequestKinds,
           TransitionCalls
      <3>2. before'[s] = SnapshotOf(subject[s]) /\ TransitionError(request[s]) = "none"
        BY <1>2, <2>2, <3>1 DEF TransitionGet, Answer, Checked, Typed, TypeOK
      <3>3. /\ RunCanTransition(runs[subject[s]].state, request[s].target)
            /\ request[s].target = "quality_checked" => runs[subject[s]].nav # "invalid"
        BY <3>1, <3>2 DEF TransitionError
      <3> QED
        BY <3>1, <3>2, <3>3 DEF SnapshotOf, Run
    <2> QED
      BY <1>2, <2>1, <2>2, UpdateRegisters DEF Checked
  <1>3. CheckedMoves'
    BY <1>2 DEF CheckedMoves
  <1> QED
    BY <1>1, <1>3 DEF Checked

-----------------------------------------------------------------------------
(* The lifecycle of a run *)

\* A move of the graph takes a run from the versions of one state to those
\* of the next.
LEMMA StageOfMove ==
    ASSUME NEW from \in RunStates, NEW to \in RunStates, RunCanTransition(from, to),
           NEW source, NEW v \in StageVersions(source)[from]
    PROVE  v + 1 \in StageVersions(source)[to]
  <1>1. CASE source = SeedSource
    BY <1>1 DEF RunStates, RunCanTransition, runTransitions, StageVersions
  <1>2. CASE source # SeedSource
    BY <1>2 DEF RunStates, RunCanTransition, runTransitions, StageVersions
  <1> QED
    BY <1>1, <1>2

LEMMA StageOfNewRow ==
    /\ \A source : source # SeedSource => 1 \in StageVersions(source)["imported"]
    /\ 1 \in StageVersions(SeedSource)["processed"]
  BY DEF StageVersions

\* Invalid navigation leaves only the edge from "imported" to "rejected".
LEMMA InvalidNavigationMove ==
    ASSUME NEW from \in {"imported", "rejected"}, NEW to \in RunStates,
           RunCanTransition(from, to), to # "quality_checked"
    PROVE  to = "rejected"
  BY DEF RunCanTransition, runTransitions

LEMMA StageVersionInit == Init => StageVersion
  BY InitRows, StageOfNewRow DEF StageVersion, SeedRun

LEMMA StageVersionNext ==
    ASSUME Checked, StageVersion, [Next]_vars
    PROVE  StageVersion'
  <1>1. CASE runs' = runs
    BY <1>1 DEF StageVersion
  <1>2. CASE NewRow
    BY <1>2, StageOfNewRow, SeedAssumption DEF NewRow, NewRun, StageVersion
  <1>3. CASE MoveRow
    <2>1. PICK i \in DOMAIN runs, to \in RunStates :
              /\ RunCanTransition(runs[i].state, to)
              /\ runs' = [runs EXCEPT ![i] = Moved(runs[i], to)]
      BY <1>3 DEF MoveRow
    <2>2. /\ runs[i].state \in RunStates
          /\ runs[i].version \in StageVersions(runs[i].source)[runs[i].state]
      BY DEF Checked, Typed, TypeOK, Run, StageVersion
    <2>3. runs[i].version + 1 \in StageVersions(runs[i].source)[to]
      BY <2>1, <2>2, StageOfMove
    <2> QED
      BY <2>1, <2>3 DEF Moved, StageVersion
  <1> QED
    BY <1>1, <1>2, <1>3, TableStep

\* The version of a run counts its moves since an import or seed stored it.
THEOREM StageVersionHolds == Spec => []StageVersion
  BY StageVersionInit, StageVersionNext, CheckedInit, CheckedNext, PTL DEF Spec

\* A run with invalid navigation gets no further than its rejection.
THEOREM InvalidNavigationHeldBackHolds == Spec => []InvalidNavigationHeldBack
  <1>1. Init => InvalidNavigationHeldBack
    BY InitRows DEF SeedRun, InvalidNavigationHeldBack
  <1>2. Checked /\ InvalidNavigationHeldBack /\ [Next]_vars => InvalidNavigationHeldBack'
    <2> SUFFICES ASSUME Checked, InvalidNavigationHeldBack, [Next]_vars
                 PROVE  InvalidNavigationHeldBack'
      OBVIOUS
    <2>1. CASE runs' = runs
      BY <2>1 DEF InvalidNavigationHeldBack
    <2>2. CASE NewRow
      BY <2>2 DEF NewRow, NewRun, InvalidNavigationHeldBack
    <2>3. CASE MoveRow
      <3>1. PICK i \in DOMAIN runs, to \in RunStates :
                /\ RunCanTransition(runs[i].state, to)
                /\ to = "quality_checked" => runs[i].nav # "invalid"
                /\ runs' = [runs EXCEPT ![i] = Moved(runs[i], to)]
        BY <2>3 DEF MoveRow
      <3>2. runs[i].nav = "invalid" => to = "rejected"
        BY <3>1, InvalidNavigationMove DEF InvalidNavigationHeldBack
      <3> QED
        BY <3>1, <3>2 DEF Moved, InvalidNavigationHeldBack
    <2> QED
      BY <2>1, <2>2, <2>3, TableStep
  <1> QED
    BY <1>1, <1>2, CheckedInit, CheckedNext, PTL DEF Spec

\* The service implements the register of versioned rows: an import inserts
\* at most one row for each checksum, a transition moves one row along one
\* edge, and every other call leaves the register alone.
THEOREM Refinement == Spec => ImplementsLifecycle
  <1> DEFINE rows == [id \in DOMAIN runs |-> AbstractRow(runs[id])]
  <1>1. Init => Lifecycle!Init
    <2> SUFFICES ASSUME Init PROVE Lifecycle!Init
      OBVIOUS
    <2>1. CASE runs = [id \in {} |-> SeedRun]
      BY <2>1 DEF Lifecycle!Init
    <2>2. CASE \E first \in RunId : runs = [id \in {first} |-> SeedRun]
      BY <2>2 DEF Lifecycle!Init
    <2> QED
      BY <2>1, <2>2 DEF Init, SeededTables
  <1>2. Checked /\ [Next]_vars => [Lifecycle!Next]_rows
    <2> SUFFICES ASSUME Checked, [Next]_vars
                 PROVE  Lifecycle!Next \/ UNCHANGED rows
      OBVIOUS
    <2>1. CASE runs' = runs
      BY <2>1
    <2>2. CASE NewRow
      <3>1. PICK id \in RunId, item \in ImportInput :
                /\ id \notin DOMAIN runs
                /\ SameChecksum(item) = {}
                /\ runs' = [i \in DOMAIN runs \cup {id} |->
                                IF i = id THEN NewRun(item) ELSE runs[i]]
        BY <2>2 DEF NewRow
      <3>2. /\ Checksum(item) \in Plan \X Source
            /\ <<item.code, item.nav>> \in Code \X NavigationQualities
        BY InputsAssumption DEF ImportRequest, Checksum
      <3>3. \A i \in DOMAIN runs : Checksum(runs[i]) # Checksum(item)
        BY <3>1 DEF SameChecksum
      <3>4. rows' = [i \in DOMAIN rows \cup {id} |->
                        IF i = id
                        THEN [key |-> Checksum(item), body |-> <<item.code, item.nav>>,
                              state |-> "imported", version |-> 1]
                        ELSE rows[i]]
        BY <3>1 DEF NewRun, AbstractRow, Checksum
      <3>5. Lifecycle!Create(id, Checksum(item), <<item.code, item.nav>>)
        BY <3>1, <3>3, <3>4 DEF Lifecycle!Create, AbstractRow
      <3> QED
        BY <3>2, <3>5 DEF Lifecycle!Next
    <2>3. CASE MoveRow
      <3>1. PICK i \in DOMAIN runs, to \in RunStates :
                /\ RunCanTransition(runs[i].state, to)
                /\ runs' = [runs EXCEPT ![i] = Moved(runs[i], to)]
        BY <2>3 DEF MoveRow
      <3>2. rows' = [rows EXCEPT ![i].state = to, ![i].version = @ + 1]
        BY <3>1 DEF Moved, AbstractRow, Checksum
      <3>3. to \in runTransitions[rows[i].state] /\ i \in DOMAIN rows
        BY <3>1 DEF RunCanTransition, AbstractRow
      <3>4. Lifecycle!Move(i, to)
        BY <3>2, <3>3 DEF Lifecycle!Move
      <3> QED
        BY <3>3, <3>4 DEF Lifecycle!Next
    <2> QED
      BY <2>1, <2>2, <2>3, TableStep
  <1> QED
    BY <1>1, <1>2, CheckedInit, CheckedNext, PTL DEF Spec, ImplementsLifecycle, Lifecycle!Spec

-----------------------------------------------------------------------------
(* Idempotence of imports *)

\* The unique index on source_checksum.
UniqueChecksums ==
    \A a, b \in DOMAIN runs : Checksum(runs[a]) = Checksum(runs[b]) => a = b

\* An import that has inserted works on the row it inserted.
OwnRow ==
    \A s \in Slot :
        pc[s] \in {"import.audit", "import.get"}
            => Checksum(runs[subject[s]]) = Checksum(request[s])

AckedRows == \A a \in acked : a[2] \in DOMAIN runs /\ Checksum(runs[a[2]]) = a[1]

Idempotence == Checked /\ UniqueChecksums /\ OwnRow /\ AckedRows

LEMMA UniqueChecksumsKept ==
    ASSUME Checked, UniqueChecksums, [Next]_vars
    PROVE  UniqueChecksums'
  <1>1. CASE runs' = runs
    BY <1>1 DEF UniqueChecksums, Checksum
  <1>2. CASE NewRow
    BY <1>2 DEF NewRow, NewRun, SameChecksum, UniqueChecksums, Checksum
  <1>3. CASE MoveRow
    BY <1>3 DEF MoveRow, Moved, UniqueChecksums, Checksum
  <1> QED
    BY <1>1, <1>2, <1>3, TableStep

\* A slot comes to "import.audit" by its insert and goes on to "import.get"
\* with the same registers.
LEMMA ImportRegisters ==
    ASSUME Typed, [Next]_vars, NEW s \in Slot, pc'[s] \in {"import.audit", "import.get"}
    PROVE  \/ /\ pc[s] \in {"import.audit", "import.get"}
              /\ UNCHANGED <<request[s], subject[s]>>
           \/ /\ pc[s] = "import.create"
              /\ request' = request
              /\ \E id \in RunId : InsertRun(s, id)
  <1> USE DEF Typed, TypeOK
  <1>1. ASSUME NEW t \in Slot, Submit(t) \/ Collect(t)
        PROVE  pc[s] \in {"import.audit", "import.get"} /\ UNCHANGED <<request[s], subject[s]>>
    BY <1>1 DEF Submit, SubmitImport, SubmitTransition, Collect
  <1>2. ASSUME NEW t \in Slot, ImportCreate(t)
        PROVE  \/ pc[s] \in {"import.audit", "import.get"} /\ UNCHANGED <<request[s], subject[s]>>
               \/ /\ pc[s] = "import.create" /\ request' = request
                  /\ \E id \in RunId : InsertRun(s, id)
    <2>1. CASE t = s
      BY <1>2, <2>1 DEF ImportCreate, Answer
    <2>2. CASE t # s
      BY <1>2, <2>2 DEF ImportCreate, Answer, Proceed, InsertRun
    <2> QED
      BY <2>1, <2>2
  <1>3. ASSUME NEW t \in Slot, HandlerStep(t), ~ImportCreate(t)
        PROVE  pc[s] \in {"import.audit", "import.get"} /\ UNCHANGED <<request[s], subject[s]>>
    BY <1>3 DEF HandlerStep, ImportGetPlan, ImportByChecksum, ImportAudit, ImportGet,
       TransitionGet, TransitionUpdate, TransitionGetUpdated, TransitionAudit, Answer, Proceed
  <1>4. ASSUME NEW t \in Slot, Fault(t)
        PROVE  pc[s] \in {"import.audit", "import.get"} /\ UNCHANGED <<request[s], subject[s]>>
    BY <1>4 DEF Fault, DatabaseError, CreateUnacknowledged, InsertRun,
       UpdateUnacknowledged, AuditUnacknowledged, Answer
  <1>5. CASE (\E p \in Plan : PlanStep(p)) \/ UNCHANGED vars
    BY <1>5 DEF PlanStep, slots, vars
  <1>6. ~Crash
    BY DEF Crash
  <1> QED
    BY <1>1, <1>2, <1>3, <1>4, <1>5, <1>6 DEF Next

LEMMA OwnRowKept ==
    ASSUME Checked, OwnRow, [Next]_vars
    PROVE  OwnRow'
  <1> SUFFICES ASSUME NEW s \in Slot, pc'[s] \in {"import.audit", "import.get"}
               PROVE  Checksum(runs'[subject'[s]]) = Checksum(request'[s])
    BY DEF OwnRow, Checksum
  <1>1. CASE pc[s] \in {"import.audit", "import.get"} /\ UNCHANGED <<request[s], subject[s]>>
    <2>1. subject[s] \in DOMAIN runs
      BY <1>1 DEF Checked, Typed, SubjectExists
    <2> QED
      BY <1>1, <2>1, FrozenColumns DEF OwnRow, Checksum
  <1>2. ASSUME pc[s] = "import.create", request' = request,
               NEW id \in RunId, InsertRun(s, id)
        PROVE  Checksum(runs'[subject'[s]]) = Checksum(request'[s])
    BY <1>2 DEF InsertRun, NewRun, Checksum, Checked, Typed, TypeOK
  <1> QED
    BY <1>1, <1>2, ImportRegisters DEF Checked

\* A successful answer names a row with the checksum of its request.
LEMMA NewAnswer ==
    ASSUME Idempotence, [Next]_vars, NEW a \in acked', a \notin acked
    PROVE  a[2] \in DOMAIN runs /\ Checksum(runs[a[2]]) = a[1]
  <1>1. ASSUME NEW s \in Slot, ImportByChecksum(s)
        PROVE  a[2] \in DOMAIN runs /\ Checksum(runs[a[2]]) = a[1]
    BY <1>1 DEF ImportByChecksum, SameChecksum
  <1>2. ASSUME NEW s \in Slot, ImportGet(s)
        PROVE  a[2] \in DOMAIN runs /\ Checksum(runs[a[2]]) = a[1]
    BY <1>2 DEF ImportGet, Idempotence, OwnRow, Checked, Typed, SubjectExists
  <1>3. ASSUME NEW s \in Slot, HandlerStep(s)
        PROVE  ImportByChecksum(s) \/ ImportGet(s)
    BY <1>3 DEF HandlerStep, ImportGetPlan, ImportCreate, ImportAudit, TransitionGet,
       TransitionUpdate, TransitionGetUpdated, TransitionAudit, history
  <1> QED
    BY <1>1, <1>2, <1>3 DEF Next, Submit, SubmitImport, SubmitTransition, Collect, Fault,
       DatabaseError, CreateUnacknowledged, UpdateUnacknowledged, AuditUnacknowledged,
       PlanStep, Crash, vars, history

LEMMA AckedRowsKept ==
    ASSUME Idempotence, [Next]_vars
    PROVE  AckedRows'
  <1> SUFFICES ASSUME NEW a \in acked'
               PROVE  a[2] \in DOMAIN runs' /\ Checksum(runs'[a[2]]) = a[1]
    BY DEF AckedRows, Checksum
  <1>1. a[2] \in DOMAIN runs /\ Checksum(runs[a[2]]) = a[1]
    BY NewAnswer DEF Idempotence, AckedRows
  <1> QED
    BY <1>1, FrozenColumns DEF Idempotence

\* All successful answers to imports of one source name the run that holds it.
THEOREM ImportIdempotentHolds == Spec => []ImportIdempotent
  <1>1. Init => Idempotence
    BY CheckedInit, InitRows DEF Init, Idempotence, UniqueChecksums, OwnRow, AckedRows
  <1>2. Idempotence /\ [Next]_vars => Idempotence'
    BY CheckedNext, UniqueChecksumsKept, OwnRowKept, AckedRowsKept DEF Idempotence
  <1>3. Idempotence => ImportIdempotent
    BY DEF Idempotence, UniqueChecksums, AckedRows, ImportIdempotent
  <1> QED
    BY <1>1, <1>2, <1>3, PTL DEF Spec

-----------------------------------------------------------------------------
(* The audit ledger *)

\* A slot's step leaves the registers of the other slots alone.
LEMMA OtherSlots ==
    ASSUME Typed, NEW s \in Slot, NEW t \in Slot, t # s,
           Submit(s) \/ Collect(s) \/ HandlerStep(s) \/ Fault(s)
    PROVE  UNCHANGED <<pc[t], request[t], subject[t], before[t], after[t], reply[t]>>
  <1> USE DEF Typed, TypeOK
  <1>1. CASE Submit(s) \/ Collect(s)
    BY <1>1 DEF Submit, SubmitImport, SubmitTransition, Collect
  <1>2. CASE ImportGetPlan(s) \/ ImportByChecksum(s) \/ ImportAudit(s) \/ ImportGet(s)
    BY <1>2 DEF ImportGetPlan, ImportByChecksum, ImportAudit, ImportGet, Answer, Proceed
  <1>3. CASE ImportCreate(s) \/ CreateUnacknowledged(s)
    BY <1>3 DEF ImportCreate, CreateUnacknowledged, InsertRun, Answer, Proceed
  <1>4. CASE \/ TransitionGet(s) \/ TransitionUpdate(s) \/ TransitionGetUpdated(s)
             \/ TransitionAudit(s)
    BY <1>4 DEF TransitionGet, TransitionUpdate, TransitionGetUpdated, TransitionAudit,
       Answer, Proceed
  <1>5. CASE DatabaseError(s) \/ UpdateUnacknowledged(s) \/ AuditUnacknowledged(s)
    BY <1>5 DEF DatabaseError, UpdateUnacknowledged, AuditUnacknowledged, Answer
  <1> QED
    BY <1>1, <1>2, <1>3, <1>4, <1>5 DEF HandlerStep, Fault

Owed == [t \in Slot |-> Unaudited(t)]

\* So it changes what its own handler owes and nothing else of what is owed.
LEMMA OwedStep ==
    ASSUME Typed, NEW s \in Slot, Submit(s) \/ Collect(s) \/ HandlerStep(s) \/ Fault(s)
    PROVE  Owed' = [Owed EXCEPT ![s] = Unaudited(s)']
  <1>1. ASSUME NEW t \in Slot, t # s
        PROVE  Unaudited(t)' = Unaudited(t)
    BY <1>1, OtherSlots DEF Unaudited, WroteVersion
  <1> QED
    BY <1>1 DEF Owed

\* An INSERT writes version 1 of its row.
LEMMA InsertWrites ==
    ASSUME Typed, NEW s \in Slot, pc[s] = "import.create",
           NEW id \in RunId, InsertRun(s, id)
    PROVE  <<id, 1>> \notin Written /\ Written' = Written \cup {<<id, 1>>}
  <1>1. /\ id \notin DOMAIN runs
        /\ DOMAIN runs' = DOMAIN runs \cup {id}
        /\ \A i \in DOMAIN runs : runs'[i] = runs[i]
        /\ runs'[id] = NewRun(request[s])
        /\ request[s].source # SeedSource
    BY InsertEffect
  <1>2. runs'[id].version = 1 /\ FirstWritten(runs'[id]) = 1 /\ 1..1 = {1}
    BY <1>1 DEF NewRun, FirstWritten
  <1>3. ASSUME NEW i, NEW v
        PROVE  i \in DOMAIN runs' /\ v \in FirstWritten(runs'[i])..runs'[i].version
                   <=> \/ i \in DOMAIN runs /\ v \in FirstWritten(runs[i])..runs[i].version
                       \/ i = id /\ v = 1
    BY <1>1, <1>2
  <1>4. /\ Written = UNION {{<<i, v>> : v \in FirstWritten(runs[i])..runs[i].version} :
                               i \in DOMAIN runs}
        /\ Written' = UNION {{<<i, v>> : v \in FirstWritten(runs'[i])..runs'[i].version} :
                                i \in DOMAIN runs'}
    BY DEF Written, FirstWritten
  <1> QED
    BY <1>1, <1>3, <1>4

\* An UPDATE writes the version after the one that the client expected.
LEMMA UpdateWrites ==
    ASSUME Typed, NEW s \in Slot, pc[s] = "transition.update", UpdateRun(s)
    PROVE  /\ <<subject[s], WroteVersion(s)>> \notin Written
           /\ Written' = Written \cup {<<subject[s], WroteVersion(s)>>}
  <1> DEFINE id == subject[s]
             n == request[s].expected
  <1>1. /\ DOMAIN runs' = DOMAIN runs
        /\ \A i \in DOMAIN runs : i # id => runs'[i] = runs[i]
        /\ runs'[id] = Moved(runs[id], request[s].target)
    BY UpdateEffect
  <1>2. /\ n \in Nat
        /\ n >= 1
        /\ id \in DOMAIN runs
        /\ WroteVersion(s) = n + 1
    BY DEF Typed, RequestKinds, SubjectExists, TransitionCalls, TransitionRequest, WroteVersion
  <1>3. runs[id].version = n
    BY DEF UpdateRun, UpdateMatches
  <1> HIDE DEF id, n
  <1>4. runs'[id].version = n + 1 /\ FirstWritten(runs'[id]) = FirstWritten(runs[id])
    BY <1>1, <1>3 DEF Moved, FirstWritten
  <1>5. PICK b : b = FirstWritten(runs[id]) /\ b \in 1..2
    BY DEF FirstWritten
  <1>6. b..(n + 1) = b..n \cup {n + 1} /\ n + 1 \notin b..n
    BY <1>2, <1>5
  <1>7. ASSUME NEW i, NEW v
        PROVE  i \in DOMAIN runs' /\ v \in FirstWritten(runs'[i])..runs'[i].version
                   <=> \/ i \in DOMAIN runs /\ v \in FirstWritten(runs[i])..runs[i].version
                       \/ i = id /\ v = n + 1
    BY <1>1, <1>2, <1>3, <1>4, <1>5, <1>6
  <1>8. /\ Written = UNION {{<<i, v>> : v \in FirstWritten(runs[i])..runs[i].version} :
                               i \in DOMAIN runs}
        /\ Written' = UNION {{<<i, v>> : v \in FirstWritten(runs'[i])..runs'[i].version} :
                                i \in DOMAIN runs'}
    BY DEF Written, FirstWritten
  <1>9. Written' = Written \cup {<<id, n + 1>>}
    BY <1>7, <1>8
  <1>10. <<id, n + 1>> \notin Written
    BY <1>3, <1>5, <1>6, <1>8
  <1> QED
    BY <1>2, <1>9, <1>10 DEF id

\* The event that is recorded names the write that the handler owes it for.
LEMMA RecordPays ==
    ASSUME NEW s \in Slot, pc[s] \in {"import.audit", "transition.audit"}, RecordAudit(s)
    PROVE  Recorded' = Recorded \cup Unaudited(s)
  <1> DEFINE event == [id |-> subject[s], wrote |-> WroteVersion(s),
                       before |-> before[s], after |-> after[s]]
  <1>1. audits' = audits \cup {event}
    BY DEF RecordAudit
  <1>2. Unaudited(s) = {<<event.id, event.wrote>>}
    BY DEF Unaudited, UnauditedCalls
  <1> HIDE DEF event
  <1> QED
    BY <1>1, <1>2 DEF Recorded

TrailUnchanged == UNCHANGED <<Written, Recorded, Owed, lost>>

\* A step that writes nothing and records nothing, of a handler that owes
\* as much as before.
LEMMA NeutralStep ==
    ASSUME Typed, NEW s \in Slot, Submit(s) \/ Collect(s) \/ HandlerStep(s) \/ Fault(s),
           UNCHANGED <<runs, audits, lost>>, Unaudited(s)' = Unaudited(s)
    PROVE  TrailUnchanged
  <1>1. Owed' = Owed
    BY OwedStep DEF Owed
  <1> QED
    BY <1>1 DEF TrailUnchanged, Written, Recorded

LEMMA CallsThatWriteNothing ==
    ASSUME Typed, NEW s \in Slot,
           \/ Submit(s) \/ Collect(s) \/ ImportGetPlan(s) \/ ImportByChecksum(s)
           \/ ImportGet(s) \/ TransitionGet(s) \/ TransitionGetUpdated(s)
    PROVE  TrailUnchanged
  <1> USE DEF Typed, TypeOK, Unaudited, UnauditedCalls
  <1>1. CASE Submit(s) \/ Collect(s)
    <2>1. UNCHANGED <<runs, audits, lost>> /\ Unaudited(s)' = Unaudited(s)
      BY <1>1 DEF Submit, SubmitImport, SubmitTransition, Collect, tables, history
    <2> QED
      BY <1>1, <2>1, NeutralStep
  <1>2. CASE ImportGetPlan(s) \/ ImportByChecksum(s) \/ ImportGet(s) \/ TransitionGet(s)
    <2>1. UNCHANGED <<runs, audits, lost>> /\ Unaudited(s)' = Unaudited(s)
      BY <1>2 DEF ImportGetPlan, ImportByChecksum, ImportGet, TransitionGet, Answer, Proceed,
         tables, history
    <2> QED
      BY <1>2, <2>1, NeutralStep DEF HandlerStep
  <1>3. CASE TransitionGetUpdated(s)
    <2>1. UNCHANGED <<runs, audits, lost>> /\ Unaudited(s)' = Unaudited(s)
      BY <1>3 DEF TransitionGetUpdated, Proceed, tables, history, WroteVersion
    <2> QED
      BY <1>3, <2>1, NeutralStep DEF HandlerStep
  <1> QED
    BY <1>1, <1>2, <1>3

LEMMA CreateOnTrail ==
    ASSUME Typed, NEW s \in Slot, ImportCreate(s)
    PROVE  TrailUnchanged \/ Trail!Next
  <1> USE DEF Typed, TypeOK
  <1>1. CASE Answer(s, "DUPLICATE_RESOURCE") /\ runs' = runs
    <2>1. UNCHANGED <<runs, audits, lost>> /\ Unaudited(s)' = Unaudited(s)
      BY <1>1 DEF ImportCreate, Answer, history, Unaudited, UnauditedCalls
    <2> QED
      BY <2>1, NeutralStep DEF HandlerStep
  <1>2. ASSUME NEW id \in RunId, InsertRun(s, id), Proceed(s, "import.audit")
        PROVE  Trail!Next
    <2>1. Unaudited(s) = {} /\ Unaudited(s)' = {<<id, 1>>}
      BY <1>2 DEF ImportCreate, InsertRun, Proceed, Unaudited, UnauditedCalls, WroteVersion
    <2>2. Owed' = [Owed EXCEPT ![s] = {<<id, 1>>}] /\ Owed[s] = {}
      BY <2>1, OwedStep DEF HandlerStep, Owed
    <2>3. <<id, 1>> \notin Written /\ Written' = Written \cup {<<id, 1>>}
      BY <1>2, InsertWrites DEF ImportCreate
    <2>4. UNCHANGED <<Recorded, lost>>
      BY DEF ImportCreate, Recorded, history
    <2>5. Trail!Commit(s, <<id, 1>>)
      BY <2>2, <2>3, <2>4 DEF Trail!Commit, Trail!Write, Owed
    <2> QED
      BY <2>3, <2>5 DEF Trail!Next
  <1> QED
    BY <1>1, <1>2 DEF ImportCreate

LEMMA CreateUnacknowledgedOnTrail ==
    ASSUME Typed, NEW s \in Slot, CreateUnacknowledged(s)
    PROVE  Trail!Next
  <1> USE DEF Typed, TypeOK
  <1>1. PICK id \in RunId : InsertRun(s, id) /\ lost' = lost \cup {<<id, 1>>}
    BY DEF CreateUnacknowledged
  <1>2. Unaudited(s) = {} /\ Unaudited(s)' = {}
    BY DEF CreateUnacknowledged, Answer, Unaudited, UnauditedCalls
  <1>3. Owed' = Owed
    BY <1>2, OwedStep DEF Fault, Owed
  <1>4. <<id, 1>> \notin Written /\ Written' = Written \cup {<<id, 1>>}
    BY <1>1, InsertWrites DEF CreateUnacknowledged
  <1>5. Recorded' = Recorded
    BY DEF CreateUnacknowledged, Recorded
  <1>6. Trail!CommitUnacknowledged(<<id, 1>>)
    BY <1>1, <1>3, <1>4, <1>5 DEF Trail!CommitUnacknowledged, Trail!Write, Owed
  <1> QED
    BY <1>4, <1>6 DEF Trail!Next

LEMMA UpdateOnTrail ==
    ASSUME Typed, NEW s \in Slot, TransitionUpdate(s)
    PROVE  TrailUnchanged \/ Trail!Next
  <1> USE DEF Typed, TypeOK
  <1>1. CASE Answer(s, "VERSION_CONFLICT") /\ runs' = runs
    <2>1. UNCHANGED <<runs, audits, lost>> /\ Unaudited(s)' = Unaudited(s)
      BY <1>1 DEF TransitionUpdate, Answer, history, Unaudited, UnauditedCalls
    <2> QED
      BY <2>1, NeutralStep DEF HandlerStep
  <1>2. CASE UpdateRun(s) /\ Proceed(s, "transition.get_updated")
    <2> DEFINE w == <<subject[s], WroteVersion(s)>>
    <2>1. Unaudited(s) = {} /\ Unaudited(s)' = {w}
      BY <1>2 DEF TransitionUpdate, Proceed, Unaudited, UnauditedCalls, WroteVersion
    <2>2. Owed' = [Owed EXCEPT ![s] = {w}] /\ Owed[s] = {}
      BY <2>1, OwedStep DEF HandlerStep, Owed
    <2>3. w \notin Written /\ Written' = Written \cup {w}
      BY <1>2, UpdateWrites DEF TransitionUpdate
    <2>4. UNCHANGED <<Recorded, lost>>
      BY DEF TransitionUpdate, Recorded, history
    <2> HIDE DEF w
    <2>5. Trail!Commit(s, w)
      BY <2>2, <2>3, <2>4 DEF Trail!Commit, Trail!Write, Owed
    <2> QED
      BY <2>3, <2>5 DEF Trail!Next
  <1> QED
    BY <1>1, <1>2 DEF TransitionUpdate

LEMMA UpdateUnacknowledgedOnTrail ==
    ASSUME Typed, NEW s \in Slot, UpdateUnacknowledged(s)
    PROVE  Trail!Next
  <1> USE DEF Typed, TypeOK
  <1> DEFINE w == <<subject[s], WroteVersion(s)>>
  <1>1. lost' = lost \cup {w}
    BY DEF UpdateUnacknowledged
  <1>2. Unaudited(s) = {} /\ Unaudited(s)' = {}
    BY DEF UpdateUnacknowledged, Answer, Unaudited, UnauditedCalls
  <1>3. Owed' = Owed
    BY <1>2, OwedStep DEF Fault, Owed
  <1>4. w \notin Written /\ Written' = Written \cup {w}
    BY UpdateWrites DEF UpdateUnacknowledged
  <1>5. Recorded' = Recorded
    BY DEF UpdateUnacknowledged, Recorded
  <1> HIDE DEF w
  <1>6. Trail!CommitUnacknowledged(w)
    BY <1>1, <1>3, <1>4, <1>5 DEF Trail!CommitUnacknowledged, Trail!Write, Owed
  <1> QED
    BY <1>4, <1>6 DEF Trail!Next

LEMMA AuditOnTrail ==
    ASSUME Typed, NEW s \in Slot,
           ImportAudit(s) \/ TransitionAudit(s) \/ AuditUnacknowledged(s)
    PROVE  Trail!Next
  <1> USE DEF Typed, TypeOK
  <1>1. Unaudited(s)' = {}
    BY DEF ImportAudit, TransitionAudit, AuditUnacknowledged, Answer, Proceed, Unaudited,
       UnauditedCalls
  <1>2. Owed' = [Owed EXCEPT ![s] = {}]
    BY <1>1, OwedStep DEF HandlerStep, Fault
  <1>3. Recorded' = Recorded \cup Owed[s]
    BY RecordPays DEF ImportAudit, TransitionAudit, AuditUnacknowledged, Owed
  <1>4. UNCHANGED <<Written, lost>>
    BY DEF ImportAudit, TransitionAudit, AuditUnacknowledged, Written, history
  <1>5. Trail!Record(s)
    BY <1>2, <1>3, <1>4 DEF Trail!Record, Owed
  <1> QED
    BY <1>5 DEF Trail!Next

LEMMA DatabaseErrorOnTrail ==
    ASSUME Typed, NEW s \in Slot, DatabaseError(s)
    PROVE  Trail!Next
  <1> USE DEF Typed, TypeOK
  <1>1. Unaudited(s)' = {}
    BY DEF DatabaseError, Answer, Unaudited, UnauditedCalls
  <1>2. Owed' = [Owed EXCEPT ![s] = {}]
    BY <1>1, OwedStep DEF Fault
  <1>3. lost' = lost \cup Owed[s]
    BY DEF DatabaseError, Owed
  <1>4. UNCHANGED <<Written, Recorded>>
    BY DEF DatabaseError, Written, Recorded, tables
  <1>5. Trail!Lose(s)
    BY <1>2, <1>3, <1>4 DEF Trail!Lose, Owed
  <1> QED
    BY <1>5 DEF Trail!Next

LEMMA CrashOnTrail ==
    ASSUME Crash
    PROVE  Trail!Next
  <1>1. Owed' = [t \in Slot |-> {}]
    BY DEF Crash, Owed, Unaudited, UnauditedCalls
  <1>2. lost' = lost \cup UNION {Owed[s] : s \in Slot}
    BY DEF Crash, Owed
  <1>3. UNCHANGED <<Written, Recorded>>
    BY DEF Crash, Written, Recorded, tables
  <1>4. Trail!Crash
    BY <1>1, <1>2, <1>3 DEF Trail!Crash, Owed
  <1> QED
    BY <1>4 DEF Trail!Next

\* Every step of the service is a step of the audit trail or leaves it alone.
LEMMA TrailStep ==
    ASSUME Typed, [Next]_vars
    PROVE  TrailUnchanged \/ Trail!Next
  <1>1. ASSUME NEW s \in Slot, HandlerStep(s)
        PROVE  TrailUnchanged \/ Trail!Next
    BY <1>1, CallsThatWriteNothing, CreateOnTrail, UpdateOnTrail, AuditOnTrail DEF HandlerStep
  <1>2. ASSUME NEW s \in Slot, Fault(s)
        PROVE  Trail!Next
    BY <1>2, DatabaseErrorOnTrail, CreateUnacknowledgedOnTrail, UpdateUnacknowledgedOnTrail,
       AuditOnTrail DEF Fault
  <1>3. CASE (\E p \in Plan : PlanStep(p)) \/ UNCHANGED vars
    BY <1>3 DEF PlanStep, vars, tables, slots, history, TrailUnchanged, Written, Recorded, Owed,
       Unaudited, WroteVersion
  <1> QED
    BY <1>1, <1>2, <1>3, CallsThatWriteNothing, CrashOnTrail DEF Next

LEMMA TrailInit == Init => Trail!Init
  <1> SUFFICES ASSUME Init PROVE Trail!Init
    OBVIOUS
  <1>1. \A id \in DOMAIN runs : FirstWritten(runs[id])..runs[id].version = {}
    BY InitRows DEF SeedRun, FirstWritten
  <1>2. Written = {}
    BY <1>1 DEF Written
  <1> QED
    BY <1>2 DEF Init, Trail!Init, Recorded, Unaudited, UnauditedCalls

\* The writes of the service and their audit events are an audit trail.
THEOREM TrailRefinement == Spec => ImplementsAuditTrail
  <1>1. Typed /\ [Next]_vars => [Trail!Next]_(Trail!vars)
    BY TrailStep DEF TrailUnchanged, Trail!vars, Owed
  <1> QED
    BY <1>1, InitTyped, NextTyped, TrailInit, PTL DEF Spec, ImplementsAuditTrail, Trail!Spec

\* One write has one audit event.
UniqueEvents == \A e, f \in audits : e.id = f.id /\ e.wrote = f.wrote => e = f

\* Events are recorded by the audit calls only.
LEMMA EventsStep ==
    ASSUME [Next]_vars
    PROVE  \/ audits' = audits
           \/ \E s \in Slot : /\ pc[s] \in {"import.audit", "transition.audit"}
                              /\ RecordAudit(s)
  BY DEF Next, Submit, SubmitImport, SubmitTransition, Collect, HandlerStep, ImportGetPlan,
     ImportByChecksum, ImportCreate, ImportAudit, ImportGet, TransitionGet, TransitionUpdate,
     TransitionGetUpdated, TransitionAudit, Fault, DatabaseError, CreateUnacknowledged,
     UpdateUnacknowledged, AuditUnacknowledged, Crash, PlanStep, vars, tables

LEMMA UniqueEventsKept ==
    ASSUME UniqueEvents, Trail!Ledger, [Next]_vars
    PROVE  UniqueEvents'
  <1>1. CASE audits' = audits
    BY <1>1 DEF UniqueEvents
  <1>2. ASSUME NEW s \in Slot, pc[s] \in {"import.audit", "transition.audit"}, RecordAudit(s)
        PROVE  UniqueEvents'
    <2>1. <<subject[s], WroteVersion(s)>> \in Unaudited(s)
      BY <1>2 DEF Unaudited, UnauditedCalls
    <2>2. <<subject[s], WroteVersion(s)>> \notin Recorded
      BY <2>1 DEF Trail!Ledger, Trail!Pending
    <2>3. \A e \in audits : ~(e.id = subject[s] /\ e.wrote = WroteVersion(s))
      BY <2>2 DEF Recorded
    <2> QED
      BY <1>2, <2>3 DEF RecordAudit, UniqueEvents
  <1> QED
    BY <1>1, <1>2, EventsStep

\* Each write is recorded once, or pending, or lost.
THEOREM AuditLedgerHolds == Spec => []AuditLedger
  <1>1. Init => UniqueEvents /\ Trail!Ledger
    BY TrailInit, Trail!InitLedger DEF Init, UniqueEvents
  <1>2. Typed /\ UniqueEvents /\ Trail!Ledger /\ [Next]_vars => UniqueEvents' /\ Trail!Ledger'
    <2>1. Typed /\ [Next]_vars => [Trail!Next]_(Trail!vars)
      BY TrailStep DEF TrailUnchanged, Trail!vars, Owed
    <2> QED
      BY <2>1, Trail!NextLedger, UniqueEventsKept
  <1>3. UniqueEvents /\ Trail!Ledger => AuditLedger
    BY DEF UniqueEvents, Trail!Ledger, Trail!Pending, AuditLedger, Pending
  <1> QED
    BY <1>1, <1>2, <1>3, InitTyped, NextTyped, PTL DEF Spec

-----------------------------------------------------------------------------
(* What the audit events and the answers say of the rows *)

\* The version of a row grows with its state, the rest of it stays.
LEMMA RowsGrow ==
    ASSUME Checked, [Next]_vars, NEW id \in DOMAIN runs
    PROVE  /\ id \in DOMAIN runs'
           /\ runs'[id].source = runs[id].source
           /\ runs[id].version \in Nat /\ runs'[id].version \in Nat
           /\ runs'[id] = runs[id] \/ runs'[id].version > runs[id].version
  <1>1. runs[id].version \in Nat
    BY DEF Checked, Typed, TypeOK, Run
  <1>2. CASE runs' = runs
    BY <1>1, <1>2
  <1>3. CASE NewRow
    BY <1>1, <1>3 DEF NewRow, Checksum
  <1>4. CASE MoveRow
    <2>1. PICK i \in DOMAIN runs, to \in RunStates :
              runs' = [runs EXCEPT ![i] = Moved(runs[i], to)]
      BY <1>4 DEF MoveRow
    <2>2. runs'[id] = runs[id] \/ runs'[id] = Moved(runs[id], to)
      BY <2>1
    <2> QED
      BY <1>1, <2>1, <2>2 DEF Moved, Checksum
  <1> QED
    BY <1>2, <1>3, <1>4, TableStep

\* Before its update a slot has read no row, or the row as it still is or
\* as an earlier version had it.
RowRead(s) ==
    /\ pc[s] \in {"idle"} \cup ImportCalls => before[s] = NoSnapshot
    /\ pc[s] = "transition.update" =>
           LET run == runs[subject[s]]
           IN  /\ before[s].version \in StageVersions(run.source)[before[s].state]
               /\ before[s].version <= run.version
               /\ before[s].version = run.version => before[s].state = run.state

\* After its write a slot holds what the write has found and left.
WriteHeld(s) ==
    /\ pc[s] = "import.audit" => after[s].version = 1
    /\ pc[s] \in {"transition.get_updated", "transition.audit"} =>
           /\ before[s].version = request[s].expected
           /\ RunCanTransition(before[s].state, request[s].target)
           /\ WroteVersion(s) \in
                  StageVersions(runs[subject[s]].source)[request[s].target]
           /\ runs[subject[s]].version >= WroteVersion(s)
    /\ pc[s] = "transition.audit" => after[s].version >= WroteVersion(s)

\* A refusal names a conflict that the table still shows, or a version that
\* was not there to be read.
Refused(s) ==
    /\ pc[s] # "replied" => reply[s] = "none"
    /\ reply[s] = "VERSION_CONFLICT" =>
           /\ subject[s] \in DOMAIN runs
           /\ request[s] \in TransitionRequest
           /\ \/ request[s].expected < runs[subject[s]].version
              \/ request[s].expected > before[s].version

Honest(s) == RowRead(s) /\ WriteHeld(s) /\ Refused(s)

Told == Checked /\ StageVersion /\ \A s \in Slot : Honest(s)

\* What other handlers do to the table takes nothing of this away.
LEMMA RegistersKept ==
    ASSUME Told, [Next]_vars, NEW t \in Slot,
           UNCHANGED <<pc[t], request[t], subject[t], before[t], after[t], reply[t]>>
    PROVE  Honest(t)'
  <1>1. Honest(t) /\ Typed
    BY DEF Told, Checked
  <1>2. before[t].version \in Nat
    BY <1>1 DEF Typed, TypeOK, Snapshot
  <1>3. RowRead(t)'
    <2> SUFFICES ASSUME pc[t] = "transition.update" PROVE RowRead(t)'
      BY <1>1 DEF Honest, RowRead
    <2>1. subject[t] \in DOMAIN runs
      BY <1>1 DEF Typed, SubjectExists
    <2> QED
      BY <1>1, <1>2, <2>1, RowsGrow DEF Told, Honest, RowRead, ImportCalls
  <1>4. WriteHeld(t)'
    <2>1. CASE pc[t] \in {"transition.get_updated", "transition.audit"}
      <3>1. subject[t] \in DOMAIN runs /\ WroteVersion(t) \in Nat
        BY <1>1, <2>1 DEF Typed, SubjectExists, RequestKinds, TransitionCalls, TransitionRequest,
           WroteVersion
      <3>2. WroteVersion(t)' = WroteVersion(t)
        BY DEF WroteVersion
      <3>3. runs'[subject[t]].version >= WroteVersion(t)
        BY <1>1, <2>1, <3>1, RowsGrow DEF Told, Honest, WriteHeld
      <3>4. runs'[subject[t]].source = runs[subject[t]].source
        BY <3>1, RowsGrow DEF Told
      <3> QED
        BY <1>1, <2>1, <3>2, <3>3, <3>4 DEF Honest, WriteHeld
    <2>2. CASE pc[t] \notin {"transition.get_updated", "transition.audit"}
      BY <1>1, <2>2 DEF Honest, WriteHeld
    <2> QED
      BY <2>1, <2>2
  <1>5. Refused(t)'
    <2> SUFFICES ASSUME reply[t] = "VERSION_CONFLICT" PROVE Refused(t)'
      BY <1>1 DEF Honest, Refused
    <2>1. /\ subject[t] \in DOMAIN runs
          /\ request[t].expected \in Nat
          /\ \/ request[t].expected < runs[subject[t]].version
             \/ request[t].expected > before[t].version
      BY <1>1 DEF Honest, Refused, TransitionRequest
    <2> QED
      BY <1>1, <2>1, RowsGrow DEF Told, Honest, Refused
  <1> QED
    BY <1>3, <1>4, <1>5 DEF Honest

\* A slot that is done with a request, or has none, holds nothing.
LEMMA IdleHonest ==
    ASSUME NEW t \in Slot, pc'[t] = "idle", before'[t] = NoSnapshot, reply'[t] = "none"
    PROVE  Honest(t)'
  BY DEF Honest, RowRead, WriteHeld, Refused

\* An answer other than the conflict promises nothing.
LEMMA AnswerHonest ==
    ASSUME Typed, NEW s \in Slot, NEW code, Answer(s, code), code # "VERSION_CONFLICT"
    PROVE  Honest(s)'
  BY DEF Typed, TypeOK, Answer, Honest, RowRead, WriteHeld, Refused, ImportCalls

\* A move that the graph allows starts in a state with one version only.
LEMMA MoveStage ==
    ASSUME NEW from \in RunStates, NEW to, RunCanTransition(from, to), NEW source,
           NEW v \in StageVersions(source)[from], NEW w \in StageVersions(source)[from]
    PROVE  v = w
  <1>1. CASE source = SeedSource
    BY <1>1 DEF RunStates, RunCanTransition, runTransitions, StageVersions
  <1>2. CASE source # SeedSource
    BY <1>2 DEF RunStates, RunCanTransition, runTransitions, StageVersions
  <1> QED
    BY <1>1, <1>2

LEMMA SubmitHonest ==
    ASSUME Told, NEW s \in Slot, Submit(s)
    PROVE  Honest(s)'
  BY DEF Told, Checked, Typed, TypeOK, Submit, SubmitImport, SubmitTransition, Honest, RowRead,
     WriteHeld, Refused, ImportCalls

LEMMA ImportStepsHonest ==
    ASSUME Told, NEW s \in Slot,
           \/ ImportGetPlan(s) \/ ImportByChecksum(s) \/ ImportCreate(s)
           \/ ImportAudit(s) \/ ImportGet(s)
    PROVE  Honest(s)'
  <1> USE DEF Told, Checked, Typed, TypeOK
  <1>1. Honest(s)
    OBVIOUS
  <1>2. CASE ImportGetPlan(s) \/ ImportByChecksum(s) \/ ImportAudit(s) \/ ImportGet(s)
    BY <1>1, <1>2 DEF ImportGetPlan, ImportError, ImportByChecksum, ImportAudit, ImportGet,
       Answer, Proceed, Honest, RowRead, WriteHeld, Refused, ImportCalls
  <1>3. CASE ImportCreate(s) /\ Proceed(s, "import.audit")
             /\ after' = [after EXCEPT ![s] = [state |-> "imported", version |-> 1]]
    BY <1>1, <1>3 DEF ImportCreate, Proceed, Honest, RowRead, WriteHeld, Refused, ImportCalls
  <1>4. CASE ImportCreate(s) /\ Answer(s, "DUPLICATE_RESOURCE")
    BY <1>4, AnswerHonest
  <1> QED
    BY <1>2, <1>3, <1>4 DEF ImportCreate

LEMMA TransitionGetHonest ==
    ASSUME Told, NEW s \in Slot, TransitionGet(s)
    PROVE  Honest(s)'
  <1> USE DEF Told, Checked, Typed, TypeOK
  <1>1. CASE \E code : Answer(s, code) /\ code # "VERSION_CONFLICT"
    BY <1>1, AnswerHonest
  <1>2. CASE /\ subject[s] \in DOMAIN runs
             /\ before' = [before EXCEPT ![s] = SnapshotOf(subject[s])]
             /\ Proceed(s, "transition.update")
    <2>1. /\ before'[s] = SnapshotOf(subject[s])
          /\ pc'[s] = "transition.update" /\ reply'[s] = reply[s] /\ pc[s] # "replied"
          /\ UNCHANGED <<runs, subject>>
      BY <1>2 DEF TransitionGet, Proceed, tables
    <2>2. runs[subject[s]].version \in Nat
      BY <1>2 DEF Run
    <2>3. before'[s].version \in StageVersions(runs[subject[s]].source)[before'[s].state]
      BY <1>2, <2>1 DEF SnapshotOf, StageVersion
    <2> QED
      BY <2>1, <2>2, <2>3 DEF Honest, RowRead, WriteHeld, Refused, SnapshotOf, ImportCalls
  <1>3. TransitionError(request[s]) # "VERSION_CONFLICT"
    BY DEF TransitionError
  <1> QED
    BY <1>1, <1>2, <1>3 DEF TransitionGet

LEMMA TransitionUpdateHonest ==
    ASSUME Told, NEW s \in Slot, TransitionUpdate(s)
    PROVE  Honest(s)'
  <1> USE DEF Told, Checked, Typed, TypeOK
  <1> DEFINE run == runs[subject[s]]
  <1>1. /\ pc[s] = "transition.update" /\ subject[s] \in DOMAIN runs
        /\ UNCHANGED <<request, subject, before, after>>
        /\ RowRead(s) /\ Refused(s)
    BY DEF TransitionUpdate, SubjectExists, Honest
  <1>2. /\ request[s].expected \in Nat /\ request[s].target \in RunStates
        /\ run.version \in Nat /\ before[s].version \in Nat
    BY <1>1 DEF RequestKinds, TransitionCalls, TransitionRequest, Run, Snapshot
  <1>3. /\ before[s].state \in RunStates
        /\ RunCanTransition(before[s].state, request[s].target)
        /\ before[s].version \in StageVersions(run.source)[before[s].state]
        /\ run.version \in StageVersions(run.source)[run.state]
    BY <1>1 DEF CheckedMoves, RowRead, StageVersion
  <1>4. CASE ~UpdateMatches(s) /\ Answer(s, "VERSION_CONFLICT") /\ UNCHANGED runs
    <2>1. request[s].expected < run.version \/ request[s].expected > before[s].version
      BY <1>1, <1>2, <1>4 DEF UpdateMatches, RowRead
    <2>2. request[s] \in TransitionRequest
      BY <1>1 DEF RequestKinds, TransitionCalls
    <2> QED
      BY <1>1, <1>4, <2>1, <2>2 DEF Answer, Honest, RowRead, WriteHeld, Refused, ImportCalls
  <1>5. CASE UpdateRun(s) /\ Proceed(s, "transition.get_updated")
    <2>1. run.version = request[s].expected /\ run.state = before[s].state
      BY <1>5 DEF UpdateRun, UpdateMatches
    <2>2. before[s].version = request[s].expected
      BY <1>3, <2>1, MoveStage
    <2>3. request[s].expected + 1 \in StageVersions(run.source)[request[s].target]
      BY <1>2, <1>3, <2>1, StageOfMove
    <2>4. /\ runs'[subject[s]].version = request[s].expected + 1
          /\ runs'[subject[s]].source = run.source
      BY <1>1, <1>5, <2>1 DEF UpdateRun, Moved
    <2>5. pc'[s] = "transition.get_updated" /\ reply'[s] = "none"
      BY <1>1, <1>5 DEF Proceed, Refused
    <2>6. WroteVersion(s)' = request[s].expected + 1
      BY <1>1, <2>5 DEF WroteVersion
    <2>7. WriteHeld(s)'
      BY <1>1, <1>2, <1>3, <2>2, <2>3, <2>4, <2>5, <2>6 DEF WriteHeld
    <2> QED
      BY <2>5, <2>7 DEF Honest, RowRead, Refused, ImportCalls
  <1> QED
    BY <1>4, <1>5 DEF TransitionUpdate

LEMMA TransitionEndHonest ==
    ASSUME Told, NEW s \in Slot, TransitionGetUpdated(s) \/ TransitionAudit(s)
    PROVE  Honest(s)'
  <1> USE DEF Told, Checked, Typed, TypeOK
  <1>1. CASE TransitionGetUpdated(s)
    <2>1. /\ pc[s] = "transition.get_updated" /\ pc'[s] = "transition.audit"
          /\ after'[s] = SnapshotOf(subject[s])
          /\ UNCHANGED <<runs, request, subject, before, reply>>
      BY <1>1 DEF TransitionGetUpdated, Proceed, tables
    <2>2. WriteHeld(s) /\ Refused(s)
      BY DEF Honest
    <2>3. WroteVersion(s)' = WroteVersion(s)
      BY <2>1 DEF WroteVersion
    <2>4. after'[s].version >= WroteVersion(s)
      BY <2>1, <2>2 DEF WriteHeld, SnapshotOf
    <2>5. WriteHeld(s)'
      BY <2>1, <2>2, <2>3, <2>4 DEF WriteHeld
    <2> QED
      BY <2>1, <2>2, <2>5 DEF Honest, RowRead, Refused, ImportCalls
  <1>2. CASE TransitionAudit(s)
    BY <1>2, AnswerHonest DEF TransitionAudit
  <1> QED
    BY <1>1, <1>2

LEMMA HonestNext ==
    ASSUME Told, [Next]_vars, NEW t \in Slot
    PROVE  Honest(t)'
  <1> USE DEF Told, Checked
  <1>1. ASSUME NEW s \in Slot, Submit(s) \/ Collect(s) \/ HandlerStep(s) \/ Fault(s)
        PROVE  Honest(t)'
    <2>1. CASE t # s
      BY <1>1, <2>1, OtherSlots, RegistersKept
    <2>2. CASE t = s
      <3>1. CASE Fault(s)
        BY <2>2, <3>1, AnswerHonest DEF Fault, DatabaseError, CreateUnacknowledged,
           UpdateUnacknowledged, AuditUnacknowledged
      <3>2. CASE Collect(s)
        BY <2>2, <3>2, IdleHonest DEF Collect, Typed, TypeOK
      <3> QED
        BY <1>1, <2>2, <3>1, <3>2, SubmitHonest, ImportStepsHonest, TransitionGetHonest,
           TransitionUpdateHonest, TransitionEndHonest DEF HandlerStep
    <2> QED
      BY <2>1, <2>2
  <1>2. CASE (\E p \in Plan : PlanStep(p)) \/ UNCHANGED vars
    BY <1>2, RegistersKept DEF PlanStep, vars, slots
  <1>3. CASE Crash
    BY <1>3, IdleHonest DEF Crash
  <1> QED
    BY <1>1, <1>2, <1>3 DEF Next

LEMMA ToldInit == Init => Told
  BY CheckedInit, StageVersionInit DEF Init, Told, Honest, RowRead, WriteHeld, Refused,
     UnauditedCalls

LEMMA ToldNext ==
    ASSUME Told, [Next]_vars
    PROVE  Told'
  BY CheckedNext, StageVersionNext, HonestNext DEF Told

\* The snapshots of one event.
Faithful(event) ==
    /\ event.before.version = event.wrote - 1
    /\ event.after.version >= event.wrote
    /\ event.wrote > 1 =>
           \E to \in RunStates : /\ RunCanTransition(event.before.state, to)
                                 /\ event.wrote \in StageVersions(runs[event.id].source)[to]

\* The event of a row of the table.
Located(event) == event.id \in DOMAIN runs /\ Faithful(event)

LEMMA NewEventLocated ==
    ASSUME Told, NEW s \in Slot, pc[s] \in {"import.audit", "transition.audit"}
    PROVE  Located([id |-> subject[s], wrote |-> WroteVersion(s),
                    before |-> before[s], after |-> after[s]])
  <1>1. RowRead(s) /\ WriteHeld(s) /\ subject[s] \in DOMAIN runs
    BY DEF Told, Honest, Checked, Typed, SubjectExists, UnauditedCalls
  <1>2. CASE pc[s] = "import.audit"
    BY <1>1, <1>2 DEF RowRead, WriteHeld, ImportCalls, NoSnapshot, WroteVersion, Faithful, Located
  <1>3. CASE pc[s] = "transition.audit"
    <2>1. request[s].target \in RunStates /\ request[s].expected \in Nat
      BY <1>3 DEF Told, Checked, Typed, RequestKinds, TransitionCalls, TransitionRequest
    <2>2. before[s].version = WroteVersion(s) - 1
      BY <1>1, <1>3, <2>1 DEF WriteHeld, WroteVersion
    <2> QED
      BY <1>1, <1>3, <2>1, <2>2 DEF WriteHeld, Faithful, Located
  <1> QED
    BY <1>2, <1>3

\* A row stays in the table and keeps its source, so its events stay located.
LEMMA LocatedKept ==
    ASSUME Checked, [Next]_vars, NEW event, Located(event)
    PROVE  Located(event)'
  <1>1. /\ event.id \in DOMAIN runs'
        /\ runs'[event.id].source = runs[event.id].source
    BY RowsGrow DEF Located
  <1> QED
    BY <1>1 DEF Located, Faithful

AllLocated == \A event \in audits : Located(event)

LEMMA AllLocatedNext ==
    ASSUME Told, AllLocated, [Next]_vars
    PROVE  AllLocated'
  <1>1. ASSUME NEW event \in audits' PROVE Located(event)
    BY NewEventLocated, EventsStep DEF RecordAudit, AllLocated
  <1>2. ASSUME NEW event \in audits' PROVE Located(event)'
    BY <1>1, LocatedKept DEF Told
  <1> QED
    BY <1>2 DEF AllLocated

\* An audit event holds the row as its update found it, and no older one.
THEOREM AuditSnapshotsHold == Spec => []AuditSnapshots
  <1>1. Init => AllLocated
    BY DEF Init, AllLocated
  <1>2. AllLocated => AuditSnapshots
    BY DEF AllLocated, Located, Faithful, AuditSnapshots
  <1> QED
    BY <1>1, <1>2, AllLocatedNext, ToldInit, ToldNext, PTL DEF Spec

\* VERSION_CONFLICT is answered only to a version that the run has left behind,
\* or that it had not reached when the handler read it.
THEOREM ConflictHonestHolds == Spec => []ConflictHonest
  <1>1. Told => ConflictHonest
    BY DEF Told, Honest, Refused, ConflictHonest
  <1> QED
    BY <1>1, ToldInit, ToldNext, PTL DEF Spec
=============================================================================

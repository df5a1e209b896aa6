----------------------------- MODULE AuditTrail -----------------------------
(***************************************************************************)
(* What the four services promise about audit events, which they insert in *)
(* a statement of its own after the write.  A statement never repeats the  *)
(* write of another.  From its commit on, the handler owes an event; it    *)
(* pays by recording one, or an error or a crash cuts it off.  What has    *)
(* been recorded or cut off stays so.  Rows that are there at the start    *)
(* have no event and get none.                                             *)
(***************************************************************************)
EXTENDS TLAPS

CONSTANT Slot  \* handler goroutines

VARIABLES
    written,   \* all writes so far: a row and the version it was given
    recorded,  \* the writes that have an audit event
    pending,   \* slot -> the writes whose event its handler owes
    lost       \* the writes that have no event and get none

vars == <<written, recorded, pending, lost>>

Init ==
    /\ recorded = {}
    /\ pending = [s \in Slot |-> {}]
    /\ lost = written

\* One new write becomes visible.
Write(w) ==
    /\ w \notin written
    /\ written' = written \cup {w}

Commit(s, w) ==
    /\ Write(w)
    /\ pending[s] = {}
    /\ pending' = [pending EXCEPT ![s] = {w}]
    /\ UNCHANGED <<recorded, lost>>

\* The handler does not learn of its write and never records it.
CommitUnacknowledged(w) ==
    /\ Write(w)
    /\ lost' = lost \cup {w}
    /\ UNCHANGED <<recorded, pending>>

Record(s) ==
    /\ recorded' = recorded \cup pending[s]
    /\ pending' = [pending EXCEPT ![s] = {}]
    /\ UNCHANGED <<written, lost>>

Lose(s) ==
    /\ lost' = lost \cup pending[s]
    /\ pending' = [pending EXCEPT ![s] = {}]
    /\ UNCHANGED <<written, recorded>>

Crash ==
    /\ lost' = lost \cup UNION {pending[s] : s \in Slot}
    /\ pending' = [s \in Slot |-> {}]
    /\ UNCHANGED <<written, recorded>>

Next ==
    \/ \E s \in Slot : Record(s) \/ Lose(s)
    \/ \E w \in written' : CommitUnacknowledged(w) \/ \E s \in Slot : Commit(s, w)
    \/ Crash

Spec == Init /\ [][Next]_vars

-----------------------------------------------------------------------------

Pending == UNION {pending[s] : s \in Slot}

\* Every write is recorded, pending or lost, and only one of these; no two
\* handlers owe the event of one write.
Ledger ==
    /\ pending \in [Slot -> SUBSET written]
    /\ written = recorded \cup Pending \cup lost
    /\ recorded \cap Pending = {}
    /\ recorded \cap lost = {}
    /\ Pending \cap lost = {}
    /\ \A s, t \in Slot : s # t => pending[s] \cap pending[t] = {}

\* The ledger balances at the start.
LEMMA InitLedger == Init => Ledger
  BY DEF Init, Ledger, Pending

\* Each step keeps the ledger in balance.
LEMMA NextLedger == Ledger /\ [Next]_vars => Ledger'
  <1> SUFFICES ASSUME Ledger, [Next]_vars PROVE Ledger'
    OBVIOUS
  <1>1. ASSUME NEW w, CommitUnacknowledged(w)
        PROVE  Ledger'
    BY <1>1 DEF CommitUnacknowledged, Write, Ledger, Pending
  <1>2. ASSUME NEW w, NEW s \in Slot, Commit(s, w)
        PROVE  Ledger'
    BY <1>2 DEF Commit, Write, Ledger, Pending
  <1>3. ASSUME NEW s \in Slot, Record(s) \/ Lose(s)
        PROVE  Ledger'
    BY <1>3 DEF Record, Lose, Ledger, Pending
  <1>4. CASE Crash
    BY <1>4 DEF Crash, Ledger, Pending
  <1>5. CASE UNCHANGED vars
    BY <1>5 DEF vars, Ledger, Pending
  <1> QED
    BY <1>1, <1>2, <1>3, <1>4, <1>5 DEF Next

\* In every reachable state each write is accounted for exactly once.
THEOREM LedgerBalances == Spec => []Ledger
  BY InitLedger, NextLedger, PTL DEF Spec
=============================================================================

----------------------------- MODULE RateLimiter -----------------------------
(***************************************************************************)
(* middleware.RateLimiter: fixed windows for each client, in a map that a  *)
(* mutex guards.  A request reads the clock before it takes the mutex, so  *)
(* that it may enter with a time older than that of the request before it. *)
(***************************************************************************)
EXTENDS Integers, FiniteSets

CONSTANTS
    Request,     \* requests that may be in flight together
    Client,      \* keys of the map: scope and client IP
    Capacity,    \* requests admitted in one window
    Window,      \* length of a window, in ticks
    PruneAbove,  \* entries the map may hold before it is pruned
    MaxWait,     \* bound: ticks that a request may wait for the mutex
    MaxTime,     \* bound: ticks of the clock
    MaxCount,    \* bound: a count stays here; beyond Capacity all counts are alike
    NoClient

ASSUME LimiterAssumption ==
    /\ Capacity \in Nat \ {0}
    /\ Window \in Nat \ {0}
    /\ {PruneAbove, MaxTime, MaxCount} \subseteq Nat
    /\ MaxCount > Capacity
    /\ MaxWait \in 0..Window
    /\ NoClient \notin Client

VARIABLES
    clock,     \* time.Now
    clients,   \* the map: client -> when its window started, and its count
    pc,        \* request -> idle, waiting for the mutex, admitted or limited
    client,    \* request -> its key
    now,       \* request -> the time it has read
    grants     \* history: the admitted requests, with window, number and tick

vars == <<clock, clients, pc, client, now, grants>>

Entry == [started : Nat, count : 1..MaxCount]

\* number is the place of an admitted request in its window.
Grant == [client : Client, started : Nat, number : 1..Capacity, at : Nat]

Init ==
    /\ clock = 0
    /\ clients = [c \in {} |-> 0]
    /\ pc = [r \in Request |-> "idle"]
    /\ client = [r \in Request |-> NoClient]
    /\ now = [r \in Request |-> 0]
    /\ grants = {}

\* The mutex passes to a waiter in time: sync.Mutex hands over to one that
\* has waited for a millisecond, and a window is a minute.
Tick ==
    /\ clock < MaxTime
    /\ \A r \in Request : pc[r] = "waiting" => clock < now[r] + MaxWait
    /\ clock' = clock + 1
    /\ UNCHANGED <<clients, pc, client, now, grants>>

Arrive(r, c) ==
    /\ pc[r] = "idle"
    /\ pc' = [pc EXCEPT ![r] = "waiting"]
    /\ client' = [client EXCEPT ![r] = c]
    /\ now' = [now EXCEPT ![r] = clock]
    /\ UNCHANGED <<clock, clients, grants>>

\* Mutant: a client's first window never ends.
OpensWindowOnce(r) == client[r] \notin DOMAIN clients

\* No entry, or one that is a window old or older.
OpensWindow(r) ==
    \/ client[r] \notin DOMAIN clients
    \/ now[r] - clients[client[r]].started >= Window

OneMore(count) == IF count < MaxCount THEN count + 1 ELSE MaxCount

\* Mutant: the entry of a new window holds the end of it.
CountedToEnd(r) ==
    IF OpensWindow(r) THEN [started |-> now[r] + Window, count |-> 1]
    ELSE [started |-> clients[client[r]].started, count |-> OneMore(clients[client[r]].count)]

Counted(r) ==
    IF OpensWindow(r) THEN [started |-> now[r], count |-> 1]
    ELSE [started |-> clients[client[r]].started, count |-> OneMore(clients[client[r]].count)]

\* Mutant: entries are pruned as soon as they are older than this request.
PrunedAtOnce(entries, time) == {c \in DOMAIN entries : time - entries[c].started > 0}

\* The entries that go when the map is too large.
Pruned(entries, time) ==
    IF Cardinality(DOMAIN entries) > PruneAbove
    THEN {c \in DOMAIN entries : time - entries[c].started > 2 * Window}
    ELSE {}

Admits(count) == count <= Capacity

Granting(r) == [client |-> client[r], started |-> Counted(r).started,
                number |-> Counted(r).count, at |-> clock]

\* The critical section, from Lock to Unlock, and the answer it leads to.
Enter(r) ==
    /\ pc[r] = "waiting"
    /\ LET entries == [c \in DOMAIN clients \cup {client[r]} |->
                          IF c = client[r] THEN Counted(r) ELSE clients[c]]
           admitted == Admits(Counted(r).count)
       IN  /\ clients' = [c \in DOMAIN entries \ Pruned(entries, now[r]) |-> entries[c]]
           /\ pc' = [pc EXCEPT ![r] = IF admitted THEN "admitted" ELSE "limited"]
           /\ grants' = IF admitted THEN grants \cup {Granting(r)} ELSE grants
    /\ UNCHANGED <<clock, client, now>>

Leave(r) ==
    /\ pc[r] \in {"admitted", "limited"}
    /\ pc' = [pc EXCEPT ![r] = "idle"]
    /\ client' = [client EXCEPT ![r] = NoClient]
    /\ now' = [now EXCEPT ![r] = 0]
    /\ UNCHANGED <<clock, clients, grants>>

Next ==
    \/ Tick
    \/ \E r \in Request : \/ \E c \in Client : Arrive(r, c)
                          \/ Enter(r)
                          \/ Leave(r)

Spec == Init /\ [][Next]_vars

-----------------------------------------------------------------------------
(* Properties *)

\* Every variable keeps its type, and no time in use lies ahead of the clock.
TypeOK ==
    /\ clock \in 0..MaxTime
    /\ DOMAIN clients \subseteq Client
    /\ \A c \in DOMAIN clients : clients[c] \in Entry /\ clients[c].started <= clock
    /\ pc \in [Request -> {"idle", "waiting", "admitted", "limited"}]
    /\ client \in [Request -> Client \cup {NoClient}]
    /\ now \in [Request -> 0..clock]
    /\ grants \subseteq Grant

Granted(c, from, to) == {grant \in grants : grant.client = c /\ grant.at \in from..to}

\* How many windows can admit requests within one window's length of time: two
\* around the end of a window, and a third when requests have waited.
WindowsInSight == IF MaxWait <= 1 THEN 2 ELSE 3

\* No length of time as long as a window sees more requests of a client
\* admitted than that many windows allow, although requests enter with old
\* times and entries are pruned (Middleware).
BurstBound ==
    \A c \in Client : \A t \in 0..clock :
        Cardinality(Granted(c, t, t + Window - 1)) <= WindowsInSight * Capacity

\* A request is refused only when the capacity of its client was used up
\* within the last window: no window outlives its length, not even when the
\* client keeps sending requests that are refused.
RefusalJustified ==
    \A r \in Request :
        pc[r] = "limited" =>
            Cardinality(Granted(client[r], now[r] - Window + 1, now[r] + MaxWait)) >= Capacity
=============================================================================

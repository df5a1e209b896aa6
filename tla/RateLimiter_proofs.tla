------------------------- MODULE RateLimiter_proofs -------------------------
(* Theorems about RateLimiter, for every capacity, window and number of     *)
(* requests: what one window admits, and how many windows a client can use  *)
(* within one window's length of time.                                      *)
EXTENDS RateLimiter, FiniteSetTheorems, TLAPS

-----------------------------------------------------------------------------
(* The inductive invariant *)

\* A waiting request has not waited too long for the mutex.
Waits ==
    \A r \in Request :
        /\ pc[r] # "idle" => client[r] \in Client
        /\ pc[r] = "waiting" => clock <= now[r] + MaxWait

\* A request is admitted to a window before the last one who read the clock
\* in it has waited for the mutex.
GrantsInWindow ==
    \A grant \in grants : /\ grant.started <= grant.at
                          /\ grant.at <= clock
                          /\ grant.at < grant.started + Window + MaxWait

\* A place of a window is given once.
PlacesOnce ==
    \A g, h \in grants :
        g.client = h.client /\ g.started = h.started /\ g.number = h.number => g = h

\* Two windows of a client do not overlap.
WindowsApart ==
    \A g, h \in grants :
        g.client = h.client =>
            \/ g.started = h.started
            \/ g.started + Window <= h.started
            \/ h.started + Window <= g.started

\* The entry of a client is its last window, and its count is how many places
\* of it have been given, as far as there are places.
EntriesCount ==
    \A c \in DOMAIN clients :
        /\ \A grant \in grants :
               grant.client = c =>
                   \/ grant.started + Window <= clients[c].started
                   \/ /\ grant.started = clients[c].started
                      /\ grant.number <= clients[c].count
        /\ \A n \in 1..Capacity :
               n <= clients[c].count =>
                   \E grant \in grants : /\ grant.client = c
                                         /\ grant.started = clients[c].started
                                         /\ grant.number = n

\* A client that has no entry has used no window that a request in flight
\* could still count in.
Forgotten ==
    \A grant \in grants :
        grant.client \notin DOMAIN clients => grant.started + 2 * Window < clock

\* The places of window s of client c are all given by tick t.
UsedUp(c, s, t) ==
    \A n \in 1..Capacity :
        \E grant \in grants : /\ grant.client = c /\ grant.started = s
                              /\ grant.number = n /\ grant.at <= t

\* A refused request has found its window used up.
Refused ==
    \A r \in Request :
        pc[r] = "limited" =>
            \E s \in Nat : now[r] < s + Window /\ UsedUp(client[r], s, now[r] + MaxWait)

Inv == /\ TypeOK /\ IsFiniteSet(grants)
       /\ Waits /\ GrantsInWindow /\ PlacesOnce /\ WindowsApart
       /\ EntriesCount /\ Forgotten /\ Refused

LEMMA InitInv == Init => Inv
  BY FS_EmptySet, LimiterAssumption
     DEF Init, Inv, TypeOK, Waits, GrantsInWindow, PlacesOnce, WindowsApart, EntriesCount,
         Forgotten, Refused

-----------------------------------------------------------------------------
(* The critical section *)

\* The entry that a request leaves is later than all windows of its client
\* that are over, and no place beyond its count has been given.
LEMMA CountedFits ==
    ASSUME Inv, NEW r \in Request, pc[r] = "waiting"
    PROVE  /\ client[r] \in Client
           /\ Counted(r) \in Entry
           /\ Counted(r).started <= clock
           /\ now[r] < Counted(r).started + Window
           /\ clock <= now[r] + MaxWait
           /\ \A grant \in grants :
                  grant.client = client[r] =>
                      \/ grant.started + Window <= Counted(r).started
                      \/ /\ grant.started = Counted(r).started
                         /\ grant.number < Counted(r).count
           /\ \A n \in 1..Capacity :
                  n < Counted(r).count =>
                      \E grant \in grants : /\ grant.client = client[r]
                                            /\ grant.started = Counted(r).started
                                            /\ grant.number = n
  <1> DEFINE c == client[r]
             n0 == now[r]
  <1>1. /\ c \in Client /\ n0 \in Nat /\ n0 <= clock /\ clock \in Nat
        /\ clock <= n0 + MaxWait
    BY LimiterAssumption DEF Inv, TypeOK, Waits
  <1>2. /\ Window \in Nat /\ Window >= 1 /\ MaxWait \in Nat /\ MaxWait <= Window
        /\ Capacity \in Nat /\ Capacity >= 1 /\ MaxCount \in Nat /\ MaxCount > Capacity
    BY LimiterAssumption
  <1>3. \A grant \in grants : /\ grant.started \in Nat /\ grant.number \in 1..Capacity
    BY DEF Inv, TypeOK, Grant
  <1>4. CASE OpensWindow(r)
    <2>1. Counted(r).started = n0 /\ Counted(r).count = 1 /\ Counted(r) \in Entry
      BY <1>1, <1>2, <1>4 DEF Counted, Entry
    <2>2. ASSUME NEW grant \in grants, grant.client = c
          PROVE  grant.started + Window <= n0
      <3>1. CASE c \notin DOMAIN clients
        BY <1>1, <1>2, <1>3, <2>2, <3>1 DEF Inv, Forgotten
      <3>2. CASE c \in DOMAIN clients /\ n0 - clients[c].started >= Window
        <4>1. clients[c].started \in Nat
          BY <3>2 DEF Inv, TypeOK, Entry
        <4>2. grant.started <= clients[c].started
          BY <1>2, <1>3, <2>2, <3>2, <4>1 DEF Inv, EntriesCount
        <4> QED
          BY <1>1, <1>2, <1>3, <3>2, <4>1, <4>2
      <3> QED
        BY <1>4, <3>1, <3>2 DEF OpensWindow
    <2> HIDE DEF c, n0
    <2>3. \A n \in 1..Capacity : ~(n < 1)
      BY <1>2
    <2> QED
      BY <1>1, <1>2, <2>1, <2>2, <2>3 DEF c, n0
  <1>5. CASE ~OpensWindow(r)
    <2> DEFINE entry == clients[c]
    <2>1. c \in DOMAIN clients /\ ~(n0 - entry.started >= Window)
      BY <1>5 DEF OpensWindow
    <2>2. /\ entry.started \in Nat /\ entry.started <= clock
          /\ entry.count \in 1..MaxCount
      BY <2>1 DEF Inv, TypeOK, Entry
    <2>3. Counted(r) = [started |-> entry.started, count |-> OneMore(entry.count)]
      BY <1>5 DEF Counted
    <2>4. OneMore(entry.count) \in 1..MaxCount
      BY <1>2, <2>2 DEF OneMore
    <2>5. \A n \in 1..Capacity : n < OneMore(entry.count) <=> n <= entry.count
      BY <1>2, <2>2 DEF OneMore
    <2>6. /\ \A grant \in grants :
                 grant.client = c =>
                     \/ grant.started + Window <= entry.started
                     \/ grant.started = entry.started /\ grant.number <= entry.count
          /\ \A n \in 1..Capacity :
                 n <= entry.count =>
                     \E grant \in grants : /\ grant.client = c /\ grant.started = entry.started
                                           /\ grant.number = n
      BY <2>1 DEF Inv, EntriesCount
    <2>7. Counted(r) \in Entry /\ Counted(r).started = entry.started
          /\ Counted(r).count = OneMore(entry.count)
      BY <2>2, <2>3, <2>4 DEF Entry
    <2> HIDE DEF entry, c, n0
    <2>8. n0 < entry.started + Window
      BY <1>1, <1>2, <2>1, <2>2
    <2> QED
      BY <1>1, <1>3, <2>2, <2>5, <2>6, <2>7, <2>8 DEF c, n0
  <1> QED
    BY <1>4, <1>5

\* What the critical section does to the map and to the history.
LEMMA EnterEffect ==
    ASSUME Inv, NEW r \in Request, Enter(r)
    PROVE  /\ DOMAIN clients' \subseteq DOMAIN clients \cup {client[r]}
           /\ \A c \in DOMAIN clients' :
                  clients'[c] = IF c = client[r] THEN Counted(r) ELSE clients[c]
           /\ client[r] \notin DOMAIN clients' => now[r] - Counted(r).started > 2 * Window
           /\ \A c \in DOMAIN clients :
                  c \notin DOMAIN clients' /\ c # client[r] =>
                      now[r] - clients[c].started > 2 * Window
  <1> DEFINE entries == [c \in DOMAIN clients \cup {client[r]} |->
                            IF c = client[r] THEN Counted(r) ELSE clients[c]]
             pruned == Pruned(entries, now[r])
  <1>1. clients' = [c \in DOMAIN entries \ pruned |-> entries[c]]
    BY DEF Enter
  <1>2. \A c \in pruned : c \in DOMAIN entries /\ now[r] - entries[c].started > 2 * Window
    BY DEF Pruned
  <1>3. /\ DOMAIN entries = DOMAIN clients \cup {client[r]}
        /\ \A c \in DOMAIN entries :
               entries[c] = IF c = client[r] THEN Counted(r) ELSE clients[c]
    OBVIOUS
  <1> HIDE DEF entries, pruned
  <1> QED
    BY <1>1, <1>2, <1>3

\* The history after it: an admitted request has a place that was free.
LEMMA EnterGrants ==
    ASSUME Inv, NEW r \in Request, Enter(r)
    PROVE  /\ Counted(r).count <= Capacity => /\ grants' = grants \cup {Granting(r)}
                                              /\ Granting(r) \in Grant
                                              /\ pc' = [pc EXCEPT ![r] = "admitted"]
           /\ Counted(r).count > Capacity => /\ grants' = grants
                                             /\ pc' = [pc EXCEPT ![r] = "limited"]
           /\ Granting(r).client = client[r] /\ Granting(r).started = Counted(r).started
           /\ Granting(r).number = Counted(r).count /\ Granting(r).at = clock
           /\ UNCHANGED <<clock, client, now>>
           /\ pc[r] = "waiting"
  <1>1. pc[r] = "waiting" /\ Counted(r) \in Entry /\ client[r] \in Client /\ clock \in Nat
    BY CountedFits, LimiterAssumption DEF Enter, Inv, TypeOK
  <1>2. Counted(r).count \in 1..MaxCount /\ Counted(r).started \in Nat
    BY <1>1 DEF Entry
  <1>3. Counted(r).count <= Capacity => Granting(r) \in Grant
    BY <1>1, <1>2, LimiterAssumption DEF Granting, Grant
  <1>4. Counted(r).count > Capacity => ~(Counted(r).count <= Capacity)
    BY <1>2, LimiterAssumption
  <1> QED
    BY <1>1, <1>3, <1>4 DEF Enter, Admits, Granting

LEMMA EnterTyped ==
    ASSUME Inv, NEW r \in Request, Enter(r)
    PROVE  TypeOK' /\ IsFiniteSet(grants')
  <1>1. pc[r] = "waiting"
    BY DEF Enter
  <1>2. /\ client[r] \in Client /\ Counted(r) \in Entry /\ Counted(r).started <= clock
    BY <1>1, CountedFits
  <1>3. grants' \subseteq Grant /\ IsFiniteSet(grants')
    <2>1. Counted(r).count <= Capacity \/ Counted(r).count > Capacity
      BY <1>2, LimiterAssumption DEF Entry
    <2> QED
      BY <2>1, EnterGrants, FS_AddElement DEF Inv, TypeOK
  <1>4. UNCHANGED <<clock, client, now>>
    BY EnterGrants
  <1>5. pc' \in [Request -> {"idle", "waiting", "admitted", "limited"}]
    BY DEF Enter, Inv, TypeOK
  <1>6. /\ DOMAIN clients' \subseteq Client
        /\ \A c \in DOMAIN clients' : clients'[c] \in Entry /\ clients'[c].started <= clock
    BY <1>2, EnterEffect DEF Inv, TypeOK
  <1> QED
    BY <1>3, <1>4, <1>5, <1>6 DEF Inv, TypeOK

LEMMA EnterKeepsGrants ==
    ASSUME Inv, NEW r \in Request, Enter(r)
    PROVE  GrantsInWindow' /\ PlacesOnce' /\ WindowsApart'
  <1> DEFINE new == Granting(r)
  <1>1. /\ pc[r] = "waiting" /\ clock' = clock
        /\ new.client = client[r] /\ new.started = Counted(r).started
        /\ new.number = Counted(r).count /\ new.at = clock
        /\ grants' \subseteq grants \cup {new}
    <2>1. Counted(r) \in Entry
      BY CountedFits DEF Enter
    <2>2. Counted(r).count <= Capacity \/ Counted(r).count > Capacity
      BY <2>1, LimiterAssumption DEF Entry
    <2> QED
      BY <2>2, EnterGrants
  <1>2. /\ Counted(r).started \in Nat /\ Counted(r).count \in Nat
        /\ clock \in Nat /\ now[r] \in Nat
    BY <1>1, CountedFits, LimiterAssumption DEF Entry, Inv, TypeOK
  <1>3. \A grant \in grants :
            /\ grant.started \in Nat /\ grant.number \in Nat /\ grant.at \in Nat
            /\ grant.client = new.client =>
                   \/ grant.started + Window <= new.started
                   \/ grant.started = new.started /\ grant.number < new.number
    <2>1. \A grant \in grants : /\ grant.started \in Nat /\ grant.number \in Nat
                                /\ grant.at \in Nat
      BY LimiterAssumption DEF Inv, TypeOK, Grant
    <2> QED
      BY <1>1, <2>1, CountedFits
  <1>4. new.started <= new.at /\ new.at < new.started + Window + MaxWait
    BY <1>1, <1>2, CountedFits, LimiterAssumption
  <1> HIDE DEF new
  <1>5. GrantsInWindow'
    BY <1>1, <1>2, <1>4 DEF Inv, GrantsInWindow
  <1>6. PlacesOnce'
    BY <1>1, <1>2, <1>3, LimiterAssumption DEF Inv, PlacesOnce
  <1>7. WindowsApart'
    BY <1>1, <1>2, <1>3, LimiterAssumption DEF Inv, WindowsApart
  <1> QED
    BY <1>5, <1>6, <1>7

LEMMA EnterKeepsEntries ==
    ASSUME Inv, NEW r \in Request, Enter(r)
    PROVE  EntriesCount' /\ Forgotten'
  <1> DEFINE new == Granting(r)
             entry == Counted(r)
  <1>1. /\ pc[r] = "waiting" /\ clock' = clock
        /\ new.client = client[r] /\ new.started = entry.started /\ new.number = entry.count
        /\ entry.count <= Capacity => grants' = grants \cup {new}
        /\ entry.count > Capacity => grants' = grants
    BY EnterGrants
  <1>2. /\ entry.started \in Nat /\ entry.count \in Nat /\ clock \in Nat /\ now[r] \in Nat
        /\ now[r] <= clock /\ Window \in Nat /\ Capacity \in Nat
    BY <1>1, CountedFits, LimiterAssumption DEF Entry, Inv, TypeOK
  <1>3. \A grant \in grants : grant.started \in Nat /\ grant.number \in Nat
    BY LimiterAssumption DEF Inv, TypeOK, Grant
  <1>4. /\ \A grant \in grants :
               grant.client = client[r] =>
                   \/ grant.started + Window <= entry.started
                   \/ grant.started = entry.started /\ grant.number < entry.count
        /\ \A n \in 1..Capacity :
               n < entry.count =>
                   \E grant \in grants : /\ grant.client = client[r]
                                         /\ grant.started = entry.started
                                         /\ grant.number = n
    BY <1>1, CountedFits
  <1>5. /\ grants \subseteq grants' /\ grants' \subseteq grants \cup {new}
        /\ entry.count <= Capacity => new \in grants'
    BY <1>1, <1>2
  <1>6. /\ DOMAIN clients' \subseteq DOMAIN clients \cup {client[r]}
        /\ \A c \in DOMAIN clients' : clients'[c] = IF c = client[r] THEN entry ELSE clients[c]
        /\ client[r] \notin DOMAIN clients' => now[r] - entry.started > 2 * Window
        /\ \A c \in DOMAIN clients :
               c \notin DOMAIN clients' /\ c # client[r] =>
                   now[r] - clients[c].started > 2 * Window
    BY EnterEffect
  <1> HIDE DEF new, entry
  <1>7. ASSUME NEW c \in DOMAIN clients'
        PROVE  /\ \A grant \in grants' :
                      grant.client = c =>
                          \/ grant.started + Window <= clients'[c].started
                          \/ /\ grant.started = clients'[c].started
                             /\ grant.number <= clients'[c].count
               /\ \A n \in 1..Capacity :
                      n <= clients'[c].count =>
                          \E grant \in grants' : /\ grant.client = c
                                                 /\ grant.started = clients'[c].started
                                                 /\ grant.number = n
    <2>1. CASE c # client[r]
      <3>1. c \in DOMAIN clients /\ clients'[c] = clients[c]
        BY <1>6, <2>1
      <3>2. \A grant \in grants' : grant.client = c => grant \in grants
        BY <1>1, <1>5, <2>1
      <3> QED
        BY <1>5, <3>1, <3>2 DEF Inv, EntriesCount
    <2>2. CASE c = client[r]
      <3>1. clients'[c] = entry
        BY <1>6, <2>2
      <3>2. \A grant \in grants' :
                grant.client = c =>
                    \/ grant.started + Window <= entry.started
                    \/ grant.started = entry.started /\ grant.number <= entry.count
        BY <1>1, <1>2, <1>3, <1>4, <1>5, <2>2
      <3>3. ASSUME NEW n \in 1..Capacity, n <= entry.count
            PROVE  \E grant \in grants' : /\ grant.client = c /\ grant.started = entry.started
                                          /\ grant.number = n
        <4>1. CASE n < entry.count
          BY <1>4, <1>5, <2>2, <4>1
        <4>2. CASE n = entry.count
          <5>1. entry.count <= Capacity
            BY <1>2, <4>2
          <5> QED
            BY <1>1, <1>5, <2>2, <4>2, <5>1
        <4> QED
          BY <1>2, <3>3, <4>1, <4>2
      <3> QED
        BY <3>1, <3>2, <3>3
    <2> QED
      BY <2>1, <2>2
  <1>8. EntriesCount'
    BY <1>7 DEF EntriesCount
  <1>9. ASSUME NEW grant \in grants', grant.client \notin DOMAIN clients'
        PROVE  grant.started + 2 * Window < clock
    <2>1. CASE grant.client = client[r]
      <3>1. grant.started <= entry.started /\ grant.started \in Nat
        BY <1>1, <1>2, <1>3, <1>4, <1>5, <2>1
      <3>2. now[r] - entry.started > 2 * Window
        BY <1>6, <1>9, <2>1
      <3> QED
        BY <1>2, <3>1, <3>2
    <2>2. CASE grant.client # client[r] /\ grant.client \in DOMAIN clients
      <3>1. grant \in grants
        BY <1>1, <1>5, <2>2
      <3>2. now[r] - clients[grant.client].started > 2 * Window
        BY <1>6, <1>9, <2>2
      <3>3. clients[grant.client].started \in Nat
        BY <2>2 DEF Inv, TypeOK, Entry
      <3>4. grant.started <= clients[grant.client].started
        BY <1>2, <1>3, <2>2, <3>1, <3>3 DEF Inv, EntriesCount
      <3> QED
        BY <1>2, <1>3, <3>1, <3>2, <3>3, <3>4
    <2>3. CASE grant.client # client[r] /\ grant.client \notin DOMAIN clients
      BY <1>1, <1>5, <2>3 DEF Inv, Forgotten
    <2> QED
      BY <2>1, <2>2, <2>3
  <1>10. Forgotten'
    BY <1>1, <1>9 DEF Forgotten
  <1> QED
    BY <1>8, <1>10

\* A window that is used up stays so.
LEMMA RefusedStays ==
    ASSUME Inv, grants \subseteq grants', NEW q \in Request, pc[q] = "limited",
           now'[q] = now[q], client'[q] = client[q]
    PROVE  \E s \in Nat : now'[q] < s + Window /\ UsedUp(client[q], s, now[q] + MaxWait)'
  <1>1. PICK s \in Nat : now[q] < s + Window /\ UsedUp(client[q], s, now[q] + MaxWait)
    BY DEF Inv, Refused
  <1> QED
    BY <1>1 DEF UsedUp

LEMMA EnterKeepsRest ==
    ASSUME Inv, NEW r \in Request, Enter(r)
    PROVE  Waits' /\ Refused'
  <1>1. /\ UNCHANGED <<clock, client, now>> /\ pc[r] = "waiting"
        /\ \A q \in Request \ {r} : pc'[q] = pc[q]
        /\ pc'[r] \in {"admitted", "limited"}
    BY EnterGrants DEF Enter, Inv, TypeOK
  <1>2. Waits'
    BY <1>1 DEF Inv, Waits
  <1>3. Counted(r) \in Entry /\ now[r] < Counted(r).started + Window /\ clock <= now[r] + MaxWait
    BY <1>1, CountedFits
  <1>4. grants \subseteq grants'
    <2>1. Counted(r).count <= Capacity \/ Counted(r).count > Capacity
      BY <1>3, LimiterAssumption DEF Entry
    <2> QED
      BY <2>1, EnterGrants
  <1>5. ASSUME pc'[r] = "limited"
        PROVE  \E s \in Nat : now[r] < s + Window /\ UsedUp(client[r], s, now[r] + MaxWait)'
    <2>1. Counted(r).count > Capacity /\ grants' = grants
      <3>1. Counted(r).count <= Capacity \/ Counted(r).count > Capacity
        BY <1>3, LimiterAssumption DEF Entry
      <3> QED
        BY <1>5, <3>1, EnterGrants DEF Inv, TypeOK
    <2>2. PICK s \in Nat : s = Counted(r).started
      BY <1>3 DEF Entry
    <2>3. ASSUME NEW n \in 1..Capacity
          PROVE  \E grant \in grants : /\ grant.client = client[r] /\ grant.started = s
                                       /\ grant.number = n /\ grant.at <= now[r] + MaxWait
      <3>1. n < Counted(r).count
        BY <1>3, <2>1, LimiterAssumption DEF Entry
      <3>2. PICK grant \in grants : /\ grant.client = client[r] /\ grant.started = s
                                    /\ grant.number = n
        BY <1>1, <2>2, <3>1, CountedFits
      <3>3. grant.at <= clock /\ grant.at \in Nat /\ clock \in Nat /\ now[r] \in Nat
        BY LimiterAssumption DEF Inv, TypeOK, Grant, GrantsInWindow
      <3> QED
        BY <1>3, <3>2, <3>3, LimiterAssumption
    <2>4. UsedUp(client[r], s, now[r] + MaxWait)'
      BY <1>1, <2>1, <2>3 DEF UsedUp
    <2> QED
      BY <1>3, <2>2, <2>4
  <1>6. ASSUME NEW q \in Request, pc'[q] = "limited"
        PROVE  \E s \in Nat : now[q] < s + Window /\ UsedUp(client[q], s, now[q] + MaxWait)'
    <2>1. CASE q = r
      BY <1>5, <1>6, <2>1
    <2>2. CASE q # r
      <3>1. pc[q] = "limited" /\ now'[q] = now[q] /\ client'[q] = client[q]
        BY <1>1, <1>6, <2>2
      <3> QED
        BY <1>4, <3>1, RefusedStays
    <2> QED
      BY <2>1, <2>2
  <1>7. Refused'
    BY <1>1, <1>6 DEF Refused, UsedUp
  <1> QED
    BY <1>2, <1>7

-----------------------------------------------------------------------------
(* The other steps *)

LEMMA TickInv ==
    ASSUME Inv, Tick
    PROVE  Inv'
  <1>1. /\ clock \in Nat /\ clock' = clock + 1 /\ clock' \in 0..MaxTime
        /\ UNCHANGED <<clients, pc, client, now, grants>>
    BY LimiterAssumption DEF Tick, Inv, TypeOK
  <1>2. TypeOK'
    BY <1>1 DEF Inv, TypeOK, Entry
  <1>3. Waits'
    <2>1. ASSUME NEW r \in Request, pc[r] = "waiting"
          PROVE  clock' <= now[r] + MaxWait
      <3>1. clock < now[r] + MaxWait /\ now[r] \in Nat
        BY <1>1, <2>1 DEF Tick, Inv, TypeOK
      <3> QED
        BY <1>1, <3>1, LimiterAssumption
    <2> QED
      BY <1>1, <2>1 DEF Inv, Waits
  <1>4. GrantsInWindow' /\ Forgotten'
    <2>1. \A grant \in grants : grant.started \in Nat /\ grant.at \in Nat
      BY DEF Inv, TypeOK, Grant
    <2> QED
      BY <1>1, <2>1, LimiterAssumption DEF Inv, GrantsInWindow, Forgotten
  <1>5. PlacesOnce' /\ WindowsApart' /\ EntriesCount'
    BY <1>1 DEF Inv, PlacesOnce, WindowsApart, EntriesCount
  <1>6. Refused'
    BY <1>1 DEF Inv, Refused, UsedUp
  <1> QED
    BY <1>1, <1>2, <1>3, <1>4, <1>5, <1>6 DEF Inv

LEMMA RequestInv ==
    ASSUME Inv, NEW r \in Request,
           Leave(r) \/ \E c \in Client : Arrive(r, c)
    PROVE  Inv'
  <1>1. UNCHANGED <<clock, clients, grants>>
    BY DEF Arrive, Leave
  <1>2. /\ pc'[r] \in {"idle", "waiting"}
        /\ \A q \in Request \ {r} : /\ pc'[q] = pc[q] /\ client'[q] = client[q]
                                    /\ now'[q] = now[q]
        /\ pc'[r] = "waiting" => client'[r] \in Client /\ now'[r] = clock
    BY DEF Arrive, Leave, Inv, TypeOK
  <1>3. clock \in Nat
    BY LimiterAssumption DEF Inv, TypeOK
  <1>4. TypeOK'
    BY <1>1, <1>3 DEF Arrive, Leave, Inv, TypeOK
  <1>5. Waits'
    BY <1>1, <1>2, <1>3, LimiterAssumption DEF Inv, Waits
  <1>6. GrantsInWindow' /\ Forgotten' /\ PlacesOnce' /\ WindowsApart' /\ EntriesCount'
    BY <1>1 DEF Inv, GrantsInWindow, Forgotten, PlacesOnce, WindowsApart, EntriesCount
  <1>7. Refused'
    <2>1. ASSUME NEW q \in Request, pc'[q] = "limited"
          PROVE  \E s \in Nat : now'[q] < s + Window /\ UsedUp(client[q], s, now[q] + MaxWait)'
      <3>1. q # r
        BY <1>2, <2>1
      <3>2. pc[q] = "limited" /\ now'[q] = now[q] /\ client'[q] = client[q]
        BY <1>2, <2>1, <3>1
      <3>3. PICK s \in Nat : now[q] < s + Window /\ UsedUp(client[q], s, now[q] + MaxWait)
        BY <3>2 DEF Inv, Refused
      <3> QED
        BY <1>1, <3>2, <3>3 DEF UsedUp
    <2> QED
      BY <2>1 DEF Refused, UsedUp
  <1> QED
    BY <1>1, <1>4, <1>5, <1>6, <1>7 DEF Inv

LEMMA NextInv == Inv /\ [Next]_vars => Inv'
  <1> SUFFICES ASSUME Inv, [Next]_vars PROVE Inv'
    OBVIOUS
  <1>1. ASSUME NEW r \in Request, Enter(r)
        PROVE  Inv'
    BY <1>1, EnterTyped, EnterKeepsGrants, EnterKeepsEntries, EnterKeepsRest DEF Inv
  <1>2. CASE UNCHANGED vars
    BY <1>2 DEF vars, Inv, TypeOK, Waits, GrantsInWindow, PlacesOnce, WindowsApart,
       EntriesCount, Forgotten, Refused, UsedUp
  <1> QED
    BY <1>1, <1>2, TickInv, RequestInv DEF Next

\* The limiter never leaves the types of its variables, and no time that it
\* uses lies ahead of the clock.
THEOREM TypeCorrect == Spec => []TypeOK
  <1>1. Inv => TypeOK
    BY DEF Inv
  <1> QED
    BY InitInv, NextInv, <1>1, PTL DEF Spec

-----------------------------------------------------------------------------
(* Counting *)

\* The places of one window are at most its capacity.
LEMMA OneWindowBound ==
    ASSUME Inv, NEW S \in SUBSET grants,
           \A g, h \in S : g.client = h.client /\ g.started = h.started
    PROVE  IsFiniteSet(S) /\ Cardinality(S) <= Capacity /\ Cardinality(S) \in Nat
  <1> DEFINE place == [g \in S |-> g.number]
  <1>1. Capacity \in Nat /\ Capacity >= 1
    BY LimiterAssumption
  <1>2. place \in [S -> 1..Capacity]
    BY DEF Inv, TypeOK, Grant
  <1>3. \A g, h \in S : place[g] = place[h] => g = h
    BY DEF Inv, PlacesOnce
  <1>4. place \in Injection(S, 1..Capacity)
    BY <1>2, <1>3 DEF Injection, IsInjective
  <1> HIDE DEF place
  <1>5. IsFiniteSet(1..Capacity) /\ Cardinality(1..Capacity) = Capacity
    BY <1>1, FS_Interval
  <1>6. IsFiniteSet(S) /\ Cardinality(S) <= Capacity
    BY <1>4, <1>5, FS_Injection
  <1> QED
    BY <1>6, FS_CardinalityType

\* The windows that start within one window's length of time are one.
StartedIn(S, from) == {g \in S : g.started \in from..(from + Window - 1)}

LEMMA OneWindowStarts ==
    ASSUME Inv, NEW c, NEW from \in Int, NEW S \in SUBSET grants, \A g \in S : g.client = c
    PROVE  /\ IsFiniteSet(StartedIn(S, from))
           /\ Cardinality(StartedIn(S, from)) <= Capacity
           /\ Cardinality(StartedIn(S, from)) \in Nat
  <1>1. ASSUME NEW g \in StartedIn(S, from), NEW h \in StartedIn(S, from)
        PROVE  g.client = h.client /\ g.started = h.started
    <2>1. /\ g \in grants /\ h \in grants /\ g.client = h.client
          /\ g.started \in from..(from + Window - 1) /\ h.started \in from..(from + Window - 1)
      BY DEF StartedIn
    <2>2. Window \in Nat
      BY LimiterAssumption
    <2> QED
      BY <2>1, <2>2 DEF Inv, WindowsApart
  <1>2. StartedIn(S, from) \in SUBSET grants
    BY DEF StartedIn
  <1> QED
    BY <1>1, <1>2, OneWindowBound

LEMMA UnionBound ==
    ASSUME NEW S, NEW T, IsFiniteSet(S), IsFiniteSet(T), NEW m \in Nat, NEW n \in Nat,
           Cardinality(S) <= m, Cardinality(T) <= n
    PROVE  IsFiniteSet(S \cup T) /\ Cardinality(S \cup T) <= m + n
  <1>1. IsFiniteSet(S \cap T)
    BY FS_Subset
  <1>2. /\ Cardinality(S) \in Nat /\ Cardinality(T) \in Nat /\ Cardinality(S \cap T) \in Nat
    BY <1>1, FS_CardinalityType
  <1> QED
    BY <1>2, FS_Union

\* What is admitted from t on for one window's length belongs to windows that
\* start in two such lengths of time, or in three when requests wait.
LEMMA GrantedInTwo ==
    ASSUME Inv, MaxWait <= 1, NEW c \in Client, NEW t \in Nat
    PROVE  LET S == Granted(c, t, t + Window - 1)
           IN  S \subseteq StartedIn(S, t - Window) \cup StartedIn(S, t)
  <1>1. ASSUME NEW g \in Granted(c, t, t + Window - 1)
        PROVE  \/ g.started \in (t - Window)..(t - Window + Window - 1)
               \/ g.started \in t..(t + Window - 1)
    <2>1. /\ g.started \in Nat /\ g.at \in Nat /\ g.at >= t /\ g.at <= t + Window - 1
          /\ g.started <= g.at /\ g.at < g.started + Window + MaxWait
      BY LimiterAssumption DEF Granted, Inv, TypeOK, Grant, GrantsInWindow
    <2>2. Window \in Nat /\ Window >= 1 /\ MaxWait \in Nat
      BY LimiterAssumption
    <2> QED
      BY <2>1, <2>2
  <1> QED
    BY <1>1 DEF StartedIn

LEMMA GrantedInThree ==
    ASSUME Inv, NEW c \in Client, NEW t \in Nat
    PROVE  LET S == Granted(c, t, t + Window - 1)
           IN  S \subseteq StartedIn(S, t - 2 * Window)
                            \cup (StartedIn(S, t - Window) \cup StartedIn(S, t))
  <1>1. ASSUME NEW g \in Granted(c, t, t + Window - 1)
        PROVE  \/ g.started \in (t - 2 * Window)..(t - 2 * Window + Window - 1)
               \/ g.started \in (t - Window)..(t - Window + Window - 1)
               \/ g.started \in t..(t + Window - 1)
    <2>1. /\ g.started \in Nat /\ g.at \in Nat /\ g.at >= t /\ g.at <= t + Window - 1
          /\ g.started <= g.at /\ g.at < g.started + Window + MaxWait
      BY LimiterAssumption DEF Granted, Inv, TypeOK, Grant, GrantsInWindow
    <2>2. Window \in Nat /\ Window >= 1 /\ MaxWait \in Nat /\ MaxWait <= Window
      BY LimiterAssumption
    <2> QED
      BY <2>1, <2>2
  <1> QED
    BY <1>1 DEF StartedIn

LEMMA InvBurst == Inv => BurstBound
  <1> SUFFICES ASSUME Inv, NEW c \in Client, NEW t \in 0..clock
               PROVE  Cardinality(Granted(c, t, t + Window - 1)) <= WindowsInSight * Capacity
    BY DEF BurstBound
  <1> DEFINE S == Granted(c, t, t + Window - 1)
             A == StartedIn(S, t - 2 * Window)
             B == StartedIn(S, t - Window)
             C == StartedIn(S, t)
  <1>1. t \in Nat /\ Window \in Nat /\ MaxWait \in Nat /\ Capacity \in Nat
    BY LimiterAssumption
  <1>2. S \in SUBSET grants /\ \A g \in S : g.client = c
    BY DEF Granted
  <1>3. /\ t - 2 * Window \in Int /\ t - Window \in Int /\ t \in Int
    BY <1>1
  <1> HIDE DEF S
  <1>4. /\ IsFiniteSet(A) /\ Cardinality(A) <= Capacity
        /\ IsFiniteSet(B) /\ Cardinality(B) <= Capacity
        /\ IsFiniteSet(C) /\ Cardinality(C) <= Capacity
    BY <1>2, <1>3, OneWindowStarts
  <1>5. IsFiniteSet(S) /\ Cardinality(S) \in Nat
    <2>1. IsFiniteSet(S)
      BY <1>2, FS_Subset DEF Inv
    <2> QED
      BY <2>1, FS_CardinalityType
  <1>6. MaxWait <= 1 => S \subseteq B \cup C
    BY <1>1, GrantedInTwo DEF S
  <1>7. S \subseteq A \cup (B \cup C)
    BY <1>1, GrantedInThree DEF S
  <1> HIDE DEF A, B, C
  <1>8. /\ IsFiniteSet(B \cup C) /\ Cardinality(B \cup C) <= Capacity + Capacity
        /\ Cardinality(B \cup C) \in Nat
    BY <1>1, <1>4, UnionBound, FS_CardinalityType
  <1>9. /\ IsFiniteSet(A \cup (B \cup C))
        /\ Cardinality(A \cup (B \cup C)) <= Capacity + (Capacity + Capacity)
        /\ Cardinality(A \cup (B \cup C)) \in Nat
    <2>1. Capacity + Capacity \in Nat
      BY <1>1
    <2> QED
      BY <1>1, <1>4, <1>8, <2>1, UnionBound, FS_CardinalityType
  <1>10. CASE MaxWait <= 1
    <2>1. Cardinality(S) <= Cardinality(B \cup C)
      BY <1>6, <1>8, <1>10, FS_Subset
    <2>2. WindowsInSight = 2
      BY <1>10 DEF WindowsInSight
    <2>3. Cardinality(S) <= 2 * Capacity
      BY <1>1, <1>5, <1>8, <2>1
    <2> QED
      BY <2>2, <2>3 DEF S
  <1>11. CASE ~(MaxWait <= 1)
    <2>1. Cardinality(S) <= Cardinality(A \cup (B \cup C))
      BY <1>7, <1>9, FS_Subset
    <2>2. WindowsInSight = 3
      BY <1>11 DEF WindowsInSight
    <2>3. Cardinality(S) <= 3 * Capacity
      BY <1>1, <1>5, <1>9, <2>1
    <2> QED
      BY <2>2, <2>3 DEF S
  <1> QED
    BY <1>10, <1>11

\* In no length of time as long as a window are more requests of a client
\* admitted than two windows allow, or three when a request may wait for the
\* mutex for longer than one tick.
THEOREM BurstBoundHolds == Spec => []BurstBound
  BY InitInv, NextInv, InvBurst, PTL DEF Spec

LEMMA InvRefusal == Inv => RefusalJustified
  <1> SUFFICES ASSUME Inv, NEW r \in Request, pc[r] = "limited"
               PROVE  Cardinality(Granted(client[r], now[r] - Window + 1, now[r] + MaxWait))
                          >= Capacity
    BY DEF RefusalJustified
  <1> DEFINE S == Granted(client[r], now[r] - Window + 1, now[r] + MaxWait)
  <1>1. PICK s \in Nat : now[r] < s + Window /\ UsedUp(client[r], s, now[r] + MaxWait)
    BY DEF Inv, Refused
  <1>2. ASSUME NEW n \in 1..Capacity
        PROVE  \E g \in S : g.number = n
    <2>1. PICK g \in grants : /\ g.client = client[r] /\ g.started = s /\ g.number = n
                              /\ g.at <= now[r] + MaxWait
      BY <1>1 DEF UsedUp
    <2>2. g.at \in Nat /\ g.started <= g.at /\ now[r] \in Nat
      BY LimiterAssumption DEF Inv, TypeOK, Grant, GrantsInWindow
    <2>3. Window \in Nat /\ MaxWait \in Nat
      BY LimiterAssumption
    <2>4. g.at \in (now[r] - Window + 1)..(now[r] + MaxWait)
      BY <1>1, <2>1, <2>2, <2>3
    <2> QED
      BY <2>1, <2>4 DEF Granted
  <1>3. IsFiniteSet(S)
    <2>1. S \in SUBSET grants
      BY DEF Granted
    <2> QED
      BY <2>1, FS_Subset DEF Inv
  <1> HIDE DEF S
  <1> DEFINE holder == [n \in 1..Capacity |-> CHOOSE g \in S : g.number = n]
  <1>4. \A n \in 1..Capacity : holder[n] \in S /\ holder[n].number = n
    BY <1>2
  <1>5. holder \in Injection(1..Capacity, S)
    <2>1. holder \in [1..Capacity -> S]
      BY <1>4
    <2>2. \A m, n \in 1..Capacity : holder[m] = holder[n] => m = n
      BY <1>4
    <2> HIDE DEF holder
    <2> QED
      BY <2>1, <2>2 DEF Injection, IsInjective
  <1> HIDE DEF holder
  <1>6. Cardinality(1..Capacity) = Capacity
    <2>1. 1 \in Int /\ Capacity \in Int /\ Capacity >= 1
      BY LimiterAssumption
    <2> QED
      BY <2>1, FS_Interval
  <1>7. Cardinality(1..Capacity) <= Cardinality(S)
    BY <1>3, <1>5, FS_Injection
  <1>8. Cardinality(S) \in Nat
    BY <1>3, FS_CardinalityType
  <1> QED
    BY <1>6, <1>7, <1>8, LimiterAssumption DEF S

\* A request is refused only when the capacity of its client was used up
\* within the window that ends with it.
THEOREM RefusalJustifiedHolds == Spec => []RefusalJustified
  BY InitInv, NextInv, InvRefusal, PTL DEF Spec
=============================================================================

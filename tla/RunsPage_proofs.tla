--------------------------- MODULE RunsPage_proofs ---------------------------
(* Theorems about RunsPage, for every set of runs, any number of requests in *)
(* flight and any bound on the versions.                                     *)
EXTENDS RunsPage, TLAPS

Table == [Run -> [version : 1 .. MaxVersion, state : RunStates]]

Accounts == Roles \cup {"inactive"}

\* An item that is held somewhere in the tab, or on its way, is an older version
\* of its run or the run as it is stored.
Known(item, table) ==
    /\ item \in Item
    /\ item.version <= table[item.id].version
    /\ item.version = table[item.id].version => item.state = table[item.id].state

\* A role that was handed out is the one that the account still has, or the one
\* that it has lost and will not get back.
Past(role, acct) ==
    \/ role = acct
    \/ role = "data_processor" /\ acct # "data_processor"

SoundList(list, table) ==
    /\ \A item \in list : Known(item, table)
    /\ \A r \in Run : \E item \in list : item.id = r

SoundRequest(c, table, acct) ==
    /\ c.kind \in {"quality", "transition"} => Known(c.item, table)
    /\ c.kind = "transition" => c.target \in RunStates /\ c.item.version < MaxVersion
    /\ c.stage = "sent" /\ c.token # None => /\ Past(c.token, acct)
                                             /\ c.token = acct => c.entitled
    /\ c.stage = "admitted" => c.entitled
    /\ c.stage = "moved" => c.kind = "transition"

SoundAnswer(c, table, acct) ==
    c.code = "ok" =>
        /\ c.kind = "login" => c.body \in Roles /\ Past(c.body, acct)
        /\ c.kind = "list" => SoundList(c.body, table)
        /\ c.kind = "quality" => c.body \in Run
        /\ c.kind = "transition" => Known(c.body, table)

Typed(c) ==
    \/ c = Idle
    \/ c \in Request
    \/ c.kind \in Kinds /\ c \in Answered(c.kind)

Sound(c, table, acct) ==
    /\ Typed(c)
    /\ c \in Request => SoundRequest(c, table, acct)
    /\ c.stage = "answered" => SoundAnswer(c, table, acct)

TabTyped ==
    /\ session \in Roles \cup {None}
    /\ items \subseteq Item
    /\ selected \in Item \cup {None}
    /\ quality \in Run \cup {None}
    /\ loading \in BOOLEAN

TabSound ==
    /\ session # None => Past(session, account)
    /\ \A item \in items : Known(item, rows)
    /\ selected # None => Known(selected, rows)

\* The inductive invariant.
Inv ==
    /\ account \in Accounts
    /\ rows \in Table
    /\ TabTyped
    /\ TabSound
    /\ calls = [s \in Slot |-> calls[s]]
    /\ \A s \in Slot : Sound(calls[s], rows, account)

-----------------------------------------------------------------------------
(* How the stored rows and the account change *)

Advances(table, next) ==
    /\ table \in Table
    /\ next \in Table
    /\ \A r \in Run : \/ next[r] = table[r]
                      \/ next[r].version > table[r].version

Follows(acct, next) ==
    \/ next = acct
    \/ acct = "data_processor" /\ next \in {"auditor", "inactive"}

LEMMA KnownKept ==
    ASSUME NEW table, NEW next, Advances(table, next), NEW item, Known(item, table)
    PROVE  Known(item, next)
  <1>1. item.id \in Run /\ item.version \in 1 .. MaxVersion
    BY DEF Known, Item
  <1>2. table[item.id].version \in 1 .. MaxVersion /\ next[item.id].version \in 1 .. MaxVersion
    BY <1>1 DEF Advances, Table
  <1> QED
    BY <1>1, <1>2, MaxVersionAssumption DEF Known, Advances

LEMMA PastKept ==
    ASSUME NEW acct, NEW next, Follows(acct, next), NEW role, Past(role, acct)
    PROVE  Past(role, next)
  BY DEF Past, Follows

LEMMA SoundListKept ==
    ASSUME NEW table, NEW next, Advances(table, next), NEW list, SoundList(list, table)
    PROVE  SoundList(list, next)
  BY KnownKept DEF SoundList

LEMMA SoundKept ==
    ASSUME NEW table, NEW next, Advances(table, next),
           NEW acct, NEW after, Follows(acct, after),
           NEW c, Sound(c, table, acct)
    PROVE  Sound(c, next, after)
  <1>1. ASSUME c \in Request, SoundRequest(c, table, acct)
        PROVE  SoundRequest(c, next, after)
    <2>1. c.kind \in {"quality", "transition"} => Known(c.item, next)
      BY <1>1, KnownKept DEF SoundRequest
    <2>2. ASSUME c.stage = "sent", c.token # None
          PROVE  Past(c.token, after) /\ (c.token = after => c.entitled)
      BY <1>1, <2>2, PastKept DEF SoundRequest, Past, Follows
    <2> QED
      BY <1>1, <2>1, <2>2 DEF SoundRequest
  <1>2. ASSUME SoundAnswer(c, table, acct)
        PROVE  SoundAnswer(c, next, after)
    BY <1>2, KnownKept, PastKept, SoundListKept DEF SoundAnswer
  <1> QED
    BY <1>1, <1>2 DEF Sound

\* A step that leaves the requests of the other slots alone.
LEMMA OneSlot ==
    ASSUME Inv, NEW s \in Slot, NEW c,
           calls' = [calls EXCEPT ![s] = c],
           Sound(c, rows', account'),
           account' \in Accounts, Follows(account, account'), Advances(rows, rows'),
           TabTyped', TabSound'
    PROVE  Inv'
  <1>1. calls' = [t \in Slot |-> calls'[t]]
    BY DEF Inv
  <1>2. ASSUME NEW t \in Slot
        PROVE  Sound(calls'[t], rows', account')
    <2>1. CASE t = s
      BY <2>1 DEF Inv
    <2>2. CASE t # s
      <3>1. calls'[t] = calls[t]
        BY <2>2 DEF Inv
      <3>2. Sound(calls[t], rows', account')
        BY SoundKept DEF Inv
      <3> QED
        BY <3>1, <3>2
    <2> QED
      BY <2>1, <2>2
  <1>3. rows' \in Table
    BY DEF Advances
  <1> QED
    BY <1>1, <1>2, <1>3 DEF Inv

\* The tab as it was stays sound.
LEMMA TabKept ==
    ASSUME Inv, UNCHANGED <<session, items, selected, quality, loading>>,
           Follows(account, account'), Advances(rows, rows')
    PROVE  TabTyped' /\ TabSound'
  <1>1. TabTyped'
    BY DEF Inv, TabTyped
  <1>2. TabSound'
    BY KnownKept, PastKept DEF Inv, TabSound
  <1> QED
    BY <1>1, <1>2

LEMMA Stays ==
    ASSUME Inv, UNCHANGED <<account, rows>>
    PROVE  Follows(account, account') /\ Advances(rows, rows') /\ account' \in Accounts
  BY DEF Inv, Follows, Advances

\* The stage tells the three shapes of a request apart.
LEMMA Stages ==
    ASSUME NEW c
    PROVE  /\ c = Idle => c.stage = "idle"
           /\ c \in Request => c.stage \in {"sent", "admitted", "moved"} /\ c.kind \in Kinds
           /\ \A kind \in Kinds : c \in Answered(kind) => c.stage = "answered"
  <1>1. c = Idle => c.stage = "idle"
    BY DEF Idle
  <1>2. c \in Request => c.stage \in {"sent", "admitted", "moved"} /\ c.kind \in Kinds
    BY DEF Request
  <1>3. ASSUME NEW kind \in Kinds, c \in Answered(kind)
        PROVE  c.stage = "answered"
    BY <1>3 DEF Answered
  <1> QED
    BY <1>1, <1>2, <1>3

LEMMA Shapes ==
    ASSUME NEW c, Typed(c)
    PROVE  /\ c.stage \in {"sent", "admitted", "moved"} <=> c \in Request
           /\ c.stage = "answered" <=> c.kind \in Kinds /\ c \in Answered(c.kind)
           /\ c # Idle => c.kind \in Kinds
  BY Stages DEF Typed

LEMMA SlotShapes ==
    ASSUME Inv, NEW s \in Slot
    PROVE  /\ Typed(calls[s])
           /\ calls[s].stage \in {"sent", "admitted", "moved"} <=> calls[s] \in Request
           /\ calls[s].stage = "answered" =>
                  calls[s].kind \in Kinds /\ calls[s] \in Answered(calls[s].kind)
           /\ ~Free(s) => calls[s].kind \in Kinds
  BY Shapes DEF Inv, Sound, Free

-----------------------------------------------------------------------------
(* The user *)

LEMMA SendStep ==
    ASSUME Inv, NEW s \in Slot, NEW kind \in Kinds,
           NEW item \in Item \cup {None}, NEW target \in RunStates \cup {None},
           kind \in {"quality", "transition"} => Known(item, rows),
           kind = "transition" => target \in RunStates /\ item.version < MaxVersion,
           Send(s, kind, item, target), UNCHANGED <<account, rows>>, TabTyped', TabSound'
    PROVE  Inv'
  <1> DEFINE c == [stage |-> "sent", kind |-> kind, open |-> TRUE, token |-> session,
                   entitled |-> session = account, item |-> item, target |-> target]
  <1>1. calls' = [calls EXCEPT ![s] = c]
    BY DEF Send
  <1>2. (session = account) \in BOOLEAN
    OBVIOUS
  <1>3. c \in Request
    BY <1>2 DEF Request, Inv, TabTyped
  <1>4. SoundRequest(c, rows', account')
    BY DEF SoundRequest, Inv, TabSound
  <1>5. Sound(c, rows', account')
    BY <1>3, <1>4 DEF Sound, Typed
  <1> QED
    BY <1>1, <1>5, Stays, OneSlot

LEMMA LoginStep ==
    ASSUME Inv, NEW s \in Slot, Login(s)
    PROVE  Inv'
  <1>1. TabTyped' /\ TabSound'
    BY Stays, TabKept DEF Login
  <1> QED
    BY <1>1, SendStep DEF Login, Kinds

LEMMA RefreshStep ==
    ASSUME Inv, NEW s \in Slot, Refresh(s)
    PROVE  Inv'
  <1>1. TabTyped' /\ TabSound'
    BY DEF Refresh, Inv, TabTyped, TabSound
  <1> QED
    BY <1>1, SendStep DEF Refresh, Kinds

LEMMA SelectStep ==
    ASSUME Inv, NEW s \in Slot, NEW item \in items, Select(item, s)
    PROVE  Inv'
  <1>1. Known(item, rows) /\ item \in Item
    BY DEF Inv, TabSound, Known
  <1>2. TabTyped' /\ TabSound'
    BY <1>1 DEF Select, Inv, TabTyped, TabSound
  <1> QED
    BY <1>1, <1>2, SendStep DEF Select, Kinds

LEMMA ClickStep ==
    ASSUME Inv, NEW s \in Slot, NEW target \in RunStates, Click(target, s)
    PROVE  Inv'
  <1>1. Known(selected, rows) /\ selected \in Item
    BY DEF Click, Inv, TabSound, Known
  <1>2. TabTyped' /\ TabSound'
    BY Stays, TabKept DEF Click
  <1> QED
    BY <1>1, <1>2, SendStep DEF Click, Kinds

LEMMA LogoutStep ==
    ASSUME Inv, Logout
    PROVE  Inv'
  <1>1. TabTyped' /\ TabSound'
    BY DEF Logout, Inv, TabTyped, TabSound
  <1> QED
    BY <1>1 DEF Logout, Inv

LEMMA AbandonedSound ==
    ASSUME NEW c, NEW table, NEW acct, Sound(c, table, acct)
    PROVE  Sound(Abandoned(c), table, acct)
  <1>1. CASE c.stage \in {"sent", "admitted"} /\ c.kind = "transition"
    <2>1. c \in Request
      BY <1>1, Shapes DEF Sound
    <2>2. Abandoned(c) = [c EXCEPT !.open = FALSE]
      BY <1>1 DEF Abandoned
    <2>3. Abandoned(c) \in Request
      BY <2>1, <2>2 DEF Request
    <2>4. /\ Abandoned(c).stage = c.stage /\ Abandoned(c).kind = c.kind
          /\ Abandoned(c).token = c.token /\ Abandoned(c).entitled = c.entitled
          /\ Abandoned(c).item = c.item /\ Abandoned(c).target = c.target
      BY <2>1, <2>2 DEF Request
    <2>5. SoundRequest(c, table, acct)
      BY <2>1 DEF Sound
    <2>6. SoundRequest(Abandoned(c), table, acct)
      BY <2>4, <2>5 DEF SoundRequest
    <2> QED
      BY <1>1, <2>3, <2>4, <2>6 DEF Sound, Typed
  <1>2. CASE ~(c.stage \in {"sent", "admitted"} /\ c.kind = "transition")
    <2>1. Abandoned(c) = Idle
      BY <1>2 DEF Abandoned
    <2> QED
      BY <2>1 DEF Sound, Typed, Idle, Request
  <1> QED
    BY <1>1, <1>2

LEMMA ReloadStep ==
    ASSUME Inv, Reload
    PROVE  Inv'
  <1>1. TabTyped' /\ TabSound'
    BY DEF Reload, Inv, TabTyped, TabSound
  <1>2. calls' = [s \in Slot |-> calls'[s]]
    BY DEF Reload
  <1>3. \A s \in Slot : Sound(calls'[s], rows', account')
    BY AbandonedSound DEF Reload, Inv
  <1> QED
    BY <1>1, <1>2, <1>3 DEF Reload, Inv

-----------------------------------------------------------------------------
(* The server *)

LEMMA IdleSound ==
    ASSUME NEW table, NEW acct
    PROVE  Sound(Idle, table, acct)
  BY DEF Sound, Typed, Idle, Request

LEMMA AnswerStep ==
    ASSUME Inv, NEW s \in Slot, calls[s] \in Request, NEW code, NEW body,
           code \in {"ok", "unauthorized", "forbidden", "INTERNAL_ERROR",
                     "RUN_TRANSITION_INVALID", "VERSION_CONFLICT"},
           body \in Body[calls[s].kind],
           SoundAnswer([kind |-> calls[s].kind, code |-> code, body |-> body],
                       rows', account'),
           Answer(s, code, body), account' = account, Advances(rows, rows'),
           UNCHANGED <<session, items, selected, quality, loading>>
    PROVE  Inv'
  <1> DEFINE c == [stage |-> "answered", kind |-> calls[s].kind, open |-> TRUE,
                   code |-> code, body |-> body]
  <1>1. Follows(account, account') /\ account' \in Accounts
    BY DEF Follows, Inv
  <1>2. TabTyped' /\ TabSound'
    BY <1>1, TabKept
  <1>3. CASE calls[s].open
    <2>1. calls' = [calls EXCEPT ![s] = c]
      BY <1>3 DEF Answer
    <2>2. c \in Answered(calls[s].kind) /\ calls[s].kind \in Kinds
      BY DEF Answered, Request
    <2>3. SoundAnswer(c, rows', account')
      BY DEF SoundAnswer
    <2>4. Sound(c, rows', account')
      BY <2>2, <2>3 DEF Sound, Typed, Request
    <2> QED
      BY <1>1, <1>2, <2>1, <2>4, OneSlot
  <1>4. CASE ~calls[s].open
    <2>1. calls' = [calls EXCEPT ![s] = Idle]
      BY <1>4 DEF Answer, Close
    <2> QED
      BY <1>1, <1>2, <2>1, IdleSound, OneSlot
  <1> QED
    BY <1>3, <1>4

LEMMA NoBody ==
    ASSUME NEW kind \in Kinds
    PROVE  None \in Body[kind]
  BY DEF Body, Kinds

LEMMA ErrorStep ==
    ASSUME Inv, NEW s \in Slot, calls[s].stage \in {"sent", "admitted", "moved"},
           NEW code \in {"unauthorized", "forbidden", "INTERNAL_ERROR",
                         "RUN_TRANSITION_INVALID", "VERSION_CONFLICT"},
           Answer(s, code, None), account' = account, Advances(rows, rows'),
           UNCHANGED <<session, items, selected, quality, loading>>
    PROVE  Inv'
  <1>1. calls[s] \in Request /\ calls[s].kind \in Kinds
    BY SlotShapes DEF Request
  <1>2. SoundAnswer([kind |-> calls[s].kind, code |-> code, body |-> None], rows', account')
    BY DEF SoundAnswer
  <1> QED
    BY <1>1, <1>2, NoBody, AnswerStep

LEMMA ServeLoginStep ==
    ASSUME Inv, NEW s \in Slot, ServeLogin(s)
    PROVE  Inv'
  <1>1. CASE account = "inactive"
    BY <1>1, Stays, ErrorStep DEF ServeLogin
  <1>2. CASE account # "inactive"
    <2>1. calls[s] \in Request /\ calls[s].kind = "login"
      BY SlotShapes DEF ServeLogin
    <2>2. account \in Roles /\ account \in Body[calls[s].kind]
      BY <1>2, <2>1 DEF Inv, Accounts, Body
    <2>3. SoundAnswer([kind |-> calls[s].kind, code |-> "ok", body |-> account],
                      rows', account')
      BY <2>1, <2>2 DEF SoundAnswer, Past, ServeLogin
    <2> QED
      BY <1>2, <2>1, <2>2, <2>3, Stays, AnswerStep DEF ServeLogin
  <1> QED
    BY <1>1, <1>2

LEMMA CheckTokenStep ==
    ASSUME Inv, NEW s \in Slot, NEW read \in BOOLEAN, CheckToken(s, read)
    PROVE  Inv'
  <1>1. CASE ~read \/ ~TokenStands(calls[s].token)
    BY <1>1, Stays, ErrorStep DEF CheckToken
  <1>2. CASE read /\ TokenStands(calls[s].token) /\ ~Allowed(calls[s].kind, calls[s].token)
    BY <1>2, Stays, ErrorStep DEF CheckToken
  <1>3. CASE read /\ TokenStands(calls[s].token) /\ Allowed(calls[s].kind, calls[s].token)
    <2> DEFINE call == calls[s]
               c == [stage |-> "admitted", kind |-> call.kind, open |-> call.open,
                     token |-> None, entitled |-> call.entitled, item |-> call.item,
                     target |-> call.target]
    <2>1. calls' = [calls EXCEPT ![s] = c] /\ UNCHANGED <<account, rows>>
      BY <1>3 DEF CheckToken
    <2>2. call \in Request /\ call.stage = "sent"
      BY SlotShapes DEF CheckToken
    <2>3. SoundRequest(call, rows, account)
      BY <2>2 DEF Inv, Sound
    <2>4. call.entitled
      BY <1>3, <2>2, <2>3 DEF SoundRequest, TokenStands
    <2>5. c \in Request
      BY <2>2 DEF Request
    <2>6. SoundRequest(c, rows', account')
      BY <2>1, <2>3, <2>4 DEF SoundRequest
    <2>7. Sound(c, rows', account')
      BY <2>5, <2>6 DEF Sound, Typed
    <2>8. TabTyped' /\ TabSound'
      BY Stays, TabKept DEF CheckToken
    <2> QED
      BY <2>1, <2>7, <2>8, Stays, OneSlot
  <1> QED
    BY <1>1, <1>2, <1>3

LEMMA ItemOfKnown ==
    ASSUME Inv, NEW r \in Run
    PROVE  /\ ItemOf(r) \in Item
           /\ ItemOf(r).id = r
           /\ Known(ItemOf(r), rows)
  <1>1. rows[r].version \in 1 .. MaxVersion /\ rows[r].state \in RunStates
    BY DEF Inv, Table
  <1>2. rows[r].version <= rows[r].version
    BY <1>1, MaxVersionAssumption
  <1> QED
    BY <1>1, <1>2 DEF ItemOf, Item, Known

LEMMA ServeListStep ==
    ASSUME Inv, NEW s \in Slot, ServeList(s)
    PROVE  Inv'
  <1> DEFINE list == {ItemOf(r) : r \in Run}
  <1>1. calls[s] \in Request /\ calls[s].kind = "list"
    BY SlotShapes DEF ServeList
  <1>2. SoundList(list, rows) /\ list \subseteq Item
    BY ItemOfKnown DEF SoundList
  <1>3. list \in Body[calls[s].kind]
    BY <1>1, <1>2 DEF Body
  <1>4. SoundAnswer([kind |-> calls[s].kind, code |-> "ok", body |-> list], rows', account')
    BY <1>1, <1>2 DEF SoundAnswer, ServeList
  <1> HIDE DEF list
  <1>5. Answer(s, "ok", list)
    BY DEF ServeList, list
  <1> QED
    BY <1>1, <1>3, <1>4, <1>5, Stays, AnswerStep DEF ServeList

LEMMA ServeQualityStep ==
    ASSUME Inv, NEW s \in Slot, ServeQuality(s)
    PROVE  Inv'
  <1>1. calls[s] \in Request /\ calls[s].kind = "quality"
    BY SlotShapes DEF ServeQuality
  <1>2. Known(calls[s].item, rows)
    BY <1>1 DEF Inv, Sound, SoundRequest
  <1>3. calls[s].item.id \in Run
    BY <1>2 DEF Known, Item
  <1>4. calls[s].item.id \in Body[calls[s].kind]
    BY <1>1, <1>3 DEF Body
  <1>5. SoundAnswer([kind |-> calls[s].kind, code |-> "ok", body |-> calls[s].item.id],
                    rows', account')
    BY <1>1, <1>3 DEF SoundAnswer
  <1> QED
    BY <1>1, <1>4, <1>5, Stays, AnswerStep DEF ServeQuality

\* A run that moves once.
LEMMA RowMoves ==
    ASSUME Inv, NEW r \in Run, NEW target \in RunStates, rows[r].version < MaxVersion,
           rows' = [rows EXCEPT ![r] = [version |-> rows[r].version + 1, state |-> target]]
    PROVE  /\ Advances(rows, rows')
           /\ rows'[r] = [version |-> rows[r].version + 1, state |-> target]
           /\ rows[r].version + 1 \in 1 .. MaxVersion
  <1>1. rows \in Table
    BY DEF Inv
  <1>2. rows[r].version \in 1 .. MaxVersion
    BY <1>1 DEF Table
  <1>3. rows[r].version + 1 \in 1 .. MaxVersion /\ rows[r].version + 1 > rows[r].version
    BY <1>2, MaxVersionAssumption
  <1>4. rows' \in Table /\ rows'[r] = [version |-> rows[r].version + 1, state |-> target]
    BY <1>1, <1>3 DEF Table
  <1>5. ASSUME NEW q \in Run
        PROVE  rows'[q] = rows[q] \/ rows'[q].version > rows[q].version
    BY <1>1, <1>3, <1>4 DEF Table
  <1> QED
    BY <1>1, <1>3, <1>4, <1>5 DEF Advances

\* What a handler knows that is about to move a run.
LEMMA Moving ==
    ASSUME Inv, NEW s \in Slot, calls[s].stage = "admitted", calls[s].kind = "transition"
    PROVE  /\ calls[s] \in Request
           /\ Known(calls[s].item, rows)
           /\ calls[s].item.id \in Run
           /\ calls[s].target \in RunStates
           /\ calls[s].item.version < MaxVersion
  <1>1. calls[s] \in Request
    BY SlotShapes
  <1>2. SoundRequest(calls[s], rows, account)
    BY <1>1 DEF Inv, Sound
  <1> QED
    BY <1>1, <1>2 DEF SoundRequest, Known, Item

LEMMA ServeTransitionStep ==
    ASSUME Inv, NEW s \in Slot, ServeTransition(s)
    PROVE  Inv'
  <1> DEFINE call == calls[s]
             item == calls[s].item
             target == calls[s].target
             moved == [version |-> rows[item.id].version + 1, state |-> target]
  <1>1. calls[s].stage = "admitted" /\ calls[s].kind = "transition"
    BY DEF ServeTransition
  <1>2. /\ calls[s] \in Request /\ item.id \in Run /\ target \in RunStates
        /\ item.version < MaxVersion
    BY <1>1, Moving
  <1>3. CASE ~RunCanTransition(rows[item.id].state, target)
    BY <1>1, <1>3, Stays, ErrorStep DEF ServeTransition
  <1>4. CASE RunCanTransition(rows[item.id].state, target) /\ ~VersionMatches(item.id, item.version)
    BY <1>1, <1>4, Stays, ErrorStep DEF ServeTransition
  <1>5. CASE RunCanTransition(rows[item.id].state, target) /\ VersionMatches(item.id, item.version)
    <2> DEFINE c == [call EXCEPT !.stage = "moved"]
    <2>1. rows' = [rows EXCEPT ![item.id] = moved] /\ account' = account
      BY <1>5 DEF ServeTransition
    <2>2. rows[item.id].version < MaxVersion
      BY <1>2, <1>5 DEF VersionMatches
    <2>3. Advances(rows, rows')
      BY <1>2, <2>1, <2>2, RowMoves
    <2>4. Follows(account, account') /\ account' \in Accounts
      BY <2>1 DEF Follows, Inv
    <2>5. calls' = [calls EXCEPT ![s] = c]
      BY <1>5 DEF ServeTransition, Inv
    <2>6. /\ c \in Request /\ c.stage = "moved"
          /\ c.kind = call.kind /\ c.item = call.item /\ c.target = call.target
      BY <1>2 DEF Request
    <2>7. Sound(call, rows', account')
      BY <2>3, <2>4, SoundKept DEF Inv
    <2>8. SoundRequest(call, rows', account')
      BY <1>2, <2>7 DEF Sound
    <2>9. SoundRequest(c, rows', account')
      BY <1>1, <2>6, <2>8 DEF SoundRequest
    <2>10. Sound(c, rows', account')
      BY <2>6, <2>9 DEF Sound, Typed
    <2>11. TabTyped' /\ TabSound'
      BY <2>3, <2>4, TabKept DEF ServeTransition
    <2> HIDE DEF c
    <2> QED
      BY <2>3, <2>4, <2>5, <2>10, <2>11, OneSlot
  <1> QED
    BY <1>3, <1>4, <1>5

LEMMA ServeMovedStep ==
    ASSUME Inv, NEW s \in Slot, ServeMoved(s)
    PROVE  Inv'
  <1> DEFINE body == ItemOf(calls[s].item.id)
  <1>1. calls[s] \in Request /\ calls[s].stage = "moved"
    BY SlotShapes DEF ServeMoved
  <1>2. SoundRequest(calls[s], rows, account)
    BY <1>1 DEF Inv, Sound
  <1>3. calls[s].kind = "transition" /\ calls[s].item.id \in Run
    BY <1>1, <1>2 DEF SoundRequest, Known, Item
  <1>4. body \in Item /\ Known(body, rows)
    BY <1>3, ItemOfKnown
  <1> HIDE DEF body
  <1>5. body \in Body[calls[s].kind]
    BY <1>3, <1>4 DEF Body
  <1>6. SoundAnswer([kind |-> calls[s].kind, code |-> "ok", body |-> body], rows', account')
    BY <1>3, <1>4 DEF SoundAnswer, ServeMoved
  <1>7. Answer(s, "ok", body)
    BY DEF ServeMoved, body
  <1> QED
    BY <1>1, <1>5, <1>6, <1>7, Stays, AnswerStep DEF ServeMoved

LEMMA ServeFailsStep ==
    ASSUME Inv, NEW s \in Slot, ServeFails(s)
    PROVE  Inv'
  BY Stays, ErrorStep DEF ServeFails

-----------------------------------------------------------------------------
(* The answers *)

\* The answer that arrives, and what it was said to be.
LEMMA Arrived ==
    ASSUME Inv, NEW s \in Slot, NEW kind \in Kinds, Arrives(s, kind, "ok")
    PROVE  /\ calls' = [calls EXCEPT ![s] = Idle]
           /\ kind = "login" => calls[s].body \in Roles /\ Past(calls[s].body, account)
           /\ kind = "list" => SoundList(calls[s].body, rows)
           /\ kind = "quality" => calls[s].body \in Run
           /\ kind = "transition" => Known(calls[s].body, rows)
  BY DEF Arrives, Close, Inv, Sound, SoundAnswer

\* A slot that becomes free.
LEMMA FreedStep ==
    ASSUME Inv, NEW s \in Slot, calls' = [calls EXCEPT ![s] = Idle],
           UNCHANGED <<account, rows>>, TabTyped', TabSound'
    PROVE  Inv'
  BY Stays, IdleSound, OneSlot

LEMMA LoginArrivesStep ==
    ASSUME Inv, NEW s \in Slot, LoginArrives(s)
    PROVE  Inv'
  <1>1. /\ calls' = [calls EXCEPT ![s] = Idle]
        /\ calls[s].body \in Roles /\ Past(calls[s].body, account)
    BY Arrived DEF LoginArrives, Kinds
  <1>2. TabTyped' /\ TabSound'
    BY <1>1 DEF LoginArrives, Inv, TabTyped, TabSound
  <1> QED
    BY <1>1, <1>2, FreedStep DEF LoginArrives

\* The list has a first run, which fills an empty selection.
LEMMA FirstListed ==
    ASSUME NEW table, NEW list, SoundList(list, table)
    PROVE  \E item \in list : \A other \in list : ListedBefore(item.id, other.id)
  <1>1. PICK first \in Run : \A r \in Run : ListedBefore(first, r)
    BY RunAssumption
  <1>2. PICK item \in list : item.id = first
    BY DEF SoundList
  <1>3. \A other \in list : other.id \in Run
    BY DEF SoundList, Known, Item
  <1> QED
    BY <1>1, <1>2, <1>3

LEMMA ListArrivesStep ==
    ASSUME Inv, NEW s \in Slot, ListArrives(s)
    PROVE  Inv'
  <1> DEFINE list == calls[s].body
  <1>1. calls' = [calls EXCEPT ![s] = Idle] /\ SoundList(list, rows)
    BY Arrived DEF ListArrives, Kinds
  <1>2. \A item \in list : Known(item, rows) /\ item \in Item
    BY <1>1 DEF SoundList, Known
  <1>3. items' = list
    BY DEF ListArrives, ShownAfterFetch
  <1>4. selected' \in Item /\ Known(selected', rows)
    <2>1. CASE selected # None
      <3>1. selected' = selected
        BY <2>1 DEF ListArrives, SelectionAfterFetch
      <3> QED
        BY <2>1, <3>1 DEF Inv, TabSound, Known
    <2>2. CASE selected = None
      <3> DEFINE top == CHOOSE item \in list :
                            \A other \in list : ListedBefore(item.id, other.id)
      <3>1. top \in list
        BY <1>1, FirstListed
      <3>2. selected' = top
        BY <2>2 DEF ListArrives, SelectionAfterFetch
      <3> QED
        BY <1>2, <3>1, <3>2
    <2> QED
      BY <2>1, <2>2
  <1> HIDE DEF list
  <1>5. TabTyped'
    BY <1>2, <1>3, <1>4 DEF ListArrives, Inv, TabTyped
  <1>6. TabSound'
    BY <1>2, <1>3, <1>4 DEF ListArrives, Inv, TabSound
  <1> QED
    BY <1>1, <1>5, <1>6, FreedStep DEF ListArrives

LEMMA QualityArrivesStep ==
    ASSUME Inv, NEW s \in Slot, QualityArrives(s)
    PROVE  Inv'
  <1>1. calls' = [calls EXCEPT ![s] = Idle] /\ calls[s].body \in Run
    BY Arrived DEF QualityArrives, Kinds
  <1>2. TabTyped' /\ TabSound'
    BY <1>1 DEF QualityArrives, Inv, TabTyped, TabSound
  <1> QED
    BY <1>1, <1>2, FreedStep DEF QualityArrives

LEMMA TransitionArrivesStep ==
    ASSUME Inv, NEW s \in Slot, TransitionArrives(s)
    PROVE  Inv'
  <1> DEFINE body == calls[s].body
  <1>1. calls' = [calls EXCEPT ![s] = Idle] /\ Known(body, rows)
    BY Arrived DEF TransitionArrives, Kinds
  <1>2. body \in Item
    BY <1>1 DEF Known
  <1>3. \A item \in items' : item = body \/ item \in items
    BY DEF TransitionArrives
  <1>4. selected' = body
    BY DEF TransitionArrives
  <1> HIDE DEF body
  <1>5. TabTyped'
    BY <1>2, <1>3, <1>4 DEF TransitionArrives, Inv, TabTyped
  <1>6. TabSound'
    BY <1>1, <1>3, <1>4 DEF TransitionArrives, Inv, TabSound
  <1> QED
    BY <1>1, <1>5, <1>6, FreedStep DEF TransitionArrives

LEMMA ErrorArrivesStep ==
    ASSUME Inv, NEW s \in Slot, ErrorArrives(s)
    PROVE  Inv'
  <1>1. calls' = [calls EXCEPT ![s] = Idle] /\ LoadingAfter(calls[s].kind) \in BOOLEAN
    BY DEF ErrorArrives, Arrives, Close, LoadingAfter, Inv, TabTyped
  <1>2. session' \in {session, None}
    BY DEF ErrorArrives
  <1>3. TabTyped' /\ TabSound'
    BY <1>1, <1>2 DEF ErrorArrives, Inv, TabTyped, TabSound
  <1> QED
    BY <1>1, <1>3, FreedStep DEF ErrorArrives

LEMMA ConnectionFailsStep ==
    ASSUME Inv, NEW s \in Slot, ConnectionFails(s)
    PROVE  Inv'
  <1>1. calls' = [calls EXCEPT ![s] = Abandoned(calls[s])]
    BY DEF ConnectionFails, Inv
  <1>2. Sound(Abandoned(calls[s]), rows', account')
    BY AbandonedSound DEF ConnectionFails, Inv
  <1>3. LoadingAfter(calls[s].kind) \in BOOLEAN
    BY DEF LoadingAfter, Inv, TabTyped
  <1>4. TabTyped' /\ TabSound'
    BY <1>3 DEF ConnectionFails, Inv, TabTyped, TabSound
  <1> QED
    BY <1>1, <1>2, <1>4, Stays, OneSlot DEF ConnectionFails

LEMMA VanishesStep ==
    ASSUME Inv, NEW s \in Slot, Vanishes(s)
    PROVE  Inv'
  <1>1. TabTyped' /\ TabSound'
    BY Stays, TabKept DEF Vanishes
  <1> QED
    BY <1>1, FreedStep DEF Vanishes, Close

-----------------------------------------------------------------------------
(* The others *)

LEMMA OthersStep ==
    ASSUME Inv, UNCHANGED <<session, items, selected, quality, loading, calls>>,
           account' \in Accounts, Follows(account, account'), Advances(rows, rows')
    PROVE  Inv'
  <1>1. TabTyped' /\ TabSound'
    BY TabKept
  <1>2. \A s \in Slot : Sound(calls[s], rows', account')
    BY SoundKept DEF Inv
  <1> QED
    BY <1>1, <1>2 DEF Inv, Advances

LEMMA OtherMovesStep ==
    ASSUME Inv, NEW r \in Run, NEW target \in RunStates, OtherMoves(r, target)
    PROVE  Inv'
  <1>1. Advances(rows, rows')
    BY RowMoves DEF OtherMoves
  <1>2. account' \in Accounts /\ Follows(account, account')
    BY DEF OtherMoves, Inv, Follows
  <1> QED
    BY <1>1, <1>2, OthersStep DEF OtherMoves

LEMMA AccountChangesStep ==
    ASSUME Inv, NEW to \in {"auditor", "inactive"}, AccountChanges(to)
    PROVE  Inv'
  <1>1. account' \in Accounts /\ Follows(account, account')
    BY DEF AccountChanges, Accounts, Roles, Follows
  <1>2. Advances(rows, rows')
    BY DEF AccountChanges, Advances, Inv
  <1> QED
    BY <1>1, <1>2, OthersStep DEF AccountChanges

-----------------------------------------------------------------------------
(* Theorems *)

LEMMA InitInv == Init => Inv
  <1> SUFFICES ASSUME Init PROVE Inv
    OBVIOUS
  <1>1. rows \in Table
    BY MaxVersionAssumption DEF Init, Table, RunStates
  <1>2. \A s \in Slot : Sound(calls[s], rows, account)
    BY IdleSound DEF Init
  <1>3. TabTyped /\ TabSound /\ account \in Accounts
    BY DEF Init, TabTyped, TabSound, Accounts, Roles
  <1> QED
    BY <1>1, <1>2, <1>3 DEF Inv, Init

LEMMA StepInv == Inv /\ [Next]_vars => Inv'
  <1> SUFFICES ASSUME Inv, [Next]_vars PROVE Inv'
    OBVIOUS
  <1>1. ASSUME NEW s \in Slot, UserActs(s) PROVE Inv'
    BY <1>1, LoginStep, RefreshStep, SelectStep, ClickStep DEF UserActs
  <1>2. ASSUME NEW s \in Slot, Serves(s) PROVE Inv'
    BY <1>2, ServeLoginStep, CheckTokenStep, ServeListStep, ServeQualityStep,
       ServeTransitionStep, ServeMovedStep, ServeFailsStep DEF Serves
  <1>3. ASSUME NEW s \in Slot, AnswerArrives(s) PROVE Inv'
    BY <1>3, LoginArrivesStep, ListArrivesStep, QualityArrivesStep, TransitionArrivesStep,
       ErrorArrivesStep DEF AnswerArrives
  <1>4. CASE UNCHANGED vars
    BY <1>4 DEF vars, Inv, TabTyped, TabSound
  <1> QED
    BY <1>1, <1>2, <1>3, <1>4, LogoutStep, ReloadStep, ConnectionFailsStep, VanishesStep,
       OtherMovesStep, AccountChangesStep DEF Next

LEMMA InvAlways == Spec => []Inv
  BY InitInv, StepInv, PTL DEF Spec

\* Every variable keeps its type: no click gets a row past the bound.
THEOREM TypeCorrect == Spec => []TypeOK
  <1>1. Inv => TypeOK
    BY DEF Inv, TypeOK, TabTyped, Accounts, Table, Sound, Typed, Free
  <1> QED
    BY <1>1, InvAlways, PTL

\* No handler runs for a request that was sent after its account had lost the
\* role of its token.
THEOREM RevokedSessionGetsNothingHolds == Spec => []RevokedSessionGetsNothing
  <1>1. Inv => RevokedSessionGetsNothing
    <2> SUFFICES ASSUME Inv, NEW s \in Slot, calls[s].stage = "admitted"
                 PROVE  calls[s].entitled
      BY DEF RevokedSessionGetsNothing
    <2> QED
      BY SlotShapes DEF Inv, Sound, SoundRequest
  <1> QED
    BY <1>1, InvAlways, PTL

\* Only two kinds of steps move a run.
LEMMA Movers ==
    ASSUME Next, rows' # rows
    PROVE  \/ \E s \in Slot : ServeTransition(s)
           \/ \E r \in Run, target \in RunStates : OtherMoves(r, target)
  <1>1. ASSUME NEW s \in Slot, UserActs(s) PROVE rows' = rows
    BY <1>1 DEF UserActs, Login, Refresh, Select, Click
  <1>2. ASSUME NEW s \in Slot, Serves(s), ~ServeTransition(s)
        PROVE  rows' = rows
    BY <1>2 DEF Serves, ServeLogin, CheckToken, ServeList, ServeQuality, ServeMoved, ServeFails
  <1>3. ASSUME NEW s \in Slot, AnswerArrives(s) PROVE rows' = rows
    BY <1>3 DEF AnswerArrives, LoginArrives, ListArrives, QualityArrives, TransitionArrives,
                ErrorArrives
  <1>4. ASSUME NEW s \in Slot, ConnectionFails(s) \/ Vanishes(s) PROVE rows' = rows
    BY <1>4 DEF ConnectionFails, Vanishes
  <1>5. (Logout \/ Reload \/ \E to \in {"auditor", "inactive"} : AccountChanges(to))
            => rows' = rows
    BY DEF Logout, Reload, AccountChanges
  <1> QED
    BY <1>1, <1>2, <1>3, <1>4, <1>5 DEF Next

\* A handler that moves a run moves it as the user was shown.
LEMMA ShownMove ==
    ASSUME Inv, NEW s \in Slot, ServeTransition(s), rows' # rows
    PROVE  /\ calls[s].item = ItemOf(calls[s].item.id)
           /\ rows'[calls[s].item.id] = [version |-> calls[s].item.version + 1,
                                         state |-> calls[s].target]
  <1> DEFINE item == calls[s].item
  <1>1. calls[s].stage = "admitted" /\ calls[s].kind = "transition"
    BY DEF ServeTransition
  <1>2. /\ Known(item, rows) /\ item.id \in Run /\ calls[s].target \in RunStates
        /\ item.version < MaxVersion
    BY <1>1, Moving
  <1>3. /\ rows[item.id].version = item.version
        /\ rows' = [rows EXCEPT ![item.id] = [version |-> rows[item.id].version + 1,
                                              state |-> calls[s].target]]
    BY DEF ServeTransition, VersionMatches
  <1>4. rows[item.id].state = item.state /\ item \in Item
    BY <1>2, <1>3 DEF Known
  <1>5. item = ItemOf(item.id)
    BY <1>3, <1>4 DEF ItemOf, Item
  <1>6. rows'[item.id] = [version |-> rows[item.id].version + 1, state |-> calls[s].target]
    BY <1>2, <1>3, RowMoves
  <1> QED
    BY <1>3, <1>5, <1>6

\* A click moves a run from the version and the state that the user was shown,
\* whatever became of earlier clicks, of the connection and of the page.
THEOREM MovesAsShownHolds == Spec => MovesAsShown
  <1> DEFINE Shown ==
        \A s \in Slot :
            calls[s].stage = "admitted" /\ calls'[s].stage # "admitted" /\ rows' # rows =>
                LET item == calls[s].item IN
                /\ item = ItemOf(item.id)
                /\ rows'[item.id] = [version |-> item.version + 1, state |-> calls[s].target]
  <1>1. Inv /\ [Next]_vars => [Shown]_vars
    <2> SUFFICES ASSUME Inv, Next, NEW s \in Slot, calls[s].stage = "admitted",
                        calls'[s].stage # "admitted", rows' # rows
                 PROVE  /\ calls[s].item = ItemOf(calls[s].item.id)
                        /\ rows'[calls[s].item.id] = [version |-> calls[s].item.version + 1,
                                                      state |-> calls[s].target]
      OBVIOUS
    <2>1. CASE \E r \in Run, target \in RunStates : OtherMoves(r, target)
      BY <2>1 DEF OtherMoves
    <2>2. CASE \E t \in Slot : ServeTransition(t)
      <3>1. PICK t \in Slot : ServeTransition(t)
        BY <2>2
      <3>2. \E c : calls' = [calls EXCEPT ![t] = c]
        BY <3>1 DEF ServeTransition, Answer, Close
      <3>3. t = s
        BY <3>2 DEF Inv
      <3> QED
        BY <3>1, <3>3, ShownMove
    <2> QED
      BY <2>1, <2>2, Movers
  <1> QED
    BY <1>1, InvAlways, PTL DEF Spec, MovesAsShown
=============================================================================

------------------------------ MODULE RunsPage ------------------------------
(***************************************************************************)
(* The runs page of the browser: one tab with its session, the store of    *)
(* the sonar runs and the requests it has in flight, in front of the       *)
(* server's login, token check and run handlers.  The tab never waits:     *)
(* every click sends a request and the answers come back in any order, or  *)
(* not at all.  Other operators move the same runs, an administrator may   *)
(* take the role or the whole account away, and the page may be reloaded.  *)
(*                                                                         *)
(* A server handler is two steps here, the token check and then its work   *)
(* on the database, and a transition a third, which answers with the row   *)
(* as it reads it back.  SonarRunService has all the steps of that work,   *)
(* and the runs with invalid navigation, which can only be rejected.       *)
(***************************************************************************)
EXTENDS WorkflowStates

CONSTANTS
    Run,         \* primary keys of the runs
    StartedAt,   \* run -> when its survey started
    Slot,        \* bound: one for each request in flight
    MaxVersion,  \* bound: nobody clicks or moves a row of this version
    None         \* null: no session, no selection, no body

\* The order of the list: started_at DESC, id DESC.
ListedBefore(r, q) ==
    \/ StartedAt[r] > StartedAt[q]
    \/ StartedAt[r] = StartedAt[q] /\ r >= q

\* A list of runs is finite and not empty, so one comes first.
ASSUME RunAssumption ==
    /\ Run \subseteq Nat \ {0}
    /\ StartedAt \in [Run -> Nat]
    /\ \E first \in Run : \A r \in Run : ListedBefore(first, r)

ASSUME MaxVersionAssumption == MaxVersion \in Nat \ {0}

VARIABLES
    account,   \* server: the user's row, its role or "inactive"
    rows,      \* server: run -> its stored version and state
    session,   \* tab: the role in the stored token and in user, or None
    items,     \* tab: the list of the runs as it was last shown
    selected,  \* tab: the run shown in the detail pane, or None
    quality,   \* tab: the run whose evidence is shown, or None
    loading,   \* tab: the progress bar of the list
    calls      \* the requests in flight

vars == <<account, rows, session, items, selected, quality, loading, calls>>

Roles == {"data_processor", "auditor"}

\* A run as the server hands it out.
Item == [id : Run, version : 1 .. MaxVersion, state : RunStates]

ItemOf(r) == [id |-> r, version |-> rows[r].version, state |-> rows[r].state]

\* The role check of POST /runs/:id/transition; the reads have none.
Allowed(kind, role) == kind = "transition" => role = "data_processor"

Kinds == {"login", "list", "quality", "transition"}

(***************************************************************************)
(* Requests.  stage: sent, admitted by the token check, moved when the run *)
(* has been updated, answered.  open: the tab still waits for the answer.  *)
(* entitled is history: the account still had the token's role when the    *)
(* request was sent.                                                       *)
(***************************************************************************)
Idle == [stage |-> "idle"]

Request == [stage : {"sent", "admitted", "moved"}, kind : Kinds, open : BOOLEAN,
            token : Roles \cup {None}, entitled : BOOLEAN,
            item : Item \cup {None}, target : RunStates \cup {None}]

Body == [login |-> Roles \cup {None}, list |-> (SUBSET Item) \cup {None},
         quality |-> Run \cup {None}, transition |-> Item \cup {None}]

Answered(kind) ==
    [stage : {"answered"}, kind : {kind}, open : {TRUE},
     code : {"ok", "unauthorized", "forbidden", "INTERNAL_ERROR",
             "RUN_TRANSITION_INVALID", "VERSION_CONFLICT"},
     body : Body[kind]]

Free(s) == calls[s] = Idle

Waiting(s, kind) == ~Free(s) /\ calls[s].open /\ calls[s].kind = kind

Send(s, kind, item, target) ==
    calls' = [calls EXCEPT ![s] =
        [stage |-> "sent", kind |-> kind, open |-> TRUE, token |-> session,
         entitled |-> session = account, item |-> item, target |-> target]]

Close(s) == calls' = [calls EXCEPT ![s] = Idle]

\* An answer that nobody waits for is gone.
Answer(s, code, body) ==
    IF calls[s].open
    THEN calls' = [calls EXCEPT ![s] = [stage |-> "answered", kind |-> calls[s].kind,
                                        open |-> TRUE, code |-> code, body |-> body]]
    ELSE Close(s)

\* The tab stops waiting.  What still matters is a transition that the server
\* may yet carry out; a read or a login that nobody waits for changes nothing.
Abandoned(call) ==
    IF call.stage \in {"sent", "admitted"} /\ call.kind = "transition"
    THEN [call EXCEPT !.open = FALSE] ELSE Idle

\* A run starts as an import or seed has stored it.
Init ==
    /\ account = "data_processor"
    /\ rows \in [Run -> [version : {1}, state : {"imported", "processed"}]]
    /\ session = None
    /\ items = {}
    /\ selected = None
    /\ quality = None
    /\ loading = FALSE
    /\ calls = [s \in Slot |-> Idle]

(***************************************************************************)
(* The user.                                                               *)
(***************************************************************************)
\* The login button is disabled while a login is under way.
Login(s) ==
    /\ session = None
    /\ Free(s)
    /\ \A t \in Slot : ~Waiting(t, "login")
    /\ Send(s, "login", None, None)
    /\ UNCHANGED <<account, rows, session, items, selected, quality, loading>>

\* Opening the page and its refresh button both call fetch.
Refresh(s) ==
    /\ session # None
    /\ Free(s)
    /\ loading' = TRUE
    /\ Send(s, "list", None, None)
    /\ UNCHANGED <<account, rows, session, items, selected, quality>>

\* Clicking a row of the list.
Select(item, s) ==
    /\ session # None
    /\ Free(s)
    /\ selected' = item
    /\ quality' = None
    /\ Send(s, "quality", item, None)
    /\ UNCHANGED <<account, rows, session, items, loading>>

\* The buttons come from the state that is shown, not from the stored one.
Click(target, s) ==
    /\ session = "data_processor"
    /\ selected # None
    /\ selected.version < MaxVersion
    /\ RunCanTransition(selected.state, target)
    /\ Free(s)
    /\ Send(s, "transition", selected, target)
    /\ UNCHANGED <<account, rows, session, items, selected, quality, loading>>

Logout ==
    /\ session # None
    /\ session' = None
    /\ UNCHANGED <<account, rows, items, selected, quality, loading, calls>>

\* The token and the user outlive the page in sessionStorage, the run store
\* does not; nobody waits for the requests any more, but the server has them.
Reload ==
    /\ items' = {}
    /\ selected' = None
    /\ quality' = None
    /\ loading' = FALSE
    /\ calls' = [s \in Slot |-> Abandoned(calls[s])]
    /\ UNCHANGED <<account, rows, session>>

(***************************************************************************)
(* The server.                                                             *)
(***************************************************************************)
\* Service Login: an inactive account is not found.
ServeLogin(s) ==
    /\ calls[s].stage = "sent"
    /\ calls[s].kind = "login"
    /\ IF account = "inactive" THEN Answer(s, "unauthorized", None)
                               ELSE Answer(s, "ok", account)
    /\ UNCHANGED <<account, rows, session, items, selected, quality, loading>>

\* Mutant: the role is taken from the token alone.
TokenStandsInAnyRole(token) == token # None /\ account # "inactive"

\* Service Parse: the account is read again on every request and must be
\* active in the role that the token was signed with.
TokenStands(token) == token # None /\ token = account

\* A read that fails is answered like an account that is gone.
CheckToken(s, read) ==
    /\ calls[s].stage = "sent"
    /\ calls[s].kind # "login"
    /\ IF ~read \/ ~TokenStands(calls[s].token) THEN Answer(s, "unauthorized", None)
       ELSE IF ~Allowed(calls[s].kind, calls[s].token) THEN Answer(s, "forbidden", None)
       ELSE LET call == calls[s] IN
            calls' = [calls EXCEPT ![s] =
                [stage |-> "admitted", kind |-> call.kind, open |-> call.open, token |-> None,
                 entitled |-> call.entitled, item |-> call.item, target |-> call.target]]
    /\ UNCHANGED <<account, rows, session, items, selected, quality, loading>>

ServeList(s) ==
    /\ calls[s].stage = "admitted"
    /\ calls[s].kind = "list"
    /\ Answer(s, "ok", {ItemOf(r) : r \in Run})
    /\ UNCHANGED <<account, rows, session, items, selected, quality, loading>>

ServeQuality(s) ==
    /\ calls[s].stage = "admitted"
    /\ calls[s].kind = "quality"
    /\ Answer(s, "ok", calls[s].item.id)
    /\ UNCHANGED <<account, rows, session, items, selected, quality, loading>>

\* Mutant: the update looks at the id only.
VersionMatchesAny(r, expected) == expected \in Nat

\* The conditional update of the run repository.
VersionMatches(r, expected) == rows[r].version = expected

\* Service Transition up to its update, which SonarRunService has in its single
\* steps.
ServeTransition(s) ==
    LET item == calls[s].item
        moved == [version |-> rows[item.id].version + 1, state |-> calls[s].target]
    IN  /\ calls[s].stage = "admitted"
        /\ calls[s].kind = "transition"
        /\ IF ~RunCanTransition(rows[item.id].state, calls[s].target)
           THEN Answer(s, "RUN_TRANSITION_INVALID", None) /\ UNCHANGED rows
           ELSE IF ~VersionMatches(item.id, item.version)
           THEN Answer(s, "VERSION_CONFLICT", None) /\ UNCHANGED rows
           ELSE /\ rows' = [rows EXCEPT ![item.id] = moved]
                /\ calls' = [calls EXCEPT ![s].stage = "moved"]
        /\ UNCHANGED <<account, session, items, selected, quality, loading>>

\* The answer is the row as it is read again after the update.
ServeMoved(s) ==
    /\ calls[s].stage = "moved"
    /\ Answer(s, "ok", ItemOf(calls[s].item.id))
    /\ UNCHANGED <<account, rows, session, items, selected, quality, loading>>

\* A handler whose statement fails answers 500, also when that is the second
\* read or the audit event after an update.
ServeFails(s) ==
    /\ \/ calls[s].stage \in {"admitted", "moved"}
       \/ calls[s].stage = "sent" /\ calls[s].kind = "login"
    /\ Answer(s, "INTERNAL_ERROR", None)
    /\ UNCHANGED <<account, rows, session, items, selected, quality, loading>>

(***************************************************************************)
(* The answers, in any order.                                              *)
(***************************************************************************)
Arrives(s, kind, code) ==
    /\ calls[s].stage = "answered"
    /\ calls[s].kind = kind
    /\ calls[s].code = code
    /\ Close(s)

LoginArrives(s) ==
    /\ Arrives(s, "login", "ok")
    /\ session' = calls[s].body
    /\ UNCHANGED <<account, rows, items, selected, quality, loading>>

\* fetch keeps what is selected; it only fills an empty selection.
SelectionAfterFetch(list) ==
    IF selected # None THEN selected
    ELSE CHOOSE item \in list : \A other \in list : ListedBefore(item.id, other.id)

\* Mutant: rows that are already listed are kept.
ShownAfterFetchKept(list) == IF items = {} THEN list ELSE items

ShownAfterFetch(list) == list

ListArrives(s) ==
    /\ Arrives(s, "list", "ok")
    /\ items' = ShownAfterFetch(calls[s].body)
    /\ selected' = SelectionAfterFetch(calls[s].body)
    /\ loading' = FALSE
    /\ UNCHANGED <<account, rows, session, quality>>

QualityArrives(s) ==
    /\ Arrives(s, "quality", "ok")
    /\ quality' = calls[s].body
    /\ UNCHANGED <<account, rows, session, items, selected, loading>>

TransitionArrives(s) ==
    /\ Arrives(s, "transition", "ok")
    /\ items' = {IF item.id = calls[s].body.id THEN calls[s].body ELSE item : item \in items}
    /\ selected' = calls[s].body
    /\ UNCHANGED <<account, rows, session, quality, loading>>

\* Mutant: loading is reset on success only.
LoadingAfterSuccess(kind) == loading

\* The finally of fetch.
LoadingAfter(kind) == IF kind = "list" THEN FALSE ELSE loading

\* Any error answer rejects the promise; a 401 of anything but a login also
\* clears the session, whatever token the request had carried.
ErrorArrives(s) ==
    /\ calls[s].stage = "answered"
    /\ calls[s].code # "ok"
    /\ Arrives(s, calls[s].kind, calls[s].code)
    /\ session' = IF calls[s].code = "unauthorized" /\ calls[s].kind # "login"
                  THEN None ELSE session
    /\ loading' = LoadingAfter(calls[s].kind)
    /\ UNCHANGED <<account, rows, items, selected, quality>>

\* The browser gives up on the connection; the request may still be on its way.
ConnectionFails(s) ==
    /\ ~Free(s)
    /\ calls[s].open
    /\ calls' = [calls EXCEPT ![s] = Abandoned(@)]
    /\ loading' = LoadingAfter(calls[s].kind)
    /\ UNCHANGED <<account, rows, session, items, selected, quality>>

\* An abandoned request that never reaches the server.
Vanishes(s) ==
    /\ calls[s].stage = "sent"
    /\ ~calls[s].open
    /\ Close(s)
    /\ UNCHANGED <<account, rows, session, items, selected, quality, loading>>

(***************************************************************************)
(* The others.                                                             *)
(***************************************************************************)
OtherMoves(r, target) ==
    /\ rows[r].version < MaxVersion
    /\ RunCanTransition(rows[r].state, target)
    /\ rows' = [rows EXCEPT ![r] = [version |-> rows[r].version + 1, state |-> target]]
    /\ UNCHANGED <<account, session, items, selected, quality, loading, calls>>

\* Nothing in the server changes an account: an administrator does it on the
\* database, and does not give back here what was taken away.
AccountChanges(to) ==
    /\ account = "data_processor"
    /\ account' = to
    /\ UNCHANGED <<rows, session, items, selected, quality, loading, calls>>

UserActs(s) ==
    \/ Login(s)
    \/ Refresh(s)
    \/ \E item \in items : Select(item, s)
    \/ \E target \in RunStates : Click(target, s)

Serves(s) ==
    \/ ServeLogin(s)
    \/ \E read \in BOOLEAN : CheckToken(s, read)
    \/ ServeFails(s)
    \/ ServeList(s)
    \/ ServeQuality(s)
    \/ ServeTransition(s)
    \/ ServeMoved(s)

AnswerArrives(s) ==
    \/ LoginArrives(s)
    \/ ListArrives(s)
    \/ QualityArrives(s)
    \/ TransitionArrives(s)
    \/ ErrorArrives(s)

Next ==
    \/ \E s \in Slot : UserActs(s) \/ Serves(s) \/ AnswerArrives(s)
    \/ Logout
    \/ Reload
    \/ \E s \in Slot : ConnectionFails(s) \/ Vanishes(s)
    \/ \E r \in Run, target \in RunStates : OtherMoves(r, target)
    \/ \E to \in {"auditor", "inactive"} : AccountChanges(to)

\* A request that the tab waits for goes on, or the tab is told that it failed.
GoesOn(s) ==
    /\ ~Free(s)
    /\ calls[s].open
    /\ Serves(s) \/ AnswerArrives(s) \/ ConnectionFails(s)

\* No handler has a deadline: the write timeout of the server lets the write of
\* a late response fail and ends no handler.  But a request that hangs is given
\* up by the proxy in front of the server, which then answers an error, or by
\* the browser.  Nothing is assumed of a handler that nobody waits for, of the
\* user, of the other operators or of the quality of the connection.
Fairness == \A s \in Slot : WF_vars(GoesOn(s))

Spec == Init /\ [][Next]_vars

FairSpec == Spec /\ Fairness

-----------------------------------------------------------------------------
\* The variables have their types; the bound on versions is one that no stale
\* click gets a row past.
TypeOK ==
    /\ account \in Roles \cup {"inactive"}
    /\ rows \in [Run -> [version : 1 .. MaxVersion, state : RunStates]]
    /\ session \in Roles \cup {None}
    /\ items \subseteq Item
    /\ selected \in Item \cup {None}
    /\ quality \in Run \cup {None}
    /\ loading \in BOOLEAN
    /\ DOMAIN calls = Slot
    /\ \A s \in Slot : \/ Free(s)
                       \/ calls[s] \in Request
                       \/ calls[s].kind \in Kinds /\ calls[s] \in Answered(calls[s].kind)

\* The detail pane shows the run as it is stored.
Current == selected = None \/ selected = ItemOf(selected.id)

\* A click moves a run from the very version and state that the user was shown,
\* to the state on the button, and no request moves a run a second time: not a
\* double click, not one sent again after the connection failed or the page was
\* reloaded, not one that another operator's has overtaken.
MovesAsShown ==
    [][\A s \in Slot :
        calls[s].stage = "admitted" /\ calls'[s].stage # "admitted" /\ rows' # rows =>
            LET item == calls[s].item IN
            /\ item = ItemOf(item.id)
            /\ rows'[item.id] = [version |-> item.version + 1, state |-> calls[s].target]
      ]_vars

\* A token carries its role for eight hours, but a request that is sent after
\* the account has lost that role or was deactivated reaches no handler.
RevokedSessionGetsNothing ==
    \A s \in Slot : calls[s].stage = "admitted" => calls[s].entitled

\* The progress bar of a refresh goes away, whatever happens to the connection,
\* to the session and to other refreshes under way.
RefreshEnds == loading ~> ~loading

\* A user who keeps refreshing and selecting, and whose lists keep arriving, in
\* the end sees the stored run for good: late answers do not bring an old row
\* back for ever.
ReselectingCatchesUp ==
    /\ []<><<\E s \in Slot : ListArrives(s)>>_vars
    /\ []<><<\E s \in Slot, item \in items : Select(item, s)>>_vars
    => <>[]Current

\* README.md:182 on VERSION_CONFLICT: refresh the list and try again with the
\* new version.  The same as above for a user who only refreshes.
RefreshingCatchesUp ==
    []<><<\E s \in Slot : ListArrives(s)>>_vars => <>[]Current
=============================================================================

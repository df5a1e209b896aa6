------------------------- MODULE VersionedLifecycle -------------------------
(***************************************************************************)
(* What a table of versioned rows promises to its clients: a row is made   *)
(* once for each key, in the start state and at version 1; afterwards a    *)
(* step moves one row along one edge of the state graph and counts its     *)
(* version up by one.  Key and body never change and no row goes away.     *)
(* Rows that are there at the start may be in any state.                   *)
(* The services implement this with several separate statements for each   *)
(* request.                                                                *)
(***************************************************************************)
EXTENDS Naturals

CONSTANTS
    Id,       \* primary keys
    Key,      \* what identifies a row to its clients
    Body,     \* the other columns that never change
    Start,    \* the state of a new row
    Edges,    \* state -> the states it may move to
    Seeds     \* the tables that the service may find when it starts

VARIABLE rows

Init == rows = [id \in {} |-> Start] \/ rows \in Seeds

Create(id, key, body) ==
    /\ id \notin DOMAIN rows
    /\ \A i \in DOMAIN rows : rows[i].key # key
    /\ rows' = [i \in DOMAIN rows \cup {id} |->
                    IF i = id
                    THEN [key |-> key, body |-> body, state |-> Start, version |-> 1]
                    ELSE rows[i]]

Move(id, to) ==
    /\ to \in Edges[rows[id].state]
    /\ rows' = [rows EXCEPT ![id].state = to, ![id].version = @ + 1]

Next ==
    \/ \E id \in Id, key \in Key, body \in Body : Create(id, key, body)
    \/ \E id \in DOMAIN rows : \E to \in Edges[rows[id].state] : Move(id, to)

Spec == Init /\ [][Next]_rows
=============================================================================

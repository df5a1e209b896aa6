---------------------------- MODULE EditableRows ----------------------------
(***************************************************************************)
(* What a table of editable rows promises: a row is made for a key that it *)
(* keeps; as long as it is not frozen, a step may replace its body, freeze *)
(* it, or do both, and counts its version up by one; a frozen row never    *)
(* changes again.  Plans freeze when they are locked, areas when they are  *)
(* archived.  Rows that are there at the start may be frozen.              *)
(***************************************************************************)
EXTENDS Naturals

CONSTANTS
    Id,    \* primary keys
    Key,   \* the columns that never change
    Body,  \* the columns that an edit replaces
    Seeds  \* the tables that the service may find when it starts

VARIABLE rows

Init == rows = [id \in {} |-> [frozen |-> FALSE]] \/ rows \in Seeds

\* A copy starts at the version that follows its source.
Create(id, key, body, version) ==
    /\ id \notin DOMAIN rows
    /\ rows' = [i \in DOMAIN rows \cup {id} |->
                    IF i = id
                    THEN [key |-> key, body |-> body, frozen |-> FALSE, version |-> version]
                    ELSE rows[i]]

Edit(id, body, frozen) ==
    /\ ~rows[id].frozen
    /\ rows' = [rows EXCEPT ![id] = [key |-> rows[id].key, body |-> body,
                                     frozen |-> frozen, version |-> rows[id].version + 1]]

\* The versions a new row may start at: 1, or one after an existing row's.
FirstVersions == {1} \cup UNION {2..(rows[id].version + 1) : id \in DOMAIN rows}

Next ==
    \/ \E id \in Id, key \in Key, body \in Body, version \in FirstVersions :
           Create(id, key, body, version)
    \/ \E id \in DOMAIN rows, body \in Body, frozen \in BOOLEAN : Edit(id, body, frozen)

Spec == Init /\ [][Next]_rows
=============================================================================

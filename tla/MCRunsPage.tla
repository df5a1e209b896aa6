----------------------------- MODULE MCRunsPage -----------------------------
(* RunsPage with one run and two requests in flight, which is a refresh that *)
(* is overtaken, a double click or a login beside an old request.  The run   *)
(* may be moved twice, by the user or by others, so that a selection can be  *)
(* stale by two versions and a click meet a state it does not know of.  It   *)
(* is an imported run, or the one that seed stores.                          *)
EXTENDS RunsPage

Starts == [r \in Run |-> 0]
=============================================================================

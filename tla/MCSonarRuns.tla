----------------------------- MODULE MCSonarRuns -----------------------------
(* SonarRunService with two handlers that race to import runs and to move    *)
(* them.  The sources are two good ones, one that does not parse and one     *)
(* that ends before it starts; one of them may come under two run codes, the *)
(* other with invalid navigation.  An imported run is checked, rejected, or  *)
(* both in this order; the later moves multiply the histories and are left   *)
(* to the proofs.  The run that seed may have stored, under the second code, *)
(* is superseded.                                                            *)
EXTENDS SonarRunService, TLC

CONSTANTS north, south, broken, reversed, demo, c1, c2

Imports ==
    {[plan |-> p, source |-> x[1], code |-> x[2], nav |-> x[3]] :
        p \in Plan,
        x \in {<<north, c1, "good">>, <<north, c2, "good">>, <<south, c1, "invalid">>,
               <<broken, c1, "good">>, <<reversed, c1, "good">>}}

\* A check with the version before or after it, a rejection without a reason,
\* one that expects a run that has moved, and the end of the seeded run.
Moves ==
    {move \in [id : RunId,
               target : {"quality_checked", "rejected", "superseded"},
               expected : {1, 2}, reasoned : BOOLEAN] :
        /\ move.target = "quality_checked" => move.reasoned
        /\ move.target = "superseded" => move.expected = 1 /\ move.reasoned
        /\ move.target = "rejected" => move.expected = IF move.reasoned THEN 2 ELSE 1}

\* Handlers and run ids are interchangeable.
Symmetry == Permutations(Slot) \cup Permutations(RunId)
=============================================================================

----------------------------- MODULE MCGapDetect -----------------------------
(* CoverageGapService while areas and runs change under the detections: two  *)
(* handlers race to detect, one area changes its boundary and its resolution *)
(* between any two calls, and the run moves through its lifecycle.           *)
EXTENDS CoverageGapService, TLC

CONSTANTS east, west, run, crs, v1, narrow, wide

MCRunArea == [r \in RunId |-> east]

AreaRows ==
    [a \in Area |-> {[boundary |-> narrow, crs |-> crs, resolution |-> 5]} \cup
        IF a = east THEN {[boundary |-> wide, crs |-> crs, resolution |-> 10]} ELSE {}]

\* The grid of the wide boundary at resolution 5 has too many cells.
Fits == {<<narrow, 5>>, <<narrow, 10>>, <<wide, 10>>}

\* The run belongs to area "east".
Detections ==
    {[area |-> east, runs |-> {run}, algorithm |-> v1, resolution |-> res, keyed |-> TRUE]
        : res \in {0, 5}}
    \cup {[area |-> west, runs |-> {run}, algorithm |-> v1, resolution |-> 0,
           keyed |-> keyed] : keyed \in BOOLEAN}

Symmetry == Permutations(Slot) \cup Permutations(GapId)
=============================================================================

----------------------------- MODULE MCGapReview -----------------------------
(* CoverageGapService with one detection, and two reviewers who race to move *)
(* its gap, with versions that are current or ahead of the row.  Two         *)
(* notes of 600 characters do not fit the column; one with short ones does.  *)
(* The branch through "resurveyed" is left out: the histories multiply with  *)
(* each move, and false_positive leads to "closed" as it does.               *)
EXTENDS CoverageGapService, TLC

CONSTANTS area, run, crs, v1, edge

MCRunArea == [r \in RunId |-> area]

AreaRows == [a \in Area |-> {[boundary |-> edge, crs |-> crs, resolution |-> 5]}]

Detections == [area : {area}, runs : {{run}}, algorithm : {v1}, resolution : {5},
               keyed : {TRUE}]

\* A long note may come first, and an acceptance always brings one.
Notes(target) == CASE target = "reviewed" -> {8, 600}
                   [] target = "accepted" -> {600}
                   [] OTHER               -> {8}

\* The move is tried with the version it needs and with the one after it.
Versions(target) == CASE target = "reviewed" -> {1, 2}
                      [] target = "closed"   -> {3}
                      [] OTHER               -> {2, 3}

Reviews ==
    {review \in [id : GapId, target : {"reviewed", "accepted", "false_positive", "closed"},
                 expected : 1..3, note : {8, 600}] :
        /\ review.note \in Notes(review.target)
        /\ review.expected \in Versions(review.target)}

Fits == {<<edge, 5>>}

Symmetry == Permutations(Slot)
=============================================================================

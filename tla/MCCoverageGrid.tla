--------------------------- MODULE MCCoverageGrid ---------------------------
(* CoverageGrid on boundaries of up to six by six cells: a rectangle, one    *)
(* that is not a whole number of cells wide, an L, a U, two with a hole, a   *)
(* coil, a triangle and a diamond, with edges through the centres of cells;  *)
(* a sliver without a centre, a flat ring and one with too many cells.       *)
EXTENDS CoverageGrid

Box(x1, y1, x2, y2) == <<<<x1, y1>>, <<x2, y1>>, <<x2, y2>>, <<x1, y2>>, <<x1, y1>>>>

Uneven    == <<Box(-3, 1, 4, 6)>>
Holed     == <<Box(0, 0, 8, 8), Box(2, 2, 6, 4)>>

\* Edges that run through the centres of cells.
Triangle  == <<<< <<0, 0>>, <<8, 0>>, <<0, 8>>, <<0, 0>> >>>>
Sliver    == <<<< <<0, 0>>, <<8, 0>>, <<8, 1>>, <<0, 0>> >>>>
Flat      == <<<< <<0, 0>>, <<8, 0>>, <<4, 0>>, <<0, 0>> >>>>
Large     == <<Box(0, 0, 12, 14)>>
Harbour   == <<<< <<0, 0>>, <<12, 0>>, <<12, 12>>, <<8, 12>>, <<8, 4>>, <<4, 4>>, <<4, 12>>,
                 <<0, 12>>, <<0, 0>> >>>>
Island    == <<Box(0, 0, 12, 10), <<<<6, 1>>, <<10, 5>>, <<6, 9>>, <<2, 5>>, <<6, 1>>>>>>

\* It goes twice round its middle, which ray casting takes for the outside.
Coil      == <<<< <<0, 0>>, <<8, 0>>, <<8, 8>>, <<2, 8>>, <<2, 2>>, <<6, 2>>, <<6, 6>>,
                 <<0, 6>>, <<0, 0>> >>>>

\* Cuts along a diagonal, along a line through cell centres, and along edges.
Cuts ==
    {[there |-> << <<6, 0>>, <<8, 0>>, <<8, 6>>, <<0, 6>> >>,
      back  |-> << <<0, 6>>, <<0, 0>>, <<6, 0>> >>],
     [there |-> << <<3, 0>>, <<8, 0>>, <<8, 6>>, <<3, 6>> >>,
      back  |-> << <<3, 6>>, <<0, 6>>, <<0, 0>>, <<3, 0>> >>],
     [there |-> << <<0, 3>>, <<0, 0>>, <<8, 0>>, <<8, 3>> >>,
      back  |-> << <<8, 3>>, <<8, 6>>, <<0, 6>>, <<0, 3>> >>],
     [there |-> << <<0, 4>>, <<0, 0>>, <<8, 0>>, <<8, 4>>, <<4, 4>> >>,
      back  |-> << <<4, 4>>, <<4, 8>>, <<0, 8>>, <<0, 4>> >>],
     [there |-> << <<8, 4>>, <<4, 8>>, <<0, 4>> >>,
      back  |-> << <<0, 4>>, <<4, 0>>, <<8, 4>> >>]}

\* The boundaries that are cut: a rectangle three times, an L and a diamond.
Divisible == {Whole(cut) : cut \in Cuts}

Boundaries == {Uneven, Holed, Triangle, Sliver, Flat, Large, Harbour, Island, Coil} \cup Divisible

Line(a, b) == <<a, b>>

Tracks ==
    {<<>>}
    \cup {<<[lines |-> <<Line(<<x, 0>>, <<x, y>>)>>, swath |-> w]>> :
             x \in {0, 3, 7}, y \in {0, 5, 11}, w \in {2, 5}}
    \cup {<<[lines |-> <<Line(<<0, 1>>, <<8, y>>), Line(<<0, 7>>, <<8, 7>>)>>, swath |-> 3],
            [lines |-> <<Line(<<x, 8>>, <<1, 1>>)>>, swath |-> 4]>> :
             x \in {1, 6}, y \in {1, 5}}
=============================================================================

------------------------------ MODULE MCPlanEdit ------------------------------
(* TransectPlanService with two handlers that race to edit, lock and copy    *)
(* one plan.  The second id is taken by another plan or by a copy.  A copy   *)
(* of the plan as it is created fits the name column, a copy of the edited   *)
(* plan does not.  The plan that seed may have stored, under either id, is   *)
(* locked from the start.  Areas change, and an edit with lines that do not  *)
(* parse is refused, in MCSurveyPlanning.                                    *)
EXTENDS TransectPlanService, TLC

CONSTANTS p1, area, edge, drawn, redrawn

Creates == [op : {"create"}, area : {area}, lines : {drawn}, name : {150}]

Edits == [op : {"update"}, id : {p1}, lines : {redrawn}, name : {154}, expected : {1, 2}]

\* A plan is locked as it was created or after one edit.
Locks == [op : {"lock"}, id : {p1}, expected : {1, 2}]

AreaRows == [status : {"draft"}, boundary : {edge}]

\* The spacing leaves no line on the area; lines are generated in
\* MCSurveyPlanning.
Generates == [op : {"generate"}, area : {area}, spacing : Spacing, name : {150}]

NoTransects == [x \in Boundary \X Spacing |-> "NO_TRANSECTS"]

Symmetry == Permutations(Slot)
=============================================================================

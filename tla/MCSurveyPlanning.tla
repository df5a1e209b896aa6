-------------------------- MODULE MCSurveyPlanning --------------------------
(* SurveyPlanning with one area, two spellings of its code and two contents  *)
(* with different boundaries, one of which is too narrow for the spacing.    *)
(* Two handlers are in flight together: two of the area service, or one of   *)
(* each service.  Edits and locks of plans race in MCPlanEdit.               *)
EXTENDS SurveyPlanning, TLC

CONSTANTS upper, lower, wide, narrow, latlon, wideEdge, narrowEdge, drawn, generated, broken, p1

Stored == [code \in TypedCode |-> upper]

Errors == [content \in Content |->
               IF content = latlon THEN "COORDINATE_SYSTEM_INVALID" ELSE "none"]

Edges == [content \in Content |-> IF content = narrow THEN narrowEdge ELSE wideEdge]

Generated == [x \in Boundary \X Spacing |->
                  IF x[1] = wideEdge THEN generated
                  ELSE IF x[2] = 10 THEN "NO_TRANSECTS" ELSE "LINE_SPACING_INVALID"]

AreaCreates == [code : {lower, upper}, content : {wide}]
               \cup [code : {upper}, content : {latlon}]

\* The first edit may archive the area, the second too.
AreaUpdates == [id : AreaId, content : {narrow}, status : {"active", "archived"},
                expected : {1}]
               \cup [id : AreaId, content : {wide}, status : {"archived"}, expected : {2}]

Draws == [op : {"create"}, area : AreaId, lines : {drawn}, name : {8}]

Generates == [op : {"generate"}, area : AreaId, spacing : {10, 20}, name : {8}]

\* The lines do not parse; edits that are made race in MCPlanEdit.
Edits == [op : {"update"}, id : {p1}, lines : {broken}, name : {8}, expected : {1}]

\* Handlers and area ids are interchangeable.
Symmetry == Permutations(Slot) \cup Permutations(AreaId)
=============================================================================

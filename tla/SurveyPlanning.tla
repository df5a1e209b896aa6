--------------------------- MODULE SurveyPlanning ---------------------------
(***************************************************************************)
(* The area service and the plan service in one process over one database. *)
(* The plan service reads the areas that the area service writes, and its  *)
(* own module only assumes how they change (AreaStep): here the real       *)
(* handlers change them.  A crash stops the handlers of both.              *)
(***************************************************************************)
EXTENDS SurveyAreaService

CONSTANTS
    PlanSlot,       \* handler goroutines of the plan service
    PlanId, Boundary, Lines, ParsableLines, Spacing, Transects, NameLength, MaxName,
    DrawInput, GenerateInput, EditInput, LockInput, CopyInput,
    BoundaryOf,     \* content of an area -> its boundary
    SeedLines, SeedName,
    MaxInFlight,    \* bound: handlers of both services at work together
    NoPlan, NoAreaRow

ASSUME BoundaryAssumption == BoundaryOf \in [Content -> Boundary]

ASSUME NoAreaRowAssumption == NoAreaRow \notin [status : AreaStates, boundary : Boundary]

VARIABLES plans, planAudits, planPc, planRequest, planSubject, planBefore, planAfter,
          planReply, planFirst, planLost

planVars == <<plans, planAudits, planPc, planRequest, planSubject, planBefore,
              planAfter, planReply, planFirst, planLost>>

\* The area columns that the plan service reads.
AreaView == [id \in AreaId |->
                IF id \in DOMAIN areas
                THEN [status |-> areas[id].status, boundary |-> BoundaryOf[areas[id].content]]
                ELSE NoAreaRow]

Plans == INSTANCE TransectPlanService WITH
    Slot <- PlanSlot, Area <- AreaId, NoArea <- NoAreaRow,
    CreateInput <- DrawInput, UpdateInput <- EditInput,
    AreaInput <- [status : AreaStates, boundary : Boundary],
    SeedBoundary <- BoundaryOf[SeedContent],
    areas <- AreaView, audits <- planAudits, pc <- planPc, request <- planRequest,
    subject <- planSubject, before <- planBefore, after <- planAfter,
    reply <- planReply, first <- planFirst, lost <- planLost

InFlight == Cardinality({s \in Slot : pc[s] # "idle"})
            + Cardinality({s \in PlanSlot : planPc[s] # "idle"})

\* The plan that seed stores lies in the area that it stores.
PlanningInit == Init /\ Plans!Init

AreaRequestStep == /\ RequestStep
                   /\ UNCHANGED planVars
                   /\ InFlight' <= MaxInFlight

PlanRequestStep == /\ UNCHANGED vars
                   /\ Plans!RequestStep
                   /\ InFlight' <= MaxInFlight

ProcessCrash == Crash /\ Plans!Crash

PlanningNext == AreaRequestStep \/ PlanRequestStep \/ ProcessCrash

PlanningSpec == PlanningInit /\ [][PlanningNext]_<<vars, planVars>>

-----------------------------------------------------------------------------
(* Properties *)

\* Over the real area service the plan service is the one that its module
\* describes: the area service changes areas only as AreaStep assumes, whatever
\* its handlers interleave with (with versions that clients were shown).
PlanServiceAssumptionsHold == Plans!Spec

=============================================================================

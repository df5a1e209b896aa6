--------------------------- MODULE WorkflowStates ---------------------------
(***************************************************************************)
(* The state graphs that package constants declares: sonar runs, coverage  *)
(* gaps and transect plans.  A graph is a function from a state to the set *)
(* of states it may move to, as the Go maps runTransitions and             *)
(* gapTransitions are.                                                     *)
(***************************************************************************)
EXTENDS Naturals

RunStates == {"imported", "quality_checked", "processing",
              "processed", "rejected", "superseded"}

runTransitions ==
    [imported        |-> {"quality_checked", "rejected"},
     quality_checked |-> {"processing", "rejected"},
     processing      |-> {"processed", "rejected"},
     processed       |-> {"superseded"},
     rejected        |-> {},
     superseded      |-> {}]

\* RunState.CanTransition, for a stored state and a target that both parsed.
RunCanTransition(from, target) == target \in runTransitions[from]

GapStates == {"detected", "reviewed", "accepted",
              "false_positive", "resurveyed", "closed"}

gapTransitions ==
    [detected       |-> {"reviewed"},
     reviewed       |-> {"accepted", "false_positive"},
     accepted       |-> {"resurveyed"},
     false_positive |-> {"closed"},
     resurveyed     |-> {"closed"},
     closed         |-> {}]

GapCanTransition(from, target) == target \in gapTransitions[from]

AreaStates == {"draft", "active", "archived"}

PlanStates == {"draft", "locked"}

NavigationQualities == {"good", "degraded", "invalid"}
=============================================================================

---------------------------- MODULE ProjectState ----------------------------
(***************************************************************************)
(* The canonical project state machine of the vedaws runtime               *)
(* (project/state/): the eleven states, the transitions the state engine   *)
(* accepts, the one intermediate step the bridge may insert, and the       *)
(* states from which work may be dispatched.  Everything here is a pure    *)
(* operator; the modules that keep a project state extend this one.        *)
(***************************************************************************)

ProjectStates ==
  {"created", "initialized", "planning", "ready", "executing",
   "awaiting_approval", "blocked", "failed", "recovering", "completed",
   "archived"}

\* The value the derivation returns when the tasks ask for no state at all.
NoTarget == "none"

(***************************************************************************)
(* The state engine accepts a transition only if it is in this table.      *)
(***************************************************************************)
VALID_TRANSITIONS ==
  [created           |-> {"initialized"},
   initialized       |-> {"planning"},
   planning          |-> {"ready", "blocked"},
   ready             |-> {"executing", "planning"},
   executing         |-> {"awaiting_approval", "blocked", "failed",
                          "completed", "recovering", "ready"},
   awaiting_approval |-> {"executing", "blocked", "failed", "recovering"},
   blocked           |-> {"recovering", "executing", "ready", "planning",
                          "failed", "archived"},
   failed            |-> {"recovering", "planning", "archived"},
   recovering        |-> {"executing", "ready", "blocked", "failed"},
   completed         |-> {"archived", "executing"},
   archived          |-> {"initialized"}]

\* Mutant: any state but the archive may fall back to ready.
CanTransitionAlwaysReady(current, target) ==
  \/ target \in VALID_TRANSITIONS[current]
  \/ target = "ready" /\ current # "archived"

CanTransition(current, target) == target \in VALID_TRANSITIONS[current]

(***************************************************************************)
(* transition_bridge names `executing' as the way from planning or ready   *)
(* to a state the table does not reach directly.                           *)
(***************************************************************************)
BridgesThroughExecuting(current, target) ==
  \/ /\ target \in {"failed", "awaiting_approval"}
     /\ current \in {"planning", "ready"}
  \/ target = "completed" /\ current = "ready"

\* Mutant: no intermediate step is taken.
AfterNoBridge(current, target) == current

\* The state apply_state_transition stands in after trying the bridge.
AfterBridge(current, target) ==
  IF BridgesThroughExecuting(current, target)
       /\ CanTransition(current, "executing")
    THEN "executing"
    ELSE current

(***************************************************************************)
(* apply_state_transition: direct if the table allows it, else through the *)
(* bridge; a refused target leaves the project where the bridge left it,   *)
(* without an error.                                                       *)
(***************************************************************************)
ApplyTransition(current, target) ==
  IF current = target \/ CanTransition(current, target)
    THEN target
    ELSE IF CanTransition(AfterBridge(current, target), target)
      THEN target
      ELSE AfterBridge(current, target)

\* States from which the dispatcher hands tasks to workers.
DispatchAllowed == {"planning", "ready", "executing", "recovering"}

=============================================================================

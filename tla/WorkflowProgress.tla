-------------------------- MODULE WorkflowProgress --------------------------
(***************************************************************************)
(* What the workflow engine of the vedaws runtime computes from the        *)
(* progress of a project (workflow/tracker.py and the deriving half of     *)
(* workflow/engine.py): readiness, workflow statuses, the project state    *)
(* the progress asks for, and what an activation or an outcome makes of    *)
(* all three.  Everything here is a pure operator over task statuses `ts', *)
(* workflow statuses `ws' and a project state `ps'.                        *)
(***************************************************************************)
EXTENDS ProjectState

CONSTANTS
  Workflows,          \* ids of the workflow definitions
  Tasks,              \* task keys, "workflow.task" in the code
  WorkflowOf,         \* WorkflowOf[t]: the workflow a task belongs to
  DependsOn,          \* DependsOn[t]: its depends_on; an id may name no task
  RequiresApproval    \* the tasks whose definition says requires_approval

ASSUME WorkflowOfAssumption == WorkflowOf \in [Tasks -> Workflows]
\* A dependency id is looked up in the workflow of the task that names it.
ASSUME DependsOnAssumption ==
  \A t \in Tasks : \A d \in DependsOn[t] :
    d \in Tasks => WorkflowOf[d] = WorkflowOf[t]
ASSUME ApprovalAssumption == RequiresApproval \subseteq Tasks

TaskStatuses ==
  {"defined", "pending", "ready", "dispatched", "running", "completed",
   "failed", "cancelled", "recorded"}

WorkflowStatuses ==
  {"defined", "activated", "in_progress", "blocked", "completed",
   "cancelled"}

Done == {"completed", "recorded"}
InFlight == {"dispatched", "running"}
Active == {"pending", "ready"} \cup InFlight

\* A workflow in one of these statuses is not refreshed, and may be activated.
Inactive == {"defined", "cancelled"}

-----------------------------------------------------------------------------
(* Progress tracking and the reconciliation of the project state.          *)

TasksOf(w) == {t \in Tasks : WorkflowOf[t] = w}

\* Mutant: a dependency that names no task instance is ignored.
DependenciesSatisfiedIfKnown(t, ts) ==
  \A d \in DependsOn[t] : d \in Tasks => ts[d] \in Done

\* A dependency that names no task instance is never satisfied.
DependenciesSatisfied(t, ts) ==
  \A d \in DependsOn[t] : d \in Tasks /\ ts[d] \in Done

(***************************************************************************)
(* One pass over the tasks of workflow w.  The pass writes only pending    *)
(* and ready and reads only whether a dependency is done, so the order of  *)
(* the loop does not matter.                                               *)
(***************************************************************************)
EvaluateTaskReadiness(w, ts) ==
  [t \in Tasks |->
     IF WorkflowOf[t] = w /\ ts[t] \in {"pending", "ready"}
       THEN IF DependenciesSatisfied(t, ts) THEN "ready" ELSE "pending"
       ELSE ts[t]]

\* Mutant: a failed task counts as finished.
DeriveWorkflowStatusFailedIsDone(w, status, ts) ==
  LET statuses == {ts[t] : t \in TasksOf(w)} IN
  IF status \in Inactive \/ statuses = {} THEN status
  ELSE IF statuses \subseteq Done \cup {"failed"} THEN "completed"
  ELSE IF "failed" \in statuses THEN "blocked"
  ELSE IF statuses \cap Active # {} THEN "in_progress"
  ELSE status

\* The status a workflow instance should have, given its tasks.
DeriveWorkflowStatus(w, status, ts) ==
  LET statuses == {ts[t] : t \in TasksOf(w)} IN
  IF status \in Inactive \/ statuses = {} THEN status
  ELSE IF "failed" \in statuses THEN "blocked"
  ELSE IF statuses \subseteq Done THEN "completed"
  ELSE IF statuses \cap Active # {} THEN "in_progress"
  ELSE status

\* _refresh_workflow, in two halves: the tasks, then the workflow's status.
RefreshedTasks(w, ws, ts) ==
  IF ws[w] \in Inactive THEN ts ELSE EvaluateTaskReadiness(w, ts)

RefreshedStatus(w, ws, ts) ==
  [ws EXCEPT ![w] = DeriveWorkflowStatus(w, ws[w], ts)]

(***************************************************************************)
(* The project state the progress of all workflows asks for.  Workflow     *)
(* statuses are derived afresh from the tasks.                             *)
(***************************************************************************)
DeriveProjectState(ws, ts, ps) ==
  LET derived == {DeriveWorkflowStatus(w, ws[w], ts) : w \in Workflows}
      statuses == {ts[t] : t \in Tasks}
  IN  IF Workflows = {} THEN NoTarget
      ELSE IF "failed" \in statuses THEN "failed"
      ELSE IF "blocked" \in derived THEN "blocked"
      ELSE IF derived = {"completed"} THEN "completed"
      ELSE IF statuses \cap InFlight # {} THEN "executing"
      ELSE IF "ready" \in statuses THEN "ready"
      ELSE IF derived \cap {"activated", "in_progress"} # {} THEN "planning"
      ELSE IF "defined" \in derived /\ ps = "initialized" THEN "planning"
      ELSE NoTarget

\* Mutant: the derived target is assigned as it is.
SyncProjectStateUnchecked(ws, ts, ps) == DeriveProjectState(ws, ts, ps)

\* _sync_project_state: a target the state machine refuses is dropped.
SyncProjectState(ws, ts, ps) ==
  LET target == DeriveProjectState(ws, ts, ps) IN
  IF target = NoTarget THEN ps ELSE ApplyTransition(ps, target)

-----------------------------------------------------------------------------
(* Activation and outcomes.                                                *)

\* What activation does to the tasks: all of them created, then evaluated.
ActivatedTasks(w, ts) ==
  EvaluateTaskReadiness(
    w, [t \in Tasks |-> IF WorkflowOf[t] = w THEN "pending" ELSE ts[t]])

(***************************************************************************)
(* The project transition an outcome asks for by itself, and the second    *)
(* one when the outcome completes its workflow.                            *)
(***************************************************************************)
OutcomeState(t, success, ps) ==
  IF ~success THEN ApplyTransition(ps, "failed")
  ELSE IF t \in RequiresApproval THEN ApplyTransition(ps, "awaiting_approval")
  ELSE ps

CompletionState(w, success, ws, ps) ==
  IF success /\ ws[w] = "completed"
    THEN ApplyTransition(ps, "completed")
    ELSE ps

\* Mutant: the tasks that waited for this one are not evaluated.
OutcomeTasksUnrefreshed(t, success, ws, ts) ==
  [ts EXCEPT ![t] = IF success THEN "recorded" ELSE "failed"]

\* The tasks once an outcome is recorded and the workflow refreshed.
OutcomeTasks(t, success, ws, ts) ==
  RefreshedTasks(
    WorkflowOf[t], ws,
    [ts EXCEPT ![t] = IF success THEN "recorded" ELSE "failed"])

=============================================================================

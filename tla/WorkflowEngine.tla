--------------------------- MODULE WorkflowEngine ---------------------------
(***************************************************************************)
(* The orchestration core of the vedaws runtime: the workflow engine       *)
(* (workflow/engine.py, tracker.py) driving the project state machine, and *)
(* the worker dispatcher (dispatch/dispatcher.py) taking one ready task    *)
(* through its life.                                                       *)
(*                                                                         *)
(* One CLI process works at a time and no event handler interferes.  A     *)
(* command that records or activates something is one action; a dispatch   *)
(* is a sequence of actions, because the engine persists the progress file *)
(* after each of them and the worker runs in between, so the process can   *)
(* be killed there.  What such a kill leaves in the files is what the next *)
(* process loads.                                                          *)
(***************************************************************************)
EXTENDS WorkflowProgress

CONSTANT NoTask   \* a value that is no task

ASSUME NoTaskAssumption == NoTask \notin Tasks

VARIABLES
  taskStatus,       \* status of every task instance
  workflowStatus,   \* status of every workflow instance
  projectState,     \* current state of the project's state engine
  dispatch          \* the dispatch this process is in, and how far it got

vars == <<taskStatus, workflowStatus, projectState, dispatch>>

Idle == [task |-> NoTask, step |-> "idle"]

TypeOK ==
  /\ taskStatus \in [Tasks -> TaskStatuses]
  /\ workflowStatus \in [Workflows -> WorkflowStatuses]
  /\ projectState \in ProjectStates
  /\ dispatch \in [task : Tasks \cup {NoTask},
                   step : {"idle", "prepared", "assigned", "running"}]

-----------------------------------------------------------------------------
(* The commands that run to their end in one process.                      *)

\* Mutant: a blocked workflow may be activated again.
ActivateAgain(w) ==
  LET ts == ActivatedTasks(w, taskStatus)
      ws == RefreshedStatus(w, [workflowStatus EXCEPT ![w] = "activated"], ts)
  IN  /\ dispatch = Idle
      /\ workflowStatus[w] \in Inactive \cup {"blocked"}
      /\ taskStatus' = ts
      /\ workflowStatus' = ws
      /\ projectState' =
           SyncProjectState(ws, ts, ApplyTransition(projectState, "planning"))
      /\ UNCHANGED dispatch

\* `workflow activate'.
Activate(w) ==
  LET ts == ActivatedTasks(w, taskStatus)
      ws == RefreshedStatus(w, [workflowStatus EXCEPT ![w] = "activated"], ts)
  IN  /\ dispatch = Idle
      /\ workflowStatus[w] \in Inactive
      /\ taskStatus' = ts
      /\ workflowStatus' = ws
      /\ projectState' =
           SyncProjectState(ws, ts, ApplyTransition(projectState, "planning"))
      /\ UNCHANGED dispatch

(***************************************************************************)
(* _apply_task_outcome: record the task, ask for the approval or failure   *)
(* state, refresh the workflow, ask for completion, then reconcile.        *)
(***************************************************************************)
ApplyTaskOutcome(t, success) ==
  LET w  == WorkflowOf[t]
      ts == OutcomeTasks(t, success, workflowStatus, taskStatus)
      ws == RefreshedStatus(w, workflowStatus, ts)
      ps == CompletionState(w, success, ws,
                            OutcomeState(t, success, projectState))
  IN  /\ taskStatus' = ts
      /\ workflowStatus' = ws
      /\ projectState' = SyncProjectState(ws, ts, ps)

\* `tasks complete' and `tasks fail': only a ready task, in any project state.
CompleteTask(t) ==
  /\ dispatch = Idle
  /\ taskStatus[t] = "ready"
  /\ ApplyTaskOutcome(t, TRUE)
  /\ UNCHANGED dispatch

FailTask(t) ==
  /\ dispatch = Idle
  /\ taskStatus[t] = "ready"
  /\ ApplyTaskOutcome(t, FALSE)
  /\ UNCHANGED dispatch

\* `state transition': a human decision, checked against the table alone.
HumanTransition(target) ==
  /\ dispatch = Idle
  /\ CanTransition(projectState, target)
  /\ projectState' = target
  /\ UNCHANGED <<taskStatus, workflowStatus, dispatch>>

-----------------------------------------------------------------------------
(* A dispatch: prepare, assign, start, and the outcome of the worker.      *)

\* Ready task, worker found, state allows dispatch: try to be executing.
PrepareDispatch(t) ==
  /\ dispatch = Idle
  /\ taskStatus[t] = "ready"
  /\ projectState \in DispatchAllowed
  /\ projectState' = ApplyTransition(projectState, "executing")
  /\ dispatch' = [task |-> t, step |-> "prepared"]
  /\ UNCHANGED <<taskStatus, workflowStatus>>

MarkDispatched ==
  /\ dispatch.step = "prepared"
  /\ taskStatus[dispatch.task] = "ready"
  /\ taskStatus' = [taskStatus EXCEPT ![dispatch.task] = "dispatched"]
  /\ dispatch' = [dispatch EXCEPT !.step = "assigned"]
  /\ UNCHANGED <<workflowStatus, projectState>>

\* mark_running, followed by the second ensure_executing.
MarkRunning ==
  /\ dispatch.step = "assigned"
  /\ taskStatus[dispatch.task] = "dispatched"
  /\ taskStatus' = [taskStatus EXCEPT ![dispatch.task] = "running"]
  /\ projectState' = ApplyTransition(projectState, "executing")
  /\ dispatch' = [dispatch EXCEPT !.step = "running"]
  /\ UNCHANGED workflowStatus

(***************************************************************************)
(* The worker returned, or raised: a failure is recorded either way.  The  *)
(* dispatcher's own sync_project_state after a returned outcome derives    *)
(* the target the outcome has just reconciled, from the same progress.     *)
(***************************************************************************)
RecordWorkerOutcome(success) ==
  /\ dispatch.step = "running"
  /\ taskStatus[dispatch.task] = "running"
  /\ ApplyTaskOutcome(dispatch.task, success)
  /\ dispatch' = Idle

(***************************************************************************)
(* The process dies in the middle of a dispatch (a kill, or the timeout of *)
(* the command that started it).  Progress was persisted at every step, so *)
(* the next process finds the task where it was, and nobody working on it. *)
(***************************************************************************)
Crash ==
  /\ dispatch # Idle
  /\ dispatch' = Idle
  /\ UNCHANGED <<taskStatus, workflowStatus, projectState>>

-----------------------------------------------------------------------------

\* A project as `init' leaves it.
Init ==
  /\ taskStatus = [t \in Tasks |-> "defined"]
  /\ workflowStatus = [w \in Workflows |-> "defined"]
  /\ projectState = "created"
  /\ dispatch = Idle

DispatchStep ==
  \/ MarkDispatched
  \/ MarkRunning
  \/ \E success \in BOOLEAN : RecordWorkerOutcome(success)

Next ==
  \/ \E w \in Workflows : Activate(w)
  \/ \E t \in Tasks : CompleteTask(t) \/ FailTask(t) \/ PrepareDispatch(t)
  \/ \E target \in ProjectStates : HumanTransition(target)
  \/ DispatchStep
  \/ Crash

Spec == Init /\ [][Next]_vars

-----------------------------------------------------------------------------
(* Properties.                                                             *)

\* The step is a human decision about the project state and nothing else.
HumanDecision == HumanTransition(projectState')

\* Task t is in flight although no live dispatch holds it: a crash left it.
Stranded(t) == taskStatus[t] \in InFlight /\ dispatch.task # t

(***************************************************************************)
(* Whatever a task may depend on has been recorded before the task is      *)
(* released, dispatched or given an outcome: evaluate_task_readiness       *)
(* releases tasks from four different callers, and activation rewrites the *)
(* statuses of a whole workflow.                                           *)
(***************************************************************************)
DependenciesRecorded ==
  \A t \in Tasks :
    taskStatus[t] \in {"ready", "recorded", "failed"} \cup InFlight =>
      \A d \in DependsOn[t] : d \in Tasks /\ taskStatus[d] = "recorded"

(***************************************************************************)
(* The persisted workflow status tells the truth about the tasks after     *)
(* every command and every crash, although it is stored beside them and    *)
(* only refreshed by some of the operations.                               *)
(***************************************************************************)
WorkflowStatusTruthful ==
  \A w \in Workflows :
    LET statuses == {taskStatus[t] : t \in TasksOf(w)} IN
    \/ workflowStatus[w] = "defined" /\ statuses \subseteq {"defined"}
    \/ workflowStatus[w] = "activated" /\ statuses = {}
    \/ workflowStatus[w] = "blocked" /\ "failed" \in statuses
    \/ workflowStatus[w] = "completed" /\ statuses = {"recorded"}
    \/ /\ workflowStatus[w] = "in_progress"
       /\ "failed" \notin statuses
       /\ statuses \ {"recorded"} # {}

(***************************************************************************)
(* Loading is harmless: WorkflowEngine.load refreshes every workflow in    *)
(* memory, without persisting and without touching the project state.  It  *)
(* finds nothing to change in what any command or crash left behind, so no *)
(* two processes disagree about the files.                                 *)
(***************************************************************************)
ReloadStable ==
  \A w \in Workflows :
    /\ RefreshedTasks(w, workflowStatus, taskStatus) = taskStatus
    /\ RefreshedStatus(w, workflowStatus, taskStatus) = workflowStatus

(***************************************************************************)
(* The engine keeps the promises of TaskLifecycle, crashes included: tasks *)
(* only move forward and are executed at most once, one at a time.         *)
(***************************************************************************)
Lifecycle == INSTANCE TaskLifecycle WITH status <- taskStatus
ImplementsLifecycle == Lifecycle!Spec

(***************************************************************************)
(* A gate or a finished project is reopened for dispatch by a human        *)
(* decision alone, unless a crash has left a task in flight: then the next *)
(* reconciliation takes the project to executing by itself.                *)
(***************************************************************************)
GateStep ==
  /\ projectState \in {"awaiting_approval", "completed"}
  /\ projectState' \in DispatchAllowed
  => HumanDecision \/ \E t \in Tasks : Stranded(t)

GateNeedsDecision == [][GateStep]_vars

(***************************************************************************)
(* A task that fails takes the project to `failed' from every state in     *)
(* which work is under way (through `executing' where the table has no     *)
(* direct transition), and while a failed task remains the project leaves  *)
(* `failed' only by a human decision or the activation of a workflow.      *)
(***************************************************************************)
FailureStep ==
  /\ \A t \in Tasks :
       /\ taskStatus[t] # "failed" /\ taskStatus'[t] = "failed"
       /\ projectState \in {"ready", "executing", "awaiting_approval",
                            "blocked", "recovering"}
       => projectState' = "failed"
  /\ /\ projectState = "failed" /\ projectState' # "failed"
     /\ \E t \in Tasks : taskStatus[t] = "failed"
     => HumanDecision \/ \E w \in Workflows : Activate(w)

FailureHalts == [][FailureStep]_vars

-----------------------------------------------------------------------------
(* What the documents say and the code does not do.                        *)

(***************************************************************************)
(* design/006_STATE_MACHINE.md: while awaiting approval, no transition to  *)
(* executing occurs without recorded approval.  A task stranded in flight  *)
(* makes the reconciliation that follows the approval task's own outcome   *)
(* go there at once, or any later one.                                     *)
(***************************************************************************)
ApprovalNotBypassed ==
  [][projectState = "awaiting_approval" /\ projectState' = "executing" =>
       HumanDecision]_vars

(***************************************************************************)
(* design/006_STATE_MACHINE.md: in a completed project its objectives are  *)
(* met or a human closed it.  The outcome that completes one workflow asks *)
(* for completed (_apply_task_outcome), whatever the other activated       *)
(* workflows still have to do; their tasks then wait, because completed    *)
(* forbids dispatch and the reconciliation cannot leave it.                *)
(***************************************************************************)
CompletedMeansDone ==
  [][projectState # "completed" /\ projectState' = "completed" =>
       \/ HumanDecision
       \/ \A t \in Tasks : taskStatus'[t] \in Done \cup {"defined"}]_vars

=============================================================================

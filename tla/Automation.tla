----------------------------- MODULE Automation ------------------------------
(***************************************************************************)
(* Event-driven automation on top of the workflow engine (events/bus.py,   *)
(* events/integration.py, automation/engine.py, automation/actions.py).    *)
(*                                                                         *)
(* Everything happens in one thread: publishing an event calls the         *)
(* automation engine, which executes the actions of the matching rules     *)
(* before publish returns, while the operation that published is in the    *)
(* middle of its work.  An action may call the workflow engine, the state  *)
(* engine or the dispatcher again.  `todo' is the call stack, flattened:   *)
(* the steps the process still has to take, innermost call first.  A step  *)
(* takes the head of `todo' and puts the steps it calls in its place.      *)
(***************************************************************************)
EXTENDS WorkflowProgress, AutomationRules

CONSTANTS
  Workers,       \* ids of the executable workers
  WorkerOrder,   \* the same, in the order of their names
  Supports,      \* Supports[k]: the tasks whose capability worker k offers
  NoWorker       \* a value that is no worker

ASSUME WorkersAssumption ==
  /\ WorkerOrder \in Seq(Workers) /\ ToSet(WorkerOrder) = Workers
  /\ NoWorker \notin Workers
  /\ Supports \in [Workers -> SUBSET Tasks]

\* A project has finitely many tasks.
ASSUME TasksAssumption == IsFiniteSet(Tasks)

(***************************************************************************)
(* The actions a rule may have.  One that names no task or no worker of    *)
(* the project fails before it changes anything, as "outside" does.        *)
(***************************************************************************)
IsAction(a) ==
  \/ a.type \in {"publish_event", "transition_state", "outside"}
  \/ a.type \in {"complete", "fail"} /\ a.task \in Tasks
  \/ /\ a.type = "dispatch"
     /\ a.task \in Tasks /\ a.worker \in Workers \cup {NoWorker}

ASSUME RuleActionsAssumption ==
  \A r \in RuleIds :
    /\ Rule[r].actions \in Seq(ToSet(Rule[r].actions))
    /\ \A a \in ToSet(Rule[r].actions) : IsAction(a)

VARIABLES
  taskStatus,      \* task statuses in memory
  workflowStatus,  \* workflow statuses in memory
  projectState,    \* the state engine's state, saved by every transition
  progressFile,    \* what save_progress wrote last
  manifest,        \* the state written into .vedaws/project.toml
  workerStatus,    \* status of every worker object
  config,          \* .vedaws/automation.toml
  chain,           \* _active_rule_chain
  todo             \* the flattened call stack

progress == <<taskStatus, workflowStatus>>
engineVars == <<taskStatus, workflowStatus, projectState>>
fileVars == <<progressFile, manifest>>
vars == <<engineVars, fileVars, workerStatus, config, chain, todo>>

Idle == todo = <<>>

\* Replace the step at hand by the steps it calls.
Call(steps) == todo' = steps \o Tail(todo)
Return == Call(<<>>)

\* The step at hand is one of kind op.
At(op) == todo # <<>> /\ Head(todo).op = op
Step == Head(todo)

-----------------------------------------------------------------------------
(* Constructors of steps.                                                  *)

Publish(type, payload) ==
  [op |-> "publish", event |-> CreateEvent(type, payload)]
PublishTask(type, t) == Publish(type, [task_id |-> t])
TryState(target) == [op |-> "try_state", target |-> target]
RetryState(target) == [op |-> "retry_state", target |-> target]
TransitionTo(target) == [op |-> "transition", target |-> target]
OutcomeOf(t, success) == [op |-> "outcome", task |-> t, success |-> success]
DispatchOf(t, k) == [op |-> "dispatch", task |-> t, worker |-> k]
RunRule(r, e) == [op |-> "rule", rule |-> r, event |-> e]
ForWorkflow(op, w) == [op |-> op, workflow |-> w]
ForWork(op, t, k) == [op |-> op, task |-> t, worker |-> k]
Plain(op) == [op |-> op]

-----------------------------------------------------------------------------
(* The event bus and the automation engine.                                *)

(***************************************************************************)
(* EventBus.publish: every subscription to the type is called in turn, and *)
(* an exception of a handler goes no further.  The automation engine holds *)
(* at most one subscription per type; it skips what automation has nested  *)
(* too deep, else executes the matching rules in order.                    *)
(***************************************************************************)
PublishEvent ==
  /\ At("publish")
  /\ LET e == Step.event IN
     IF e.type \in Subscribed(config) /\ ~ShouldSkipEvent(e)
       THEN LET rules == RulesForEvent(config, e) IN
            Call([i \in DOMAIN rules |-> RunRule(rules[i], e)])
       ELSE Return
  /\ UNCHANGED <<engineVars, fileVars, workerStatus, config, chain>>

\* The steps of rule r: its actions in order, then it leaves the chain.
RuleSteps(r, e) ==
  [i \in DOMAIN Rule[r].actions |->
     [op |-> "action", rule |-> r, action |-> Rule[r].actions[i],
      depth |-> e.depth]]
  \o <<[op |-> "rule_end", rule |-> r]>>

\* Mutant: only the innermost rule is kept from executing again.
ExecuteRuleUnlessLast ==
  /\ At("rule")
  /\ IF chain # <<>> /\ Last(chain) = Step.rule
       THEN /\ Return
            /\ UNCHANGED chain
       ELSE /\ chain' = Append(chain, Step.rule)
            /\ Call(RuleSteps(Step.rule, Step.event))
  /\ UNCHANGED <<engineVars, fileVars, workerStatus, config>>

\* Mutant: a rule that is active already is put off, not skipped.
ExecuteRuleLater ==
  /\ At("rule")
  /\ IF Step.rule \in ToSet(chain)
       THEN /\ todo' = Append(Tail(todo), Step)
            /\ UNCHANGED chain
       ELSE /\ chain' = Append(chain, Step.rule)
            /\ Call(RuleSteps(Step.rule, Step.event))
  /\ UNCHANGED <<engineVars, fileVars, workerStatus, config>>

\* _execute_rule: a rule that is already being executed is skipped.
ExecuteRule ==
  /\ At("rule")
  /\ IF Step.rule \in ToSet(chain)
       THEN /\ Return
            /\ UNCHANGED chain
       ELSE /\ chain' = Append(chain, Step.rule)
            /\ Call(RuleSteps(Step.rule, Step.event))
  /\ UNCHANGED <<engineVars, fileVars, workerStatus, config>>

EndRule ==
  /\ At("rule_end")
  /\ chain' = IF chain # <<>> /\ Last(chain) = Step.rule
                THEN Front(chain) ELSE chain
  /\ Return
  /\ UNCHANGED <<engineVars, fileVars, workerStatus, config>>

-----------------------------------------------------------------------------
(* The actions of a rule.  One that fails, by its result or by an          *)
(* exception, changes nothing and the next action of the rule follows.     *)

\* Mutant: the depth limit is left to those who receive the event.
PublishActionUnlimited ==
  /\ At("action")
  /\ Step.action.type = "publish_event"
  /\ Call(<<[op |-> "publish",
              event |-> [type |-> Step.action.event, payload |-> <<>>,
                         generated |-> FALSE, depth |-> Step.depth + 1]]>>)
  /\ UNCHANGED <<engineVars, fileVars, workerStatus, config, chain>>

\* publish_event: refused at the depth limit, else one level deeper.
PublishAction ==
  /\ At("action")
  /\ Step.action.type = "publish_event"
  /\ IF Step.depth >= MaxDepth
       THEN Return
       ELSE Call(<<[op |-> "publish",
                    event |-> [type |-> Step.action.event, payload |-> <<>>,
                               generated |-> TRUE, depth |-> Step.depth + 1]]>>)
  /\ UNCHANGED <<engineVars, fileVars, workerStatus, config, chain>>

\* transition_state: an invalid transition raises before the manifest is written.
TransitionAction ==
  /\ At("action")
  /\ Step.action.type = "transition_state"
  /\ IF CanTransition(projectState, Step.action.state)
       THEN Call(<<TransitionTo(Step.action.state), Plain("sync_manifest")>>)
       ELSE Return
  /\ UNCHANGED <<engineVars, fileVars, workerStatus, config, chain>>

\* workflow_step complete or fail: only a ready task, else the engine raises.
OutcomeAction ==
  /\ At("action")
  /\ Step.action.type \in {"complete", "fail"}
  /\ IF taskStatus[Step.action.task] = "ready"
       THEN Call(<<OutcomeOf(Step.action.task, Step.action.type = "complete"),
                   Plain("sync_manifest")>>)
       ELSE Return
  /\ UNCHANGED <<engineVars, fileVars, workerStatus, config, chain>>

\* workflow_step dispatch, and execute_worker with a task_ref.
DispatchAction ==
  /\ At("action")
  /\ Step.action.type = "dispatch"
  /\ Call(<<DispatchOf(Step.action.task, Step.action.worker),
            Plain("sync_manifest")>>)
  /\ UNCHANGED <<engineVars, fileVars, workerStatus, config, chain>>

\* execute_worker without a task, plugin_command, an unknown type: a worker
\* or a handler outside of the engine runs, or nothing does.
OutsideAction ==
  /\ At("action")
  /\ Step.action.type = "outside"
  /\ Return
  /\ UNCHANGED <<engineVars, fileVars, workerStatus, config, chain>>

-----------------------------------------------------------------------------
(* The state engine and the workflow engine, interrupted by their events.  *)

\* StateEngine.transition, with the listener that publishes it.
EngineTransition ==
  /\ At("transition")
  /\ projectState' = Step.target
  /\ Call(<<Publish("ProjectStateChanged",
                    [from_state |-> projectState, to_state |-> Step.target])>>)
  /\ UNCHANGED <<progress, fileVars, workerStatus, config, chain>>

(***************************************************************************)
(* apply_state_transition: the bridge is chosen before the first of its    *)
(* events, and the table is asked again after it.                          *)
(***************************************************************************)
TryStateTransition ==
  /\ At("try_state")
  /\ LET target == Step.target IN
     IF projectState = target THEN Return
     ELSE IF CanTransition(projectState, target)
       THEN Call(<<TransitionTo(target)>>)
     ELSE IF AfterBridge(projectState, target) # projectState
       THEN Call(<<TransitionTo(AfterBridge(projectState, target)),
                   RetryState(target)>>)
     ELSE Return
  /\ UNCHANGED <<engineVars, fileVars, workerStatus, config, chain>>

RetryStateTransition ==
  /\ At("retry_state")
  /\ IF CanTransition(projectState, Step.target)
       THEN Call(<<TransitionTo(Step.target)>>)
       ELSE Return
  /\ UNCHANGED <<engineVars, fileVars, workerStatus, config, chain>>

(***************************************************************************)
(* What _apply_task_outcome still does once it has set the status of the   *)
(* task: its events, the transition it asks for, the refresh, and so on.   *)
(***************************************************************************)
OutcomeSteps(t, success) ==
  LET record == [op |-> "record", task |-> t]
      refresh == ForWorkflow("refresh", WorkflowOf[t])
      completion == ForWorkflow("completion", WorkflowOf[t])
      sync == Plain("sync_state")
      persist == Plain("persist")
  IN  IF ~success
        THEN <<PublishTask("TaskFailed", t), TryState("failed"), refresh,
               sync, persist>>
      ELSE IF t \in RequiresApproval
        THEN <<PublishTask("TaskCompleted", t), record,
               TryState("awaiting_approval"), refresh, completion, sync,
               persist>>
      ELSE <<PublishTask("TaskCompleted", t), record, refresh, completion,
             sync, persist>>

\* _apply_task_outcome up to its first event.
BeginOutcome ==
  /\ At("outcome")
  /\ taskStatus' =
       [taskStatus EXCEPT ![Step.task] =
          IF Step.success THEN "completed" ELSE "failed"]
  /\ Call(OutcomeSteps(Step.task, Step.success))
  /\ UNCHANGED <<workflowStatus, projectState, fileVars, workerStatus,
                 config, chain>>

RecordTask ==
  /\ At("record")
  /\ taskStatus' = [taskStatus EXCEPT ![Step.task] = "recorded"]
  /\ Return
  /\ UNCHANGED <<workflowStatus, projectState, fileVars, workerStatus,
                 config, chain>>

\* Mutant: the tasks are evaluated, the status of the workflow is not.
RefreshWorkflowTasks ==
  /\ At("refresh")
  /\ taskStatus' = RefreshedTasks(Step.workflow, workflowStatus, taskStatus)
  /\ progressFile' = [tasks |-> taskStatus', workflows |-> workflowStatus]
  /\ Return
  /\ UNCHANGED <<workflowStatus, projectState, manifest, workerStatus,
                 config, chain>>

\* _refresh_workflow: evaluate, derive and persist.
RefreshWorkflow ==
  /\ At("refresh")
  /\ taskStatus' = RefreshedTasks(Step.workflow, workflowStatus, taskStatus)
  /\ workflowStatus' =
       RefreshedStatus(Step.workflow, workflowStatus, taskStatus')
  /\ progressFile' = [tasks |-> taskStatus', workflows |-> workflowStatus']
  /\ Return
  /\ UNCHANGED <<projectState, manifest, workerStatus, config, chain>>

CompleteWorkflow ==
  /\ At("completion")
  /\ IF DeriveWorkflowStatus(Step.workflow, workflowStatus[Step.workflow],
                             taskStatus) = "completed"
       THEN Call(<<Publish("WorkflowCompleted",
                           [workflow_id |-> Step.workflow]),
                   TryState("completed")>>)
       ELSE Return
  /\ UNCHANGED <<engineVars, fileVars, workerStatus, config, chain>>

SyncState ==
  /\ At("sync_state")
  /\ LET target == DeriveProjectState(workflowStatus, taskStatus, projectState)
     IN IF target \in {NoTarget, projectState}
          THEN Return ELSE Call(<<TryState(target)>>)
  /\ UNCHANGED <<engineVars, fileVars, workerStatus, config, chain>>

Persist ==
  /\ At("persist")
  /\ progressFile' = [tasks |-> taskStatus, workflows |-> workflowStatus]
  /\ Return
  /\ UNCHANGED <<engineVars, manifest, workerStatus, config, chain>>

SyncManifest ==
  /\ At("sync_manifest")
  /\ manifest' = projectState
  /\ Return
  /\ UNCHANGED <<engineVars, progressFile, workerStatus, config, chain>>

\* One task of an activation: created, and announced, before the next one.
CreateTask ==
  /\ At("create")
  /\ taskStatus' = [taskStatus EXCEPT ![Step.task] = "pending"]
  /\ Call(<<PublishTask("TaskCreated", Step.task)>>)
  /\ UNCHANGED <<workflowStatus, projectState, fileVars, workerStatus,
                 config, chain>>

-----------------------------------------------------------------------------
(* The dispatcher.                                                         *)

\* Mutant: a busy worker is taken as well.
SelectAnyWorker(t, k) ==
  LET fit == IF k # NoWorker
               THEN {x \in {k} : t \in Supports[x]}
               ELSE {x \in Workers : t \in Supports[x]}
      first == SelectInSeq(WorkerOrder, LAMBDA x : x \in fit)
  IN  IF first = 0 THEN NoWorker ELSE WorkerOrder[first]

(***************************************************************************)
(* select_worker: a worker asked for by name is taken whatever it is       *)
(* doing; otherwise the first available one.                               *)
(***************************************************************************)
SelectWorker(t, k) ==
  LET fit == IF k # NoWorker
               THEN {x \in {k} : t \in Supports[x]}
               ELSE {x \in Workers : t \in Supports[x]
                                       /\ workerStatus[x] = "available"}
      first == SelectInSeq(WorkerOrder, LAMBDA x : x \in fit)
  IN  IF first = 0 THEN NoWorker ELSE WorkerOrder[first]

\* Skipped, no worker, or blocked by the project's state: nothing happens.
BeginDispatch ==
  /\ At("dispatch")
  /\ LET k == SelectWorker(Step.task, Step.worker) IN
     IF /\ taskStatus[Step.task] = "ready"
        /\ k # NoWorker
        /\ projectState \in DispatchAllowed
       THEN LET assign == ForWork("assign", Step.task, k) IN
            Call(IF projectState = "executing"
                   THEN <<assign>> ELSE <<TryState("executing"), assign>>)
       ELSE Return
  /\ UNCHANGED <<engineVars, fileVars, workerStatus, config, chain>>

\* Mutant: a task is taken whatever became of it during ensure_executing.
AssignAnyTask ==
  /\ At("assign")
  /\ LET t == Step.task
         k == Step.worker
     IN IF projectState \notin DispatchAllowed
          THEN /\ Return
               /\ UNCHANGED <<taskStatus, workerStatus, progressFile>>
          ELSE /\ taskStatus' = [taskStatus EXCEPT ![t] = "dispatched"]
               /\ workerStatus' = [workerStatus EXCEPT ![k] = "assigned"]
               /\ progressFile' =
                    [tasks |-> taskStatus', workflows |-> workflowStatus]
               /\ Call(<<ForWork("run", t, k)>>)
  /\ UNCHANGED <<workflowStatus, projectState, manifest, config, chain>>

(***************************************************************************)
(* Back from ensure_executing, whose event may have moved the project on   *)
(* or had this very task executed.  The state is asked again; mark_        *)
(* dispatched raises for a task that is no longer ready, which ends the    *)
(* dispatch and makes the worker available.                                *)
(***************************************************************************)
Assign ==
  /\ At("assign")
  /\ LET t == Step.task
         k == Step.worker
     IN IF projectState \notin DispatchAllowed
          THEN /\ Return
               /\ UNCHANGED <<taskStatus, workerStatus, progressFile>>
        ELSE IF taskStatus[t] # "ready"
          THEN /\ Call(<<ForWork("release", t, k)>>)
               /\ UNCHANGED <<taskStatus, workerStatus, progressFile>>
        ELSE /\ taskStatus' = [taskStatus EXCEPT ![t] = "dispatched"]
             /\ workerStatus' = [workerStatus EXCEPT ![k] = "assigned"]
             /\ progressFile' =
                  [tasks |-> taskStatus', workflows |-> workflowStatus]
             /\ Call(<<ForWork("run", t, k)>>)
  /\ UNCHANGED <<workflowStatus, projectState, manifest, config, chain>>

\* mark_running: announced before it is persisted.
MarkRunning ==
  /\ At("run")
  /\ taskStatus' = [taskStatus EXCEPT ![Step.task] = "running"]
  /\ Call(<<PublishTask("TaskStarted", Step.task), Plain("persist"),
            ForWork("start", Step.task, Step.worker)>>)
  /\ UNCHANGED <<workflowStatus, projectState, fileVars, workerStatus,
                 config, chain>>

StartWork ==
  /\ At("start")
  /\ workerStatus' = [workerStatus EXCEPT ![Step.worker] = "executing"]
  /\ Call(<<TryState("executing"), PublishTask("WorkerStarted", Step.task),
            ForWork("execute", Step.task, Step.worker)>>)
  /\ UNCHANGED <<engineVars, fileVars, config, chain>>

(***************************************************************************)
(* The worker returns a success or a failure, or raises.  What the         *)
(* dispatcher records for an exception is a failure, without the second    *)
(* reconciliation and without the event.                                   *)
(***************************************************************************)
Execute(result) ==
  /\ At("execute")
  /\ LET outcome == OutcomeOf(Step.task, result = "success")
         release == ForWork("release", Step.task, Step.worker)
     IN  Call(IF result = "raised"
                THEN <<outcome, release>>
                ELSE <<outcome, Plain("sync_state"),
                       PublishTask("WorkerCompleted", Step.task), release>>)
  /\ UNCHANGED <<engineVars, fileVars, workerStatus, config, chain>>

ReleaseWorker ==
  /\ At("release")
  /\ workerStatus' = [workerStatus EXCEPT ![Step.worker] = "available"]
  /\ Return
  /\ UNCHANGED <<engineVars, fileVars, config, chain>>

-----------------------------------------------------------------------------
(* The commands, each in a process of its own that loads what the files    *)
(* hold; the manifest is written when the command is through.              *)

Command(steps) ==
  /\ Idle
  /\ todo' = steps \o <<Plain("sync_manifest")>>
  /\ UNCHANGED <<fileVars, workerStatus, config, chain>>

ActivateCommand(w) ==
  LET tasks == SetToSeq(TasksOf(w)) IN
  /\ workflowStatus[w] \in Inactive
  /\ workflowStatus' = [workflowStatus EXCEPT ![w] = "activated"]
  /\ Command([i \in DOMAIN tasks |-> [op |-> "create", task |-> tasks[i]]]
             \o <<Publish("WorkflowStarted", [workflow_id |-> w]),
                  TryState("planning"), ForWorkflow("refresh", w),
                  Plain("sync_state"), Plain("persist")>>)
  /\ UNCHANGED <<taskStatus, projectState>>

OutcomeCommand(t, success) ==
  /\ taskStatus[t] = "ready"
  /\ Command(<<OutcomeOf(t, success)>>)
  /\ UNCHANGED engineVars

DispatchCommand(t, k) ==
  /\ taskStatus[t] = "ready"
  /\ Command(<<DispatchOf(t, k)>>)
  /\ UNCHANGED engineVars

TransitionCommand(target) ==
  /\ CanTransition(projectState, target)
  /\ Command(<<TransitionTo(target)>>)
  /\ UNCHANGED engineVars

\* `automation run --rule': conditions are not asked, no event is at hand.
RunRuleCommand(r) ==
  /\ Idle
  /\ r \in Loaded(config) /\ Enabled(config, r)
  /\ todo' = <<RunRule(r, CreateEvent(Rule[r].on_event, <<>>))>>
  /\ UNCHANGED <<engineVars, fileVars, workerStatus, config, chain>>

\* `automation run --event': the rules of an event that nobody published.
RunEventCommand(type) ==
  LET e == CreateEvent(type, <<>>)
      rules == RulesForEvent(config, e)
  IN  /\ Idle
      /\ rules # <<>>
      /\ todo' = [i \in DOMAIN rules |-> RunRule(rules[i], e)]
      /\ UNCHANGED <<engineVars, fileVars, workerStatus, config, chain>>

\* `automation enable' and `automation disable'.
ToggleCommand(r, flag) ==
  /\ Idle
  /\ config' = SaveRuleOverride(config, r, flag)
  /\ UNCHANGED <<engineVars, fileVars, workerStatus, chain, todo>>

-----------------------------------------------------------------------------

Init ==
  /\ taskStatus = [t \in Tasks |-> "defined"]
  /\ workflowStatus = [w \in Workflows |-> "defined"]
  /\ projectState = "created"
  /\ progressFile = [tasks |-> taskStatus, workflows |-> workflowStatus]
  /\ manifest = "created"
  /\ workerStatus = [k \in Workers |-> "available"]
  /\ config \in [enabled : {TRUE},
                 overrides : {[r \in RuleIds |-> "none"]},
                 rules : RuleFiles]
  /\ chain = <<>>
  /\ todo = <<>>

EngineStep ==
  \/ EngineTransition \/ TryStateTransition \/ RetryStateTransition
  \/ BeginOutcome \/ RecordTask \/ RefreshWorkflow \/ CompleteWorkflow
  \/ SyncState \/ Persist \/ SyncManifest \/ CreateTask

DispatchStep ==
  \/ BeginDispatch \/ Assign \/ MarkRunning \/ StartWork
  \/ \E result \in {"success", "failure", "raised"} : Execute(result)
  \/ ReleaseWorker

RuleStep ==
  \/ PublishEvent \/ ExecuteRule \/ EndRule
  \/ PublishAction \/ TransitionAction \/ OutcomeAction \/ DispatchAction
  \/ OutsideAction

\* The thread goes on with what it has begun.
Proceed == EngineStep \/ DispatchStep \/ RuleStep

Next ==
  \/ Proceed
  \/ \E w \in Workflows : ActivateCommand(w)
  \/ \E t \in Tasks, success \in BOOLEAN : OutcomeCommand(t, success)
  \/ \E t \in Tasks, k \in Workers \cup {NoWorker} : DispatchCommand(t, k)
  \/ \E target \in ProjectStates : TransitionCommand(target)
  \/ \E r \in RuleIds : RunRuleCommand(r)
  \/ \E type \in EventTypes : RunEventCommand(type)
  \/ \E r \in Toggled, flag \in {"on", "off"} : ToggleCommand(r, flag)

\* A command that has begun goes on; whether another one comes is open.
Spec == Init /\ [][Next]_vars /\ WF_vars(Proceed)

-----------------------------------------------------------------------------
(* Properties.                                                             *)

\* Steps of the flattened call stack that are of one of the kinds ops.
Pending(ops) == {i \in DOMAIN todo : todo[i].op \in ops}

\* The variables have their types, and no event is nested beyond the limit.
AutomationTypeOK ==
  /\ taskStatus \in [Tasks -> TaskStatuses]
  /\ workflowStatus \in [Workflows -> WorkflowStatuses]
  /\ projectState \in ProjectStates
  /\ progressFile \in [tasks : [Tasks -> TaskStatuses],
                       workflows : [Workflows -> WorkflowStatuses]]
  /\ manifest \in ProjectStates
  /\ workerStatus \in [Workers -> {"available", "assigned", "executing"}]
  /\ config \in AutomationConfigs
  /\ chain \in Seq(RuleIds)
  /\ \A i \in Pending({"publish", "rule"}) :
       todo[i].event.depth \in 0..MaxDepth

(***************************************************************************)
(* The active chain is what ends a chain of rules that trigger each other: *)
(* the depth limit does not, because the events the engine publishes in    *)
(* the middle of an action start again at depth zero.  No rule is executed *)
(* inside itself, as many ends of rules are still to come as there are     *)
(* rules on the chain, and between two commands the chain is empty: rules  *)
(* never nest deeper than there are rules.                                 *)
(***************************************************************************)
NestingBounded ==
  /\ \A i, j \in DOMAIN chain : chain[i] = chain[j] => i = j
  /\ Cardinality(Pending({"rule_end"})) = Len(chain)
  /\ Idle => chain = <<>>

(***************************************************************************)
(* An operation that rules interrupted, with operations of their own on    *)
(* the same workflow, has everything settled when it is through: statuses  *)
(* are derived from the tasks as they are, nothing is left half recorded   *)
(* or assigned, the file holds what memory holds, and the manifest agrees  *)
(* with the state engine.                                                  *)
(***************************************************************************)
SettledTruthful ==
  Idle =>
    /\ \A w \in Workflows :
         /\ RefreshedTasks(w, workflowStatus, taskStatus) = taskStatus
         /\ RefreshedStatus(w, workflowStatus, taskStatus) = workflowStatus
    /\ \A t \in Tasks : taskStatus[t] \notin {"completed"} \cup InFlight
    /\ progressFile = [tasks |-> taskStatus, workflows |-> workflowStatus]
    /\ manifest = projectState
    /\ \A k \in Workers : workerStatus[k] = "available"

(***************************************************************************)
(* Workers without a name in any rule are never given a second task while  *)
(* they work on one, however dispatches nest.  (execute_worker and a       *)
(* workflow_step that names its worker take it whatever its status is.)    *)
(***************************************************************************)
NamesNoWorker(r) ==
  \A i \in DOMAIN Rule[r].actions :
    Rule[r].actions[i].type = "dispatch" =>
      Rule[r].actions[i].worker = NoWorker

WorkersNotShared ==
  (\A r \in Loaded(config) : NamesNoWorker(r)) =>
    \A i, j \in Pending({"start", "execute"}) :
      todo[i].worker = todo[j].worker => i = j

(***************************************************************************)
(* The doctor warns of every rule that publications of rules lead back to. *)
(***************************************************************************)
CyclesReported ==
  \A r \in Loaded(config) :
    OnPublishCycle(Loaded(config), r) => ReportedCircular(Loaded(config), r)

(***************************************************************************)
(* Interrupted or not, tasks keep the life cycle of TaskLifecycle: a rule  *)
(* that has a task executed while its dispatch is being prepared, say,     *)
(* does not get it executed twice.  A task whose completion is being       *)
(* announced counts as recorded.                                           *)
(***************************************************************************)
Lifecycle ==
  INSTANCE TaskLifecycle WITH
    status <- [t \in Tasks |->
                 IF taskStatus[t] = "completed" THEN "recorded"
                 ELSE taskStatus[t]]

ImplementsLifecycle == Lifecycle!Spec

\* Every command comes to its end, whatever rules its events set off.
ChainsEnd == ~Idle ~> Idle

=============================================================================

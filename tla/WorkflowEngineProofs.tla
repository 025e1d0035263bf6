------------------------ MODULE WorkflowEngineProofs ------------------------
(***************************************************************************)
(* Proofs about WorkflowEngine, for every set of workflows and tasks and   *)
(* every dependency relation, cyclic or dangling ones included.            *)
(*                                                                         *)
(* The argument rests on one inductive invariant, IInv.  The properties    *)
(* are not inductive by themselves: that a released task keeps its         *)
(* dependencies needs that activation only rewrites tasks nobody has       *)
(* started (Fresh), that a dispatch still holds the task it prepared       *)
(* (Owned), and that readiness is settled after every command (Settled).   *)
(* Derived and Empty give the workflow statuses; Promoted, that a project  *)
(* with a prepared dispatch stands where a failure can reach `failed'.     *)
(***************************************************************************)
EXTENDS WorkflowEngine, WorkflowProgressProofs

\* Types, without the statuses no command leaves behind.
Typed ==
  /\ taskStatus \in [Tasks -> Reached]
  /\ workflowStatus \in [Workflows -> WorkflowStatuses \ {"cancelled"}]
  /\ projectState \in ProjectStates
  /\ dispatch \in [task : Tasks \cup {NoTask},
                   step : {"idle", "prepared", "assigned", "running"}]

\* The tasks of a workflow that is not active have not been created.
Fresh ==
  \A t \in Tasks :
    workflowStatus[WorkflowOf[t]] = "defined" <=> taskStatus[t] = "defined"

\* Readiness is evaluated: pending means waiting, anything later released.
Settled ==
  \A t \in Tasks :
    /\ taskStatus[t] = "pending" => ~DependenciesSatisfied(t, taskStatus)
    /\ taskStatus[t] \notin {"defined", "pending"} =>
         DependenciesSatisfied(t, taskStatus)

\* The stored status of a workflow is the derived one.
Derived ==
  \A w \in Workflows :
    workflowStatus[w] = DeriveWorkflowStatus(w, workflowStatus[w], taskStatus)

\* The task of the running dispatch is where the dispatch left it.
Owned ==
  /\ dispatch.step = "idle" => dispatch = Idle
  /\ dispatch.step # "idle" => dispatch.task \in Tasks
  /\ dispatch.step = "prepared" => taskStatus[dispatch.task] = "ready"
  /\ dispatch.step = "assigned" => taskStatus[dispatch.task] = "dispatched"
  /\ dispatch.step = "running" => taskStatus[dispatch.task] = "running"

\* While a dispatch runs the project is executing, or was refused that.
Promoted ==
  dispatch.step # "idle" => projectState \in {"planning", "executing"}

\* A workflow without tasks stays activated: nothing is derived for it.
Empty ==
  \A w \in Workflows :
    TasksOf(w) = {} => workflowStatus[w] \in {"defined", "activated"}

IInv == Typed /\ Fresh /\ Settled /\ Derived /\ Empty /\ Owned /\ Promoted

-----------------------------------------------------------------------------
(* The invariant, and what commands do to the tasks.                       *)

\* The parts of the invariant about tasks and workflows are consistency.
LEMMA IInvConsistent ==
  IInv => Consistent(taskStatus, workflowStatus)
BY DEF IInv, Typed, Fresh, Settled, Derived, Empty,
       Consistent, FreshIn, SettledIn, DerivedIn, EmptyIn

\* Activating a defined workflow creates its tasks and touches no other.
LEMMA ActivationFacts ==
  ASSUME IInv, NEW w \in Workflows, workflowStatus[w] = "defined",
         NEW ts, ts = ActivatedTasks(w, taskStatus)
  PROVE  /\ ts \in [Tasks -> Reached]
         /\ \A t \in Tasks : WorkflowOf[t] = w =>
              taskStatus[t] = "defined" /\ ts[t] \in {"pending", "ready"}
         /\ \A t \in Tasks : WorkflowOf[t] # w => ts[t] = taskStatus[t]
         /\ SettledIn(ts)
BY IInvConsistent, ActivatedTasksFacts

\* An outcome writes its own task and may release tasks that were waiting.
LEMMA OutcomeFacts ==
  ASSUME IInv, NEW t \in Tasks, NEW success \in BOOLEAN,
         taskStatus[t] \in {"ready", "running"},
         NEW ts, ts = OutcomeTasks(t, success, workflowStatus, taskStatus)
  PROVE  /\ ts \in [Tasks -> Reached]
         /\ ts[t] = IF success THEN "recorded" ELSE "failed"
         /\ \A u \in Tasks \ {t} :
              \/ ts[u] = taskStatus[u]
              \/ taskStatus[u] = "pending" /\ ts[u] = "ready"
         /\ SettledIn(ts)
BY IInvConsistent, OutcomeTasksFacts

-----------------------------------------------------------------------------
(* The invariant is inductive.                                             *)

\* A project that `init' has just created satisfies the invariant.
LEMMA InitIInv == Init => IInv
<1> SUFFICES ASSUME Init PROVE IInv
  OBVIOUS
<1>1. Typed
  BY NoTaskAssumption
  DEF Init, Typed, Reached, WorkflowStatuses, ProjectStates, Idle
<1>2. Fresh /\ Settled
  BY WorkflowOfAssumption DEF Init, Fresh, Settled
<1>3. Derived /\ Empty
  BY DEF Init, Derived, Empty, DeriveWorkflowStatus, Inactive
<1>4. Owned /\ Promoted
  BY DEF Init, Owned, Promoted, Idle
<1> QED
  BY <1>1, <1>2, <1>3, <1>4 DEF IInv

\* Activation preserves the invariant.
LEMMA ActivateStep ==
  ASSUME IInv, NEW w \in Workflows, Activate(w)
  PROVE  IInv'
<1>1. /\ taskStatus' = ActivatedTasks(w, taskStatus)
      /\ workflowStatus' =
           RefreshedStatus(w, [workflowStatus EXCEPT ![w] = "activated"], taskStatus')
      /\ projectState' = SyncProjectState(workflowStatus', taskStatus',
                            ApplyTransition(projectState, "planning"))
      /\ dispatch' = dispatch /\ dispatch = Idle /\ workflowStatus[w] \in Inactive
  BY DEF Activate
<1>2. Consistent(taskStatus', workflowStatus')
  BY <1>1, IInvConsistent, ActivationConsistent
<1>3. Fresh' /\ Settled' /\ Derived' /\ Empty'
  BY <1>2 DEF Consistent, Fresh, Settled, Derived, Empty,
                FreshIn, SettledIn, DerivedIn, EmptyIn
<1>4. Typed'
  <2>1. projectState' \in ProjectStates
    BY <1>1, SyncType, ApplyTransitionType DEF IInv, Typed, ProjectStates
  <2> QED
    BY <1>1, <1>2, <2>1 DEF IInv, Typed, Consistent
<1>5. Owned' /\ Promoted'
  BY <1>1 DEF Owned, Promoted, Idle
<1> QED
  BY <1>3, <1>4, <1>5 DEF IInv

\* An outcome preserves all but what concerns the dispatch itself.
LEMMA OutcomeStep ==
  ASSUME IInv, NEW t \in Tasks, NEW success \in BOOLEAN,
         taskStatus[t] \in {"ready", "running"},
         ApplyTaskOutcome(t, success), dispatch' = Idle
  PROVE  IInv'
<1> DEFINE w == WorkflowOf[t]
<1>1. /\ taskStatus' = OutcomeTasks(t, success, workflowStatus, taskStatus)
      /\ workflowStatus' = RefreshedStatus(w, workflowStatus, taskStatus')
      /\ projectState' =
           SyncProjectState(workflowStatus', taskStatus',
             CompletionState(w, success, workflowStatus',
                             OutcomeState(t, success, projectState)))
  BY DEF ApplyTaskOutcome
<1>2. Consistent(taskStatus', workflowStatus')
  BY <1>1, IInvConsistent, OutcomeConsistent
<1>3. Fresh' /\ Settled' /\ Derived' /\ Empty'
  BY <1>2 DEF Consistent, Fresh, Settled, Derived, Empty,
                FreshIn, SettledIn, DerivedIn, EmptyIn
<1>4. Typed'
  <2>1. projectState' \in ProjectStates
    BY <1>1, SyncType, OutcomeStateType DEF IInv, Typed
  <2> QED
    BY <1>2, <2>1, NoTaskAssumption DEF Typed, Consistent, Idle
<1>5. Owned' /\ Promoted'
  BY DEF Owned, Promoted, Idle
<1> QED
  BY <1>3, <1>4, <1>5 DEF IInv

(***************************************************************************)
(* Moving a released task from ready to dispatched, or from dispatched to  *)
(* running, changes neither what is done nor what is active.               *)
(***************************************************************************)
LEMMA HandoverFacts ==
  ASSUME IInv, NEW t \in Tasks,
         NEW new \in {"dispatched", "running"},
         taskStatus[t] \in {"ready", "dispatched"},
         taskStatus' = [taskStatus EXCEPT ![t] = new],
         workflowStatus' = workflowStatus
  PROVE  /\ taskStatus' \in [Tasks -> Reached]
         /\ taskStatus'[t] = new
         /\ Fresh' /\ Settled' /\ Derived' /\ Empty'
<1>1. Consistent(taskStatus', workflowStatus')
  BY IInvConsistent, HandoverConsistent
<1>2. Fresh' /\ Settled' /\ Derived' /\ Empty'
  BY <1>1 DEF Consistent, Fresh, Settled, Derived, Empty,
                FreshIn, SettledIn, DerivedIn, EmptyIn
<1> QED
  BY <1>1, <1>2 DEF IInv, Typed, Consistent

\* Every step preserves the invariant: one step of the proof per action.
LEMMA NextIInv == IInv /\ [Next]_vars => IInv'
<1> SUFFICES ASSUME IInv, [Next]_vars PROVE IInv'
  OBVIOUS
<1>1. ASSUME NEW w \in Workflows, Activate(w) PROVE IInv'
  BY <1>1, ActivateStep
<1>2. ASSUME NEW t \in Tasks, CompleteTask(t) PROVE IInv'
  BY <1>2, OutcomeStep DEF CompleteTask
<1>3. ASSUME NEW t \in Tasks, FailTask(t) PROVE IInv'
  BY <1>3, OutcomeStep DEF FailTask
<1>4. ASSUME NEW t \in Tasks, PrepareDispatch(t) PROVE IInv'
  <2>1. projectState' \in ProjectStates
    BY <1>4, ApplyTransitionType
    DEF PrepareDispatch, IInv, Typed, ProjectStates
  <2>2. Typed' /\ Owned'
    BY <1>4, <2>1 DEF PrepareDispatch, IInv, Typed, Owned
  <2>3. Promoted'
    BY <1>4 DEF PrepareDispatch, Promoted, DispatchAllowed, ApplyTransition,
                CanTransition, VALID_TRANSITIONS, AfterBridge,
                BridgesThroughExecuting
  <2> QED
    BY <1>4, <2>2, <2>3
    DEF PrepareDispatch, IInv, Fresh, Settled, Derived, Empty, TasksOf
<1>5. ASSUME NEW target \in ProjectStates, HumanTransition(target)
      PROVE  IInv'
  BY <1>5
  DEF HumanTransition, IInv, Typed, Fresh, Settled, Derived, Empty,
      TasksOf, Owned, Promoted, Idle
<1>6. ASSUME MarkDispatched PROVE IInv'
  <2>1. dispatch.task \in Tasks
    BY <1>6 DEF MarkDispatched, IInv, Owned
  <2>2. /\ taskStatus' \in [Tasks -> Reached]
        /\ taskStatus'[dispatch.task] = "dispatched"
        /\ Fresh' /\ Settled' /\ Derived' /\ Empty'
    BY <1>6, <2>1, HandoverFacts DEF MarkDispatched
  <2>3. /\ dispatch'.step = "assigned" /\ dispatch'.task = dispatch.task
        /\ dispatch' \in [task : Tasks \cup {NoTask},
                          step : {"idle", "prepared", "assigned", "running"}]
    BY <1>6 DEF MarkDispatched, IInv, Typed
  <2>4. Owned' /\ Promoted'
    BY <1>6, <2>1, <2>2, <2>3 DEF MarkDispatched, IInv, Owned, Promoted
  <2>5. Typed'
    BY <1>6, <2>2, <2>3 DEF MarkDispatched, IInv, Typed
  <2> QED
    BY <2>2, <2>4, <2>5 DEF IInv
<1>7. ASSUME MarkRunning PROVE IInv'
  <2>1. dispatch.task \in Tasks
    BY <1>7 DEF MarkRunning, IInv, Owned
  <2>2. /\ taskStatus' \in [Tasks -> Reached]
        /\ taskStatus'[dispatch.task] = "running"
        /\ Fresh' /\ Settled' /\ Derived' /\ Empty'
    BY <1>7, <2>1, HandoverFacts DEF MarkRunning
  <2>3. /\ dispatch'.step = "running" /\ dispatch'.task = dispatch.task
        /\ dispatch' \in [task : Tasks \cup {NoTask},
                          step : {"idle", "prepared", "assigned", "running"}]
    BY <1>7 DEF MarkRunning, IInv, Typed
  <2>4. Owned'
    BY <2>1, <2>2, <2>3 DEF Owned
  <2>5. projectState' \in ProjectStates
    BY <1>7, ApplyTransitionType DEF MarkRunning, IInv, Typed, ProjectStates
  <2>6. Typed'
    BY <1>7, <2>2, <2>3, <2>5 DEF MarkRunning, IInv, Typed
  <2>7. Promoted'
    BY <1>7 DEF MarkRunning, IInv, Promoted, ApplyTransition, CanTransition,
                VALID_TRANSITIONS, AfterBridge, BridgesThroughExecuting
  <2> QED
    BY <2>2, <2>4, <2>6, <2>7 DEF IInv
<1>8. ASSUME NEW success \in BOOLEAN, RecordWorkerOutcome(success)
      PROVE  IInv'
  <2>1. dispatch.task \in Tasks
    BY <1>8 DEF RecordWorkerOutcome, IInv, Owned
  <2> QED
    BY <1>8, <2>1, OutcomeStep DEF RecordWorkerOutcome
<1>9. ASSUME Crash PROVE IInv'
  BY <1>9, NoTaskAssumption
  DEF Crash, IInv, Typed, Fresh, Settled, Derived, Empty, TasksOf, Owned,
      Promoted, Idle
<1>10. ASSUME UNCHANGED vars PROVE IInv'
  BY <1>10
  DEF vars, IInv, Typed, Fresh, Settled, Derived, Empty, TasksOf, Owned,
      Promoted
<1> QED
  BY <1>1, <1>2, <1>3, <1>4, <1>5, <1>6, <1>7, <1>8, <1>9, <1>10
  DEF Next, DispatchStep

\* The invariant holds in every state the engine reaches, crashes included.
THEOREM Inductive == Spec => []IInv
BY InitIInv, NextIInv, PTL DEF Spec

-----------------------------------------------------------------------------
(* The invariants the runs check.                                          *)

\* Every status, state and dispatch record stays within its type.
THEOREM TypeCorrect == Spec => []TypeOK
<1>1. IInv => TypeOK
  BY DEF IInv, Typed, TypeOK, Reached, TaskStatuses, WorkflowStatuses
<1> QED
  BY <1>1, Inductive, PTL

(***************************************************************************)
(* No task is released, run or given an outcome before everything it       *)
(* depends on was recorded, and an unknown id or a cycle never releases.   *)
(***************************************************************************)
THEOREM DependenciesRespected == Spec => []DependenciesRecorded
<1>1. IInv => DependenciesRecorded
  BY DEF IInv, Typed, Settled, DependenciesRecorded, DependenciesSatisfied,
         Reached, Done, InFlight
<1> QED
  BY <1>1, Inductive, PTL

\* The stored status of every workflow agrees with its tasks.
THEOREM StatusTruthful == Spec => []WorkflowStatusTruthful
<1>1. IInv => WorkflowStatusTruthful
  <2> SUFFICES ASSUME IInv, NEW w \in Workflows
               PROVE  Agrees(workflowStatus[w], {taskStatus[t] : t \in TasksOf(w)})
    BY DEF WorkflowStatusTruthful, Agrees
  <2> QED
    BY IInvConsistent, StatusAgrees
<1> QED
  BY <1>1, Inductive, PTL

(***************************************************************************)
(* A load changes nothing: what a command or a crash leaves is a fixed     *)
(* point of the refresh, so the in-memory statuses of the next process are *)
(* the persisted ones.                                                     *)
(***************************************************************************)
THEOREM LoadIsHarmless == Spec => []ReloadStable
<1>1. IInv => ReloadStable
  BY IInvConsistent, RefreshStable DEF ReloadStable
<1> QED
  BY <1>1, Inductive, PTL

-----------------------------------------------------------------------------
(* The engine implements the life cycle of its tasks.                      *)

(***************************************************************************)
(* A step is a step of TaskLifecycle if at most one task, in a status that *)
(* it can be worked on, moves to a successor, and the other changes create *)
(* or release tasks.                                                       *)
(***************************************************************************)
LEMMA LifecycleStep ==
  ASSUME IInv', NEW worked,
         \A t \in Tasks :
           \/ taskStatus'[t] = taskStatus[t]
           \/ taskStatus[t] = "defined" /\ taskStatus'[t] \in {"pending", "ready"}
           \/ taskStatus[t] = "pending" /\ taskStatus'[t] = "ready"
           \/ /\ t = worked
              /\ taskStatus'[t] # "ready"
              /\ taskStatus'[t] \in Lifecycle!Successors[taskStatus[t]]
              /\ taskStatus[t] \in {"ready", "dispatched", "running"}
  PROVE  Lifecycle!Next
<1>1. taskStatus' \in [Tasks -> Lifecycle!Statuses]
  BY DEF IInv, Typed, Reached, Lifecycle!Statuses
<1>2. ASSUME NEW t \in Tasks
      PROVE  taskStatus'[t] = taskStatus[t] \/ Lifecycle!Move(t)
  <2>1. taskStatus'[t] = "ready" =>
          \A d \in DependsOn[t] : d \in Tasks /\ taskStatus'[d] = "recorded"
    <3> SUFFICES ASSUME taskStatus'[t] = "ready", NEW d \in DependsOn[t]
                 PROVE  d \in Tasks /\ taskStatus'[d] = "recorded"
      OBVIOUS
    <3>1. DependenciesSatisfied(t, taskStatus')
      BY DEF IInv, Settled
    <3> QED
      BY <3>1 DEF IInv, Typed, DependenciesSatisfied, Reached, Done
  <2>2. \/ taskStatus'[t] = taskStatus[t]
        \/ taskStatus'[t] \in Lifecycle!Successors[taskStatus[t]]
    BY DEF Lifecycle!Successors
  <2> QED
    BY <2>1, <2>2 DEF Lifecycle!Move
<1>3. \A t, u \in Tasks :
        Lifecycle!Worked(t) /\ Lifecycle!Worked(u) => t = u
  BY DEF Lifecycle!Worked
<1> QED
  BY <1>1, <1>2, <1>3 DEF Lifecycle!Next

\* Whatever the outcome, recording it is a step of the life cycle.
LEMMA OutcomeIsLifecycleStep ==
  ASSUME IInv, IInv', NEW t \in Tasks, NEW success \in BOOLEAN,
         taskStatus[t] \in {"ready", "running"}, ApplyTaskOutcome(t, success)
  PROVE  Lifecycle!Next
<1>1. taskStatus' = OutcomeTasks(t, success, workflowStatus, taskStatus)
  BY DEF ApplyTaskOutcome
<1>2. /\ taskStatus'[t] = IF success THEN "recorded" ELSE "failed"
      /\ \A u \in Tasks \ {t} :
           \/ taskStatus'[u] = taskStatus[u]
           \/ taskStatus[u] = "pending" /\ taskStatus'[u] = "ready"
  BY <1>1, OutcomeFacts
<1>3. taskStatus'[t] \in Lifecycle!Successors[taskStatus[t]]
  BY <1>2 DEF Lifecycle!Successors
<1> QED
  BY <1>2, <1>3, LifecycleStep

\* Every step maps to a step of TaskLifecycle or leaves the tasks alone.
LEMMA NextIsLifecycleStep ==
  IInv /\ IInv' /\ [Next]_vars => [Lifecycle!Next]_taskStatus
<1> SUFFICES ASSUME IInv, IInv', [Next]_vars
             PROVE  Lifecycle!Next \/ UNCHANGED taskStatus
  OBVIOUS
<1>1. ASSUME NEW w \in Workflows, Activate(w) PROVE Lifecycle!Next
  <2>1. workflowStatus[w] = "defined"
    BY <1>1 DEF Activate, Inactive, IInv, Typed
  <2>2. /\ \A t \in Tasks : WorkflowOf[t] = w =>
             taskStatus[t] = "defined" /\ taskStatus'[t] \in {"pending", "ready"}
        /\ \A t \in Tasks : WorkflowOf[t] # w => taskStatus'[t] = taskStatus[t]
    BY <1>1, <2>1, ActivationFacts DEF Activate
  <2> QED
    BY <2>2, LifecycleStep
<1>2. ASSUME NEW t \in Tasks, CompleteTask(t) \/ FailTask(t)
      PROVE  Lifecycle!Next
  BY <1>2, OutcomeIsLifecycleStep DEF CompleteTask, FailTask
<1>3. ASSUME NEW t \in Tasks, PrepareDispatch(t) PROVE UNCHANGED taskStatus
  BY <1>3 DEF PrepareDispatch
<1>4. ASSUME NEW target \in ProjectStates, HumanTransition(target)
      PROVE  UNCHANGED taskStatus
  BY <1>4 DEF HumanTransition
<1>5. ASSUME MarkDispatched PROVE Lifecycle!Next
  <2>1. /\ dispatch.task \in Tasks /\ taskStatus[dispatch.task] = "ready"
        /\ taskStatus'[dispatch.task] = "dispatched"
        /\ \A u \in Tasks : u # dispatch.task => taskStatus'[u] = taskStatus[u]
    BY <1>5 DEF MarkDispatched, IInv, Owned, Typed
  <2> QED
    BY <2>1, LifecycleStep DEF Lifecycle!Successors
<1>6. ASSUME MarkRunning PROVE Lifecycle!Next
  <2>1. /\ dispatch.task \in Tasks /\ taskStatus[dispatch.task] = "dispatched"
        /\ taskStatus'[dispatch.task] = "running"
        /\ \A u \in Tasks : u # dispatch.task => taskStatus'[u] = taskStatus[u]
    BY <1>6 DEF MarkRunning, IInv, Owned, Typed
  <2> QED
    BY <2>1, LifecycleStep DEF Lifecycle!Successors
<1>7. ASSUME NEW success \in BOOLEAN, RecordWorkerOutcome(success)
      PROVE  Lifecycle!Next
  <2>1. dispatch.task \in Tasks /\ taskStatus[dispatch.task] = "running"
    BY <1>7 DEF RecordWorkerOutcome, IInv, Owned
  <2> QED
    BY <1>7, <2>1, OutcomeIsLifecycleStep DEF RecordWorkerOutcome
<1>8. ASSUME Crash PROVE UNCHANGED taskStatus
  BY <1>8 DEF Crash
<1>9. ASSUME UNCHANGED vars PROVE UNCHANGED taskStatus
  BY <1>9 DEF vars
<1> QED
  BY <1>1, <1>2, <1>3, <1>4, <1>5, <1>6, <1>7, <1>8, <1>9
  DEF Next, DispatchStep

(***************************************************************************)
(* The engine, with its crashes and its two ways of giving a task an       *)
(* outcome, implements the abstract life cycle of the tasks.               *)
(***************************************************************************)
THEOREM Refinement == Spec => ImplementsLifecycle
<1>1. Init => Lifecycle!Init
  BY DEF Init, Lifecycle!Init
<1> QED
  BY <1>1, NextIsLifecycleStep, Inductive, PTL
  DEF Spec, ImplementsLifecycle, Lifecycle!Spec

-----------------------------------------------------------------------------
(* The project state.                                                      *)

\* What the transition table and the bridge make of the targets used below.
LEMMA TransitionFacts ==
  /\ \A ps \in {"ready", "executing", "awaiting_approval", "blocked",
                "recovering", "failed"} :
       ApplyTransition(ps, "failed") = "failed"
  /\ \A target \in {"awaiting_approval", "completed"} :
       ApplyTransition("failed", target) = "failed"
  /\ \A ps \in {"awaiting_approval", "completed"} :
       /\ ApplyTransition(ps, "failed") \in {"failed", "completed"}
       /\ ApplyTransition(ps, "awaiting_approval") = ps
       /\ ApplyTransition(ps, "completed") = ps
       /\ \A target \in {"blocked", "ready", "planning"} :
            ApplyTransition(ps, target) \in {ps, "blocked"}
BY DEF ApplyTransition, CanTransition, VALID_TRANSITIONS, AfterBridge,
       BridgesThroughExecuting

\* A failed task makes every reconciliation ask for `failed'.
LEMMA FailedTarget ==
  ASSUME NEW ws, NEW ts, NEW ps, NEW t \in Tasks, ts[t] = "failed"
  PROVE  DeriveProjectState(ws, ts, ps) = "failed"
<1>1. Workflows # {}
  BY WorkflowOfAssumption
<1> QED
  BY <1>1 DEF DeriveProjectState

\* Only a task in flight makes a reconciliation ask for `executing'.
LEMMA ExecutingTarget ==
  ASSUME NEW ws, NEW ts, NEW ps,
         DeriveProjectState(ws, ts, ps)
           \notin {NoTarget, "failed", "blocked", "completed", "ready",
                   "planning"}
  PROVE  \E u \in Tasks : ts[u] \in InFlight
BY DEF DeriveProjectState

(***************************************************************************)
(* What an outcome may do to the project state, in the three situations    *)
(* the properties speak about.                                             *)
(***************************************************************************)
LEMMA OutcomeProjectState ==
  ASSUME IInv, NEW t \in Tasks, NEW success \in BOOLEAN,
         taskStatus[t] \in {"ready", "running"}, ApplyTaskOutcome(t, success)
  PROVE  /\ /\ ~success
            /\ projectState \in {"ready", "executing", "awaiting_approval",
                                 "blocked", "recovering"}
            => projectState' = "failed"
         /\ /\ projectState = "failed"
            /\ \E u \in Tasks : taskStatus[u] = "failed"
            => projectState' = "failed"
         /\ /\ projectState \in {"awaiting_approval", "completed"}
            /\ projectState' \in DispatchAllowed
            => \E u \in Tasks \ {t} : taskStatus[u] \in InFlight
<1> DEFINE ps1 == OutcomeState(t, success, projectState)
           ps2 == CompletionState(WorkflowOf[t], success, workflowStatus', ps1)
           target == DeriveProjectState(workflowStatus', taskStatus', ps2)
<1>1. /\ taskStatus' = OutcomeTasks(t, success, workflowStatus, taskStatus)
      /\ projectState' = IF target = NoTarget THEN ps2
                         ELSE ApplyTransition(ps2, target)
  BY DEF ApplyTaskOutcome, SyncProjectState
<1>2. /\ taskStatus'[t] = IF success THEN "recorded" ELSE "failed"
      /\ \A u \in Tasks \ {t} :
           \/ taskStatus'[u] = taskStatus[u]
           \/ taskStatus[u] = "pending" /\ taskStatus'[u] = "ready"
  BY <1>1, OutcomeFacts
<1>3. (\E u \in Tasks : taskStatus'[u] = "failed") => target = "failed"
  BY FailedTarget
<1>4. \/ target \in {NoTarget, "failed", "blocked", "completed", "ready",
                     "planning"}
      \/ \E u \in Tasks : taskStatus'[u] \in InFlight
  BY ExecutingTarget
<1>5. ps1 = IF ~success THEN ApplyTransition(projectState, "failed")
            ELSE IF t \in RequiresApproval
              THEN ApplyTransition(projectState, "awaiting_approval")
              ELSE projectState
  BY DEF OutcomeState
<1>6. ps2 = IF success /\ workflowStatus'[WorkflowOf[t]] = "completed"
              THEN ApplyTransition(ps1, "completed") ELSE ps1
  BY DEF CompletionState
<1> HIDE DEF ps1, ps2, target
<1>7. NoTarget # "failed"
  BY DEF NoTarget
<1>8. ASSUME ~success,
             projectState \in {"ready", "executing", "awaiting_approval",
                               "blocked", "recovering"}
      PROVE  projectState' = "failed"
  <2>1. ps2 = "failed"
    BY <1>5, <1>6, <1>8, TransitionFacts
  <2>2. target = "failed"
    BY <1>2, <1>3, <1>8
  <2> QED
    BY <1>1, <1>7, <2>1, <2>2, TransitionFacts
<1>9. ASSUME projectState = "failed",
             NEW u \in Tasks, taskStatus[u] = "failed"
      PROVE  projectState' = "failed"
  <2>1. ps1 = "failed"
    BY <1>5, <1>9, TransitionFacts
  <2>2. ps2 = "failed"
    BY <1>6, <2>1, TransitionFacts
  <2>3. taskStatus'[u] = "failed"
    BY <1>2, <1>9
  <2>4. target = "failed"
    BY <1>3, <2>3
  <2> QED
    BY <1>1, <1>7, <2>2, <2>4, TransitionFacts
<1>10. ASSUME projectState \in {"awaiting_approval", "completed"},
              projectState' \in DispatchAllowed
       PROVE  \E u \in Tasks \ {t} : taskStatus[u] \in InFlight
  <2>1. CASE \E u \in Tasks : taskStatus'[u] \in InFlight
    BY <1>2, <2>1 DEF InFlight
  <2>2. CASE target \in {NoTarget, "failed", "blocked", "completed", "ready",
                         "planning"}
    <3>1. CASE success
      <4>1. ps1 = projectState
        BY <1>5, <1>10, <3>1, TransitionFacts
      <4>2. ps2 = projectState
        BY <1>6, <1>10, <4>1, TransitionFacts
      <4>3. projectState' \in {"awaiting_approval", "completed", "failed",
                               "blocked"}
        BY <1>1, <1>10, <2>2, <4>2, TransitionFacts
      <4> QED
        BY <1>10, <4>3 DEF DispatchAllowed
    <3>2. CASE ~success
      <4>1. ps1 \in {"failed", "completed"} /\ ps2 = ps1
        BY <1>5, <1>6, <1>10, <3>2, TransitionFacts
      <4>2. target = "failed"
        BY <1>2, <1>3, <3>2
      <4>3. projectState' \in {"failed", "completed"}
        BY <1>1, <1>7, <4>1, <4>2, TransitionFacts
      <4> QED
        BY <1>10, <4>3 DEF DispatchAllowed
    <3> QED
      BY <3>1, <3>2
  <2> QED
    BY <1>4, <2>1, <2>2
<1> QED
  BY <1>8, <1>9, <1>10

\* An activation does not open a gate: planning is refused there.
LEMMA ActivationKeepsGate ==
  ASSUME IInv, NEW w \in Workflows, Activate(w),
         projectState \in {"awaiting_approval", "completed"},
         projectState' \in DispatchAllowed
  PROVE  \E u \in Tasks : taskStatus[u] \in InFlight
<1> DEFINE target == DeriveProjectState(workflowStatus', taskStatus',
                       ApplyTransition(projectState, "planning"))
<1>1. ApplyTransition(projectState, "planning") = projectState
  BY DEF ApplyTransition, CanTransition, VALID_TRANSITIONS, AfterBridge,
         BridgesThroughExecuting
<1>2. /\ taskStatus' = ActivatedTasks(w, taskStatus)
      /\ projectState' = IF target = NoTarget THEN projectState
                         ELSE ApplyTransition(projectState, target)
  BY <1>1 DEF Activate, SyncProjectState
<1>3. \/ target \in {NoTarget, "failed", "blocked", "completed", "ready",
                     "planning"}
      \/ \E u \in Tasks : taskStatus'[u] \in InFlight
  BY ExecutingTarget
<1> HIDE DEF target
<1>4. CASE \E u \in Tasks : taskStatus'[u] \in InFlight
  <2>1. workflowStatus[w] = "defined"
    BY DEF Activate, Inactive, IInv, Typed
  <2>2. \A u \in Tasks : taskStatus'[u] = taskStatus[u]
                           \/ taskStatus'[u] \in {"pending", "ready"}
    BY <1>2, <2>1, ActivationFacts
  <2> QED
    BY <1>4, <2>2 DEF InFlight
<1>5. CASE target \in {NoTarget, "failed", "blocked", "completed", "ready",
                       "planning"}
  <2>1. projectState' \in {"awaiting_approval", "completed", "failed",
                           "blocked"}
    BY <1>2, <1>5, TransitionFacts
  <2> QED
    BY <2>1 DEF DispatchAllowed
<1> QED
  BY <1>3, <1>4, <1>5

\* No step but a human decision opens a gate while nothing is stranded.
LEMMA NextGateStep == IInv /\ [Next]_vars => [GateStep]_vars
<1> SUFFICES ASSUME IInv, Next,
                    projectState \in {"awaiting_approval", "completed"},
                    projectState' \in DispatchAllowed
             PROVE  HumanDecision \/ \E t \in Tasks : Stranded(t)
  BY DEF GateStep
<1>1. ASSUME NEW w \in Workflows, Activate(w)
      PROVE  \E t \in Tasks : Stranded(t)
  <2>1. dispatch.task = NoTask
    BY <1>1 DEF Activate, Idle
  <2> QED
    BY <1>1, <2>1, ActivationKeepsGate, NoTaskAssumption DEF Stranded
<1>2. ASSUME NEW t \in Tasks, CompleteTask(t) \/ FailTask(t)
      PROVE  \E u \in Tasks : Stranded(u)
  <2>1. dispatch.task = NoTask
    <3>1. dispatch = Idle
      BY <1>2 DEF CompleteTask, FailTask
    <3> QED
      BY <3>1 DEF Idle
  <2>2. \E u \in Tasks : taskStatus[u] \in InFlight
    BY <1>2, OutcomeProjectState DEF CompleteTask, FailTask
  <2> QED
    BY <2>1, <2>2, NoTaskAssumption DEF Stranded
<1>3. ASSUME NEW t \in Tasks, PrepareDispatch(t) PROVE FALSE
  BY <1>3 DEF PrepareDispatch, DispatchAllowed
<1>4. ASSUME NEW target \in ProjectStates, HumanTransition(target)
      PROVE  HumanDecision
  BY <1>4 DEF HumanTransition, HumanDecision
<1>5. ASSUME MarkDispatched \/ MarkRunning PROVE FALSE
  BY <1>5 DEF MarkDispatched, MarkRunning, IInv, Promoted
<1>6. ASSUME NEW success \in BOOLEAN, RecordWorkerOutcome(success)
      PROVE  FALSE
  BY <1>6 DEF RecordWorkerOutcome, IInv, Promoted
<1>7. ASSUME Crash PROVE FALSE
  BY <1>7 DEF Crash, IInv, Owned, Promoted, DispatchAllowed
<1> QED
  BY <1>1, <1>2, <1>3, <1>4, <1>5, <1>6, <1>7 DEF Next, DispatchStep

(***************************************************************************)
(* While the project awaits approval or is completed, only a human         *)
(* decision lets tasks be dispatched again, unless a task is stranded.     *)
(***************************************************************************)
THEOREM GateHolds == Spec => GateNeedsDecision
BY Inductive, NextGateStep, PTL DEF Spec, GateNeedsDecision

\* A failed outcome leaves `failed' behind, and no other outcome undoes it.
LEMMA NextFailureStep == IInv /\ [Next]_vars => [FailureStep]_vars
<1> SUFFICES ASSUME IInv, Next PROVE FailureStep
  OBVIOUS
<1>1. ASSUME NEW t \in Tasks, NEW success \in BOOLEAN,
             taskStatus[t] \in {"ready", "running"},
             ApplyTaskOutcome(t, success)
      PROVE  FailureStep
  <2>1. ASSUME NEW u \in Tasks, taskStatus[u] # "failed",
               taskStatus'[u] = "failed"
        PROVE  ~success
    BY <1>1, <2>1, OutcomeFacts DEF ApplyTaskOutcome
  <2> QED
    BY <1>1, <2>1, OutcomeProjectState DEF FailureStep
<1>2. ASSUME NEW w \in Workflows, Activate(w) PROVE FailureStep
  <2>1. workflowStatus[w] = "defined"
    BY <1>2 DEF Activate, Inactive, IInv, Typed
  <2>2. \A u \in Tasks : taskStatus'[u] = taskStatus[u]
                           \/ taskStatus'[u] \in {"pending", "ready"}
    BY <1>2, <2>1, ActivationFacts DEF Activate
  <2> QED
    BY <1>2, <2>2 DEF FailureStep
<1>3. ASSUME NEW t \in Tasks, CompleteTask(t) \/ FailTask(t)
      PROVE  FailureStep
  BY <1>1, <1>3 DEF CompleteTask, FailTask
<1>4. ASSUME NEW t \in Tasks, PrepareDispatch(t) PROVE FailureStep
  BY <1>4 DEF PrepareDispatch, DispatchAllowed, FailureStep
<1>5. ASSUME NEW target \in ProjectStates, HumanTransition(target)
      PROVE  FailureStep
  BY <1>5 DEF HumanTransition, HumanDecision, FailureStep
<1>6. ASSUME MarkDispatched PROVE FailureStep
  <2>1. /\ \A u \in Tasks : taskStatus'[u] = taskStatus[u]
                              \/ taskStatus'[u] = "dispatched"
        /\ projectState' = projectState
    BY <1>6 DEF MarkDispatched, IInv, Typed
  <2> QED
    BY <2>1 DEF FailureStep
<1>7. ASSUME MarkRunning PROVE FailureStep
  <2>1. /\ \A u \in Tasks : taskStatus'[u] = taskStatus[u]
                              \/ taskStatus'[u] = "running"
        /\ projectState # "failed"
    BY <1>7 DEF MarkRunning, IInv, Typed, Promoted
  <2> QED
    BY <2>1 DEF FailureStep
<1>8. ASSUME NEW success \in BOOLEAN, RecordWorkerOutcome(success)
      PROVE  FailureStep
  BY <1>1, <1>8 DEF RecordWorkerOutcome, IInv, Owned
<1>9. ASSUME Crash PROVE FailureStep
  BY <1>9 DEF Crash, FailureStep
<1> QED
  BY <1>2, <1>3, <1>4, <1>5, <1>6, <1>7, <1>8, <1>9 DEF Next, DispatchStep

\* A failure halts the project until somebody decides or activates.
THEOREM FailureHaltsProject == Spec => FailureHalts
BY Inductive, NextFailureStep, PTL DEF Spec, FailureHalts

(***************************************************************************)
(* Reconciling twice in a row is reconciling once.  The dispatcher calls   *)
(* sync_project_state again after each outcome; RecordWorkerOutcome leaves *)
(* that call out on the strength of this theorem.                          *)
(***************************************************************************)
THEOREM SyncIdempotent ==
  ASSUME NEW ws, NEW ts, NEW ps \in ProjectStates
  PROVE  LET once == SyncProjectState(ws, ts, ps)
         IN  SyncProjectState(ws, ts, once) = once
<1> DEFINE once == SyncProjectState(ws, ts, ps)
           first == DeriveProjectState(ws, ts, ps)
           second == DeriveProjectState(ws, ts, once)
<1>1. first \in ProjectStates \cup {NoTarget}
  BY DEF DeriveProjectState, ProjectStates, NoTarget
<1>2. once = IF first = NoTarget THEN ps ELSE ApplyTransition(ps, first)
  BY DEF SyncProjectState
<1>3. \/ second = first
      \/ second = NoTarget
      \/ second = "planning" /\ first = NoTarget /\ once = "initialized"
  BY DEF DeriveProjectState
<1>4. first = NoTarget => second = first
  BY <1>2
<1> HIDE DEF once, first, second
<1>5. first # NoTarget =>
        ApplyTransition(ApplyTransition(ps, first), first)
          = ApplyTransition(ps, first)
  BY <1>1 DEF ApplyTransition, CanTransition, VALID_TRANSITIONS, AfterBridge,
              BridgesThroughExecuting, ProjectStates, NoTarget
<1>6. SyncProjectState(ws, ts, once)
        = IF second = NoTarget THEN once ELSE ApplyTransition(once, second)
  BY DEF SyncProjectState, second
<1> QED
  BY <1>2, <1>3, <1>4, <1>5, <1>6 DEF once

=============================================================================

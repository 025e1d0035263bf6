----------------------- MODULE WorkflowProgressProofs ------------------------
(***************************************************************************)
(* What the operators of WorkflowProgress do to tasks and workflows that   *)
(* are consistent with each other, as facts about values: they hold of the *)
(* copy a process works on as well as of what the files hold.              *)
(***************************************************************************)
EXTENDS WorkflowProgress, TLAPS

\* The statuses tasks really have between commands.
Reached ==
  {"defined", "pending", "ready", "dispatched", "running", "recorded",
   "failed"}

\* Readiness settled, as a statement about any task function.
SettledIn(ts) ==
  \A t \in Tasks :
    /\ ts[t] = "pending" => ~DependenciesSatisfied(t, ts)
    /\ ts[t] \notin {"defined", "pending"} => DependenciesSatisfied(t, ts)

\* The tasks of a workflow that is not active have not been created.
FreshIn(ts, ws) ==
  \A t \in Tasks : ws[WorkflowOf[t]] = "defined" <=> ts[t] = "defined"

\* The status of a workflow is the derived one.
DerivedIn(ts, ws) ==
  \A w \in Workflows : ws[w] = DeriveWorkflowStatus(w, ws[w], ts)

\* A workflow without tasks stays activated: nothing is derived for it.
EmptyIn(ws) ==
  \A w \in Workflows : TasksOf(w) = {} => ws[w] \in {"defined", "activated"}

\* Tasks and workflows as every command leaves them.
Consistent(ts, ws) ==
  /\ ts \in [Tasks -> Reached]
  /\ ws \in [Workflows -> WorkflowStatuses \ {"cancelled"}]
  /\ FreshIn(ts, ws) /\ SettledIn(ts) /\ DerivedIn(ts, ws) /\ EmptyIn(ws)

-----------------------------------------------------------------------------
(* Lemmas about the pure operators.                                        *)

\* Whatever is asked, the project stands in one of its states afterwards.
LEMMA ApplyTransitionType ==
  ASSUME NEW current \in ProjectStates, NEW target \in ProjectStates
  PROVE  ApplyTransition(current, target) \in ProjectStates
BY DEF ApplyTransition, AfterBridge, ProjectStates

\* Reconciliation yields a project state, also when no target is derived.
LEMMA SyncType ==
  ASSUME NEW ws, NEW ts, NEW ps \in ProjectStates
  PROVE  SyncProjectState(ws, ts, ps) \in ProjectStates
<1>1. DeriveProjectState(ws, ts, ps) \in ProjectStates \cup {NoTarget}
  BY DEF DeriveProjectState, ProjectStates, NoTarget
<1>2. CASE DeriveProjectState(ws, ts, ps) = NoTarget
  BY <1>2 DEF SyncProjectState
<1>3. CASE DeriveProjectState(ws, ts, ps) # NoTarget
  BY <1>1, <1>3, ApplyTransitionType DEF SyncProjectState
<1> QED
  BY <1>2, <1>3

\* The transitions an outcome asks for keep the project in its states.
LEMMA OutcomeStateType ==
  ASSUME NEW t, NEW w, NEW success, NEW ws, NEW ps \in ProjectStates
  PROVE  CompletionState(w, success, ws, OutcomeState(t, success, ps))
           \in ProjectStates
<1>1. OutcomeState(t, success, ps) \in ProjectStates
  BY ApplyTransitionType DEF OutcomeState, ProjectStates
<1> QED
  BY <1>1, ApplyTransitionType DEF CompletionState, ProjectStates

\* A derived workflow status is a status, and `defined' stays `defined'.
LEMMA DeriveType ==
  ASSUME NEW w, NEW ts,
         NEW status \in WorkflowStatuses \ {"cancelled"}
  PROVE  /\ DeriveWorkflowStatus(w, status, ts)
              \in WorkflowStatuses \ {"cancelled"}
         /\ DeriveWorkflowStatus(w, status, ts) = "defined"
              <=> status = "defined"
BY DEF DeriveWorkflowStatus, WorkflowStatuses, Inactive

(***************************************************************************)
(* Deriving a workflow's status from a status so derived changes nothing.  *)
(***************************************************************************)
LEMMA DeriveIdempotent ==
  ASSUME NEW w, NEW ts, NEW status
  PROVE  LET once == DeriveWorkflowStatus(w, status, ts)
         IN  DeriveWorkflowStatus(w, once, ts) = once
BY DEF DeriveWorkflowStatus, Inactive

\* The derived status of a workflow reads the statuses of its own tasks only.
LEMMA DeriveLocal ==
  ASSUME NEW w, NEW ts1, NEW ts2, NEW status,
         \A t \in TasksOf(w) : ts1[t] = ts2[t]
  PROVE  DeriveWorkflowStatus(w, status, ts1)
           = DeriveWorkflowStatus(w, status, ts2)
<1>1. {ts1[t] : t \in TasksOf(w)} = {ts2[t] : t \in TasksOf(w)}
  OBVIOUS
<1> QED
  BY <1>1 DEF DeriveWorkflowStatus

(***************************************************************************)
(* One readiness pass settles the workflow it is given: it only moves      *)
(* tasks between pending and ready, neither of which is done, so what it   *)
(* read of the dependencies still holds when it ends.                      *)
(***************************************************************************)
LEMMA EvaluationSettles ==
  ASSUME NEW w \in Workflows, NEW ts \in [Tasks -> Reached],
         NEW new, new = EvaluateTaskReadiness(w, ts)
  PROVE  /\ new \in [Tasks -> Reached]
         /\ \A t \in Tasks : DependenciesSatisfied(t, new)
                               <=> DependenciesSatisfied(t, ts)
         /\ \A t \in Tasks :
              IF WorkflowOf[t] = w /\ ts[t] \in {"pending", "ready"}
                THEN new[t] = IF DependenciesSatisfied(t, ts) THEN "ready"
                                                              ELSE "pending"
                ELSE new[t] = ts[t]
<1>1. \A t \in Tasks :
        IF WorkflowOf[t] = w /\ ts[t] \in {"pending", "ready"}
          THEN new[t] = IF DependenciesSatisfied(t, ts) THEN "ready"
                                                        ELSE "pending"
          ELSE new[t] = ts[t]
  BY DEF EvaluateTaskReadiness
<1>2. new \in [Tasks -> Reached]
  BY DEF EvaluateTaskReadiness, Reached
<1>3. \A t \in Tasks : new[t] \in Done <=> ts[t] \in Done
  BY <1>1 DEF Done
<1>4. \A t \in Tasks : DependenciesSatisfied(t, new)
                         <=> DependenciesSatisfied(t, ts)
  BY <1>3 DEF DependenciesSatisfied
<1> QED
  BY <1>1, <1>2, <1>4

-----------------------------------------------------------------------------
(* What the commands do to consistent tasks and workflows.                 *)

\* A new workflow is one that has not been activated: nothing is cancelled.
LEMMA InitialConsistent ==
  Consistent([t \in Tasks |-> "defined"], [w \in Workflows |-> "defined"])
<1>1. FreshIn([t \in Tasks |-> "defined"], [w \in Workflows |-> "defined"])
  BY WorkflowOfAssumption DEF FreshIn
<1>2. SettledIn([t \in Tasks |-> "defined"])
  BY DEF SettledIn
<1>3. DerivedIn([t \in Tasks |-> "defined"], [w \in Workflows |-> "defined"])
  BY DEF DerivedIn, DeriveWorkflowStatus, Inactive
<1> QED
  BY <1>1, <1>2, <1>3 DEF Consistent, EmptyIn, Reached, WorkflowStatuses

\* Activating a defined workflow creates its tasks and touches no other.
LEMMA ActivatedTasksFacts ==
  ASSUME NEW ts, NEW ws, Consistent(ts, ws),
         NEW w \in Workflows, ws[w] = "defined",
         NEW new, new = ActivatedTasks(w, ts)
  PROVE  /\ new \in [Tasks -> Reached]
         /\ \A t \in Tasks : WorkflowOf[t] = w =>
              ts[t] = "defined" /\ new[t] \in {"pending", "ready"}
         /\ \A t \in Tasks : WorkflowOf[t] # w => new[t] = ts[t]
         /\ SettledIn(new)
<1> DEFINE created ==
      [t \in Tasks |-> IF WorkflowOf[t] = w THEN "pending" ELSE ts[t]]
<1>1. created \in [Tasks -> Reached]
  BY DEF Consistent, Reached
<1>2. \A t \in Tasks : WorkflowOf[t] = w => ts[t] = "defined"
  BY DEF Consistent, FreshIn
<1>3. new = EvaluateTaskReadiness(w, created)
  BY DEF ActivatedTasks
<1> HIDE DEF created
<1>4. /\ new \in [Tasks -> Reached]
      /\ \A t \in Tasks : DependenciesSatisfied(t, new)
                            <=> DependenciesSatisfied(t, created)
      /\ \A t \in Tasks :
           IF WorkflowOf[t] = w /\ created[t] \in {"pending", "ready"}
             THEN new[t] = IF DependenciesSatisfied(t, created) THEN "ready"
                                                                ELSE "pending"
             ELSE new[t] = created[t]
  BY <1>1, <1>3, EvaluationSettles
<1>5. \A t \in Tasks : WorkflowOf[t] = w => new[t] \in {"pending", "ready"}
  BY <1>4 DEF created
<1>6. \A t \in Tasks : WorkflowOf[t] # w => new[t] = ts[t]
  BY <1>4 DEF created
<1>7. \A t \in Tasks : new[t] \in Done <=> ts[t] \in Done
  BY <1>2, <1>5, <1>6 DEF Done
<1>8. \A t \in Tasks : DependenciesSatisfied(t, new)
                          <=> DependenciesSatisfied(t, ts)
  BY <1>7 DEF DependenciesSatisfied
<1>9. SettledIn(new)
  <2> SUFFICES ASSUME NEW t \in Tasks
               PROVE  /\ new[t] = "pending" => ~DependenciesSatisfied(t, new)
                      /\ new[t] \notin {"defined", "pending"} =>
                           DependenciesSatisfied(t, new)
    BY DEF SettledIn
  <2>1. CASE WorkflowOf[t] = w
    BY <2>1, <1>4 DEF created
  <2>2. CASE WorkflowOf[t] # w
    BY <2>2, <1>6, <1>8 DEF Consistent, SettledIn
  <2> QED
    BY <2>1, <2>2
<1> QED
  BY <1>2, <1>4, <1>5, <1>6, <1>9

\* After an activation tasks and workflows are consistent again.
LEMMA ActivationConsistent ==
  ASSUME NEW ts, NEW ws, Consistent(ts, ws),
         NEW w \in Workflows, ws[w] \in Inactive,
         NEW new, new = ActivatedTasks(w, ts),
         NEW refreshed,
         refreshed = RefreshedStatus(w, [ws EXCEPT ![w] = "activated"], new)
  PROVE  Consistent(new, refreshed)
<1> DEFINE active == [ws EXCEPT ![w] = "activated"]
<1>1. ws[w] = "defined"
  BY DEF Inactive, Consistent
<1>2. /\ new \in [Tasks -> Reached]
      /\ \A t \in Tasks : WorkflowOf[t] = w =>
           ts[t] = "defined" /\ new[t] \in {"pending", "ready"}
      /\ \A t \in Tasks : WorkflowOf[t] # w => new[t] = ts[t]
      /\ SettledIn(new)
  BY <1>1, ActivatedTasksFacts
<1>3. /\ refreshed \in [Workflows -> WorkflowStatuses \ {"cancelled"}]
      /\ refreshed[w] = DeriveWorkflowStatus(w, "activated", new)
      /\ refreshed[w] # "defined"
      /\ \A v \in Workflows \ {w} : refreshed[v] = ws[v]
  <2>1. /\ active \in [Workflows -> WorkflowStatuses \ {"cancelled"}]
        /\ active[w] = "activated"
        /\ \A v \in Workflows \ {w} : active[v] = ws[v]
    BY DEF Consistent, WorkflowStatuses
  <2>2. /\ DeriveWorkflowStatus(w, "activated", new)
             \in WorkflowStatuses \ {"cancelled"}
        /\ DeriveWorkflowStatus(w, "activated", new) # "defined"
    BY DeriveType DEF WorkflowStatuses
  <2> QED
    BY <2>1, <2>2 DEF RefreshedStatus
<1>4. FreshIn(new, refreshed)
  BY <1>2, <1>3, WorkflowOfAssumption DEF Consistent, FreshIn
<1>5. DerivedIn(new, refreshed)
  <2>1. refreshed[w] = DeriveWorkflowStatus(w, refreshed[w], new)
    BY <1>3, DeriveIdempotent
  <2>2. ASSUME NEW v \in Workflows, v # w
        PROVE  refreshed[v] = DeriveWorkflowStatus(v, refreshed[v], new)
    <3>1. \A t \in TasksOf(v) : new[t] = ts[t]
      BY <1>2, <2>2 DEF TasksOf
    <3>2. refreshed[v] = ws[v]
      BY <1>3, <2>2
    <3> QED
      BY <3>1, <3>2, DeriveLocal DEF Consistent, DerivedIn
  <2> QED
    BY <2>1, <2>2 DEF DerivedIn
<1>6. EmptyIn(refreshed)
  <2>1. TasksOf(w) = {} => refreshed[w] = "activated"
    BY <1>3 DEF DeriveWorkflowStatus
  <2> QED
    BY <1>3, <2>1 DEF Consistent, EmptyIn
<1> QED
  BY <1>2, <1>3, <1>4, <1>5, <1>6 DEF Consistent

(***************************************************************************)
(* An outcome writes its own task and may release tasks that were waiting; *)
(* no dependency that held stops holding.                                  *)
(***************************************************************************)
LEMMA OutcomeTasksFacts ==
  ASSUME NEW ts, NEW ws, Consistent(ts, ws),
         NEW t \in Tasks, NEW success \in BOOLEAN, ts[t] \in {"ready", "running"},
         NEW new, new = OutcomeTasks(t, success, ws, ts)
  PROVE  /\ new \in [Tasks -> Reached]
         /\ new[t] = IF success THEN "recorded" ELSE "failed"
         /\ \A u \in Tasks \ {t} :
              \/ new[u] = ts[u]
              \/ ts[u] = "pending" /\ new[u] = "ready"
         /\ \A u \in Tasks : WorkflowOf[u] # WorkflowOf[t] => new[u] = ts[u]
         /\ SettledIn(new)
<1> DEFINE outcome == IF success THEN "recorded" ELSE "failed"
           written == [ts EXCEPT ![t] = outcome]
           w == WorkflowOf[t]
<1>1. w \in Workflows
  BY WorkflowOfAssumption
<1>2. written \in [Tasks -> Reached] /\ written[t] = outcome
      /\ \A u \in Tasks \ {t} : written[u] = ts[u]
  BY DEF Consistent, Reached
<1>3. new = EvaluateTaskReadiness(w, written)
  <2>1. ws[w] \notin Inactive
    BY <1>1 DEF Consistent, FreshIn, Inactive
  <2> QED
    BY <2>1 DEF OutcomeTasks, RefreshedTasks
<1>4. outcome \in {"recorded", "failed"}
  OBVIOUS
<1> HIDE DEF outcome, written, w
<1>5. /\ new \in [Tasks -> Reached]
      /\ \A u \in Tasks : DependenciesSatisfied(u, new)
                            <=> DependenciesSatisfied(u, written)
      /\ \A u \in Tasks :
           IF WorkflowOf[u] = w /\ written[u] \in {"pending", "ready"}
             THEN new[u] = IF DependenciesSatisfied(u, written) THEN "ready"
                                                                ELSE "pending"
             ELSE new[u] = written[u]
  BY <1>1, <1>2, <1>3, EvaluationSettles
<1>6. \A u \in Tasks : DependenciesSatisfied(u, ts) => DependenciesSatisfied(u, new)
  <2>1. \A u \in Tasks : ts[u] \in Done => written[u] \in Done
    BY <1>2 DEF Done
  <2> QED
    BY <2>1, <1>5 DEF DependenciesSatisfied
<1>7. new[t] = outcome
  BY <1>2, <1>4, <1>5
<1>8. ASSUME NEW u \in Tasks, u # t
      PROVE  /\ \/ new[u] = ts[u]
                \/ ts[u] = "pending" /\ new[u] = "ready"
             /\ new[u] = "pending" => ~DependenciesSatisfied(u, new)
             /\ new[u] \notin {"defined", "pending"} =>
                  DependenciesSatisfied(u, new)
             /\ WorkflowOf[u] # w => new[u] = ts[u]
  <2>1. written[u] = ts[u]
    BY <1>2, <1>8
  <2>2. WorkflowOf[u] # w => (DependenciesSatisfied(u, written)
                                 <=> DependenciesSatisfied(u, ts))
    <3>1. ASSUME WorkflowOf[u] # w, NEW d \in DependsOn[u], d \in Tasks
          PROVE  written[d] = ts[d]
      BY <1>2, <3>1, DependsOnAssumption DEF w
    <3> QED
      BY <3>1 DEF DependenciesSatisfied
  <2>3. CASE WorkflowOf[u] = w /\ ts[u] = "pending"
    BY <2>1, <2>3, <1>5
  <2>4. CASE WorkflowOf[u] = w /\ ts[u] = "ready"
    BY <2>1, <2>4, <1>5, <1>6 DEF Consistent, SettledIn
  <2>5. CASE WorkflowOf[u] = w /\ ts[u] \notin {"pending", "ready"}
    BY <2>1, <2>5, <1>5, <1>6 DEF Consistent, SettledIn
  <2>6. CASE WorkflowOf[u] # w
    BY <2>1, <2>2, <2>6, <1>5 DEF Consistent, SettledIn
  <2> QED
    BY <2>3, <2>4, <2>5, <2>6
<1>9. SettledIn(new)
  <2>1. DependenciesSatisfied(t, new)
    BY <1>6 DEF Consistent, SettledIn
  <2> QED
    BY <2>1, <1>4, <1>7, <1>8 DEF SettledIn
<1> QED
  BY <1>5, <1>7, <1>8, <1>9 DEF outcome, w

\* After an outcome tasks and workflows are consistent again.
LEMMA OutcomeConsistent ==
  ASSUME NEW ts, NEW ws, Consistent(ts, ws),
         NEW t \in Tasks, NEW success \in BOOLEAN, ts[t] \in {"ready", "running"},
         NEW new, new = OutcomeTasks(t, success, ws, ts),
         NEW refreshed, refreshed = RefreshedStatus(WorkflowOf[t], ws, new)
  PROVE  Consistent(new, refreshed)
<1> DEFINE w == WorkflowOf[t]
<1>1. w \in Workflows
  BY WorkflowOfAssumption
<1>2. /\ new \in [Tasks -> Reached]
      /\ new[t] = IF success THEN "recorded" ELSE "failed"
      /\ \A u \in Tasks \ {t} :
           \/ new[u] = ts[u]
           \/ ts[u] = "pending" /\ new[u] = "ready"
      /\ \A u \in Tasks : WorkflowOf[u] # w => new[u] = ts[u]
      /\ SettledIn(new)
  BY OutcomeTasksFacts
<1> HIDE DEF w
<1>3. /\ refreshed \in [Workflows -> WorkflowStatuses \ {"cancelled"}]
      /\ refreshed[w] = DeriveWorkflowStatus(w, ws[w], new)
      /\ refreshed[w] = "defined" <=> ws[w] = "defined"
      /\ \A v \in Workflows \ {w} : refreshed[v] = ws[v]
  <2>1. /\ DeriveWorkflowStatus(w, ws[w], new) \in WorkflowStatuses \ {"cancelled"}
        /\ DeriveWorkflowStatus(w, ws[w], new) = "defined" <=> ws[w] = "defined"
    BY <1>1, DeriveType DEF Consistent
  <2> QED
    BY <1>1, <2>1 DEF Consistent, RefreshedStatus, w
<1>4. FreshIn(new, refreshed)
  <2> SUFFICES ASSUME NEW u \in Tasks
               PROVE  refreshed[WorkflowOf[u]] = "defined" <=> new[u] = "defined"
    BY DEF FreshIn
  <2>1. refreshed[WorkflowOf[u]] = "defined" <=> ws[WorkflowOf[u]] = "defined"
    BY <1>1, <1>3, WorkflowOfAssumption
  <2>2. new[u] = "defined" <=> ts[u] = "defined"
    BY <1>2
  <2> QED
    BY <2>1, <2>2 DEF Consistent, FreshIn
<1>5. DerivedIn(new, refreshed)
  <2>1. refreshed[w] = DeriveWorkflowStatus(w, refreshed[w], new)
    BY <1>3, DeriveIdempotent
  <2>2. ASSUME NEW v \in Workflows, v # w
        PROVE  refreshed[v] = DeriveWorkflowStatus(v, refreshed[v], new)
    <3>1. \A u \in TasksOf(v) : new[u] = ts[u]
      BY <1>2, <2>2 DEF TasksOf
    <3>2. refreshed[v] = ws[v]
      BY <1>3, <2>2
    <3> QED
      BY <3>1, <3>2, DeriveLocal DEF Consistent, DerivedIn
  <2> QED
    BY <2>1, <2>2 DEF DerivedIn
<1>6. EmptyIn(refreshed)
  <2>1. t \in TasksOf(w)
    BY DEF TasksOf, w
  <2> QED
    BY <1>3, <2>1 DEF Consistent, EmptyIn
<1> QED
  BY <1>2, <1>3, <1>4, <1>5, <1>6 DEF Consistent

(***************************************************************************)
(* Moving a released task from ready to dispatched, or on to running,      *)
(* changes neither what is done nor what is active.                        *)
(***************************************************************************)
LEMMA HandoverConsistent ==
  ASSUME NEW ts, NEW ws, Consistent(ts, ws),
         NEW t \in Tasks, ts[t] \in {"ready", "dispatched"},
         NEW status \in {"dispatched", "running"},
         NEW new, new = [ts EXCEPT ![t] = status]
  PROVE  Consistent(new, ws)
<1>1. /\ new \in [Tasks -> Reached]
      /\ new[t] = status
      /\ \A u \in Tasks \ {t} : new[u] = ts[u]
  BY DEF Consistent, Reached
<1>2. FreshIn(new, ws)
  BY <1>1 DEF Consistent, FreshIn
<1>3. SettledIn(new)
  <2>1. \A u \in Tasks : new[u] \in Done <=> ts[u] \in Done
    BY <1>1 DEF Done
  <2>2. \A u \in Tasks : DependenciesSatisfied(u, new) <=> DependenciesSatisfied(u, ts)
    BY <2>1 DEF DependenciesSatisfied
  <2> QED
    BY <1>1, <2>2 DEF Consistent, SettledIn
<1>4. DerivedIn(new, ws)
  <2> SUFFICES ASSUME NEW w \in Workflows
               PROVE  ws[w] = DeriveWorkflowStatus(w, ws[w], new)
    BY DEF DerivedIn
  <2> DEFINE before == {ts[u] : u \in TasksOf(w)}
             after == {new[u] : u \in TasksOf(w)}
  <2>1. CASE WorkflowOf[t] # w
    <3>1. \A u \in TasksOf(w) : ts[u] = new[u]
      BY <1>1, <2>1 DEF TasksOf
    <3>2. before = after
      BY <3>1
    <3> QED
      BY <3>2 DEF Consistent, DerivedIn, DeriveWorkflowStatus
  <2>2. CASE WorkflowOf[t] = w
    <3>1. t \in TasksOf(w)
      BY <2>2 DEF TasksOf
    <3>2. /\ before # {} /\ after # {}
          /\ "failed" \in after <=> "failed" \in before
          /\ ~(before \subseteq Done) /\ ~(after \subseteq Done)
          /\ before \cap Active # {} /\ after \cap Active # {}
      <4>1. ts[t] \in before /\ new[t] \in after
        BY <3>1
      <4>2. \A u \in TasksOf(w) : new[u] = "failed" <=> ts[u] = "failed"
        BY <1>1 DEF TasksOf
      <4> QED
        BY <1>1, <4>1, <4>2 DEF Done, Active, InFlight
    <3>3. ws[w] = DeriveWorkflowStatus(w, ws[w], ts)
      BY DEF Consistent, DerivedIn
    <3> HIDE DEF before, after
    <3>4. CASE ws[w] \in Inactive
      BY <3>4 DEF DeriveWorkflowStatus
    <3>5. CASE ws[w] \notin Inactive
      <4>1. DeriveWorkflowStatus(w, ws[w], ts)
              = IF "failed" \in before THEN "blocked" ELSE "in_progress"
        BY <3>2, <3>5 DEF DeriveWorkflowStatus, before
      <4>2. DeriveWorkflowStatus(w, ws[w], new)
              = IF "failed" \in after THEN "blocked" ELSE "in_progress"
        BY <3>2, <3>5 DEF DeriveWorkflowStatus, after
      <4> QED
        BY <3>2, <3>3, <4>1, <4>2
    <3> QED
      BY <3>4, <3>5
  <2> QED
    BY <2>1, <2>2
<1> QED
  BY <1>1, <1>2, <1>3, <1>4 DEF Consistent

-----------------------------------------------------------------------------
(* What consistency is good for.                                           *)

\* A refresh finds nothing to change.
LEMMA RefreshStable ==
  ASSUME NEW ts, NEW ws, Consistent(ts, ws), NEW w \in Workflows
  PROVE  /\ EvaluateTaskReadiness(w, ts) = ts
         /\ RefreshedTasks(w, ws, ts) = ts
         /\ RefreshedStatus(w, ws, ts) = ws
<1>1. RefreshedStatus(w, ws, ts) = ws
  BY DEF Consistent, DerivedIn, RefreshedStatus
<1>2. EvaluateTaskReadiness(w, ts) = ts
  <2>1. ts = [t \in Tasks |-> ts[t]]
    BY DEF Consistent
  <2>2. ASSUME NEW t \in Tasks
        PROVE  ts[t] = IF WorkflowOf[t] = w /\ ts[t] \in {"pending", "ready"}
                         THEN IF DependenciesSatisfied(t, ts)
                                THEN "ready" ELSE "pending"
                         ELSE ts[t]
    BY DEF Consistent, SettledIn
  <2> QED
    BY <2>1, <2>2 DEF EvaluateTaskReadiness
<1> QED
  BY <1>1, <1>2 DEF RefreshedTasks

\* A workflow's status tells the truth about the statuses of its tasks.
Agrees(status, S) ==
  \/ status = "defined" /\ S \subseteq {"defined"}
  \/ status = "activated" /\ S = {}
  \/ status = "blocked" /\ "failed" \in S
  \/ status = "completed" /\ S = {"recorded"}
  \/ status = "in_progress" /\ "failed" \notin S /\ S \ {"recorded"} # {}

\* The stored status of a workflow agrees with its tasks.
LEMMA StatusAgrees ==
  ASSUME NEW ts, NEW ws, Consistent(ts, ws), NEW w \in Workflows
  PROVE  Agrees(ws[w], {ts[t] : t \in TasksOf(w)})
<1> DEFINE S == {ts[t] : t \in TasksOf(w)}
<1> SUFFICES Agrees(ws[w], S)
  OBVIOUS
<1>1. S \subseteq Reached /\ (S = {} <=> TasksOf(w) = {})
  <2>1. \A t \in TasksOf(w) : ts[t] \in S
    OBVIOUS
  <2>2. S # {} => \E t \in TasksOf(w) : TRUE
    OBVIOUS
  <2>3. \A t \in TasksOf(w) : ts[t] \in Reached
    BY DEF Consistent, TasksOf
  <2>4. S \subseteq Reached
    BY <2>3
  <2> QED
    BY <2>1, <2>2, <2>4
<1> HIDE DEF S
<1>2. ws[w] \in WorkflowStatuses \ {"cancelled"}
  BY DEF Consistent
<1>3. CASE ws[w] = "defined"
  BY <1>3 DEF Consistent, FreshIn, TasksOf, Agrees, S
<1>4. CASE ws[w] # "defined" /\ S = {}
  BY <1>1, <1>4 DEF Consistent, EmptyIn, Agrees
<1>5. CASE ws[w] # "defined" /\ S # {}
  <2>1. "defined" \notin S
    BY <1>5 DEF Consistent, FreshIn, TasksOf, S
  <2>2. ws[w] \notin Inactive
    BY <1>2, <1>5 DEF Inactive
  <2>3. ws[w] = IF "failed" \in S THEN "blocked"
                ELSE IF S \subseteq Done THEN "completed"
                ELSE IF S \cap Active # {} THEN "in_progress"
                ELSE ws[w]
    BY <1>5, <2>2 DEF Consistent, DerivedIn, DeriveWorkflowStatus, S
  <2>4. S \subseteq Done => S = {"recorded"}
    BY <1>1, <1>5 DEF Done, Reached
  <2>5. "failed" \notin S /\ ~(S \subseteq Done) => S \cap Active # {}
    BY <1>1, <2>1 DEF Done, Reached, Active, InFlight
  <2>6. S \cap Active # {} => S \ {"recorded"} # {}
    BY DEF Active, InFlight
  <2> QED
    BY <2>3, <2>4, <2>5, <2>6 DEF Agrees
<1> QED
  BY <1>3, <1>4, <1>5

\* What a released task depends on is recorded.
LEMMA ReleasedMeansRecorded ==
  ASSUME NEW ts, NEW ws, Consistent(ts, ws), NEW t \in Tasks,
         ts[t] \in {"ready", "recorded", "failed"} \cup InFlight
  PROVE  \A d \in DependsOn[t] : d \in Tasks /\ ts[d] = "recorded"
<1>1. DependenciesSatisfied(t, ts)
  BY DEF Consistent, SettledIn, InFlight
<1> QED
  BY <1>1 DEF Consistent, DependenciesSatisfied, Done, Reached

=============================================================================

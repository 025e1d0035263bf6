---------------------------- MODULE MCAutomation -----------------------------
(***************************************************************************)
(* Three tasks, two of them ready at once, and rules that meet: a pair     *)
(* that publishes in a circle, a pair that moves the project back and      *)
(* forth, and rules that execute or record a task while another one is     *)
(* being taken up, started, recorded or failed.                            *)
(***************************************************************************)
EXTENDS Automation

MCWorkflows == {"wf"}
MCTasks == {"a", "b", "c"}
MCWorkflowOf == [t \in MCTasks |-> "wf"]
MCDependsOn == [a |-> {}, b |-> {}, c |-> {"a", "b"}]

MCWorkers == {"k1"}
MCWorkerOrder == <<"k1">>
MCSupports == [k1 |-> {"a", "b"}]

Publication(type) == [type |-> "publish_event", event |-> type]
Transition(state) == [type |-> "transition_state", state |-> state]
Complete(t) == [type |-> "complete", task |-> t]
Fail(t) == [type |-> "fail", task |-> t]
Take(t, k) == [type |-> "dispatch", task |-> t, worker |-> k]
Outside == [type |-> "outside"]

RuleOf(type, conditions, actions) ==
  [on_event |-> type, conditions |-> conditions, actions |-> actions,
   enabled |-> TRUE]

MCRuleOrder ==
  <<"r1_done", "r2_ping", "r3_pong", "r4_onexec", "r5_onready", "r6_onfail",
    "r7_onstart">>

MCRuleFiles ==
  {{}, {"r2_ping", "r3_pong"}, {"r5_onready"}, {"r5_onready", "r7_onstart"},
   {"r6_onfail", "r7_onstart"},
   {"r2_ping", "r3_pong", "r5_onready", "r6_onfail", "r7_onstart"}}

MCRule ==
  [r1_done    |-> RuleOf("TaskCompleted", [task_id |-> "a"],
                    <<Publication("Custom"), Complete("b")>>),
   r2_ping    |-> RuleOf("Custom", <<>>, <<Publication("Other"), Outside>>),
   r3_pong    |-> RuleOf("Other", <<>>, <<Publication("Custom")>>),
   r4_onexec  |-> RuleOf("ProjectStateChanged", [to_state |-> "executing"],
                    <<Take("a", NoWorker), Transition("ready")>>),
   r5_onready |-> RuleOf("ProjectStateChanged", [to_state |-> "ready"],
                    <<Transition("executing")>>),
   r6_onfail  |-> RuleOf("TaskFailed", <<>>,
                    <<Transition("recovering"), Take("a", "k1")>>),
   r7_onstart |-> RuleOf("WorkerStarted", <<>>,
                    <<Take("b", NoWorker), Fail("b"), Complete("c")>>)]

=============================================================================

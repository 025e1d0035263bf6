-------------------------- MODULE MCWorkflowEngine --------------------------
(***************************************************************************)
(* Two workflows for TLC.  In `alpha' a3 waits for a1 and a2, and a2 needs *)
(* approval; in `beta' b2 waits for b1, which needs approval, and b3       *)
(* depends on an id that names no task, which the loader accepts.          *)
(***************************************************************************)
EXTENDS WorkflowEngine

MCWorkflows == {"alpha", "beta"}
MCTasks == {"a1", "a2", "a3", "b1", "b2", "b3"}

MCWorkflowOf ==
  [t \in MCTasks |-> IF t \in {"a1", "a2", "a3"} THEN "alpha" ELSE "beta"]

MCDependsOn ==
  [a1 |-> {}, a2 |-> {}, a3 |-> {"a1", "a2"},
   b1 |-> {}, b2 |-> {"b1"}, b3 |-> {"ghost"}]

MCRequiresApproval == {"a2", "b1"}

\* Two workflows of one task each: the smallest project with a second workflow.
PairWorkflowOf == [a1 |-> "alpha", b1 |-> "beta"]
PairTasks == {"a1", "b1"}
PairDependsOn == [a1 |-> {}, b1 |-> {}]

=============================================================================

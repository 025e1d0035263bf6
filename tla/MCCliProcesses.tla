--------------------------- MODULE MCCliProcesses ---------------------------
(***************************************************************************)
(* Two workflows for TLC: in `alpha' a2 follows a1 and needs approval;     *)
(* `beta' has one task.                                                    *)
(***************************************************************************)
EXTENDS CliProcesses

MCWorkflows == {"alpha", "beta"}
MCTasks == {"a1", "a2", "b1"}
MCWorkflowOf == [a1 |-> "alpha", a2 |-> "alpha", b1 |-> "beta"]
MCDependsOn == [a1 |-> {}, a2 |-> {"a1"}, b1 |-> {}]

\* One task is enough for two processes to disagree.
OneWorkflow == {"alpha"}
OneTask == {"a1"}
OneWorkflowOf == [a1 |-> "alpha"]
OneDependsOn == [a1 |-> {}]

=============================================================================

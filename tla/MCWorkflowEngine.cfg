\* The whole core with crashes: six tasks in two workflows.
SPECIFICATION Spec
CONSTANTS
  Workflows <- MCWorkflows
  Tasks <- MCTasks
  WorkflowOf <- MCWorkflowOf
  DependsOn <- MCDependsOn
  RequiresApproval <- MCRequiresApproval
  NoTask = NoTask
INVARIANTS
  TypeOK
  DependenciesRecorded
  WorkflowStatusTruthful
  ReloadStable
PROPERTIES
  ImplementsLifecycle
  GateNeedsDecision
  FailureHalts

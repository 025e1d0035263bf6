\* The run loop with kills: four tasks, one of them without a worker.
SPECIFICATION RunSpec
CONSTANTS
  Workflows <- MCWorkflows
  Tasks <- MCTasks
  WorkflowOf <- MCWorkflowOf
  DependsOn <- MCDependsOn
  RequiresApproval = {"b1"}
  NoTask = NoTask
  Rank <- MCRank
  Served = {"a1", "a2", "b1"}
  MaxTasks = 2
  MaxCycles = 5
INVARIANT RunTypeOK
PROPERTIES
  RunTerminates
  NoServedTaskLeft
  EndingTruthful

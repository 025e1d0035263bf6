\* Expected to be violated: one completed workflow completes the project.
SPECIFICATION Spec
CONSTANTS
  Workflows <- MCWorkflows
  Tasks <- PairTasks
  WorkflowOf <- PairWorkflowOf
  DependsOn <- PairDependsOn
  RequiresApproval = {}
  NoTask = NoTask
PROPERTY CompletedMeansDone

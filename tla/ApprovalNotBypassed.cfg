\* Expected to be violated: a stranded task opens the approval gate.
SPECIFICATION Spec
CONSTANTS
  Workflows <- MCWorkflows
  Tasks <- PairTasks
  WorkflowOf <- PairWorkflowOf
  DependsOn <- PairDependsOn
  RequiresApproval = {"b1"}
  NoTask = NoTask
PROPERTY ApprovalNotBypassed

\* Expected to be violated: two commands at the same time.
SPECIFICATION CliSpec
CONSTANTS
  Workflows <- OneWorkflow
  Tasks <- OneTask
  WorkflowOf <- OneWorkflowOf
  DependsOn <- OneDependsOn
  RequiresApproval = {}
  Processes = {p1, p2}
PROPERTY SourceStateHeld
CHECK_DEADLOCK FALSE

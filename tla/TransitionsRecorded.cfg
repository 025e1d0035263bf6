\* Expected to be violated: a kill between the state and its record.
SPECIFICATION CliSpec
CONSTANTS
  Workflows <- OneWorkflow
  Tasks <- OneTask
  WorkflowOf <- OneWorkflowOf
  DependsOn <- OneDependsOn
  RequiresApproval = {}
  Processes = {p1}
INVARIANT TransitionsRecorded
CHECK_DEADLOCK FALSE

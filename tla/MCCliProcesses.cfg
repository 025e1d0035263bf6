\* One command at a time, killed anywhere: what the files hold.
SPECIFICATION CliSpec
CONSTANTS
  Workflows <- MCWorkflows
  Tasks <- MCTasks
  WorkflowOf <- MCWorkflowOf
  DependsOn <- MCDependsOn
  RequiresApproval = {"a2"}
  Processes = {p1}
INVARIANTS
  CliTypeOK
  ProgressFileConsistent
PROPERTIES
  FilesKeepLifecycle
  ValidTransitionsOnly
  HaltsBeforeProgress
\* A kill in the middle of a write leaves a file no command can load.
CHECK_DEADLOCK FALSE

\* A gate before the implementation, while the project waits for an approval.
SPECIFICATION Spec
CONSTANTS
  Workflows <- MCWorkflows
  Tasks <- MCTasks
  TaskOrder <- MCTaskOrder
  WorkflowOf <- MCWorkflowOf
  DependsOn <- MCDependsOn
  RequiresApproval = {}
  Automated = {"handoff"}
  ReadFailures = {"cli_failed"}
  PingFailures = {"vedaws_missing"}
  Manifests <- MCManifests
  RunIterations = 1
  StrictRun = FALSE
  NoGoal = NoGoal
  NoPhase = NoPhase
  NoFile = NoFile
  NoValue = NoValue
  ResolvableApps = {}
  InitialContexts = {NoFile}
  Prompts <- MCPrompts
  ForcedPhases <- MCForcedPhases
  ChangedRoots <- MCChangedRoots
  Reports <- MCReports
  OperatorStates = {"ready"}
PROPERTY
  WaitsForApproval

\* A session on one project: every flow, every fault of a command, kills.
SPECIFICATION Spec
CONSTANTS
  Workflows <- MCWorkflows
  Tasks <- MCTasks
  TaskOrder <- MCTaskOrder
  WorkflowOf <- MCWorkflowOf
  DependsOn <- MCDependsOn
  RequiresApproval = {}
  Automated = {"handoff"}
  ReadFailures = {"cli_failed"}
  PingFailures = {"vedaws_missing"}
  Manifests <- MCManifests
  RunIterations = 1
  StrictRun = FALSE
  NoGoal = NoGoal
  NoPhase = NoPhase
  NoFile = NoFile
  NoValue = NoValue
  ResolvableApps = {}
  InitialContexts = {NoFile}
  Prompts <- MCPrompts
  ForcedPhases <- MCForcedPhases
  ChangedRoots <- MCChangedRoots
  Reports <- MCReports
  OperatorStates = {"ready"}
INVARIANTS
  SessionTypeOK
  IdleMeansLogged
PROPERTIES
  ImplementsPhases
  SettledStatus
  FlowsEnd

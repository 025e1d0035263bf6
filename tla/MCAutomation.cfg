\* Rules that interrupt commands and each other.
SPECIFICATION Spec
CONSTANTS
  Workflows <- MCWorkflows
  Tasks <- MCTasks
  WorkflowOf <- MCWorkflowOf
  DependsOn <- MCDependsOn
  RequiresApproval = {"b"}
  RuleOrder <- MCRuleOrder
  Rule <- MCRule
  PluginRules = {"r1_done", "r4_onexec"}
  RuleFiles <- MCRuleFiles
  Toggled = {"r1_done"}
  MaxDepth = 2
  Workers <- MCWorkers
  WorkerOrder <- MCWorkerOrder
  Supports <- MCSupports
  NoWorker = NoWorker
INVARIANTS
  AutomationTypeOK
  NestingBounded
  SettledTruthful
  WorkersNotShared
  CyclesReported
PROPERTIES
  ImplementsLifecycle
  ChainsEnd

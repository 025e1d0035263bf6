\* Plugins that are selected, fail, work and are unloaded, on five machines.
SPECIFICATION RuntimeSpec
CONSTANTS
  Plugins <- MCPlugins
  Contributes <- MCContributes
  Installations <- MCInstallations
  Activations <- MCActivations
  Toggled = {1}
  Mocks <- MCMocks
  Unset = Unset
  VedawsVersion <- MCVedawsVersion
  PythonVersion <- MCPythonVersion
  Provider <- MCProvider
  NoProvider = NoProvider
  AIWorkers <- MCAIWorkers
  Requests <- MCRequests
INVARIANTS
  PlatformTypeOK
  DependenciesFirst
  HandlersInService
  UnloadsPaired
  FallbackExhaustive
  ValidatedRoutesUsed
PROPERTIES
  ToggleScoped
  RingsRefused
  StartsSettle

SPECIFICATION ServingSpec
CONSTANTS
  a = a
  n = n
  d = d
  r = r
  NoPayload = NoPayload
  Sources <- MixedRows
  Enabled <- MixedEnabled
  RefreshSeconds <- MixedRefresh
  StaleOnErrorSeconds <- MixedStale
  RowOrder <- MixedOrder
  Requests <- OneRequest
  Bodies = {1}
  AgeCap = 2
  DiskEnabled = TRUE
  DefaultTTL = 1
  DefaultStaleOnError = 1
  BootstrapMaxAttempts = 1
  AttemptDelay = 0
  FetchTimeout = 1
  Latency = 0
INVARIANTS ServingTypeOK ReadyMeansSettled GateHoldsThroughBuild HealthAgreesWithSources
  PinnedIsServed
PROPERTIES ImplementsGate PinnedVerdictIsFinal

SPECIFICATION Spec
CONSTANTS
  a = a
  NoPayload = NoPayload
  Sources <- OneRow
  Enabled <- OneRow
  RefreshSeconds <- OneRefresh
  StaleOnErrorSeconds <- OneStale
  Bodies = {1}
  AgeCap = 16
  DiskEnabled = TRUE
  DefaultTTL = 2
  DefaultStaleOnError = 3
  BootstrapMaxAttempts = 2
  AttemptDelay = 1
  FetchTimeout = 1
  Latency = 1
INVARIANT UsableCacheIsServed

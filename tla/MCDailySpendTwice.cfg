SPECIFICATION Spec
CONSTANTS
  NoSnapshot = NoSnapshot
  Damaged = Damaged
  NoHeader = NoHeader
  SecondsPerDay = 1
  Requests = {r1, r2}
  Sources = {a}
  Quota = 1
  MaxUsed = 3
  MaxMoved = 3
  LastSecond = 3
  DiskFaults = FALSE
PROPERTY CapturedOncePerDay

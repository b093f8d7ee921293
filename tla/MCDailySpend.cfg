SPECIFICATION Spec
CONSTANTS
  NoSnapshot = NoSnapshot
  Damaged = Damaged
  NoHeader = NoHeader
  SecondsPerDay = 1
  Requests = {r1, r2}
  Sources = {a}
  Quota = 1
  MaxUsed = 2
  MaxMoved = 2
  LastSecond = 2
  DiskFaults = TRUE
INVARIANTS TypeOK SavedIsLoadable
PROPERTY SpendIsTodays

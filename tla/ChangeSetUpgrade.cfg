SPECIFICATION UpgradedSpec
CONSTANTS
  p1 = p1
  man = man
  a = a
  b = b
  x = x
  d1 = d1
  d2 = d2
  j1 = j1
  j2 = j2
  j3 = j3
  Path = {p1, man}
  Body = {a, b}
  Missing = Missing
  Manifest = man
  Draft = {d1, d2}
  Writes <- MCWrites
  Rechecked = {}
  Journal = {j1, j2}
  None = None
  WritesLedger = TRUE
  CleanupLimit = 2
  CleanupMayFail = FALSE
  EditModes = {}
  MaxEdits = 0
  MaxFaults = 1
  MaxCrashes = 2
SYMMETRY Symm
INVARIANTS
  UpgradeKeepsApplied
PROPERTIES
  AtomicSteps
CHECK_DEADLOCK FALSE

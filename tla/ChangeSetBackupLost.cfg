SPECIFICATION UpgradedSpec
CONSTANTS
  p1 = p1
  man = man
  a = a
  b = b
  x = x
  d1 = d1
  d2 = d2
  j1 = j1
  j2 = j2
  j3 = j3
  Path = {p1, man}
  Body = {a, b}
  Missing = Missing
  Manifest = man
  Draft = {d1, d2}
  Writes <- MCWrites
  Rechecked = {}
  Journal = {j1, j2, j3}
  None = None
  WritesLedger = FALSE
  CleanupLimit = 1
  CleanupMayFail = FALSE
  EditModes = {}
  MaxEdits = 0
  MaxFaults = 0
  MaxCrashes = 1
SYMMETRY Symm
PROPERTIES
  BackupsOfPendingKept
CHECK_DEADLOCK FALSE

SPECIFICATION Spec
CONSTANTS
  p1 = p1
  man = man
  a = a
  b = b
  x = x
  d1 = d1
  d2 = d2
  j1 = j1
  j2 = j2
  j3 = j3
  Path = {p1, man}
  Body = {a, b}
  Missing = Missing
  Manifest = man
  Draft = {d1, d2}
  Writes <- MCWrites
  Rechecked = {}
  Journal = {j1, j2}
  None = None
  WritesLedger = TRUE
  CleanupLimit = 1
  CleanupMayFail = FALSE
  EditModes = {}
  MaxEdits = 0
  MaxFaults = 2
  MaxCrashes = 2
SYMMETRY Symm
INVARIANTS
  TypeOK
  AtMostOnePending
  GateCoversPending
  LedgerMatchesJournal
  PreimageRecoverable
  NoLitter
PROPERTIES
  StatusIsFinal
  BackupsOfPendingKept
  Atomic

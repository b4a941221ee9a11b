\* An editor beside the daemon, two failing calls, a crash, cleanups that fail; no ledger.
SPECIFICATION FairSpec
CONSTANTS
  p1 = p1
  man = man
  a = a
  b = b
  x = x
  d1 = d1
  d2 = d2
  j1 = j1
  j2 = j2
  j3 = j3
  Path = {p1, man}
  Body = {a, b, x}
  Missing = Missing
  Manifest = man
  Draft = {d1, d2}
  Writes <- MCWrites
  Rechecked = {d1}
  Journal = {j1}
  None = None
  WritesLedger = FALSE
  CleanupLimit = 1
  CleanupMayFail = TRUE
  EditModes = {"down", "recover", "up"}
  MaxEdits = 1
  MaxFaults = 2
  MaxCrashes = 1

  
PROPERTIES
  ExternalManifestKept
  PendingSettles
  WriterIsFreed
CHECK_DEADLOCK FALSE

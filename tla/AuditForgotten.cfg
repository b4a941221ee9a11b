SPECIFICATION Spec
CONSTANTS
  h1 = h1
  h2 = h2
  w1 = w1
  w2 = w2
  Commit = {h1, h2}
  Digest = {w1, w2}
  DraftCount = 1
  ListLimit = 2
  MaxOthers = 0
  MaxEdits = 1
  MaxFaults = 1
  MaxCrashes = 1
SYMMETRY Symm
INVARIANTS
  InterruptedRunResumable
CHECK_DEADLOCK FALSE

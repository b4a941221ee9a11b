SPECIFICATION Spec
CONSTANTS
  h1 = h1
  h2 = h2
  w1 = w1
  w2 = w2
  Commit = {h1, h2}
  Digest = {w1, w2}
  DraftCount = 3
  ListLimit = 4
  MaxOthers = 2
  MaxEdits = 2
  MaxFaults = 2
  MaxCrashes = 1
SYMMETRY Symm
INVARIANTS
  TypeOK
  NoDuplicateWhileListed
  RecordsAreTrue
  IssuedIsComplete
  OneOrphan
CHECK_DEADLOCK FALSE

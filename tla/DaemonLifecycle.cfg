\* One client and two process ids at a time, without symmetry; two crashes, stops, deadlines
\* or ids used again.
SPECIFICATION FairSpec
CONSTANTS
    Daemons = {d1, d2}
    Clients = {c1}
    MaxFaults = 2
    None = None
INVARIANTS TypeOK OneServer ServerIsNamed
PROPERTIES RecoversAfterAnswers Reached
CHECK_DEADLOCK FALSE

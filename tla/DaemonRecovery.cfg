\* One client that gives up, and one stop.
SPECIFICATION Spec
CONSTANTS
    Daemons = {d1, d2}
    Clients = {c1}
    MaxFaults = 2
    None = None
PROPERTIES RecoversAlone
CHECK_DEADLOCK FALSE

\* A hook, two worker ids and a report at a time over two rows; a commit, a ledger event,
\* restarts at any time, one retry or cancel.
SPECIFICATION Spec
CONSTANTS
    MaxJobs = 2
    Hooks = {h1}
    Workers = {w1, w2}
    Reports = {r1}
    Audits = {}
    Kinds = {delta}
    Coalesced = {audit}
    Priorities <- TwoPriorities
    MaxAttempts = 2
    MaxQueued = 1
    MaxRunning = 1
    MaxCommits = 1
    LedgerUpTo = 0
    Debounces = {TRUE}
    CancelStatuses = {"cancelled"}
    MaxTouches = 1
    Daemon = daemon
    AuditKind = audit
    None = None
SYMMETRY SwappedWorkers
INVARIANTS TypeOK OneActive LeaseWhileRunning DeadForGood
PROPERTIES ReportsByHolder HookKeepsCap 
CHECK_DEADLOCK FALSE

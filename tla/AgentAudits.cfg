\* An audit beside a hook, a worker id and a report at a time over two rows; a commit, a
\* ledger event, restarts at any time, and time and claims that go on.
SPECIFICATION FairSpec
CONSTANTS
    MaxJobs = 2
    Hooks = {h1}
    Workers = {w1}
    Reports = {r1}
    Audits = {a1}
    Kinds = {delta}
    Coalesced = {audit}
    Priorities = {0}
    MaxAttempts = 2
    MaxQueued = 1
    MaxRunning = 1
    MaxCommits = 1
    LedgerUpTo = 0
    Debounces = {FALSE}
    CancelStatuses = {"cancelled"}
    MaxTouches = 0
    Daemon = daemon
    AuditKind = audit
    None = None
INVARIANT WorkersCapped
PROPERTIES AuditSpared RunningEnds
CHECK_DEADLOCK FALSE

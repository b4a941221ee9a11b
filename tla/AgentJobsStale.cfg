\* One hook job, one worker, a commit, and a ledger that may get an event before it.
SPECIFICATION Spec
CONSTANTS
    MaxJobs = 1
    Hooks = {h1}
    Workers = {w1}
    Reports = {r1}
    Audits = {}
    Kinds = {delta}
    Coalesced = {audit}
    Priorities = {0}
    MaxAttempts = 1
    MaxQueued = 1
    MaxRunning = 1
    MaxCommits = 1
    LedgerUpTo = 0
    Debounces = {FALSE}
    CancelStatuses = {"cancelled"}
    MaxTouches = 0
    Daemon = daemon
    AuditKind = audit
    None = None
PROPERTY FreshReportKept
CHECK_DEADLOCK FALSE

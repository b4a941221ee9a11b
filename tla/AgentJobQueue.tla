------------------------------ MODULE AgentJobQueue ------------------------------
(***************************************************************************)
(* The queue of investigation jobs of one worktree: the table              *)
(* runtime_job_queue, the git hooks that fill it, the workers that lease   *)
(* jobs from it, the audits the daemon runs as jobs of its own, and the    *)
(* operator who retries and cancels.                                       *)
(*                                                                         *)
(* A handler reads HEAD first and then, in openSession, files: commits and *)
(* other handlers come in between, so a step that resolves the scope takes *)
(* the HEAD of some earlier moment as a parameter.  The awaits between the *)
(* scope, the reads that follow it and the calls of the store separate     *)
(* steps: the scope a handler judges by may be older than what it lists,   *)
(* and what it lists may be older than what it writes.                     *)
(***************************************************************************)
EXTENDS Integers, FiniteSets

CONSTANTS
    MaxJobs,        \* rows the table can hold (bounds enqueues)
    Hooks,          \* concurrent jobs.enqueueGitHook calls
    Workers,        \* worker ids that clients claim and report with, one or several clients each
    Reports,        \* concurrent jobs.complete calls
    Audits,         \* concurrent audit.run calls of the daemon
    Kinds,          \* analysis kinds of hook jobs
    Coalesced,      \* kinds whose jobs share a coalesceKey; otherwise it holds the fingerprint
    Priorities,     \* priorities a hook may ask for
    MaxAttempts,    \* maxAttempts of a hook job
    MaxQueued,      \* maxQueuedJobs of a hook
    MaxRunning,     \* maxRunningJobs of a claim
    MaxCommits,     \* bound on commits
    LedgerUpTo,     \* bound on ledger events: the last cursor that has one
    Debounces,      \* whether a hook may ask for a debounce
    CancelStatuses, \* statuses jobs.cancel is asked for
    MaxTouches,     \* bound on the operator's retries and cancels
    Daemon,         \* the worker id "daemon-audit"
    AuditKind,      \* the analysis kind "agent-audit"
    None

ASSUME QueueAssumption ==
    /\ MaxJobs \in Nat /\ MaxAttempts \in Nat \ {0} /\ MaxQueued \in Nat \ {0}
    /\ MaxRunning \in Nat \ {0} /\ MaxCommits \in Nat /\ MaxTouches \in Nat
    /\ LedgerUpTo \in Nat /\ Debounces \subseteq BOOLEAN
    /\ Priorities \subseteq Int /\ 0 \in Priorities
    /\ Daemon \notin Workers /\ None \notin Workers /\ None # Daemon
    /\ AuditKind \notin Kinds
    /\ CancelStatuses \subseteq {"cancelled", "superseded", "expired"}
    /\ Coalesced \subseteq Kinds \cup {AuditKind}

VARIABLES
    jobs,       \* the rows of runtime_job_queue, None where there is none yet
    hook,       \* the handlers of jobs.enqueueGitHook
    report,     \* the handlers of jobs.complete
    audit,      \* the audits the daemon runs
    git,        \* HEAD and worktree, as the number of commits so far
    ledger,     \* the cursor of the branch's latest ledger event, or None
    touches

vars == <<jobs, hook, report, audit, git, ledger, touches>>

JobIds  == 1..MaxJobs
Cursors == 0..MaxCommits
Owners  == Workers \cup {Daemon, None}

Status  == {"queued", "running", "succeeded", "failed", "cancelled", "superseded", "expired"}
Active  == {"queued", "running"}

(* A row.  `waiting` says that the time in the row that matters is ahead:  *)
(* debounce_until of a queued row, lease_expires_at of a running one.      *)
(* `head` and `digest` are the cursor the job was made for; the fingerprint *)
(* is that of its kind and head.                                           *)
Row == [kind : Kinds \cup {AuditKind}, head : Cursors, digest : Cursors, pri : Priorities,
        status : Status, attempts : 0..(MaxAttempts + 1), max : 1..MaxAttempts,
        owner : Owners, waiting : BOOLEAN, dead : BOOLEAN]

ASSUME RowAssumption == None \notin Row /\ None \notin Cursors

IdleHook == [pc |-> "idle", head |-> 0, digest |-> 0, mine |-> 0, left |-> {}]
HookState == [pc : {"idle", "scoped", "read", "sweeping"}, head : Cursors, digest : Cursors,
              mine : Cursors, left : SUBSET JobIds]

\* `plan` is what the handler is about to make of the row.
IdleReport == [pc |-> "idle", job |-> 0, id |-> None, plan |-> "failed"]
ReportState == [pc : {"idle", "scoped", "listed"}, job : 0..MaxJobs, id : Owners,
                plan : {"succeeded", "failed", "expired"}]

IdleAudit == [pc |-> "idle", head |-> 0, job |-> 0]
AuditState == [pc : {"idle", "scoped", "claiming", "busy"}, head : Cursors, job : 0..MaxJobs]

TypeOK ==
    /\ jobs \in [JobIds -> Row \cup {None}]
    /\ hook \in [Hooks -> HookState]
    /\ report \in [Reports -> ReportState]
    /\ audit \in [Audits -> AuditState]
    /\ git \in Cursors /\ ledger \in Cursors \cup {None}
    /\ touches \in 0..MaxTouches

Init ==
    /\ jobs = [j \in JobIds |-> None]
    /\ hook = [h \in Hooks |-> IdleHook]
    /\ report = [r \in Reports |-> IdleReport]
    /\ audit = [a \in Audits |-> IdleAudit]
    /\ git = 0 /\ ledger = None /\ touches = 0

-----------------------------------------------------------------------------
(* The table                                                               *)

Rows == {j \in JobIds : jobs[j] # None}
With(status) == {j \in Rows : jobs[j].status = status}

\* Leaving the queue, or going back to it: the lease is cleared, a debounce stays.
\* Broken: the owner of the lease is kept.
BrokenReleased(row, status) ==
    [row EXCEPT !.status = status, !.waiting = row.waiting /\ row.status # "running"]
Released(row, status) ==
    [row EXCEPT !.status = status, !.owner = None, !.waiting = row.waiting /\ row.status # "running"]
\* A row that has used up its attempts.
DeadLettered(row) == [Released(row, "failed") EXCEPT !.dead = TRUE]

\* The scope a handler works in: the cursor of the branch's latest ledger event, and
\* only without one the cursor it read itself, HEAD before the files of the model
\* and the digest after them.
\* Broken: the session of the daemon's start is reused, its HEAD included.
BrokenScopeHead(read) == IF ledger = None THEN 0 ELSE ledger
ScopeHead(read) == IF ledger = None THEN read ELSE ledger
ScopeDigest     == IF ledger = None THEN git ELSE ledger
IsStale(row, head, digest) == row.kind # AuditKind /\ (row.head # head \/ row.digest # digest)

SameWork(kind, head) == {j \in Rows : /\ jobs[j].status \in Active
                                      /\ jobs[j].kind = kind /\ jobs[j].head = head}

\* ORDER BY priority DESC, queued_at, job_id: rows are numbered as they are queued.
Before(j, k) == \/ jobs[j].pri > jobs[k].pri
                \/ jobs[j].pri = jobs[k].pri /\ j <= k
First(S) == {j \in S : \A k \in S : Before(j, k)}
\* ORDER BY priority ASC, queued_at, job_id: who is evicted first.
EvictedBefore(j, k) == \/ jobs[j].pri < jobs[k].pri
                       \/ jobs[j].pri = jobs[k].pri /\ j <= k

LiveLeases == {j \in With("running") : jobs[j].waiting}
\* Broken: a lease that has expired is not given to anyone else.
BrokenClaimable == {j \in With("queued") : ~jobs[j].waiting}
Claimable  == {j \in Rows : jobs[j].status \in Active /\ ~jobs[j].waiting}
Fresh(j)   == j \notin Rows /\ \A k \in JobIds : k < j => k \in Rows

-----------------------------------------------------------------------------
(* enqueueRuntimeAgentJob: one transaction                                 *)

\* Broken: the new row is counted after the cap, so one job too many stays queued.
BrokenRequired(reserved) == IF reserved > MaxQueued THEN reserved - MaxQueued ELSE 0
Required(reserved) == IF reserved >= MaxQueued THEN reserved - MaxQueued + 1 ELSE 0

\* Broken: any queued job gives way to the new one.
BrokenEvictable(pri, superseded) == With("queued") \ superseded
Evictable(pri, superseded) == {j \in With("queued") \ superseded : jobs[j].pri <= pri}

NewRow(kind, head, digest, pri, max, debounce) ==
    [kind |-> kind, head |-> head, digest |-> digest, pri |-> pri, status |-> "queued",
     attempts |-> 0, max |-> max, owner |-> None, waiting |-> debounce, dead |-> FALSE]

\* Queued jobs with the coalesceKey of the new one; another fingerprint, as it is new.
Superseded(kind) == {k \in With("queued") : kind \in Coalesced /\ jobs[k].kind = kind}

\* Older queued jobs of the key are superseded, and evictions keep the cap.
Insert(j, row, evicted) ==
    jobs' = [k \in JobIds |-> IF k = j THEN row
                              ELSE IF k \in Superseded(row.kind) THEN Released(jobs[k], "superseded")
                              ELSE IF k \in evicted THEN Released(jobs[k], "expired")
                              ELSE jobs[k]]

\* The evictions an enqueue under the cap makes: none of higher priority than the
\* new job, and as many as needed, or the enqueue is rejected.
Evictions(kind, pri) ==
    LET open == Evictable(pri, Superseded(kind))
        need == Required(Cardinality(With("queued") \ Superseded(kind)))
    IN  {E \in SUBSET open : /\ Cardinality(E) = need
                             /\ \A e \in E, k \in open \ E : EvictedBefore(e, k)}

-----------------------------------------------------------------------------
(* jobs.enqueueGitHook                                                     *)

\* A hook that came in when HEAD was `read` has its session and its scope ...
HookScope(h, read) ==
    /\ hook[h].pc = "idle"
    /\ hook' = [hook EXCEPT ![h].pc = "scoped", ![h].head = ScopeHead(read), ![h].digest = ScopeDigest]
    /\ UNCHANGED <<jobs, report, audit, git, ledger, touches>>

\* ... reads the change from git, and with it the HEAD its job is made for ...
HookRead(h) ==
    /\ hook[h].pc = "scoped"
    /\ hook' = [hook EXCEPT ![h].pc = "read", ![h].mine = git]
    /\ UNCHANGED <<jobs, report, audit, git, ledger, touches>>

\* ... and lists what is stale by its scope.
HookList(h) ==
    /\ hook[h].pc = "read"
    /\ hook' = [hook EXCEPT ![h].pc = "sweeping", ![h].left =
         {j \in Rows : jobs[j].status \in Active /\ IsStale(jobs[j], hook[h].head, hook[h].digest)}]
    /\ UNCHANGED <<jobs, report, audit, git, ledger, touches>>

\* cancelRuntimeAgentJob, one listed job at a time: whatever its status is by now.
HookSweep(h) ==
    /\ hook[h].pc = "sweeping"
    /\ \E j \in hook[h].left :
         /\ \A k \in hook[h].left : j <= k
         /\ jobs' = [jobs EXCEPT ![j] = Released(jobs[j], "expired")]
         /\ hook' = [hook EXCEPT ![h].left = @ \ {j}]
    /\ UNCHANGED <<report, audit, git, ledger, touches>>

HookEnqueue(h, kind, pri, debounce) ==
    /\ hook[h].pc = "sweeping" /\ hook[h].left = {}
    /\ hook' = [hook EXCEPT ![h] = IdleHook]
    /\ IF SameWork(kind, hook[h].mine) # {} \/ Evictions(kind, pri) = {}
       THEN jobs' = jobs
       ELSE \E j \in JobIds, E \in Evictions(kind, pri) :
              /\ Fresh(j)
              /\ Insert(j, NewRow(kind, hook[h].mine, hook[h].digest, pri, MaxAttempts, debounce), E)
    /\ UNCHANGED <<report, audit, git, ledger, touches>>

-----------------------------------------------------------------------------
(* claimRuntimeAgentJob: one transaction                                   *)

\* The attempt is counted; one too many dead-letters the row instead of leasing it.
\* Broken: the attempts a row may use are counted one too many.
BrokenTaken(row, p) ==
    IF row.attempts > row.max
    THEN DeadLettered(row)
    ELSE [row EXCEPT !.status = "running", !.attempts = @ + 1, !.owner = p, !.waiting = TRUE]
Taken(row, p) ==
    IF row.attempts + 1 > row.max
    THEN [DeadLettered(row) EXCEPT !.attempts = @ + 1]
    ELSE [row EXCEPT !.status = "running", !.attempts = @ + 1, !.owner = p, !.waiting = TRUE]

\* Broken: expired leases are counted and live ones are not.
BrokenMayClaim == Cardinality(With("running") \ LiveLeases) < MaxRunning
MayClaim == Cardinality(LiveLeases) < MaxRunning

\* jobs.claim, by any client: one that is busy, or whose id another one uses, as well.
Claim(w) ==
    /\ MayClaim
    /\ \E j \in First(Claimable) : jobs' = [jobs EXCEPT ![j] = Taken(jobs[j], w)]
    /\ UNCHANGED <<hook, report, audit, git, ledger, touches>>

\* audit.run has its scope ...
AuditScope(a, read) ==
    /\ audit[a].pc = "idle"
    /\ audit' = [audit EXCEPT ![a] = [pc |-> "scoped", head |-> ScopeHead(read), job |-> 0]]
    /\ UNCHANGED <<jobs, hook, report, git, ledger, touches>>

\* ... enqueues a job of its own, without a cap and for one attempt (the digest of an
\* audit's row, by which nothing judges it, is that of its head here) ...
AuditEnqueue(a) ==
    /\ audit[a].pc = "scoped"
    /\ IF SameWork(AuditKind, audit[a].head) # {}
       THEN jobs' = jobs /\ audit' = [audit EXCEPT ![a] = IdleAudit]
       ELSE \E j \in JobIds :
              /\ Fresh(j)
              /\ Insert(j, NewRow(AuditKind, audit[a].head, audit[a].head, 0, 1, FALSE), {})
              /\ audit' = [audit EXCEPT ![a] = [IdleAudit EXCEPT !.pc = "claiming", !.job = j]]
    /\ UNCHANGED <<hook, report, git, ledger, touches>>

\* ... and claims exactly that one, however many jobs run.
AuditClaim(a) ==
    /\ audit[a].pc = "claiming"
    /\ LET j == audit[a].job
           row == jobs[j]
       IN  IF j \in Claimable
           THEN /\ jobs' = [jobs EXCEPT ![j] = Taken(row, Daemon)]
                /\ audit' = [audit EXCEPT ![a] = IF row.attempts + 1 > row.max THEN IdleAudit
                                               ELSE [@ EXCEPT !.pc = "busy"]]
           ELSE /\ jobs' = jobs
                /\ audit' = [audit EXCEPT ![a] = IdleAudit]
    /\ UNCHANGED <<hook, report, git, ledger, touches>>

-----------------------------------------------------------------------------
(* jobs.complete                                                           *)

\* A success that is stale by the handler's scope ends in a cancel, and anything else in
\* completing the row: the cursor of a row never changes, so it can be judged at once.
\* Broken: a success is checked against the cursor whatever the job's stale policy is.
BrokenPlan(row, outcome, read) ==
    IF outcome = "succeeded" /\ (row.head # ScopeHead(read) \/ row.digest # ScopeDigest)
    THEN "expired" ELSE outcome
Plan(row, outcome, read) ==
    IF outcome = "succeeded" /\ IsStale(row, ScopeHead(read), ScopeDigest) THEN "expired" ELSE outcome

\* A report on an existing job has its scope, some time since the job was made.
Begin(r, j, id, outcome, read) ==
    /\ report[r].pc = "idle" /\ j \in Rows /\ read >= jobs[j].head
    /\ report' = [report EXCEPT ![r] = [pc |-> "scoped", job |-> j, id |-> id,
                                       plan |-> Plan(jobs[j], outcome, read)]]
    /\ UNCHANGED <<jobs, hook, git, ledger, touches>>

\* Of a client that has claimed the job, now or before, and may leave out its id.
Report(r, j, id, outcome, read) ==
    /\ Begin(r, j, id, outcome, read) /\ jobs[j].attempts > 0
    /\ audit' = audit

\* Of the daemon for its audit.  A report whose content is refused is one of a failure.
AuditReport(a, r, outcome, read) ==
    /\ audit[a].pc = "busy" /\ Begin(r, audit[a].job, Daemon, outcome, read)
    /\ audit' = [audit EXCEPT ![a] = IdleAudit]

\* The row is looked at: the report of a job that does not run is refused.
ReportList(r) ==
    /\ report[r].pc = "scoped"
    /\ report' = [report EXCEPT ![r] = IF jobs[report[r].job].status = "running"
                                      THEN [@ EXCEPT !.pc = "listed"] ELSE IdleReport]
    /\ UNCHANGED <<jobs, hook, audit, git, ledger, touches>>

\* The check of completeRuntimeAgentJob, which an id that is missing on either side passes.
\* Broken: a lease that was taken over still lets its former holder report.
BrokenMayComplete(row, id) == row.status = "running"
MayComplete(row, id) == row.status = "running" /\ (id = None \/ row.owner \in {None, id})

\* A failure after the last attempt is dead-lettered.
Completed(row, status) ==
    IF status = "failed" /\ row.attempts >= row.max THEN DeadLettered(row) ELSE Released(row, status)

\* What becomes of the row: a stale one is cancelled whatever its status is by now and
\* whoever holds the lease, another is completed if the check passes.
Settled(row, id, plan) ==
    IF plan = "expired" THEN Released(row, "expired")
    ELSE IF MayComplete(row, id) THEN Completed(row, plan)
    ELSE row

ReportSettle(r) ==
    /\ report[r].pc = "listed"
    /\ jobs' = [jobs EXCEPT ![report[r].job] = Settled(@, report[r].id, report[r].plan)]
    /\ report' = [report EXCEPT ![r] = IdleReport]
    /\ UNCHANGED <<hook, audit, git, ledger, touches>>

-----------------------------------------------------------------------------
(* The operator, the clock, git and the daemon's own end                   *)

\* retryRuntimeAgentJob of a job in any status.
\* Broken: a retry starts the attempts anew.
BrokenRetried(row) == [Released(row, "queued") EXCEPT !.dead = FALSE]
Retried(row) == IF row.attempts >= row.max THEN DeadLettered(row)
                ELSE [Released(row, "queued") EXCEPT !.dead = FALSE]

\* Broken: nothing keeps a second job of the same fingerprint from becoming active.
BrokenUnique(j) == TRUE
\* idx_runtime_job_queue_active_fingerprint, or the statement throws.
Unique(j) == SameWork(jobs[j].kind, jobs[j].head) \subseteq {j}

Retry(j) ==
    /\ j \in Rows /\ touches < MaxTouches
    /\ jobs[j].attempts < jobs[j].max => Unique(j)
    /\ jobs' = [jobs EXCEPT ![j] = Retried(jobs[j])]
    /\ touches' = touches + 1
    /\ UNCHANGED <<hook, report, audit, git, ledger>>

\* cancelRuntimeAgentJob of a job in any status.
Cancel(j, status) ==
    /\ j \in Rows /\ touches < MaxTouches
    /\ jobs' = [jobs EXCEPT ![j] = Released(jobs[j], status)]
    /\ touches' = touches + 1
    /\ UNCHANGED <<hook, report, audit, git, ledger>>

\* Time passes: a debounce or a lease is over.
Tick(j) ==
    /\ j \in Rows /\ jobs[j].waiting
    /\ jobs' = [jobs EXCEPT ![j].waiting = FALSE]
    /\ UNCHANGED <<hook, report, audit, git, ledger, touches>>

Commit ==
    /\ git < MaxCommits /\ git' = git + 1
    /\ UNCHANGED <<jobs, hook, report, audit, ledger, touches>>

\* A ChangeSet or an audit run is appended to the branch's ledger at the present cursor.
LedgerEvent ==
    /\ git <= LedgerUpTo /\ ledger' = git
    /\ UNCHANGED <<jobs, hook, report, audit, git, touches>>

\* The daemon stops and another starts: the calls in flight are lost, and audits are
\* aborted and lose the race to record it; the rows stay as they are.
Restart ==
    /\ hook' = [h \in Hooks |-> IdleHook]
    /\ report' = [r \in Reports |-> IdleReport]
    /\ audit' = [a \in Audits |-> IdleAudit]
    /\ UNCHANGED <<jobs, git, ledger, touches>>

-----------------------------------------------------------------------------
HookStep(h) ==
    \/ \E read \in 0..git : HookScope(h, read)
    \/ HookRead(h) \/ HookList(h) \/ HookSweep(h)
    \/ \E kind \in Kinds, pri \in Priorities, debounce \in Debounces : HookEnqueue(h, kind, pri, debounce)
AuditStep(a) ==
    \/ \E read \in 0..git : AuditScope(a, read)
    \/ AuditEnqueue(a) \/ AuditClaim(a)
    \/ \E r \in Reports, outcome \in {"succeeded", "failed"}, read \in 0..git :
         AuditReport(a, r, outcome, read)
ReportStep(r) ==
    \/ \E j \in JobIds, id \in Workers \cup {None}, outcome \in {"succeeded", "failed"}, read \in 0..git :
         Report(r, j, id, outcome, read)
    \/ ReportList(r) \/ ReportSettle(r)
Operator ==
    \E j \in JobIds : Retry(j) \/ \E status \in CancelStatuses : Cancel(j, status)

Next ==
    \/ \E h \in Hooks : HookStep(h)
    \/ \E w \in Workers : Claim(w)
    \/ \E a \in Audits : AuditStep(a)
    \/ \E r \in Reports : ReportStep(r)
    \/ Operator
    \/ \E j \in JobIds : Tick(j)
    \/ Commit \/ LedgerEvent \/ Restart

Spec == Init /\ [][Next]_vars

(* Time passes and some worker keeps polling; neither it nor any audit need *)
(* ever report.                                                            *)
FairSpec ==
    /\ Spec
    /\ WF_vars(\E j \in JobIds : Tick(j))
    /\ WF_vars(\E w \in Workers : Claim(w))

-----------------------------------------------------------------------------
(* Properties                                                              *)

\* However jobs are queued, reclaimed and retried, no two active jobs do the same work.
OneActive ==
    \A j, k \in Rows :
      /\ jobs[j].status \in Active /\ jobs[k].status \in Active
      /\ jobs[j].kind = jobs[k].kind /\ jobs[j].head = jobs[k].head
      => j = k

\* A lease is held exactly while a job runs, so that the owner check of a report, which
\* passes where there is no owner, and the time check of a claim always see one.
LeaseWhileRunning ==
    \A j \in Rows : jobs[j].status = "running" <=> jobs[j].owner # None

\* A dead letter stays one: no cancel, retry, lost lease or restart lets a job run more
\* often than maxAttempts, or queues it again once they are used up.
DeadForGood ==
    \A j \in Rows : jobs[j].dead \/ jobs[j].attempts > jobs[j].max => jobs[j].status \notin Active

\* At most maxRunningJobs leases of workers are alive, whatever audits, expiries,
\* restarts and retries do in between.
WorkersCapped ==
    Cardinality({j \in LiveLeases : jobs[j].owner \in Workers}) <= MaxRunning

\* Audits opt out of staleness: neither a hook's sweep, an eviction nor a report
\* made at another cursor takes a running audit away, only jobs.cancel does.
AuditSpared ==
    [][\A j \in Rows :
         /\ jobs[j].kind = AuditKind /\ jobs[j].status = "running"
         /\ jobs'[j].status \in {"cancelled", "superseded", "expired"}
         => \E status \in CancelStatuses : Cancel(j, status)]_vars

\* A worker that lost its lease to another, at any moment of its report, does not complete
\* the job of that other: what completes a running job names the lease's owner or nobody.
\* (A client that leaves out its id, or shares it, is not told apart by the code.)
ReportsByHolder ==
    [][\A j \in Rows :
         jobs[j].status = "running" /\ jobs'[j].status = "succeeded"
         => \E r \in Reports : /\ report[r].job = j /\ report'[r] = IdleReport
                               /\ report[r].id \in {jobs[j].owner, None}]_vars

\* A hook leaves no more than maxQueuedJobs queued, retries past the cap included, and
\* makes no room for itself at the expense of a job of higher priority.
HookKeepsCap ==
    [][\A j \in JobIds \ Rows :
         jobs'[j] # None /\ jobs'[j].kind # AuditKind
         => /\ Cardinality({k \in JobIds : jobs'[k] # None /\ jobs'[k].status = "queued"}) <= MaxQueued
            /\ \A k \in With("queued") :
                 jobs'[k].status = "expired" => jobs[k].pri <= jobs'[j].pri]_vars

RefusedAsStale(r) ==
    LET j == report[r].job IN
    /\ report[r].pc = "listed" /\ report[r].plan = "expired" /\ report'[r].pc = "idle"
    /\ jobs[j].status = "running" /\ jobs'[j].status = "expired"

\* While the branch has no ledger event, a success is refused as stale only if something
\* was committed since the hook that made the job looked at the files: the handlers of
\* hook and report read HEAD and files at moments of their own and yet agree.
RefusalFollowsCommit ==
    [][\A r \in Reports :
         ledger = None /\ RefusedAsStale(r) => jobs[report[r].job].digest # git]_vars

\* Whatever the ledger holds, a success at the HEAD its job was made for is refused only
\* because the files have changed: "Stale queued or running jobs are expired [...] when
\* their head or worktree digest no longer matches the current cursor".
FreshReportKept ==
    [][\A r \in Reports :
         RefusedAsStale(r) => LET row == jobs[report[r].job] IN
                              row.head # git \/ (ledger = None /\ row.digest # git)]_vars

\* A job that runs comes to an end: reported, given up or dead-lettered, even if its
\* worker or the daemon died with it.
RunningEnds ==
    \A j \in JobIds : jobs[j] # None /\ jobs[j].status = "running"
                      ~> jobs[j] # None /\ jobs[j].status \notin Active
=============================================================================

# ArchContext: TLA+ models, checks and proofs

ArchContext keeps an architecture model beside a repository. A local daemon owns a
SQLite store and is the only process that writes the repository's model files; CLI
and MCP clients talk to it over a local socket. This directory holds TLA+ models of
the parts whose correctness depends on the order of things: crashes, retries,
failing calls, other writers. PROJECT.json maps each definition to the source lines
it stands for and lists the components, runs, hazards, findings and theorems.

Source paths below are relative to `src/packages/`. Abbreviations: *engine* =
`core/changeset-engine/src/index.ts`, *store* = `local-runtime/local-store-sqlite/src/index.ts`,
*daemon* = `local-runtime/runtime-daemon/src/index.ts`, *authority* =
`local-runtime/runtime-daemon/src/changeset-authority.ts`, *audit* =
`local-runtime/runtime-daemon/src/audit.ts`, *jobs* =
`local-runtime/runtime-daemon/src/agent-jobs.ts`, *rpc* =
`local-runtime/runtime-daemon/src/rpc-server.ts`, *control* =
`local-runtime/runtime-daemon/src/daemon-control.ts`, *cli* = `surfaces/cli/src/main.ts`,
*explorer* = `explorer-projection-service.ts` and `explorer-server.ts` beside them, *page* =
`local-runtime/explorer-html/src/index.ts`.

## 1. Inventory

| Component | State | Operations | Hard behaviour | What makes it correct | Here |
|---|---|---|---|---|---|
| ChangeSet write path (engine, store) | repository files, `.archctx-backup` and `.archctx-tmp` files, `changeset_journal` rows | plan, apply (record, move aside, write, publish, per file), commit with the ledger append, cleanup, rollback, abort, recovery at start | a kill between any two system calls, failing rollback or cleanup, edits by other tools, rows of older builds | all or nothing; finished rows stay finished; event iff committed; foreign bytes that a check has seen are kept | modelled, proved in part |
| Writer gate (daemon, authority) | `writerLocked`, cached unresolved journals, refresh flag, planned drafts | `withWriter`, `planUpdate`, `applyUpdate`, start, stop, status | a stale cache after a failed read; a pending row while serving | never two unfinished ChangeSets; the gate knows each pending row | modelled, proved |
| Audit issue publishing (audit, GitHub executor) | `audit_runs` rows per scope, GitHub's issues, the handler's copy | `audit approve`, `--resume` | a create that lands while its call fails; a kill; a bounded listing; a scope that changes | nothing filed twice; records true; issued means complete; at most one orphan | modelled, proved |
| Architecture ledger | `architecture_events`, projections, snapshots, change feed | append (compare-and-swap, idempotency), change feed, replay, rebuild, restore | retries with the same key, rebuild racing appends | replay gives the read model; one event per key; the feed loses nothing | the append of a ChangeSet, and the feed |
| Agent job queue (store, jobs, audit) | `runtime_job_queue` rows with leases and dead letters | enqueue with dedup, supersede and eviction; claim, report, retry, cancel, sweep; the audit's job | expired leases, shared and missing worker ids, scopes and lists read before awaits, restarts | one active job per fingerprint; bounded attempts; a report completes what its worker holds; a refusal has a cause; caps | modelled, proved |
| Daemon lifecycle (rpc, control, cli, store) | lock and connection files, socket, writer ownership of the store | start, stop, idle exit, failed start, client's create-or-start, calls | crashes between two system calls; files judged by a read and removed by path; a request at idle exit; a stop that overtakes an idle exit or follows a stop; clients that give up; process ids used again | one daemon serves, owns the store and can be found; recovery waits for the writer before it; a client is answered or can retry | modelled, proved |
| Cloud review challenges | challenges, leases, nonces, submissions, check deliveries | create, claim, heartbeat, submit, retry, supersede, cancel, publish | lease expiry while submitting; a late success against a supersede; duplicated webhooks | a nonce is used once; a superseded challenge publishes nothing | not modelled, see section 7 |
| Projection apply | receipts, projection manifest | apply, adopt, recover a lost answer | the client loses the answer; a receipt is consumed once | recovery answers exactly what was applied | planned |
| Explorer (explorer, store, page) | the feed's consumer, cached projections, the session's streams, browser pages | drain the feed, compile, cache, invalidate, serve, notify, reload | overlapping drains, inputs read across awaits, at-least-once delivery, lost streams | nothing acknowledged unannounced; no projection mixes cursors; a live page follows | modelled, proved in part |
| Committed-change acceptance | accepted journals | preview, accept | an ordered chain accepted once | each journal accepted once, in order | planned, with the ledger |
| Developer review run, GitHub app, audit consent | run records, deliveries, consent file | | retries, duplicated deliveries | | not modelled, see section 7 |
| Refactor, recommendations, practices, policies, pressure, model store, retrieval, contracts, surfaces, adapters | none, or a model read from disk | pure evaluation, parsing, rendering, process calls | | | not modelled: no state machine of their own |

Interactions. A client's `apply` reaches the authority, which takes the daemon's
writer, calls the engine, and passes it a callback that appends the ledger event and
commits the journal row in one SQLite transaction. `auditApprove` takes the same
writer for its whole duration, calls `gh`, and appends ledger events, each of which
writes the `audit_runs` row. Audits, deliveries and the explorer run beside the
writer and meet it in the store only. Starting the daemon cleans, rolls forward and
undoes journal rows before the socket is served. A git hook enqueues a job for the
commit, a worker claims it over RPC and reports; an audit enqueues, claims and reports
a job of its own in the daemon. Every append to the ledger is followed by a drain of
the change feed, which marks cached projections and tells the browser's pages.

## 2. Modules

### ChangeSetJournal: the journaled write path

One daemon, one writer, several ChangeSets in sequence. State and code:

| Variables | Code |
|---|---|
| `disk`, `backup`, `temp` | a repository file, its `.archctx-backup`, whether a `.archctx-tmp` is beside it |
| `status`, `draftOf`, `base`, `files`, `planned`, `cleaned` | a `changeset_journal` row: status, ChangeSet, base tree, recorded entries, the planned ledger event (by its source tree), `cleanup_completed_at` |
| `events` | the `architecture_events` that ChangeSets appended |
| `mode`, `todo` | the daemon's phase of life; the rows a starting daemon has still to visit |
| `job`, `pc`, `pos`, `pushed`, `blocked` | the engine's or recovery's position in its loops |
| `raced` | a history variable: the paths that were edited between a check and the system call that relies on it |
| `unresolved`, `dirty` | `unresolvedChangeSetJournals`, `changeSetRecoveryRefreshRequired` |
| `plans` | drafts planned in this process |

Actions follow the code's steps between two points where it can be killed or can
fail. Apply: `Plan`, `Begin` (gate, revalidation, journal insert), `RecordFile`,
`Recheck` (the second look at the preimage), `MoveAside` (its rename), `WriteTemp`, `Publish`, with `Refuse`, `MoveFails` and
`MoveVanished` for what refuses or fails; `Written` and then `Commit`, or `PlanEvent` with
`AppendAndCommit` or `AppendConflict`; `CleanFile`, `CleanDone`, `CleanFails`; `Fail`,
`RollbackCheck` (the look at a manifest), `RollbackFile` (the removal), `RollbackRename`
(the rename back), `RollbackFails`, `Abort`; `Settle` (the `finally` of `withWriter`)
and `RefreshGate`. Start: `Start`, `CleanRow`, `FindPending`, `RollForward`,
`RecoverRow`, `UndoFile`, `UndoFileRename`, `UndoDone`, `UndoFails`, `Ready`.
Environment: `Crash`, `Edit`.

A check and the rename or removal that follows it are two steps, and `Edit` may come between
them, as another process's write may. What it writes there is lost, which the documentation says
(`docs/runbooks/crash-recovery.md`: "no unconditional cross-process isolation is promised");
`raced` remembers such paths, and the properties about edits are stated for the others.

Abstractions. A file's body and its digest are one value. The specialised
operations (candidate files, ADR references, manifest fields) are a body per
operation and whether the kind verifies the preimage again (`Rechecked`). The
source digest in an idempotency key is the whole tree, and timestamps of two applies
differ. Receipts, rendering and the content of a ledger event are left out.

### AtomicChangeSet and ChangeSetAtomicity: the promise and the refinement

`AtomicChangeSet` is what a user is promised: the repository moves from one tree to
the next in one step, together with its ledger event, or not at all, with one
ChangeSet open at a time. `ChangeSetAtomicity` maps the detailed state to it: while
a row is pending and its event is not in the ledger the repository's tree *is* the
tree it began on, whatever the files hold. It also defines the states that an older
build leaves behind (an appended event whose row is still pending; committed rows
without a recorded cleanup) and the specification that starts there.

### AuditPublish: filing an audit's drafts as GitHub issues

| Variables | Code |
|---|---|
| `issues` | GitHub's issues of the repository, by number; an entry is the draft its footer names, or `Other` |
| `rows`, `latest` | `audit_runs` by scope (HEAD and worktree digest); the scope of the branch's latest event, in which readers look |
| `tree` | the present HEAD and worktree |
| `pc`, `head`, `run`, `listed`, `pos`, `answer` | `auditApprove`: its place, its session's HEAD, its copy of the run, the issues listed, the draft it is at, the issue number it has |

`Approve` and `Refuse` are the gates, `AppendIntent` the event before any call,
`List`, `Skip`, `Reuse`, `Create`, `Answered`, `Inconclusive`, `Record`, `Finish` and
`Interrupted` the loop. `Inconclusive` and `Crash` let a request in flight land or
not. `Edit`, `OtherEvent` and `OtherIssue` are other people and other work of the
daemon. The confirmation token, consent, egress admission and draft validation are
one refusing action: they change nothing. An event's `createdAt` makes it distinct
from every other, as the code's clock does.

### AgentJobQueue: the queue of investigation jobs

| Variables | Code |
|---|---|
| `jobs` | the rows of `runtime_job_queue` |
| `hook` | the `jobs.enqueueGitHook` handlers: the scope each has resolved, the HEAD its job is made for, the stale jobs it has listed and has still to cancel |
| `report` | the `jobs.complete` handlers: the row, the worker id or none, and what the handler is about to make of the row |
| `audit` | the audits the daemon runs: the scope's HEAD, the job, how far it is |
| `git`, `ledger` | HEAD and worktree as a count of commits; the cursor of the branch's latest event, from which the store takes the scope |
| `touches` | the operator's retries and cancels so far |

A handler is cut where it awaits. A hook is `HookScope` (HEAD at some moment since it came in,
and then the worktree's digest), `HookRead` (the change, with git's HEAD), `HookList` (the stale
jobs), `HookSweep` (a cancel each, whatever the row is by then) and `HookEnqueue`, one
transaction that deduplicates, supersedes a coalesced kind and evicts. So a job may carry
a new HEAD with an older digest, as in the code. A report is `Report` or `AuditReport` (its
scope, and with it whether a success is stale: a row's cursor never changes), `ReportList`
(the row runs) and `ReportSettle` (completed, refused or cancelled as stale). Any client
claims and reports with any worker id, several with one, and a report may leave its id out.
Further `Claim`, `AuditScope`, `AuditEnqueue`, `AuditClaim`, `Retry`, `Cancel`, `Tick` (a debounce
or a lease runs out), `Commit`, `LedgerEvent`, `Restart` (handlers and audits are gone, rows
stay). The transitions that the contracts list in `AGENT_JOB_STATE_TRANSITIONS` are not
consulted by the store and are not in the model. Left out: cooldowns and budgets, to which the
callers pass constants that always allow, several repositories in one store, and the
investigation itself. A report begins on a row that was claimed at least once: the RPC
needs the id of the job, which only a claim or the operator's list gives.

### DaemonLifecycle: one daemon per worktree

| Variables | Code |
|---|---|
| `proc`, `twice` | how far each daemon process is in `runForegroundDaemon`, `start` and `stop`; whether a second stop came while it stopped |
| `owner` | who holds the exclusive SQLite lock on the store's ownership file |
| `lock`, `conn` | the control files: absent, empty, or naming a daemon |
| `calls`, `lost` | the clients that wait for an answer, by daemon; the daemons in which a handler runs on whose client is gone |
| `work` | daemons whose `hasActiveBackgroundWork` is true: jobs of an open session, or an audit |
| `exit`, `used` | how far an idle exit is (waiting for the connection file, removed it, ending); whether a client reached the daemon meanwhile |
| `client` | a CLI process in `createOrStartRuntimeRpcClient` and `startBackgroundDaemon` |
| `raced` | whether a process has removed a file of another, live daemon |
| `reused` | whether processes that are no daemons have the ids of dead ones |

A file is created and written in two steps, and judged and removed in two: `WriteLock`,
`JudgeLock`, `RemoveLock` and their like are system calls. A request is a connection and a
handler: `Respond` ends both, `Abort` (a deadline, a signal, the client's death) only the
connection, `Finish` the handler. A stop is `Stop`, `CloseStore` (when the *connections* are
closed, which is what `server.close` waits for), `Unpublish`, `Unlock`, and then `Leave`: nothing
ends the process but that nothing runs in it any more, so a stopped daemon lingers with its
handlers. `StopAgain` finds no server to wait for and closes the store at once. An idle exit is `IdleBegin` (no
request, no background work), `IdleRemove`, and then `IdleStay` if a client came, `IdleLeave`, or,
after a stop during the wait, `IdleOver` and `IdleEnd`, which is one more stop and the end of
the process. `Ends` is the end of a process, by a crash or not: the lock on the store goes
with it, the files stay. The ids of dead processes are one, since nothing tells them apart;
`Reuse` gives them to other processes for a while, and the files that name them look live
(`isProcessAlive` asks for an id). The two rounds of discovery in `createOrStart` are one
action, since the second repeats the first. Requests that write after the store was closed
under them are not modelled, nor an idle timer that is switched off (`--idle-timeout-ms 0`).

### ExplorerFeed: the change feed and what hangs on it

| Variables | Code |
|---|---|
| `head`, `checkpoint`, `delivered` | events of the worktree, each with its feed record; the consumer's row |
| `announced` | records whose page notification was sent |
| `cached`, `invalid` | `explorer_projection_cache`, and the rows with `invalidated_at` |
| `task` | each page's request and each operation that appends: its step, its cursor, the batch of records it holds |
| `page` | what a browser tab shows, whether its stream is open, whether its reload is due |

`Commit` appends and drains; `List`, `ProcessRecord` and `Acknowledge` are the drain, run by
any number of tasks at once. A request is `ReadAuthority`, a drain, `ReadInputs` (the rows,
read only while the cursor is current, and the lookup under the digest of all inputs),
`Compare`, `Save`, `Serve`, `Subscribe`. `Visit` and `Reload` are the browser. `Fail` is a
failing call, `EndSession` stop, revoke and expiry, `Crash` the daemon's end.

Abstractions. A projection is its query, the event its cursor names and the event its
rows were read at; two inputs that agree on these are equal. Which cached projections a
record or a comparison concerns is any set of them. The reads of the ledger's rows within
one request compare the same cursor and are one step. The files' own digest is not kept:
a request may find them changed wherever it looks. All pages show one view.

### MCChangeSetJournal, MCAuditPublish, MCAgentJobQueue, MCDaemonLifecycle, MCExplorerFeed

Model values, the drafts' operations, priorities and queries, and the symmetry of the
instances.

### The modules named ...Proofs

The theorems, see section 5. Those of the write path build on one another:
`ChangeSetJournalProofs` (rows and positions), `ChangeSetFilesProofs` (backups and
temporary files), `ChangeSetRecoveryProofs` (the tree before), `ChangeSetAtomicityProofs`
(the refinement). The others have one each: `AuditPublishProofs`, `AgentJobQueueProofs`,
`DaemonLifecycleProofs`, `ExplorerFeedProofs`.

## 3. Runs

| Run | Question | States |
|---|---|---|
| `crash` | two ChangeSets with the ledger, two failing calls and two crashes anywhere: types, one pending row, the gate, ledger and journal, recoverability of the preimage, litter, finality, backups, refinement of `AtomicChangeSet` | 661,492 |
| `upgrade` | the same started on what an older build left: an applied ChangeSet is rolled forward, never undone | 287,133 |
| `writers` | somebody writes a file between any two system calls, whether the daemon is down, starts or serves, with two failing calls, a crash and failing cleanups, without the ledger: an edit is lost only between the re-read and the rename, foreign manifest bytes only if they came after the check; with fairness, an apply gives the writer back and a pending row is settled or closes the gate | 758,220 |
| `backup_lost` | violation, see section 6 | |
| `audit_publish` | three drafts, failing calls, a crash, resumes, edits and other issues: the five invariants | 1,157,496 |
| `audit_forgotten` | violation, see section 6 | |
| `agent_jobs` | a hook, two worker ids and a report, a commit, restarts at any time, a retry or cancel: one active job per fingerprint, leases, dead letters, the queue's cap, reports by the holder, refusals after commits | 1.8 million |
| `agent_audits` | an audit beside a hook, a worker and a report: the cap on leases, a running audit is spared; with fairness, a running job ends, whoever died with it | 919,553 |
| `agent_stale` | violation, see section 6 | |
| `daemon` | two daemons at a time, any two of crashes, stops, deadlines and reused ids, races for the control files: one server, named by its files, recovery after the answers; with fairness, a client that looks for a daemon reaches one | 302,869 |
| `daemon_recovery` | violation, see section 6 | |
| `explorer` | two pages and an operation that commits twice, one failing call or crash: the feed, whole projections; with fairness, the consumer catches up and live pages follow | 214,226 |

Bounds, and why they show the interesting cases:

- Two paths, one the projection manifest, which the engine defers and whose
  rollback has rules of its own. Draft `d1` writes the manifest first (so that it is
  reordered) and another path twice (create and overwrite); `d2` deletes that path.
  Every initial tree is explored, so each write is a create in one and a replace in
  another. Three entries give every prefix of done and undone moves.
- Two or three journals: the pending row, one more ChangeSet that must not begin or
  whose backup name collides, and for the backlog one that the start does not reach.
  `CleanupLimit` 1 or 2 stands for 100.
- In `crash`, two faults and two crashes: a failing apply whose rollback fails too; a crash whose
  recovery crashes. Recovery can meet every intermediate state it produces itself.
- In `writers`, one journal, one crash and two faults, beside cleanups that may always fail: a
  failing apply whose rollback fails, a start over what that left, and a crash of either. The
  commit is the one without a ledger event, which the other passing runs of the write path do not take.
- One foreign edit, at any step, of any path to any body or to nothing: in each window and
  outside of all. The theorems are for any number of edits.
- Publishing: three drafts (before, at and after the failing one), two commits and
  two worktree states (the scope is left and returned to), two other issues, and a
  listing of four: room for all drafts with one other issue, and too short with
  two. Two faults and one crash. The limit stands for 100.

- Jobs: two rows are a job and the one that must not be active with it, supersedes it or
  is evicted for it; two worker ids and one `MaxRunning` are a lease that has run out and the
  claim that takes it over; two attempts are the last and one before. One commit makes a
  job stale, and splits what a handler reads. One report at a time: two reports meet only in the
  row, and what the second finds there a claim, a cancel or a restart leaves as well. A ledger
  event in `agent_jobs` is one of the first commit (`LedgerUpTo` 0). Audits have a run of their
  own (`agent_audits`, one worker id), as they meet hook jobs only in the queue. With two rows an
  enqueue evicts at most one job; that several evictions keep the cap is proved only.
- Daemons: two ids are enough for a daemon that dies or stops and its successor, as ids are
  used again. Two faults allow a crash in the recovery from a crash, a stop after a stop, a client
  that gives up on a daemon that is stopped. Starts, idle exits and calls are not bounded. There is
  one client, and no symmetry, as the run checks liveness: a client that gives up on a daemon that
  is still starting starts a second one, so two starters race, and judges the files that the first
  one writes. The safety properties are proved for any number of clients.
- Explorer: two pages ask different things, so that each save concerns the other and the
  cache of one is always full; two records with a page of one make a drain list again, and
  let one drain overtake another. One fault at any step.

`CHECK_DEADLOCK FALSE` is given where the instance ends: journals, edits, faults or
crashes are used up, and the daemon then rests.

Each property is also run against a deliberate bug (`Broken...` and `Stuck...`
definitions, PROJECT.json "mutants"), which it finds.

## 4. Fairness

In `writers`. `WF(Apply)` and `WF(Startup)`: the daemon's event loop runs
its own code to the end once it has begun, and nothing in these steps waits for
another party. `WF(Start)`: a client that finds no daemon starts one
(`createOrStartRuntimeRpcClient`), so a store does not stay unattended while someone
works with it. There is no fairness on planning, on beginning an apply, on edits,
faults or crashes; `Settle`, which may be the refresh that fails, is part of `Apply`.

In `agent_audits`. `WF` of `Tick`: leases and debounces run out. `WF` of some worker's `Claim`:
someone keeps polling, which is what dead-letters and takes over lost jobs; no worker, hook or
audit has to report or go on, so `RunningEnds` is about those that died.

In `daemon`. `WF` of what a process does by itself once started, of a handler's end, of
the answer to a request in flight, of the idle timer where it is not switched off, and of a
client's next step. `SF(Reach)`: a poll comes every 50 ms and the idle timer after half an
hour, so a daemon that comes up again and again is met by one. `Reached` has three premises, for
what nothing in the code bounds: only finitely often does a process remove the file of another, live
daemon; again and again a daemon has no background work (an orphaned daemon with a job that
no worker can reach puts its idle exit off for ever, keeps the store, and no client is
answered); and again and again no other process has the id that a stale file names.

In `explorer`. `WF` of each task's drain and of each request: the event loop goes on with what it
has begun. `WF(Reload)`: a page's timer fires. Nobody has to visit a page, commit or open a
session. Both properties have the premise that the feed is drained now and then: the code
drains only on an append and on a request, and a failed drain is not retried by itself.

## 5. Proofs

All constants are arbitrary: any sets of paths, bodies, drafts and journals, any
operations, any bounds. The assumptions are named in the modules:
`FilesAssumption` (the manifest is a path, "missing" is no body, `Writes` gives
sequences of operations), `EnvironmentAssumption` and `PublishAssumption` (types of
the bounds; at least one draft, as `audit-drafts-required` demands),
`QueueAssumption` and `RowAssumption` (caps and attempts are positive; an audit's kind and
worker id are no hook's), `LifecycleAssumption` and `FileAssumption` (no daemon is `None`),
`ExplorerAssumption` (a page is no committing operation; the sizes are positive).

`ChangeSetJournalProofs`. `IInv` strengthens the type invariant with
- `IndexOK`: at each step the loop index names an entry of the row it works on (so
  `TypeOK` is inductive: without it the index could pass zero);
- `PhaseOK`, `RowOK`: which steps each phase of the daemon runs, and the status of
  the row it works on and of the rows still to visit. This is the missing status
  check of `commitChangeSet` and `abortChangeSet`, in the order of the callers;
- `PendingOK`: at most one row is pending, and a resting daemon's cache holds it or is
  dirty. Neither holds alone: the gate is what keeps a second apply from beginning;
- `LedgerOK`: an event in the ledger is one of a committed row. The converse, `CommitsAppended`
  (in dual mode every committed row has its event), is an invariant of its own: it does not
  hold of rows that an older build committed, and the rest must hold there too.

From it: `TypeCorrect`, `OnePending`, `GateKnows`, `LedgerAgrees`, and the action
property `Finality`.

`ChangeSetFilesProofs` needs no more than the assumptions. The lemma `StepShape` says
what each step does to rows and files, whichever of the thirty-odd actions takes it; the
parts of `FilesInv` are proved over these shapes:
- `OwnedOK`: a backup belongs to an entry of a row that is pending or whose cleanup is owed;
- `TempOK`: a temporary file is there while it is published, or until its entry is undone;
- `MovedOK`: what the apply under way has moved aside is in its backup;
- `LoopOK`: undoing and cleaning up leave no backup behind the loop index, which is why a
  row that is finished owns none;
- `EntriesOK`: a row's entries are its draft's operations from the first on, and only the
  last entry of a path can have found a file there (an earlier backup refuses a second
  one). Two moves into one backup name would lose the first file; this excludes them.

From it: `NothingIsLeft` (`NoLitter`). With `RecheckOK`, which carries the check of the
preimage from the journal write to the cleanup, `PreimagesDeleted`
(`CleanupDeletesOnlyPreimages`). With `ManifestOK`, which holds what
`recoverJournalFiles` established before its loop, and the lemma `OpOrder` (the manifest
is written last and once), `ManifestKept` (`ExternalManifestKept`). Both hold with edits at any
moment, and both say where an edit is lost: `raced` holds a path from an edit between a check and
the call that relies on it until the run ends. `FileChecked` carries the second look at a preimage to
the rename, `ManifestInHand` the look at a manifest to its removal and the rename back, and
`ManifestLooked` that of a recovery, which looks once, before its loop.

`ChangeSetRecoveryProofs` assumes `CleanupWorks`: deleting a backup and recording it succeed,
and the limit of one start's cleanups is not zero (it is 100). Without it the claims are false, as `backup_lost`
shows. `BacklogOK` then says that one start can clean up all that is owed (`Few`), and that
nothing is owed while a row is pending; from it `BackupsKept` (`BackupsOfPendingKept`). `TreeOK` describes, for every
prefix of entries recorded, done and undone, which paths are still as they were and
where the old content of the others is; from it `Recoverable` (`PreimageRecoverable`).

`ChangeSetAtomicityProofs` shows that the write path implements `AtomicChangeSet`
(`Atomicity`, for `Atomic`), under `CleanupWorks` and with no edits. `AppliedOK` says that the last entry of
each path is on disk while an apply runs; `SameOrder` that deferring the manifest keeps
the order of the writes to each path; `AllWritten` puts them together: a commit finds
exactly the tree that the draft makes of the one it began on. `TreeOK` at index zero is
the other half: an abort, or a recovery, finds the tree it began on. `Begin` is the
abstract `Open`, a commit `Apply`, an abort or a completed recovery `Discard`, and every
other step a stutter.

The same module proves the two properties of the run `upgrade`, of which `IInv` is not an
invariant: an older build may leave a row pending whose event is in the ledger. The
invariant is a disjunction. Either the store is `Late`: there is one such row (`Behind`), it
is the only row, and a start can do nothing but visit it, delete its backups and commit
it. Or it is as this build leaves it, and `IInv`, `FilesInv` and what follows from
them hold. A store leaves the first case for good when the row is committed. That gives
- `AppliedIsKept` (`UpgradeKeepsApplied`), where deleting backups does not fail, with any edits and
  any faults elsewhere. If it fails the row stays pending, its error recorded, for a later
  start, and the daemon serves with its gate closed;
- `UpgradedAtomicity` (`AtomicSteps`), under `CleanupWorks`, with no edits, and with `Few` in the
  first state. The last is needed: migration 0011 makes the cleanup of every committed
  row owed, and with more rows than the limit a start can delete the backup of a newer pending row,
  the finding `backup_lost`; TLC finds `AtomicSteps` violated with three rows and a limit of one.

The first state puts an apply's results on disk without its steps. The lemmas `Least` and
`Greatest` (a nonempty set of positions has a first and a last member, from the library's
facts on finite sets) and `ResultType` relate that tree to the draft's operations.

`AuditPublishProofs`. `IInv` adds to the types
- `RecordsOK`: every row, the handler's copy, and the answer about to be recorded name
  issues filed for their drafts;
- `LoopOK`: what precedes the loop's draft is recorded;
- `UniqueOK`: while the listing is complete, the handler has listed every issue of the
  drafts still to file, which is why `Create` cannot duplicate one;
- `OrphanOK`: while the scope stays, whatever precedes a filed draft is recorded.

From it: `PublishTypes`, `RecordsTrue`, `IssuedComplete`, `NoDuplicateFiled`,
`OneOrphanAtMost`.

`AgentJobQueueProofs`. `IInv` adds to the types, `OneActive` and `WorkersCapped`
- `RowsOK`: a row is leased exactly while it runs, and is not active with its attempts
  used up;
- `ReportsOK`: a report that has begun is about a row that exists, and is about to expire
  none of an audit;
- `HooksOK`: a sweep has listed rows that exist, and none of an audit.

From it: `QueueTypes`, `OneActiveJob`, `LeasedWhileRunning`, `DeadLettersStayDead`,
`CappedWorkers`. The lemma `RowStep` says how any step may end a running row; with it
the action properties `AuditsAreSpared` and `ReportedByHolder`. `HooksKeepTheCap` counts the
queued rows before and after an enqueue, a supersede and its evictions. A second invariant,
`CursorsOK`, says that a hook looks at the files before it reads HEAD and that what a report has
found stale stays so; from it `RefusalsFollowCommits`.

`DaemonLifecycleProofs`. `IInv` adds to the types
- `OwnerOK`: the store is owned from the first step of a start until it is closed, which a
  second stop does early;
- `InUse`: requests, handlers, idle exits and second stops belong to daemons that got that far;
- `NamesLive`: a file names a daemon that got as far as to write it and has not ended;
- `LockOK`, `ConnOK`: until another process has removed a file of a live daemon, what each file
  says at each step of a start, a stop and an idle exit.

From it: `LifecycleTypes`, `OneServerOnly`, `ServersAreNamed`, `AnswersComeFirst`
(`RecoversAfterAnswers`). The lock file plays no part in `OneServerOnly`: the store's ownership
alone carries it.

`ExplorerFeedProofs`. `IInv` adds to the types and the two invariants
- `DrainsOK`: a drain has announced every record before the one it is at, and its batch
  ends at a record that exists. This, and not the order of drains, is why a drain that
  overtakes another may acknowledge for both;
- `InputsOK`: a request that has its inputs has those of its cursor.

From it: `ExplorerTypes`, `NothingIsSkipped`, `ProjectionsAreWhole`.

Every safety property that a passing run checks is the statement of a theorem. Only
model-checked: the liveness properties `PendingSettles`, `WriterIsFreed`, `RunningEnds`,
`Reached`, `FeedIsDelivered` and `LivePagesFollow`. Liveness under fairness is out
of the proof system's reach and stays with the model checker, as does what a
recursive definition would compute; the modules have none.

## 6. Findings

- `backup_lost`. A start cleans committed rows *before* it recovers pending ones, and
  backups of a path share one name. A committed row whose cleanup is still owed (a
  backlog longer than `CHANGESET_STARTUP_CLEANUP_LIMIT` after an upgrade, or an earlier
  failed cleanup) takes the backup of a newer pending ChangeSet on the same path.
- `audit_forgotten`. A run's row is keyed by HEAD and worktree digest, and readers
  look in the scope of the branch's latest event. After an interruption, an edit or
  commit and any other event, `approve --resume` does not find the run. Going back to
  an earlier scope finds the row as it was there; `OneOrphan` is therefore stated, and
  proved, for a worktree that stays (with three edits the claim fails without that
  condition: an intent appended from an older row replaces a newer one).
- `agent_stale`. A report, and the sweep of the next hook, compare a job's HEAD, which the
  hook took from git, with the scope of the branch's latest ledger event. Once the branch has
  an event, a job of a later commit is refused as stale although HEAD is its own. Without an event
  a job may carry HEAD with an older digest, because the hook resolves its scope before it
  reads HEAD; its success is then refused as well. `RefusalFollowsCommit` is what does hold
  without an event, and is proved: a refusal means that something was committed since the hook
  looked at the files.
- `daemon_recovery`. A stop waits for connections, not for handlers. If a client gives up while
  its request is handled, one stop closes the store under the handler, and the next daemon owns
  and recovers the store while the handler runs on in the lingering process. A second stop does
  the same while clients still wait. `RecoversAfterAnswers` is what does hold, and is proved.

Seen while modelling, in behaviour the models have, without a run of its own:

- The sweep of a hook lists jobs and cancels each after an await, and `cancelRuntimeAgentJob`
  (store 2154) looks at no status: a job that succeeds in between is overwritten as expired, though
  the contracts' table (`AGENT_JOB_STATE_TRANSITIONS`) has no way out of `succeeded`.
- The older of two overlapping hooks may sweep last, and then expires the job of the newest commit.
- The search for an issue that was filed but not recorded looks at the newest 100 issues only, so a
  draft can be filed twice, though `docs/runbooks/local-core-quickstart.md` says "already-filed drafts
  are never re-published". `NoDuplicateWhileListed` is what does hold, and is proved.
- A daemon that no file names, with a job that no worker can reach, keeps the store: its idle
  exit is put off for ever, and a file whose process id was given to another process looks live
  as long as that one does. Both are premises of `Reached`.
- An idle exit that waits for the connection file, overtaken by a stop, removes the next
  daemon's file by its path.
- Two pages of one view with different queries reload each other without end: the page
  compares the view's digest, which does not depend on the query.
- A page opens its stream after it was rendered; a record announced in between is missed.
- Saving a projection that is cached and marked keeps its mark, and the collection in the
  same transaction deletes it: the next request compiles it again.
- A request that fails when a page reloads makes the page drop its token.

## 7. Not modelled

Signatures, digests, schemas and rendering (pure functions); file descriptors and
permissions; the text of events, drafts and messages; consent and egress. A `gh`
request that outlives its process and lands after the next listing is not modelled:
nothing in the code can tell it from an issue that was never filed.

Cloud review challenges, check deliveries and the GitHub app: the control plane exports
steps over rows that its caller reads and writes. The service that calls them, with its
database and its transactions, is not in the repository, so neither the order nor the
atomicity of the steps can be read off the source. The developer review run depends on it.

Of the modelled parts: Windows access lists and the waits around removals (but for that of
an idle exit), upgrades of a running daemon and the legacy lock of older builds, a lock that
vanishes while it is read, an idle timer that is switched off, the writes of a handler after its
store was closed under it, the embedded runtime, audits that outlive `assertRunning`; the delta between two
projections, pins, age and byte limits of the cache, the record of deferred drains.

## 8. Plan

In order of weight:

1. **Composition** of DaemonLifecycle with ChangeSetJournal: "claims exclusive writer
   ownership for the lifetime of this handle" as the abstract specification of ownership,
   and a write past an await that reopens the store after a stop has closed it.
2. **ArchitectureLedger**: append with compare-and-swap and idempotency, replay, snapshots,
   rebuild, restore, and the acceptance of committed changes as an ordered chain.
3. **ProjectionApply**: receipts consumed once, as a refinement of the journal's rows.

-------------------------- MODULE ChangeSetJournal --------------------------
(* The write path of the local runtime: ChangeSetEngine.apply of             *)
(* packages/core/changeset-engine together with the changeset_journal table  *)
(* of packages/local-runtime/local-store-sqlite and the writer gate of the   *)
(* daemon.  One daemon process owns the store; it applies one ChangeSet at a *)
(* time as a sequence of file operations, each announced in the journal      *)
(* before a file is touched.  The process may be killed between any two      *)
(* system calls, a call may fail, and an editor may change repository files  *)
(* at any time.  The next start cleans up committed rows and undoes pending  *)
(* ones before the daemon serves again.                                      *)
(*                                                                           *)
(* A definition named Broken... or Stuck... is a deliberate bug in the       *)
(* definition after it; the properties are run against each.                 *)
EXTENDS Naturals, Sequences, FiniteSets

CONSTANTS
  Path,          \* repository paths a ChangeSet may write
  Body,          \* file bodies
  Missing,       \* the digest "missing": no file at the path
  Manifest,      \* docs/architecture/.projection-manifest.json
  Draft,         \* planned ChangeSets
  Writes,        \* Writes[d]: the file operations of draft d, in draft order
  Rechecked,     \* drafts whose operation kind re-verifies the preimage
  Journal,       \* journal ids
  None,          \* no journal, no plan, no event
  WritesLedger,  \* the ledger write mode appends an event with each commit
  CleanupLimit,  \* CHANGESET_STARTUP_CLEANUP_LIMIT
  CleanupMayFail,\* whether deleting a backup, or recording that, may fail
  EditModes,     \* daemon modes during which the editor is explored
  MaxEdits, MaxFaults, MaxCrashes   \* bounds on the environment

Content == Body \cup {Missing}
Tree    == [Path -> Content]
Entry   == [path : Path, body : Content, existed : BOOLEAN]
Status  == {"none", "pending", "committed", "aborted", "recovered"}

ASSUME FilesAssumption ==
  /\ Missing \notin Body
  /\ Manifest \in Path
  /\ Writes \in [Draft -> Seq([path : Path, body : Content])]
  /\ Rechecked \subseteq Draft

ASSUME EnvironmentAssumption ==
  /\ None \notin Journal
  /\ None \notin Tree
  /\ WritesLedger \in BOOLEAN
  /\ CleanupMayFail \in BOOLEAN
  /\ CleanupLimit \in Nat
  /\ {MaxEdits, MaxFaults, MaxCrashes} \subseteq Nat

VARIABLES
  disk,       \* the file at each path
  backup,     \* the file at path.archctx-backup
  temp,       \* paths with a .archctx-tmp file beside them
  status, draftOf, base, files, planned, cleaned,  \* changeset_journal rows
  events,     \* architecture_events appended by ChangeSets
  mode,       \* the daemon: down, clean or recover (starting), up
  todo,       \* rows the current start phase has still to visit
  job, pc, pos, pushed, blocked,  \* the apply, cleanup or undo under way
  raced,      \* paths edited since that looked at them: a history variable
  unresolved, dirty,  \* the daemon's cached recovery gate
  plans,      \* drafts planned in this process, with the tree they saw
  edits, faults, crashes

fileVars == <<disk, backup, temp>>
rowVars  == <<status, draftOf, base, files, planned, cleaned>>
stepVars == <<job, pc, pos, pushed, blocked>>
runVars  == <<stepVars, raced>>
gateVars == <<unresolved, dirty>>
envVars  == <<edits, faults, crashes>>
vars == <<fileVars, rowVars, events, mode, todo, runVars, gateVars, plans,
          envVars>>

-----------------------------------------------------------------------------
(* The operations of a draft, in the order apply performs them.              *)

\* The index of the draft's manifest write, past the end when it has none.
ManifestIndex(d) ==
  IF \E i \in DOMAIN Writes[d] : Writes[d][i].path = Manifest
  THEN CHOOSE i \in DOMAIN Writes[d] : Writes[d][i].path = Manifest
  ELSE Len(Writes[d]) + 1

\* The manifest destination is deferred behind every other operation.
Op(d, k) ==
  LET m == ManifestIndex(d) IN
  Writes[d][IF k < m THEN k ELSE IF k < Len(Writes[d]) THEN k + 1 ELSE m]

\* More than one manifest write, or deleting it, is refused before any write.
Applicable(d) ==
  /\ \A i, k \in DOMAIN Writes[d] :
       Writes[d][i].path = Manifest /\ Writes[d][k].path = Manifest => i = k
  /\ \A i \in DOMAIN Writes[d] :
       Writes[d][i].path = Manifest => Writes[d][i].body # Missing

\* expectedHash of the k-th operation: what the draft itself left at the path
\* before, or the content the planner saw there.
Expected(d, tree, k) ==
  LET p == Op(d, k).path
      before == {i \in 1..(k-1) : Op(d, i).path = p}
  IN  IF before = {} THEN tree[p]
      ELSE Op(d, CHOOSE i \in before : \A l \in before : l <= i).body

Pending == {j \in Journal : status[j] = "pending"}

\* Whether the path existed before the ChangeSet: its first entry says so.
FirstExisted(j, p) ==
  \E i \in DOMAIN files[j] :
    /\ files[j][i].path = p /\ files[j][i].existed
    /\ \A k \in 1..(i-1) : files[j][k].path # p

\* The event an earlier journal appended under the same idempotency key:
\* the draft and the source digest of the model.
SameKey(j) ==
  {e \in events : e.draft = draftOf[j] /\ e.source = planned[j]}

-----------------------------------------------------------------------------
Init ==
  /\ disk \in Tree
  /\ backup = [p \in Path |-> Missing]
  /\ temp = {}
  /\ status = [j \in Journal |-> "none"]
  /\ draftOf \in {[j \in Journal |-> d] : d \in Draft}
  /\ base = [j \in Journal |-> disk]
  /\ files = [j \in Journal |-> <<>>]
  /\ planned = [j \in Journal |-> None]
  /\ cleaned = [j \in Journal |-> FALSE]
  /\ events = {}
  /\ mode = "down" /\ todo = {}
  /\ job = None /\ pc = "idle" /\ pos = 0 /\ pushed = 0 /\ blocked = FALSE
  /\ raced = {} /\ unresolved = {} /\ dirty = FALSE
  /\ plans = [d \in Draft |-> None]
  /\ edits = 0 /\ faults = 0 /\ crashes = 0

\* The run under way: nothing, or at step c with loop index k.
Goto(c, k) == pc' = c /\ pos' = k
Idle ==
  /\ job' = None /\ Goto("idle", 0) /\ pushed' = 0 /\ blocked' = FALSE
  /\ raced' = {}

Fault == faults < MaxFaults /\ faults' = faults + 1
Calm  == UNCHANGED envVars

-----------------------------------------------------------------------------
(* Planning and the writer gate (the daemon's withWriter).                   *)

Plan(d) ==
  /\ mode = "up" /\ plans' = [plans EXCEPT ![d] = disk]
  /\ UNCHANGED <<fileVars, rowVars, events, mode, todo, runVars, gateVars>>
  /\ Calm

\* Broken: the gate reads the list again but forgets the one it has.
BrokenGateOpen == dirty => Pending = {}

\* The gate lets a writer in: the cached list of unresolved journals is empty
\* and, if it may be stale, a fresh read is empty too.
GateOpen == unresolved = {} /\ (dirty => Pending = {})

\* Under the writer the tree must still be the one the draft was planned on;
\* then beginChangeSet inserts the pending row.
Begin(d, j) ==
  /\ mode = "up" /\ pc = "idle" /\ GateOpen
  /\ status[j] = "none" /\ plans[d] = disk /\ Applicable(d)
  /\ status'  = [status EXCEPT ![j] = "pending"]
  /\ draftOf' = [draftOf EXCEPT ![j] = d]
  /\ base'    = [base EXCEPT ![j] = disk]
  /\ job' = j /\ Goto("record", 1) /\ pushed' = 0 /\ blocked' = FALSE
  /\ raced' = {} /\ dirty' = FALSE
  /\ UNCHANGED <<fileVars, files, planned, cleaned, events, mode, todo,
                 unresolved, plans>>
  /\ Calm

\* The gate's fresh read, or status(), finds what the last settling read missed.
RefreshGate ==
  /\ mode = "up" /\ pc = "idle" /\ dirty
  /\ unresolved' = Pending /\ dirty' = FALSE
  /\ UNCHANGED <<fileVars, rowVars, events, mode, todo, runVars, plans>>
  /\ Calm

\* withWriter's finally: mark the cache stale, read it again, free the writer.
Settle ==
  /\ mode = "up" /\ pc = "settle"
  /\ Idle
  /\ \/ unresolved' = Pending /\ dirty' = FALSE /\ Calm
     \/ dirty' = TRUE /\ Fault /\ UNCHANGED <<unresolved, edits, crashes>>
  /\ UNCHANGED <<fileVars, rowVars, events, mode, todo, plans>>

-----------------------------------------------------------------------------
(* Applying one file operation.                                              *)

Current == files[job][pos]
CurrentOp == Op(draftOf[job], pos)
CurrentExpected == Expected(draftOf[job], base[job], pos)

\* Neither a stranger's backup nor a changed file is in the way.
PreimageHolds ==
  /\ backup[CurrentOp.path] = Missing
  /\ disk[CurrentOp.path] = CurrentExpected

\* applyFileOperation up to recordChangeSetFile: the intent is durable before
\* any file is touched.
RecordFile ==
  /\ mode = "up" /\ pc = "record" /\ pos <= Len(Writes[draftOf[job]])
  /\ PreimageHolds
  /\ files' = [files EXCEPT ![job] = Append(@,
       [path |-> CurrentOp.path, body |-> CurrentOp.body,
        existed |-> disk[CurrentOp.path] # Missing])]
  /\ Goto("move", pos)
  /\ UNCHANGED <<fileVars, status, draftOf, base, planned, cleaned, events,
                 mode, todo, job, pushed, blocked, raced, gateVars, plans>>
  /\ Calm

\* Broken: the preimage is not checked again after the journal write.
BrokenRecheckHolds == TRUE

\* The file kinds that re-verify do so after the journal write has returned.
RecheckHolds == draftOf[job] \in Rechecked
                  => disk[Current.path] = CurrentExpected

Recheck ==
  /\ mode = "up" /\ pc = "move" /\ RecheckHolds
  /\ Goto("rename", pos)
  /\ UNCHANGED <<fileVars, rowVars, events, mode, todo, job, pushed, blocked,
                 raced, gateVars, plans>>
  /\ Calm

\* renameSync is a call of its own: an editor may write the file between the
\* re-read and the move, and what it wrote is moved aside unseen.
MoveAside ==
  /\ mode = "up" /\ pc = "rename"
  /\ pushed' = pushed + 1
  /\ IF Current.existed
     THEN /\ backup' = [backup EXCEPT ![Current.path] = disk[Current.path]]
          /\ disk'   = [disk EXCEPT ![Current.path] = Missing]
          /\ disk[Current.path] # Missing
     ELSE UNCHANGED <<disk, backup>>
  /\ Goto("write", pos)
  /\ UNCHANGED <<temp, rowVars, events, mode, todo, job, blocked, raced,
                 gateVars, plans>>
  /\ Calm

\* atomicWriteFile writes and syncs a temporary file first; a deletion has none.
WriteTemp ==
  /\ mode = "up" /\ pc = "write" /\ Current.body # Missing
  /\ temp' = temp \cup {Current.path} /\ Goto("publish", pos)
  /\ UNCHANGED <<disk, backup, rowVars, events, mode, todo, job, pushed,
                 blocked, raced, gateVars, plans>>
  /\ Calm

\* Rename the temporary file over the destination, or remove the destination.
Publish ==
  /\ mode = "up"
  /\ \/ pc = "publish"
     \/ pc = "write" /\ Current.body = Missing
  /\ disk' = [disk EXCEPT ![Current.path] = Current.body]
  /\ temp' = temp \ {Current.path}
  /\ Goto("record", pos + 1)
  /\ UNCHANGED <<backup, rowVars, events, mode, todo, job, pushed, blocked,
                 raced, gateVars, plans>>
  /\ Calm

\* A preimage that no longer holds, or a file that is gone when it is to be
\* moved aside, aborts the ChangeSet.
Refuse ==
  /\ mode = "up"
  /\ \/ pc = "record" /\ pos <= Len(Writes[draftOf[job]]) /\ ~PreimageHolds
     \/ pc = "move" /\ ~RecheckHolds
  /\ Goto("rollback", pushed)
  /\ UNCHANGED <<fileVars, rowVars, events, mode, todo, job, pushed, blocked,
                 raced, gateVars, plans>>
  /\ Calm

\* renameSync throws, ENOENT or else, after the backup entry has been pushed.
MoveFails ==
  /\ mode = "up" /\ pc = "rename" /\ Current.existed
  /\ pushed' = pushed + 1 /\ Goto("rollback", pushed + 1)
  /\ UNCHANGED <<fileVars, rowVars, events, mode, todo, job, blocked, raced,
                 gateVars, plans>>

MoveVanished == MoveFails /\ disk[Current.path] = Missing /\ Calm

\* Any call of the try block may throw: a full disk, a store error, a model
\* that is invalid after the writes, a guard that no longer holds.
Fail ==
  /\ mode = "up"
  /\ \/ MoveFails
     \/ /\ pc \in {"record", "move", "write", "publish", "append"}
        /\ Goto("rollback", pushed)
        /\ UNCHANGED <<fileVars, rowVars, events, mode, todo, job, pushed,
                       blocked, raced, gateVars, plans>>
  /\ Fault /\ UNCHANGED <<edits, crashes>>

-----------------------------------------------------------------------------
(* Committing.                                                               *)

\* Broken: the loop over the operations ends one operation early.
BrokenWritten == pc = "record" /\ pos = Len(Writes[draftOf[job]])

Written == pc = "record" /\ pos = Len(Writes[draftOf[job]]) + 1

\* yaml mode: the model is valid after the writes and the row is committed.
Commit ==
  /\ mode = "up" /\ Written /\ ~WritesLedger
  /\ status' = [status EXCEPT ![job] = "committed"]
  /\ Goto("cleanup", 1)
  /\ UNCHANGED <<fileVars, draftOf, base, files, planned, cleaned, events,
                 mode, todo, job, pushed, blocked, raced, gateVars, plans>>
  /\ Calm

\* dual mode: the event is planned in the row first (recordChangeSetLedgerPlan)
PlanEvent ==
  /\ mode = "up" /\ Written /\ WritesLedger
  /\ planned' = [planned EXCEPT ![job] = disk] /\ Goto("append", pos)
  /\ UNCHANGED <<fileVars, status, draftOf, base, files, cleaned, events,
                 mode, todo, job, pushed, blocked, raced, gateVars, plans>>
  /\ Calm

\* Broken: the event and the row's status are two transactions.
BrokenAppendAndCommit ==
  /\ mode = "up" /\ pc = "append" /\ SameKey(job) = {}
  /\ events' = events \cup
       {[draft |-> draftOf[job], source |-> planned[job], journal |-> job]}
  /\ Goto("cleanup", 1)
  /\ UNCHANGED <<fileVars, rowVars, mode, todo, job, pushed, blocked, raced,
                 gateVars, plans>>
  /\ Calm

\* The event is appended in the transaction that commits the row.
AppendAndCommit ==
  /\ mode = "up" /\ pc = "append" /\ SameKey(job) = {}
  /\ events' = events \cup
       {[draft |-> draftOf[job], source |-> planned[job], journal |-> job]}
  /\ status' = [status EXCEPT ![job] = "committed"]
  /\ Goto("cleanup", 1)
  /\ UNCHANGED <<fileVars, draftOf, base, files, planned, cleaned, mode, todo,
                 job, pushed, blocked, raced, gateVars, plans>>
  /\ Calm

\* An event under the same key, appended earlier and so with another hash,
\* fails the transaction: architecture-ledger-idempotency-conflict.
AppendConflict ==
  /\ mode = "up" /\ pc = "append" /\ SameKey(job) # {}
  /\ Goto("rollback", pushed)
  /\ UNCHANGED <<fileVars, rowVars, events, mode, todo, job, pushed, blocked,
                 raced, gateVars, plans>>
  /\ Calm

-----------------------------------------------------------------------------
(* Cleaning up a committed ChangeSet: the engine after the commit, a start   *)
(* for the committed rows it finds uncleaned, and a start that rolls a       *)
(* pending row forward.                                                      *)

\* Broken: the cleanup removes temporary files and no backup.
BrokenCleanFile ==
  /\ pc = "cleanup" /\ pos <= Len(files[job])
  /\ temp' = temp \ {Current.path}
  /\ Goto("cleanup", pos + 1)
  /\ UNCHANGED <<disk, backup, rowVars, events, mode, todo, job, pushed,
                 blocked, raced, gateVars, plans>>
  /\ Calm

CleanFile ==
  /\ pc = "cleanup" /\ pos <= Len(files[job])
  /\ temp' = temp \ {Current.path}
  /\ backup' = [backup EXCEPT ![Current.path] = Missing]
  /\ Goto("cleanup", pos + 1)
  /\ UNCHANGED <<disk, rowVars, events, mode, todo, job, pushed, blocked,
                 raced, gateVars, plans>>
  /\ Calm

\* Where the cleanup returns to: the apply settles, a start takes its next row.
Return ==
  IF mode = "up"
  THEN Goto("settle", 0) /\ UNCHANGED <<job, pushed, blocked, raced, todo>>
  ELSE Idle /\ todo' = todo \ {job}

\* Broken: a row rolled forward is cleaned up and not committed.
BrokenCleanDone ==
  /\ pc = "cleanup" /\ pos > Len(files[job])
  /\ cleaned' = [cleaned EXCEPT ![job] = TRUE]
  /\ Return
  /\ UNCHANGED <<fileVars, status, draftOf, base, files, planned, events, mode,
                 gateVars, plans>>
  /\ Calm

\* Broken: the end of the cleanup loop is off by one.
StuckCleanDone ==
  /\ pc = "cleanup" /\ pos > Len(files[job]) + 1
  /\ BrokenCleanDone

CleanDone ==
  /\ pc = "cleanup" /\ pos > Len(files[job])
  /\ cleaned' = [cleaned EXCEPT ![job] = TRUE]
  /\ status' = [status EXCEPT ![job] = "committed"]
  /\ Return
  /\ UNCHANGED <<fileVars, draftOf, base, files, planned, events, mode,
                 gateVars, plans>>
  /\ Calm

\* rmSync or completeChangeSetCleanup throws: the error is swallowed and the
\* row stays uncleaned for a later start.
CleanFails ==
  /\ CleanupMayFail /\ pc = "cleanup" /\ Fault
  /\ Return
  /\ UNCHANGED <<fileVars, rowVars, events, mode, gateVars, plans, edits,
                 crashes>>

-----------------------------------------------------------------------------
(* The engine's rollback of a failed apply, last backup first.               *)

\* Broken: rollback does not look at the manifest before removing it.
BrokenForeign(e) == FALSE

\* Bytes at the manifest that are neither gone nor the ones e wrote.
Foreign(e) == e.path = Manifest /\ disk[e.path] \notin {Missing, e.body}

\* Broken: the destination is removed whether or not there is a backup.
BrokenUndoRemove(e, next, loop) ==
  /\ temp' = temp \ {e.path}
  /\ disk' = [disk EXCEPT ![e.path] = Missing]
  /\ IF e.existed /\ backup[e.path] # Missing
     THEN Goto(next, pos) ELSE Goto(loop, pos - 1)
  /\ UNCHANGED backup

\* Undoing entry e starts by removing what stands at its destination.
UndoRemove(e, next, loop) ==
  /\ temp' = temp \ {e.path}
  /\ IF e.existed /\ backup[e.path] = Missing
     THEN UNCHANGED disk
     ELSE disk' = [disk EXCEPT ![e.path] = Missing]
  /\ IF e.existed /\ backup[e.path] # Missing
     THEN Goto(next, pos) ELSE Goto(loop, pos - 1)
  /\ UNCHANGED backup

\* Broken: the loop index goes down twice for a file that is put back.
BrokenUndoRename(e, next) ==
  /\ disk' = [disk EXCEPT ![e.path] = backup[e.path]]
  /\ backup' = [backup EXCEPT ![e.path] = Missing]
  /\ Goto(next, pos - 2)
  /\ UNCHANGED temp

\* Undoing it ends by renaming the backup into place.
UndoRename(e, next) ==
  /\ disk' = [disk EXCEPT ![e.path] = backup[e.path]]
  /\ backup' = [backup EXCEPT ![e.path] = Missing]
  /\ Goto(next, pos - 1)
  /\ UNCHANGED temp

\* The check of an entry; raced forgets edits that this look at the file saw.
RollbackCheck ==
  /\ mode = "up" /\ pc = "rollback" /\ pos > 0
  /\ IF Foreign(Current)
     THEN blocked' = TRUE /\ Goto("rollback", pos - 1)
     ELSE Goto("remove", pos) /\ UNCHANGED blocked
  /\ raced' = raced \ {Current.path}
  /\ UNCHANGED <<fileVars, rowVars, events, mode, todo, job, pushed, gateVars,
                 plans>>
  /\ Calm

\* rmSync is a call of its own: what an editor writes after the check is gone.
RollbackFile ==
  /\ mode = "up" /\ pc = "remove"
  /\ UndoRemove(Current, "putback", "rollback")
  /\ UNCHANGED <<rowVars, events, mode, todo, job, pushed, blocked, raced,
                 gateVars, plans>>
  /\ Calm

RollbackRename ==
  /\ mode = "up" /\ pc = "putback" /\ UndoRename(Current, "rollback")
  /\ UNCHANGED <<rowVars, events, mode, todo, job, pushed, blocked, raced,
                 gateVars, plans>>
  /\ Calm

\* A complete rollback aborts the row; a blocked one leaves it pending for an
\* operator (changeset-rollback-conflict).
Abort ==
  /\ mode = "up" /\ pc = "rollback" /\ pos = 0
  /\ status' = IF blocked THEN status
               ELSE [status EXCEPT ![job] = "aborted"]
  /\ Goto("settle", 0)
  /\ UNCHANGED <<fileVars, draftOf, base, files, planned, cleaned, events,
                 mode, todo, job, pushed, blocked, raced, gateVars, plans>>
  /\ Calm

\* A system call of the rollback, or abortChangeSet, throws: still pending.
RollbackFails ==
  /\ mode = "up" /\ pc \in {"rollback", "remove", "putback"}
  /\ Goto("settle", 0) /\ Fault
  /\ UNCHANGED <<fileVars, rowVars, events, mode, todo, job, pushed, blocked,
                 raced, gateVars, plans, edits, crashes>>

-----------------------------------------------------------------------------
(* Starting the daemon: recoverPendingChangeSets, then the recovery gate.    *)

\* Broken: the cleanup query does not ask for committed rows.
BrokenUncleaned == {j \in Journal : status[j] # "none" /\ ~cleaned[j]}

Uncleaned == {j \in Journal : status[j] = "committed" /\ ~cleaned[j]}

\* At most CleanupLimit committed rows are cleaned by one start.
Start ==
  /\ mode = "down" /\ mode' = "clean"
  /\ \E rows \in SUBSET Uncleaned :
       /\ Cardinality(rows) <= CleanupLimit
       /\ rows = Uncleaned \/ Cardinality(rows) = CleanupLimit
       /\ todo' = rows
  /\ UNCHANGED <<fileVars, rowVars, events, runVars, gateVars, plans>>
  /\ Calm

CleanRow(j) ==
  /\ mode = "clean" /\ pc = "idle" /\ j \in todo
  /\ job' = j /\ Goto("cleanup", 1)
  /\ UNCHANGED <<fileVars, rowVars, events, mode, todo, pushed, blocked, raced,
                 gateVars, plans>>
  /\ Calm

\* Broken: recovery takes every row whose cleanup is not recorded.
BrokenFindPending ==
  /\ mode = "clean" /\ pc = "idle" /\ todo = {}
  /\ mode' = "recover"
  /\ todo' = {j \in Journal : status[j] # "none" /\ ~cleaned[j]}
  /\ UNCHANGED <<fileVars, rowVars, events, runVars, gateVars, plans>>
  /\ Calm

FindPending ==
  /\ mode = "clean" /\ pc = "idle" /\ todo = {}
  /\ mode' = "recover" /\ todo' = Pending
  /\ UNCHANGED <<fileVars, rowVars, events, runVars, gateVars, plans>>
  /\ Calm

\* The planned event is in the ledger: with the same hash the row is rolled
\* forward, with another hash the conflict leaves it pending.
RollForward(j) ==
  /\ mode = "recover" /\ pc = "idle" /\ j \in todo /\ planned[j] # None
  /\ \E e \in SameKey(j) :
       IF e.journal = j
       THEN /\ job' = j /\ Goto("cleanup", 1)
            /\ UNCHANGED <<pushed, blocked, raced, todo>>
       ELSE todo' = todo \ {j} /\ UNCHANGED runVars
  /\ UNCHANGED <<fileVars, rowVars, events, mode, gateVars, plans>>
  /\ Calm

\* recoverJournalFiles looks at the manifest before it changes anything: live
\* bytes that are neither the final entry's nor those of the last entry that
\* recovery would undo, unless no entry of the manifest would be undone.
ManifestConflict(j) ==
  LET mine  == {i \in DOMAIN files[j] : files[j][i].path = Manifest}
      undone == {i \in mine : ~files[j][i].existed \/ backup[Manifest] # Missing}
      body(S) == files[j][CHOOSE i \in S : \A k \in S : k <= i].body
  IN  /\ undone # {}
      /\ disk[Manifest] \notin {Missing, body(mine), body(undone)}

\* Broken: recovery does not ask the ledger for the planned event.
BrokenNotAppended(j) == j \in Journal

NotAppended(j) == planned[j] = None \/ SameKey(j) = {}

RecoverRow(j) ==
  /\ mode = "recover" /\ pc = "idle" /\ j \in todo /\ NotAppended(j)
  /\ IF ManifestConflict(j)
     THEN todo' = todo \ {j} /\ UNCHANGED runVars
     ELSE /\ job' = j /\ Goto("undo", Len(files[j]))
          /\ UNCHANGED <<pushed, blocked, raced, todo>>
  /\ UNCHANGED <<fileVars, rowVars, events, mode, gateVars, plans>>
  /\ Calm

\* No backup, no file, and the path existed before: its content is lost.
Lost(e) ==
  /\ e.existed /\ backup[e.path] = Missing /\ disk[e.path] = Missing
  /\ FirstExisted(job, e.path)

UndoFile ==
  /\ pc = "undo" /\ pos > 0
  /\ UndoRemove(Current, "restore", "undo")
  /\ blocked' = (blocked \/ Lost(Current))
  /\ UNCHANGED <<rowVars, events, mode, todo, job, pushed, raced, gateVars,
                 plans>>
  /\ Calm

UndoFileRename ==
  /\ pc = "restore" /\ UndoRename(Current, "undo")
  /\ UNCHANGED <<rowVars, events, mode, todo, job, pushed, blocked, raced,
                 gateVars, plans>>
  /\ Calm

\* Every entry is undone, or a lost path leaves the row pending.
UndoDone ==
  /\ pc = "undo" /\ pos = 0
  /\ status' = IF blocked THEN status
               ELSE [status EXCEPT ![job] = "recovered"]
  /\ cleaned' = [cleaned EXCEPT ![job] = @ \/ ~blocked]
  /\ todo' = todo \ {job} /\ Idle
  /\ UNCHANGED <<fileVars, draftOf, base, files, planned, events, mode,
                 gateVars, plans>>
  /\ Calm

UndoFails ==
  /\ pc \in {"undo", "restore"} /\ Fault
  /\ todo' = todo \ {job} /\ Idle
  /\ UNCHANGED <<fileVars, rowVars, events, mode, gateVars, plans, edits,
                 crashes>>

\* Broken: the daemon serves with an empty list of unresolved journals.
BrokenReady ==
  /\ mode = "recover" /\ pc = "idle" /\ todo = {}
  /\ mode' = "up" /\ unresolved' = {} /\ dirty' = FALSE
  /\ UNCHANGED <<fileVars, rowVars, events, todo, runVars, plans>>
  /\ Calm

\* What recovery could not resolve closes the gate of the daemon that serves.
Ready ==
  /\ mode = "recover" /\ pc = "idle" /\ todo = {}
  /\ mode' = "up" /\ unresolved' = Pending /\ dirty' = FALSE
  /\ UNCHANGED <<fileVars, rowVars, events, todo, runVars, plans>>
  /\ Calm

-----------------------------------------------------------------------------
(* The environment.                                                          *)

\* The process ends: killed anywhere, or stopped.  Files and rows remain.
Crash ==
  /\ mode # "down" /\ crashes < MaxCrashes /\ crashes' = crashes + 1
  /\ mode' = "down" /\ todo' = {} /\ Idle
  /\ unresolved' = {} /\ dirty' = FALSE
  /\ plans' = [d \in Draft |-> None]
  /\ UNCHANGED <<fileVars, rowVars, events, edits, faults>>

\* Between a look at the file at p and the call that relies on it: a rename
\* or a removal still to come, and all of a recovery, which looks once before
\* it undoes the first entry.
InWindow(p) ==
  \/ pc \in {"rename", "remove", "putback"} /\ p = Current.path
  \/ pc \in {"undo", "restore"} /\ \E i \in 1..pos : files[job][i].path = p

\* Somebody else writes or deletes a repository file.
Edit(p, c) ==
  /\ mode \in EditModes /\ edits < MaxEdits /\ edits' = edits + 1
  /\ c # disk[p] /\ disk' = [disk EXCEPT ![p] = c]
  /\ raced' = IF InWindow(p) THEN raced \cup {p} ELSE raced
  /\ UNCHANGED <<backup, temp, rowVars, events, mode, todo, stepVars, gateVars,
                 plans, faults, crashes>>

Apply ==
  \/ RecordFile \/ Recheck \/ MoveAside \/ WriteTemp \/ Publish \/ Refuse
  \/ MoveVanished \/ Commit \/ PlanEvent \/ AppendAndCommit \/ AppendConflict
  \/ CleanFile \/ CleanDone \/ RollbackCheck \/ RollbackFile \/ RollbackRename
  \/ Abort \/ Settle

Startup ==
  \/ FindPending \/ Ready \/ UndoFile \/ UndoFileRename \/ UndoDone
  \/ \E j \in Journal : CleanRow(j) \/ RollForward(j) \/ RecoverRow(j)

Faults == Fail \/ CleanFails \/ RollbackFails \/ UndoFails \/ Crash

Next ==
  \/ \E d \in Draft : Plan(d)
  \/ \E d \in Draft, j \in Journal : Begin(d, j)
  \/ RefreshGate \/ Apply \/ Start \/ Startup \/ Faults
  \/ \E p \in Path, c \in Content : Edit(p, c)

Spec == Init /\ [][Next]_vars

\* The daemon runs its own code to the end, and a client that finds no daemon
\* starts one (createOrStartRuntimeRpcClient).
Fairness == WF_vars(Apply) /\ WF_vars(Startup) /\ WF_vars(Start)

FairSpec == Spec /\ Fairness

-----------------------------------------------------------------------------
(* What the write path promises.                                             *)

FileTypes == disk \in Tree /\ backup \in Tree /\ temp \subseteq Path

RowTypes ==
  /\ status \in [Journal -> Status]
  /\ draftOf \in [Journal -> Draft]
  /\ base \in [Journal -> Tree]
  /\ files \in [Journal -> Seq(Entry)]
  /\ planned \in [Journal -> Tree \cup {None}]
  /\ cleaned \in [Journal -> BOOLEAN]
  /\ events \subseteq [draft : Draft, source : Tree, journal : Journal]

RunTypes ==
  /\ mode \in {"down", "clean", "recover", "up"}
  /\ todo \subseteq Journal
  /\ job \in Journal \cup {None}
  /\ pc \in {"idle", "record", "move", "rename", "write", "publish", "append",
             "cleanup", "rollback", "remove", "putback", "settle", "undo",
             "restore"}
  /\ pos \in Nat /\ pushed \in Nat /\ blocked \in BOOLEAN
  /\ raced \subseteq Path
  /\ unresolved \subseteq Journal /\ dirty \in BOOLEAN
  /\ plans \in [Draft -> Tree \cup {None}]
  /\ edits \in Nat /\ faults \in Nat /\ crashes \in Nat

\* Every variable keeps its type: a row names a draft, a base tree and the
\* entries recorded so far, and the loop index is never negative.
TypeOK == FileTypes /\ RowTypes /\ RunTypes

\* Two ChangeSets are never unfinished at once: no apply starts over a journal
\* that a failed rollback, a failed abort or a crash left pending (#172).
AtMostOnePending == \A i, j \in Pending : i = j

\* A daemon that serves and runs no apply knows of every pending journal: it is
\* in the cached list, or the list is marked stale.
GateCoversPending ==
  mode = "up" /\ pc = "idle" => Pending \subseteq unresolved \/ dirty

\* A finished journal stays as it finished: nothing rolls back an applied
\* ChangeSet or commits an aborted one, although commitChangeSet and
\* abortChangeSet check no status.
StatusIsFinal ==
  [][\A j \in Journal :
       status[j] \in {"committed", "aborted", "recovered"}
         => status'[j] = status[j]]_vars

\* In dual mode the ledger holds the event of a ChangeSet exactly when its
\* files stay: no event of a rolled-back apply, no commit without its event.
LedgerMatchesJournal ==
  WritesLedger =>
    \A j \in Journal :
      status[j] = "committed" <=> \E e \in events : e.journal = j

\* While a row is pending, the copy of what it moved aside is removed only by
\* putting it back: "Its backups are kept for the next start's retry".
BackupsOfPendingKept ==
  [][\A j \in Pending : \A i \in DOMAIN files[j] :
       LET p == files[j][i].path IN
       backup[p] # Missing /\ NotAppended(j) /\ status'[j] = "pending"
         => backup'[p] = backup[p] \/ disk'[p] = backup[p]]_vars

\* With nobody else writing, undoing a pending row from its entries, the
\* backups and the live files gives back the tree the ChangeSet began on.
Undone(j) ==
  [p \in Path |->
    IF ~\E i \in DOMAIN files[j] : files[j][i].path = p THEN disk[p]
    ELSE IF ~FirstExisted(j, p) THEN Missing
    ELSE IF backup[p] # Missing THEN backup[p] ELSE disk[p]]

PreimageRecoverable ==
  edits = 0 => \A j \in Pending : Undone(j) = base[j]

\* A daemon at rest that owes no cleanup leaves no backup and no temporary file
\* beside the repository's files.
NoLitter ==
  mode = "up" /\ pc = "idle" /\ Pending = {} /\ Uncleaned = {}
    => temp = {} /\ backup = [p \in Path |-> Missing]

\* Of a file kind that re-verifies its preimage an edit is lost in one place
\* only, between the re-read and the rename: what the cleanup of a committed
\* apply deletes is else what the planner saw.
CleanupDeletesOnlyPreimages ==
  mode = "up" /\ pc = "cleanup" /\ draftOf[job] \in Rechecked =>
    \A i \in DOMAIN files[job] :
      LET p == files[job][i].path IN
      files[job][i].existed /\ backup[p] # Missing /\ p \notin raced
        => backup[p] = Expected(draftOf[job], base[job], i)

\* "Manifest conflict checks protect the bytes observed at rollback/recovery
\* boundaries": manifest bytes that no draft wrote stay, unless they came
\* after the check, or an apply is about to replace them.
ExternalManifest ==
  /\ disk[Manifest] # Missing
  /\ \A d \in Draft : \A i \in DOMAIN Writes[d] :
       Writes[d][i] # [path |-> Manifest, body |-> disk[Manifest]]

ExternalManifestKept ==
  [][ExternalManifest /\ Manifest \notin raced
     /\ pc \notin {"rename", "write", "publish"}
       => disk'[Manifest] = disk[Manifest] \/ edits' # edits]_vars

\* A pending journal is resolved, or a serving daemon refuses to write until an
\* operator resolves it; it is never forgotten.
PendingSettles ==
  \A j \in Journal :
    status[j] = "pending" ~>
      (status[j] # "pending" \/ (mode = "up" /\ (dirty \/ j \in unresolved)))

\* An apply, whatever fails in it, gives the writer back.
WriterIsFreed == pc # "idle" ~> pc = "idle"
=============================================================================

----------------------- MODULE ChangeSetRecoveryProofs -----------------------
(* Theorems about the files of an unfinished ChangeSet: its backups are kept *)
(* until they are put back, and its entries, the backups and the live files  *)
(* determine the tree it began on.  They hold where cleaning up works; the   *)
(* run backup_lost shows a failed cleanup deleting a later row's backup.     *)
EXTENDS ChangeSetFilesProofs

\* Deleting a committed row's backups and recording that succeed, and a start
\* cleans up at least one row.
CleanupWorks == ~CleanupMayFail /\ CleanupLimit # 0

\* The cleanup of row j is owed.
Owed(j) == status[j] = "committed" /\ ~cleaned[j]

\* One start can clean up every row whose cleanup is owed.
Few == IsFiniteSet(Uncleaned) /\ Cardinality(Uncleaned) <= CleanupLimit

\* No cleanup is owed while a row is pending, and a daemon that recovers or
\* serves owes only the one it is running.
BacklogOK ==
  /\ Few
  /\ \A i, j \in Journal : Owed(i) => status[j] # "pending"
  /\ mode \in {"up", "recover"} /\ pc # "cleanup" => \A j \in Journal : ~Owed(j)
  /\ mode = "up" /\ pc = "cleanup" => \A j \in Journal : Owed(j) => j = job
  /\ mode = "clean" => \A j \in Journal : Owed(j) => j \in todo
  /\ mode = "clean" => \A j \in todo : Owed(j)
  /\ pc = "cleanup" => Owed(job)

-----------------------------------------------------------------------------
\* A start that can clean up every row takes every row.
LEMMA TakesAll ==
  ASSUME Few, Start
  PROVE  \A j \in Journal : Owed(j) <=> j \in todo'
<1>1. PICK rows \in SUBSET Uncleaned :
        (rows = Uncleaned \/ Cardinality(rows) = CleanupLimit) /\ todo' = rows
  BY DEF Start
<1>2. rows = Uncleaned
  <2>1. /\ Cardinality(Uncleaned) \in Nat /\ Cardinality(rows) \in Nat
        /\ Cardinality(rows) <= Cardinality(Uncleaned)
        /\ Cardinality(Uncleaned) = Cardinality(rows) => Uncleaned = rows
    BY FS_Subset, FS_CardinalityType DEF Few
  <2> QED
    BY <1>1, <2>1, EnvironmentAssumption DEF Few
<1> QED
  BY <1>1, <1>2 DEF Owed, Uncleaned

\* A commit finds no other cleanup owed, and only a commit adds one.
LEMMA FewStep ==
  ASSUME IInv, FilesInv, BacklogOK, CleanupWorks, [Next]_vars PROVE Few'
<1>1. CASE Commit \/ AppendAndCommit
  <2>1. \A j \in Journal : ~Owed(j)
    BY <1>1 DEF Commit, AppendAndCommit, Written, BacklogOK
  <2>2. Uncleaned' \in SUBSET {job}
    BY <1>1, <2>1 DEF Commit, AppendAndCommit, Uncleaned, Owed, IInv, TypeOK, RowTypes
  <2>3. IsFiniteSet(Uncleaned') /\ Cardinality(Uncleaned') <= 1
    <3>1. IsFiniteSet({job}) /\ Cardinality({job}) = 1
      BY FS_Singleton
    <3> QED
      BY <2>2, <3>1, FS_Subset
  <2>4. Cardinality(Uncleaned') \in Nat /\ CleanupLimit \in Nat /\ CleanupLimit # 0
    BY <2>3, FS_CardinalityType, EnvironmentAssumption DEF CleanupWorks
  <2> QED
    BY <2>3, <2>4 DEF Few
<1>2. CASE ~(Commit \/ AppendAndCommit)
  <2>1. \A j \in Journal : status'[j] = "committed" => status[j] = "committed"
    BY <1>2, StatusStep DEF IInv, TypeOK, RowTypes
  <2>2. \A j \in Journal : cleaned[j] => cleaned'[j]
    <3>1. cleaned \in [Journal -> BOOLEAN]
      BY DEF IInv, TypeOK, RowTypes
    <3>2. \A j \in Journal : status[j] = "pending" => ~cleaned[j]
      BY DEF FilesInv, OwnedOK
    <3>3. pc \in {"rollback", "undo"} => status[job] = "pending"
      BY RowIs
    <3> QED
      BY <3>1, <3>2, <3>3, StepShape
         DEF Shape, Still, Edited, Leaves, TakesUp, GivesUp, Commits, Plans, Begin, RecordFile,
             Checks, MoveAside, WriteTemp, Publish, CleanFile, Cleaned, Skips, Removes, Renames,
             Finishes, Rows, rowVars
  <2>3. Uncleaned' \in SUBSET Uncleaned
    BY <2>1, <2>2 DEF Uncleaned
  <2>4. /\ IsFiniteSet(Uncleaned') /\ Cardinality(Uncleaned') <= Cardinality(Uncleaned)
        /\ Cardinality(Uncleaned) <= CleanupLimit
        /\ Cardinality(Uncleaned) \in Nat /\ Cardinality(Uncleaned') \in Nat
    BY <2>3, FS_Subset, FS_CardinalityType DEF BacklogOK, Few
  <2> QED
    BY <2>4, EnvironmentAssumption DEF Few
<1> QED
  BY <1>1, <1>2

\* The backlog stays as it is described: the daemon writes only after the last
\* cleanup has been recorded.
LEMMA BacklogStep ==
  ASSUME IInv, FilesInv, BacklogOK, CleanupWorks, [Next]_vars PROVE BacklogOK'
<1> USE DEF BacklogOK, Owed, Goto
<1>few. Few'
  BY FewStep
<1>0. /\ BacklogOK /\ PhaseOK
      /\ status \in [Journal -> Status] /\ cleaned \in [Journal -> BOOLEAN]
      /\ todo \subseteq Journal
      /\ \A j \in Journal : status[j] = "pending" => ~cleaned[j]
  BY DEF IInv, TypeOK, RowTypes, RunTypes, FilesInv, OwnedOK
<1>a. /\ pc # "idle" => job \in Journal
      /\ pc \in Applying \cup {"rollback", "remove", "putback", "undo", "restore"}
           => status[job] = "pending"
      /\ \A i, j \in Journal : status[i] = "pending" /\ status[j] = "pending" => i = j
  BY RowIs
<1>1. CASE \E d \in Draft, j \in Journal : Begin(d, j)
  <2>1. PICK d \in Draft, j \in Journal : Begin(d, j)
    BY <1>1
  <2>2. /\ mode = "up" /\ mode' = "up" /\ pc = "idle" /\ pc' = "record" /\ cleaned' = cleaned
        /\ status' = [status EXCEPT ![j] = "pending"]
    BY <2>1 DEF Begin
  <2> QED
    BY <1>few, <1>0, <2>2
<1>2. CASE \/ RecordFile \/ Recheck \/ MoveAside \/ WriteTemp \/ Publish \/ Refuse
           \/ MoveVanished \/ Fail \/ PlanEvent \/ AppendConflict
           \/ RollbackCheck \/ RollbackFile \/ RollbackRename \/ RollbackFails \/ Settle
  <2>1. /\ UNCHANGED <<status, cleaned>> /\ mode = "up" /\ mode' = "up"
        /\ pc # "cleanup" /\ pc' # "cleanup"
    BY <1>2 DEF RecordFile, MoveAside, WriteTemp, Publish, Refuse, MoveFails, MoveVanished, Recheck,
       Fail, PlanEvent, AppendConflict, RollbackCheck, RollbackFile, RollbackRename,
       RollbackFails, Settle, Written, Idle, UndoRemove, UndoRename, rowVars
  <2> QED
    BY <1>few, <1>0, <2>1
<1>3. CASE Commit \/ AppendAndCommit
  <2>1. /\ mode = "up" /\ mode' = "up" /\ pc \in {"record", "append"} /\ pc' = "cleanup"
        /\ status' = [status EXCEPT ![job] = "committed"] /\ UNCHANGED <<cleaned, job>>
    BY <1>3 DEF Commit, AppendAndCommit, Written
  <2> QED
    BY <1>few, <1>0, <1>a, <2>1 DEF Applying
<1>4. CASE CleanFile
  BY <1>few, <1>0, <1>4 DEF CleanFile, rowVars
<1>5. CASE CleanDone
  <2>1. /\ pc = "cleanup" /\ pc' # "cleanup" /\ mode' = mode
        /\ cleaned' = [cleaned EXCEPT ![job] = TRUE] /\ status' = status
        /\ todo' = todo \/ todo' = todo \ {job}
        /\ mode # "up" => todo' = todo \ {job}
    BY <1>0, <1>5 DEF CleanDone, Return, Idle
  <2>2. mode \in {"up", "clean"} /\ job \in Journal
    BY <1>0, <1>a, <2>1 DEF IInv, TypeOK, RunTypes, PhaseOK
  <2>3. \A j \in Journal : Owed(j)' <=> Owed(j) /\ j # job
    BY <1>0, <2>1
  <2> QED
    BY <1>few, <1>0, <2>1, <2>2, <2>3
<1>6. CASE CleanFails
  BY <1>few, <1>6 DEF CleanFails, CleanupWorks
<1>7. CASE Abort \/ UndoDone
  <2>1. /\ pc \in {"rollback", "undo"} /\ pc' # "cleanup" /\ mode' = mode
        /\ mode = "clean" => FALSE
    BY <1>0, <1>7 DEF Abort, UndoDone, Idle, PhaseOK
  <2>2. \A j \in Journal : status'[j] = status[j] \/ status'[j] \in {"aborted", "recovered"}
    BY <1>0, <1>7 DEF Abort, UndoDone
  <2>3. \A j \in Journal : status'[j] = "committed" => cleaned'[j] = cleaned[j]
    BY <1>0, <1>a, <1>7 DEF Abort, UndoDone
  <2> QED
    BY <1>few, <1>0, <2>1, <2>2, <2>3
<1>8. CASE UndoFile \/ UndoFileRename \/ UndoFails
  <2>1. /\ UNCHANGED <<status, cleaned, mode>> /\ mode = "recover"
        /\ pc # "cleanup" /\ pc' # "cleanup"
    BY <1>0, <1>8 DEF UndoFile, UndoFileRename, UndoFails, UndoRemove, UndoRename,
       Idle, PhaseOK, rowVars, IInv, TypeOK, RunTypes
  <2> QED
    BY <1>few, <1>0, <2>1
<1>9. CASE Start
  <2>1. \A j \in Journal : Owed(j) <=> j \in todo'
    BY <1>9, TakesAll DEF BacklogOK
  <2>2. /\ UNCHANGED <<status, cleaned, pc, job>> /\ mode' = "clean" /\ pc = "idle"
        /\ todo' \subseteq Journal
    BY <1>0, <1>9 DEF Start, PhaseOK, rowVars, runVars, stepVars, Uncleaned
  <2> QED
    BY <1>few, <1>0, <2>1, <2>2
<1>10. CASE FindPending \/ Ready
  BY <1>few, <1>0, <1>10 DEF FindPending, Ready, rowVars, runVars, stepVars
<1>11. CASE \E j \in Journal : CleanRow(j)
  BY <1>few, <1>0, <1>11 DEF CleanRow, rowVars
<1>12. CASE \E j \in Journal : RollForward(j) \/ RecoverRow(j)
  <2>1. /\ UNCHANGED <<status, cleaned, mode>> /\ mode = "recover"
        /\ pc # "cleanup" /\ pc' # "cleanup"
    BY <1>12, NothingToRollForward DEF RollForward, RecoverRow, rowVars, runVars, stepVars
  <2> QED
    BY <1>few, <1>0, <2>1
<1>13. CASE Crash
  BY <1>few, <1>0, <1>13 DEF Crash, Idle, rowVars
<1>14. CASE UNCHANGED <<rowVars, mode, todo, stepVars>>
  BY <1>few, <1>0, <1>14 DEF rowVars, runVars, stepVars
<1> QED
  BY <1>1, <1>2, <1>3, <1>4, <1>5, <1>6, <1>7, <1>8, <1>9, <1>10, <1>11, <1>12,
     <1>13, <1>14
     DEF Next, Apply, Startup, Faults, vars, runVars, Plan, RefreshGate, Edit

-----------------------------------------------------------------------------
\* Where cleaning up works, the backlog never grows beyond what a start takes.
LEMMA Backlog == ASSUME CleanupWorks PROVE Spec => [](IInv /\ FilesInv /\ BacklogOK)
<1>1. Init => BacklogOK
  <2>1. Init => Uncleaned = {}
    BY DEF Init, Uncleaned
  <2>2. Init => Few
    BY <2>1, FS_EmptySet, EnvironmentAssumption DEF Few
  <2> QED
    BY <2>2 DEF Init, BacklogOK, Owed
<1>2. IInv /\ FilesInv /\ BacklogOK /\ [Next]_vars => BacklogOK'
  BY BacklogStep
<1> QED
  BY <1>1, <1>2, FilesInductive, PTL DEF Spec

\* A step of a pending row removes none of its backups but by putting it back:
\* moving a file aside finds no backup in the way, and nothing is cleaned up
\* while a row is pending.
THEOREM BackupsKept == ASSUME CleanupWorks PROVE Spec => BackupsOfPendingKept
<1>1. ASSUME IInv, FilesInv, BacklogOK, [Next]_vars, NEW j \in Journal, status[j] = "pending",
             NEW i \in 1..Len(files[j]), backup[files[j][i].path] # Missing
      PROVE  LET p == files[j][i].path IN backup'[p] = backup[p] \/ disk'[p] = backup[p]
  <2> DEFINE p == files[j][i].path
  <2>0. /\ backup \in Tree /\ disk \in Tree /\ p \in Path
        /\ pc # "idle" => job \in Journal
        /\ pc = "cleanup" => FALSE
    BY <1>1, EntryIs, RowIs DEF IInv, TypeOK, FileTypes, BacklogOK
  <2>1. CASE MoveAside
    <3>1. backup[Current.path] = Missing
      BY <1>1, <2>1 DEF FilesInv, MovedOK, MoveAside
    <3> QED
      BY <1>1, <2>0, <2>1, <3>1 DEF MoveAside, Tree
  <2>2. CASE Renames
    BY <2>0, <2>2 DEF Renames, Tree
  <2>3. CASE UNCHANGED backup
    BY <2>3
  <2>4. CASE CleanFile
    BY <2>0, <2>4 DEF CleanFile
  <2> QED
    BY <1>1, <2>1, <2>2, <2>3, <2>4, StepShape
       DEF Shape, Still, Edited, Leaves, TakesUp, GivesUp, Commits, Plans, Begin, RecordFile,
           Checks, WriteTemp, Publish, Cleaned, Skips, Removes, Finishes, fileVars
<1>2. IInv /\ FilesInv /\ BacklogOK /\ [Next]_vars =>
        [\A j \in Pending : \A i \in DOMAIN files[j] :
           LET p == files[j][i].path IN
           backup[p] # Missing /\ NotAppended(j) /\ status'[j] = "pending"
             => backup'[p] = backup[p] \/ disk'[p] = backup[p]]_vars
  <2> SUFFICES ASSUME IInv, FilesInv, BacklogOK, [Next]_vars, NEW j \in Pending,
                      NEW i \in DOMAIN files[j], backup[files[j][i].path] # Missing
               PROVE  LET p == files[j][i].path IN backup'[p] = backup[p] \/ disk'[p] = backup[p]
    OBVIOUS
  <2>1. j \in Journal /\ status[j] = "pending"
    BY DEF Pending
  <2>2. i \in 1..Len(files[j])
    BY <2>1 DEF IInv, TypeOK, RowTypes
  <2> QED
    BY <1>1, <2>1, <2>2
<1> QED
  BY <1>2, Backlog, PTL DEF Spec, BackupsOfPendingKept

-----------------------------------------------------------------------------
(* The tree a pending row began on.                                          *)

\* Paths that none of the first n entries of F names are in tree t as in b.
Kept(F, n, t, b) ==
  \A p \in Path : (\A i \in 1..n : F[i].path # p) => t[p] = b[p]

\* The file that the first entry of its path found in tree b is the backup, or
\* still at its place; a path where it found none was empty.
Saved(F, t, c, b) ==
  \A i \in 1..Len(F) : First(F, i) =>
    LET p == F[i].path IN
    IF F[i].existed
    THEN b[p] # Missing /\ (c[p] = b[p] \/ (c[p] = Missing /\ t[p] = b[p]))
    ELSE b[p] = Missing

\* With nobody else writing, a pending row's tree can be told from its entries,
\* the backups and the files; an apply has changed only what it pushed; undoing
\* has restored what the loop has passed.
TreeOK ==
  edits = 0 =>
    /\ \A j \in Journal : status[j] = "pending" =>
         /\ Kept(files[j], Len(files[j]), disk, base[j])
         /\ Saved(files[j], disk, backup, base[j])
    /\ pc \in Applying => Kept(files[job], pushed, disk, base[job])
    /\ pc \in {"rollback", "remove", "putback", "undo", "restore"} /\ ~blocked
         => Kept(files[job], pos, disk, base[job])

\* Only an edit counts as one.
LEMMA EditsStep == ASSUME IInv, [Next]_vars, edits' = 0 PROVE edits = 0 /\ ~Edited
<1>1. edits \in Nat
  BY DEF IInv, TypeOK, RunTypes
<1>2. edits' = edits \/ edits' = edits + 1
  BY DEF Next, Apply, Startup, Faults, vars, envVars, Calm, Fault, Plan, Begin, RefreshGate,
     Settle, RecordFile, MoveAside, WriteTemp, Publish, Refuse, MoveFails, MoveVanished, Recheck, Fail, Commit,
     PlanEvent, AppendAndCommit, AppendConflict, CleanFile, CleanDone, CleanFails,
     RollbackCheck, RollbackFile, RollbackRename, Abort, RollbackFails, Start, CleanRow, FindPending,
     RollForward, RecoverRow, UndoFile, UndoFileRename, UndoDone, UndoFails, Ready, Crash, Edit
<1> QED
  BY <1>1, <1>2 DEF Edited

\* Naming more entries keeps what holds of the others.
LEMMA KeptMore ==
  ASSUME NEW F, NEW n \in Nat, NEW m \in Nat, n <= m, NEW t, NEW b, Kept(F, n, t, b)
  PROVE  Kept(F, m, t, b)
BY DEF Kept

\* An entry is recorded for the file that is at its path.
LEMMA SavedAppend ==
  ASSUME NEW F \in Seq(Entry), NEW e \in Entry, NEW t, NEW c, NEW b,
         Kept(F, Len(F), t, b), Saved(F, t, c, b),
         c[e.path] = Missing, e.existed <=> t[e.path] # Missing
  PROVE  /\ Kept(Append(F, e), Len(F) + 1, t, b)
         /\ Kept(Append(F, e), Len(F), t, b)
         /\ Saved(Append(F, e), t, c, b)
<1> DEFINE n == Len(F)
           G == Append(F, e)
<1>1. /\ n \in Nat /\ Len(G) = n + 1 /\ G[n + 1] = e /\ e.path \in Path
      /\ \A i \in 1..n : G[i] = F[i]
  BY DEF Entry
<1> HIDE DEF G, n
<1>2. Kept(G, n, t, b)
  BY <1>1 DEF Kept, n
<1>3. Kept(G, n + 1, t, b)
  BY <1>1, <1>2, KeptMore
<1>4. ASSUME NEW i \in 1..n, First(G, i)
      PROVE  LET p == G[i].path IN
             IF G[i].existed
             THEN b[p] # Missing /\ (c[p] = b[p] \/ (c[p] = Missing /\ t[p] = b[p]))
             ELSE b[p] = Missing
  <2>1. First(F, i)
    BY <1>1, <1>4 DEF First
  <2> QED
    BY <1>1, <2>1 DEF Saved, n
<1>5. ASSUME First(G, n + 1)
      PROVE  IF e.existed
             THEN b[e.path] # Missing /\ c[e.path] = Missing /\ t[e.path] = b[e.path]
             ELSE b[e.path] = Missing
  <2>1. \A i \in 1..n : F[i].path # e.path
    BY <1>1, <1>5 DEF First
  <2> QED
    BY <1>1, <2>1 DEF Kept, n
<1>6. \A i \in 1..(n + 1) : i \in 1..n \/ i = n + 1
  BY <1>1
<1>7. Saved(G, t, c, b)
  BY <1>1, <1>4, <1>5, <1>6 DEF Saved
<1> QED
  BY <1>2, <1>3, <1>7 DEF G, n

\* A change at one path p keeps what is saved of the others, and at p if the
\* file that was saved still is.
LEMMA SavedAt ==
  ASSUME NEW F \in Seq(Entry), NEW p \in Path, NEW t, NEW c, NEW t2, NEW c2, NEW b,
         Saved(F, t, c, b),
         \A q \in Path : q # p => t2[q] = t[q] /\ c2[q] = c[q],
         \A i \in 1..Len(F) :
           F[i].path = p /\ F[i].existed /\ b[p] # Missing /\ First(F, i)
             /\ (c[p] = b[p] \/ (c[p] = Missing /\ t[p] = b[p]))
             => c2[p] = b[p] \/ (c2[p] = Missing /\ t2[p] = b[p])
  PROVE  Saved(F, t2, c2, b)
<1>0. \A i \in 1..Len(F) : F[i] \in Entry
  OBVIOUS
<1>1. \A i \in 1..Len(F) : F[i].path \in Path
  BY <1>0 DEF Entry
<1> QED
  BY <1>1 DEF Saved

\* A change at p, the path of one of the first n entries, leaves the rest.
LEMMA KeptAt ==
  ASSUME NEW F, NEW n \in Nat, NEW k \in 1..n, NEW t, NEW t2, NEW b, Kept(F, n, t, b),
         \A q \in Path : q # F[k].path => t2[q] = t[q]
  PROVE  Kept(F, n, t2, b)
BY DEF Kept

\* Undoing the last of n entries leaves n - 1, when it restores the path that
\* no earlier entry names.
LEMMA KeptLess ==
  ASSUME NEW F, NEW n \in Nat, n # 0, NEW t, NEW t2, NEW b, Kept(F, n, t, b),
         \A q \in Path : q # F[n].path => t2[q] = t[q],
         First(F, n) => t2[F[n].path] = b[F[n].path]
  PROVE  Kept(F, n - 1, t2, b)
<1> SUFFICES ASSUME NEW p \in Path, \A i \in 1..(n - 1) : F[i].path # p
             PROVE  t2[p] = b[p]
  BY DEF Kept
<1>1. CASE p = F[n].path
  BY <1>1 DEF First
<1>2. CASE p # F[n].path
  <2>1. \A i \in 1..n : F[i].path # p
    <3>1. \A i \in 1..n : i = n \/ i \in 1..(n - 1)
      OBVIOUS
    <3> QED
      BY <1>2, <3>1
  <2> QED
    BY <1>2, <2>1 DEF Kept
<1> QED
  BY <1>1, <1>2

\* The working row as the steps of TreeStep need it.
LEMMA Working ==
  ASSUME IInv, FilesInv, TreeOK, edits = 0,
         pc \in Applying \cup {"rollback", "remove", "putback", "undo", "restore"}
  PROVE  /\ job \in Journal /\ status[job] = "pending" /\ files[job] \in Seq(Entry)
         /\ Kept(files[job], Len(files[job]), disk, base[job])
         /\ Saved(files[job], disk, backup, base[job])
         /\ \A j \in Journal : status[j] = "pending" => j = job
         /\ \A i \in 1..Len(files[job]) : files[job][i].path \in Path
         /\ \A i, k \in 1..Len(files[job]) :
              i < k /\ files[job][i].path = files[job][k].path => ~files[job][i].existed
         /\ Len(files[job]) \in Nat /\ pos \in Nat /\ pushed \in Nat
         /\ disk \in Tree /\ backup \in Tree
         /\ pc \in {"move", "rename", "write", "publish"} => pos = Len(files[job]) /\ pos # 0
         /\ pc \in {"record", "write", "publish", "append"} => pushed = Len(files[job])
         /\ pc \in {"move", "rename"} => pushed + 1 = Len(files[job])
         /\ pc \in {"rollback", "remove", "putback", "undo", "restore"} => pos <= Len(files[job])
         /\ pc \in {"putback", "restore"} => pos # 0
<1>1. job \in Journal /\ status[job] = "pending"
  BY RowIs DEF Applying
<1>2. \A j \in Journal : status[j] = "pending" => j = job
  BY <1>1, RowIs
<1>3. \A i \in 1..Len(files[job]) : files[job][i].path \in Path
  BY <1>1, EntryIs
<1>4. /\ Kept(files[job], Len(files[job]), disk, base[job])
      /\ Saved(files[job], disk, backup, base[job])
  BY <1>1 DEF TreeOK
<1>5. Fits(files[job], draftOf[job])
  BY <1>1 DEF FilesInv, EntriesOK
<1>6. /\ files[job] \in Seq(Entry) /\ disk \in Tree /\ backup \in Tree
      /\ Len(files[job]) \in Nat /\ pos \in Nat /\ pushed \in Nat
  BY <1>1 DEF IInv, TypeOK, FileTypes, RowTypes, RunTypes
<1>7. /\ pc \in {"move", "rename", "write", "publish"} => pos = Len(files[job]) /\ pos # 0
      /\ pc \in {"record", "write", "publish", "append"} => pushed = Len(files[job])
      /\ pc \in {"move", "rename"} => pushed + 1 = Len(files[job])
      /\ pc \in {"rollback", "remove", "putback", "undo", "restore"} => pos <= Len(files[job])
      /\ pc \in {"putback", "restore"} => pos # 0
  BY <1>6 DEF IInv, IndexOK
<1> QED
  BY <1>1, <1>2, <1>3, <1>4, <1>5, <1>6, <1>7 DEF Fits

\* Every step keeps what can be told of the tree a pending row began on.
LEMMA TreeStep ==
  ASSUME IInv, FilesInv, BacklogOK, TreeOK, [Next]_vars PROVE TreeOK'
<1> SUFFICES ASSUME edits' = 0
             PROVE  /\ \A j \in Journal : status'[j] = "pending" =>
                         /\ Kept(files'[j], Len(files'[j]), disk', base'[j])
                         /\ Saved(files'[j], disk', backup', base'[j])
                    /\ pc' \in Applying => Kept(files'[job'], pushed', disk', base'[job'])
                    /\ pc' \in {"rollback", "remove", "putback", "undo", "restore"} /\ ~blocked'
                         => Kept(files'[job'], pos', disk', base'[job'])
  BY DEF TreeOK
<1>0. edits = 0 /\ ~Edited
  BY EditsStep
<1> DEFINE F == files[job]
           b == base[job]
<1>a. /\ \A j \in Journal : status[j] = "pending" =>
            Kept(files[j], Len(files[j]), disk, base[j]) /\ Saved(files[j], disk, backup, base[j])
      /\ pc \in Applying => Kept(F, pushed, disk, b)
      /\ pc \in {"rollback", "remove", "putback", "undo", "restore"} /\ ~blocked
           => Kept(F, pos, disk, b)
  BY <1>0 DEF TreeOK
<1>1. CASE Still
  BY <1>a, <1>1 DEF Still, Rows, runVars, stepVars, fileVars
<1>2. CASE Leaves \/ Cleaned
  BY <1>a, <1>2 DEF Leaves, Cleaned, Rows, fileVars, Applying
<1>3. CASE TakesUp
  BY <1>a, <1>3 DEF TakesUp, Rows, fileVars, Applying
<1>4. CASE Plans
  BY <1>a, <1>4 DEF Plans, Rows, fileVars, Written, Applying
<1>5. CASE Skips
  BY <1>a, <1>5 DEF Skips, Rows, fileVars, Applying
<1>6. CASE GivesUp
  <2>1. /\ pc \in Applying /\ pc' = "rollback" /\ pos' = pushed' /\ pushed \in Nat
        /\ pushed' = pushed \/ pushed' = pushed + 1
        /\ UNCHANGED <<disk, backup, files, base, status, job>>
    BY <1>6, RowIs DEF GivesUp, Rows, fileVars
  <2>2. Kept(F, pushed', disk, b)
    BY <1>a, <2>1, KeptMore
  <2> QED
    BY <1>a, <2>1, <2>2 DEF Applying
<1>7. CASE Commits \/ Finishes
  <2>1. /\ job \in Journal /\ status[job] = "pending" /\ pc' \in {"cleanup", "idle", "settle"}
        /\ \A j \in Journal : status[j] = "pending" => j = job
        /\ \E s \in {"committed", "aborted", "recovered"} : status' = [status EXCEPT ![job] = s]
        /\ status \in [Journal -> Status]
    BY <1>0, <1>7, Working DEF Commits, Finishes, Written, Applying, IInv, TypeOK, RowTypes
  <2>2. \A j \in Journal : status'[j] # "pending"
    BY <2>1
  <2> QED
    BY <2>1, <2>2 DEF Applying
<1>8. CASE \E d \in Draft, j \in Journal : Begin(d, j)
  <2>1. PICK d \in Draft, j \in Journal : Begin(d, j)
    BY <1>8
  <2>2. /\ pc' = "record" /\ job' = j /\ pushed' = 0 /\ Len(files[j]) = 0
        /\ \A i \in Journal : status[i] # "pending"
        /\ status' = [status EXCEPT ![j] = "pending"] /\ base' = [base EXCEPT ![j] = disk]
        /\ UNCHANGED <<disk, backup, files>>
    BY <2>1, Begun DEF fileVars
  <2>3. base \in [Journal -> Tree] /\ status \in [Journal -> Status]
    BY DEF IInv, TypeOK, RowTypes
  <2>4. base'[j] = disk /\ \A i \in Journal : status'[i] = "pending" => i = j
    BY <2>2, <2>3
  <2>5. Kept(files[j], 0, disk, disk) /\ Saved(files[j], disk, backup, disk)
    BY <2>2 DEF Kept, Saved
  <2> QED
    BY <2>2, <2>4, <2>5
<1>9. CASE RecordFile
  <2> DEFINE e == files'[job][pos]
  <2>1. /\ pc = "record" /\ pc' = "move" /\ pos = Len(F) + 1 /\ pushed = Len(F)
        /\ F \in Seq(Entry) /\ files'[job] = Append(F, e) /\ Len(files'[job]) = Len(F) + 1
        /\ e \in Entry /\ backup[e.path] = Missing
        /\ e.existed <=> disk[e.path] # Missing
        /\ UNCHANGED <<disk, backup, status, base, job, pushed>>
    BY <1>9, Recorded DEF fileVars
  <2>2. /\ job \in Journal /\ Kept(F, Len(F), disk, b) /\ Saved(F, disk, backup, b)
        /\ \A j \in Journal : status[j] = "pending" => j = job
    BY <1>0, <2>1, Working DEF Applying
  <2> HIDE DEF e, F, b
  <2>3. /\ Kept(Append(F, e), Len(F) + 1, disk, b) /\ Kept(Append(F, e), Len(F), disk, b)
        /\ Saved(Append(F, e), disk, backup, b)
    BY <2>1, <2>2, SavedAppend
  <2> QED
    BY <2>1, <2>2, <2>3 DEF F, b
<1>10. CASE MoveAside
  <2>1. /\ pc = "rename" /\ pc' = "write" /\ pushed' = pushed + 1
        /\ UNCHANGED <<status, files, base, job>>
    BY <1>10 DEF MoveAside, Goto, rowVars
  <2>2. /\ job \in Journal /\ F \in Seq(Entry) /\ pos = Len(F) /\ pos \in 1..Len(F)
        /\ Len(F) \in Nat /\ pushed' = Len(F)
        /\ Kept(F, Len(F), disk, b) /\ Saved(F, disk, backup, b)
        /\ \A j \in Journal : status[j] = "pending" => j = job
        /\ F[pos].path \in Path /\ disk \in Tree /\ backup \in Tree
    BY <1>0, <2>1, Working DEF Applying
  <2>3. backup[F[pos].path] = Missing
    BY <2>1 DEF FilesInv, MovedOK, Current
  <2> DEFINE p == F[pos].path
  <2>4. /\ \A q \in Path : q # p => disk'[q] = disk[q] /\ backup'[q] = backup[q]
        /\ \/ disk'[p] = disk[p] /\ backup'[p] = backup[p]
           \/ backup'[p] = disk[p]
    BY <1>10, <2>2 DEF MoveAside, Current, Tree
  <2> HIDE DEF F, b
  <2>5. Kept(F, Len(F), disk', b)
    BY <2>2, <2>4, KeptAt
  <2>6. Saved(F, disk', backup', b)
    <3>1. \A i \in 1..Len(F) :
            F[i].path = p /\ F[i].existed /\ b[p] # Missing /\ First(F, i)
              /\ (backup[p] = b[p] \/ (backup[p] = Missing /\ disk[p] = b[p]))
              => backup'[p] = b[p] \/ (backup'[p] = Missing /\ disk'[p] = b[p])
      BY <2>3, <2>4
    <3> HIDE DEF p
    <3>2. p \in Path
      BY <2>2 DEF p
    <3> QED
      BY <2>2, <2>4, <3>1, <3>2, SavedAt
  <2> QED
    BY <2>1, <2>2, <2>5, <2>6 DEF F, b
<1>11. CASE WriteTemp
  BY <1>0, <1>a, <1>11 DEF WriteTemp, Goto, rowVars, Applying
<1>12. CASE Publish
  <2>1. /\ pc \in {"write", "publish"} /\ pc' = "record"
        /\ UNCHANGED <<backup, status, files, base, job, pushed>>
    BY <1>12 DEF Publish, Goto, rowVars
  <2>2. /\ job \in Journal /\ F \in Seq(Entry) /\ pos = Len(F) /\ pos \in 1..Len(F)
        /\ Len(F) \in Nat /\ pushed = Len(F)
        /\ Kept(F, Len(F), disk, b) /\ Saved(F, disk, backup, b)
        /\ \A j \in Journal : status[j] = "pending" => j = job
        /\ F[pos].path \in Path /\ disk \in Tree
    BY <1>0, <2>1, Working DEF Applying
  <2>3. \A i \in 1..Len(F) : F[i].existed => backup[F[i].path] # Missing
    BY <2>1, <2>2 DEF FilesInv, MovedOK
  <2> DEFINE p == F[pos].path
  <2>4. \A q \in Path : q # p => disk'[q] = disk[q]
    BY <1>12, <2>2 DEF Publish, Current, Tree
  <2> HIDE DEF F, b
  <2>5. Kept(F, Len(F), disk', b)
    BY <2>2, <2>4, KeptAt
  <2>6. Saved(F, disk', backup, b)
    <3>1. \A i \in 1..Len(F) :
            F[i].path = p /\ F[i].existed /\ b[p] # Missing /\ First(F, i)
              /\ (backup[p] = b[p] \/ (backup[p] = Missing /\ disk[p] = b[p]))
              => backup[p] = b[p] \/ (backup[p] = Missing /\ disk'[p] = b[p])
      BY <2>3
    <3> HIDE DEF p
    <3>2. p \in Path
      BY <2>2 DEF p
    <3> QED
      BY <2>2, <2>4, <3>1, <3>2, SavedAt
  <2> QED
    BY <2>1, <2>2, <2>5, <2>6 DEF F, b
<1>13. CASE CleanFile
  <2>1. /\ pc = "cleanup" /\ pc' = "cleanup" /\ job \in Journal /\ UNCHANGED status
    BY <1>13, RowIs DEF CleanFile, Goto, rowVars
  <2>2. \A j \in Journal : status'[j] # "pending"
    BY <2>1 DEF BacklogOK
  <2> QED
    BY <2>1, <2>2 DEF Applying
<1>14. CASE Removes
  <2>1. /\ pc \in {"remove", "undo"} /\ pos # 0 /\ (blocked => blocked')
        /\ pc' \in {"rollback", "remove", "putback", "undo", "restore"}
        /\ UNCHANGED <<backup, status, files, base, job>>
    BY <1>14 DEF Removes, Loop, Rows
  <2>2. /\ job \in Journal /\ F \in Seq(Entry) /\ pos \in 1..Len(F) /\ pos \in Nat
        /\ Len(F) \in Nat
        /\ Kept(F, Len(F), disk, b) /\ Saved(F, disk, backup, b)
        /\ \A j \in Journal : status[j] = "pending" => j = job
        /\ F[pos].path \in Path /\ disk \in Tree
        /\ \A i, k \in 1..Len(F) : i < k /\ F[i].path = F[k].path => ~F[i].existed
    BY <1>0, <2>1, Working
  <2> DEFINE p == F[pos].path
  <2>3. /\ \A q \in Path : q # p => disk'[q] = disk[q]
        /\ \/ /\ F[pos].existed /\ backup[p] = Missing /\ pos' = pos - 1 /\ disk' = disk
           \/ /\ ~F[pos].existed /\ pos' = pos - 1 /\ disk'[p] = Missing
           \/ /\ F[pos].existed /\ backup[p] # Missing /\ pos' = pos
    BY <1>14, <2>2 DEF Removes, Current, Tree
  <2> HIDE DEF F, b
  <2>4. Kept(F, Len(F), disk', b)
    BY <2>2, <2>3, KeptAt
  <2>5. Saved(F, disk', backup, b)
    <3>1. \A i \in 1..Len(F) : F[i].path = p /\ First(F, i) => i <= pos
      BY <2>2 DEF First
    <3>2. \A i \in 1..Len(F) : F[i].path = p /\ F[i].existed /\ First(F, i) => i = pos
      BY <2>2, <3>1
    <3>3. \A i \in 1..Len(F) :
            F[i].path = p /\ F[i].existed /\ b[p] # Missing /\ First(F, i)
              /\ (backup[p] = b[p] \/ (backup[p] = Missing /\ disk[p] = b[p]))
              => backup[p] = b[p] \/ (backup[p] = Missing /\ disk'[p] = b[p])
      BY <2>3, <3>2
    <3> HIDE DEF p
    <3>4. p \in Path
      BY <2>2 DEF p
    <3> QED
      BY <2>2, <2>3, <3>3, <3>4, SavedAt
  <2>6. ~blocked' => Kept(F, pos', disk', b)
    <3> SUFFICES ASSUME ~blocked' PROVE Kept(F, pos', disk', b)
      OBVIOUS
    <3>1. Kept(F, pos, disk, b)
      BY <1>a, <2>1 DEF F, b
    <3>2. CASE pos' = pos
      BY <2>2, <2>3, <3>1, <3>2, KeptAt
    <3>3. CASE pos' = pos - 1
      <4>1. First(F, pos) => disk'[p] = b[p]
        BY <2>2, <2>3, <3>3 DEF Saved
      <4> QED
        BY <2>1, <2>2, <2>3, <3>1, <3>3, <4>1, KeptLess
    <3> QED
      BY <2>3, <3>2, <3>3
  <2> QED
    BY <2>1, <2>2, <2>4, <2>5, <2>6 DEF F, b, Applying
<1>15. CASE Renames
  <2>1. /\ pc \in {"putback", "restore"} /\ pos' = pos - 1 /\ pc' \in {"rollback", "undo"}
        /\ UNCHANGED <<status, files, base, job, blocked>>
    BY <1>15 DEF Renames, Rows
  <2>2. /\ job \in Journal /\ F \in Seq(Entry) /\ pos \in 1..Len(F) /\ pos \in Nat /\ pos # 0
        /\ Len(F) \in Nat
        /\ Kept(F, Len(F), disk, b) /\ Saved(F, disk, backup, b)
        /\ \A j \in Journal : status[j] = "pending" => j = job
        /\ F[pos].path \in Path /\ disk \in Tree /\ backup \in Tree
    BY <1>0, <2>1, Working
  <2> DEFINE p == F[pos].path
  <2>3. /\ \A q \in Path : q # p => disk'[q] = disk[q] /\ backup'[q] = backup[q]
        /\ disk'[p] = backup[p] /\ backup'[p] = Missing
        /\ F[pos].existed /\ backup[p] # Missing
    BY <1>15, <2>1, <2>2 DEF Renames, Current, Tree, FilesInv, MovedOK
  <2> HIDE DEF F, b
  <2>4. Kept(F, Len(F), disk', b)
    BY <2>2, <2>3, KeptAt
  <2>5. Saved(F, disk', backup', b)
    <3>1. \A i \in 1..Len(F) :
            F[i].path = p /\ F[i].existed /\ b[p] # Missing /\ First(F, i)
              /\ (backup[p] = b[p] \/ (backup[p] = Missing /\ disk[p] = b[p]))
              => backup'[p] = b[p] \/ (backup'[p] = Missing /\ disk'[p] = b[p])
      BY <2>3
    <3> HIDE DEF p
    <3>2. p \in Path
      BY <2>2 DEF p
    <3> QED
      BY <2>2, <2>3, <3>1, <3>2, SavedAt
  <2>6. ~blocked' => Kept(F, pos', disk', b)
    <3> SUFFICES ASSUME ~blocked' PROVE Kept(F, pos', disk', b)
      OBVIOUS
    <3>1. Kept(F, pos, disk, b)
      BY <1>a, <2>1 DEF F, b
    <3>2. First(F, pos) => disk'[p] = b[p]
      BY <2>2, <2>3 DEF Saved
    <3> QED
      BY <2>1, <2>2, <2>3, <3>1, <3>2, KeptLess
  <2> QED
    BY <2>1, <2>2, <2>4, <2>5, <2>6 DEF F, b, Applying
<1>16. CASE Checks
  BY <1>a, <1>16 DEF Checks, Rows, fileVars, Applying
<1> QED
  BY <1>0, <1>1, <1>2, <1>3, <1>4, <1>5, <1>6, <1>7, <1>8, <1>9, <1>10, <1>11, <1>12, <1>13,
     <1>14, <1>15, <1>16, StepShape DEF Shape

\* Where cleaning up works, all parts of the invariant hold in every state.
LEMMA Trees == ASSUME CleanupWorks PROVE Spec => [](IInv /\ FilesInv /\ BacklogOK /\ TreeOK)
<1>1. Init => TreeOK
  BY DEF Init, TreeOK, Applying
<1>2. IInv /\ FilesInv /\ BacklogOK /\ TreeOK /\ [Next]_vars => TreeOK'
  BY TreeStep
<1> QED
  BY <1>1, <1>2, Backlog, PTL DEF Spec

\* Wherever an apply, a rollback or a recovery was cut short, as often as that
\* happened, the tree the ChangeSet began on can be put together again.
THEOREM Recoverable == ASSUME CleanupWorks PROVE Spec => []PreimageRecoverable
<1>1. IInv /\ FilesInv /\ TreeOK => PreimageRecoverable
  <2> SUFFICES ASSUME IInv, FilesInv, TreeOK, edits = 0, NEW j \in Pending
               PROVE  Undone(j) = base[j]
    BY DEF PreimageRecoverable
  <2> DEFINE F == files[j]
             b == base[j]
  <2>1. /\ j \in Journal /\ Fits(F, draftOf[j])
        /\ Kept(F, Len(F), disk, b) /\ Saved(F, disk, backup, b)
    BY DEF Pending, FilesInv, EntriesOK, TreeOK
  <2>2. b \in [Path -> Content] /\ DOMAIN F = 1..Len(F) /\ Len(F) \in Nat
    BY <2>1 DEF IInv, TypeOK, RowTypes, Tree
  <2>3. ASSUME NEW p \in Path
        PROVE  b[p] = IF ~\E i \in DOMAIN F : F[i].path = p THEN disk[p]
                      ELSE IF ~FirstExisted(j, p) THEN Missing
                      ELSE IF backup[p] # Missing THEN backup[p] ELSE disk[p]
    <3>1. CASE ~\E i \in DOMAIN F : F[i].path = p
      BY <2>1, <2>2, <3>1 DEF Kept
    <3>2. CASE \E i \in DOMAIN F : F[i].path = p
      <4>1. PICK i \in 1..Len(F) : F[i].path = p
        BY <2>2, <3>2
      <4>2. PICK k \in 1..i : F[k].path = p /\ First(F, k)
        BY <2>1, <4>1 DEF Fits
      <4>3. k \in 1..Len(F)
        BY <2>2
      <4>4. FirstExisted(j, p) <=> F[k].existed
        <5>1. \A l \in 1..Len(F) : F[l].path = p /\ (\A m \in 1..(l - 1) : F[m].path # p) => l = k
          BY <2>2, <4>2, <4>3 DEF First
        <5> QED
          BY <2>2, <4>2, <4>3, <5>1 DEF FirstExisted, First
      <4>5. IF F[k].existed
            THEN b[p] # Missing /\ (backup[p] = b[p] \/ (backup[p] = Missing /\ disk[p] = b[p]))
            ELSE b[p] = Missing
        BY <2>1, <4>2, <4>3 DEF Saved
      <4> QED
        BY <3>2, <4>4, <4>5
    <3> QED
      BY <3>1, <3>2
  <2> QED
    BY <2>2, <2>3 DEF Undone
<1> QED
  BY <1>1, Trees, PTL
=============================================================================

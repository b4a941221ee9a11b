------------------------ MODULE ChangeSetFilesProofs ------------------------
(* Theorems about what a ChangeSet leaves in the file system: backups,       *)
(* temporary files, and the tree it began on.  ChangeSetJournalProofs knows  *)
(* which row and which entry a step works on; here this is related to the    *)
(* files beside the repository's own.                                        *)
EXTENDS ChangeSetJournalProofs, FiniteSetTheorems

\* A row that may still have a backup: it is pending, or its cleanup is owed.
Owns(j) == status[j] = "pending" \/ (status[j] = "committed" /\ ~cleaned[j])

\* Every backup was moved aside by an entry of such a row.
OwnedOK ==
  /\ \A p \in Path : backup[p] # Missing =>
       \E j \in Journal : /\ Owns(j)
                          /\ \E i \in 1..Len(files[j]) :
                               files[j][i].path = p /\ files[j][i].existed
  /\ \A j \in Journal : status[j] \in {"none", "pending"} => ~cleaned[j]

\* A temporary file is there while it is published, and after that only until
\* the entry that wrote it is undone.
TempOK ==
  /\ (\A j \in Journal : status[j] # "pending") => temp = {}
  /\ pc \in Applying \ {"publish"} => temp = {}
  /\ pc = "publish" => temp \subseteq {Current.path}
  /\ \A j \in Journal : status[j] = "pending" =>
       \A p \in temp : \E i \in 1..Len(files[j]) : files[j][i].path = p
  /\ pc \in {"rollback", "remove", "undo"} /\ ~blocked =>
       \A p \in temp : \E i \in 1..pos : files[job][i].path = p
  /\ pc \in {"putback", "restore"} /\ ~blocked =>
       \A p \in temp : \E i \in 1..(pos - 1) : files[job][i].path = p

\* While a ChangeSet is applied every file it moved aside has its backup.
MovedOK ==
  /\ pc \in Applying => ~blocked
  /\ pc \in {"record", "move", "rename", "write", "publish"} =>
       \A i \in 1..pushed :
         files[job][i].existed => backup[files[job][i].path] # Missing
  /\ pc \in {"move", "rename"} => backup[Current.path] = Missing
  /\ pc \in {"putback", "restore"} =>
       Current.existed /\ backup[Current.path] # Missing

\* Undoing and cleaning up leave no backup of the entries they have passed.
LoopOK ==
  /\ pc \in {"rollback", "remove", "putback", "undo", "restore"} /\ ~blocked =>
       \A i \in 1..Len(files[job]) :
         i > pos /\ files[job][i].existed => backup[files[job][i].path] = Missing
  /\ pc = "cleanup" =>
       \A i \in 1..Len(files[job]) :
         i < pos => backup[files[job][i].path] = Missing

\* Entry i of the entries F is the first that names its path.
First(F, i) == \A k \in 1..(i - 1) : F[k].path # F[i].path

\* The entries F are operations of draft d, in order from the first.  Only the
\* last entry of a path can have found a file there.
Fits(F, d) ==
  /\ Len(F) <= Len(Writes[d])
  /\ \A i \in 1..Len(F) :
       /\ F[i].path = Op(d, i).path /\ F[i].body = Op(d, i).body
       /\ \E k \in 1..i : F[k].path = F[i].path /\ First(F, k)
  /\ \A i, k \in 1..Len(F) : i < k /\ F[i].path = F[k].path => ~F[i].existed

\* The entries of every row fit its draft.
EntriesOK ==
  \A j \in Journal : /\ Fits(files[j], draftOf[j])
                     /\ status[j] # "none" => Applicable(draftOf[j])

FilesInv == OwnedOK /\ TempOK /\ MovedOK /\ LoopOK /\ EntriesOK

-----------------------------------------------------------------------------
(* What a step can do to rows and files, whichever action takes it.          *)

Rows == <<status, draftOf, base, files, cleaned>>

Still  == UNCHANGED <<fileVars, Rows, runVars>>
Edited ==
  /\ UNCHANGED <<backup, temp, Rows, stepVars>> /\ edits' # 0
  /\ \E p \in Path, c \in Content : Edit(p, c)
Leaves == pc' \in {"idle", "settle"} /\ UNCHANGED <<fileVars, Rows>>

\* A start begins to clean up a row, or to undo one.
TakesUp ==
  /\ pc = "idle" /\ job' \in Journal /\ UNCHANGED <<fileVars, Rows>>
  /\ \/ pc' = "cleanup" /\ pos' = 1 /\ status[job'] = "committed"
     \/ pc' = "undo" /\ pos' = Len(files[job']) /\ status[job'] = "pending"

\* The apply turns to rolling back what it has pushed.
GivesUp ==
  /\ pc \in Applying /\ pc' = "rollback" /\ pos' = pushed'
  /\ pushed' = pushed \/ (pc = "rename" /\ pushed' = pushed + 1)
  /\ UNCHANGED <<fileVars, Rows, job, blocked>>

Commits ==
  /\ Written \/ pc = "append"
  /\ status' = [status EXCEPT ![job] = "committed"]
  /\ pc' = "cleanup" /\ pos' = 1
  /\ UNCHANGED <<fileVars, draftOf, base, files, cleaned, job>>

Plans ==
  /\ Written /\ WritesLedger /\ pc' = "append"
  /\ UNCHANGED <<fileVars, Rows, job, pos, pushed, blocked>>

Cleaned ==
  /\ pc = "cleanup" /\ pos > Len(files[job]) /\ pc' \in {"idle", "settle"}
  /\ cleaned' = [cleaned EXCEPT ![job] = TRUE]
  /\ UNCHANGED <<fileVars, status, draftOf, base, files>>

\* What has been looked at is moved or removed next.
Checks ==
  /\ \/ pc = "move" /\ pc' = "rename" /\ Recheck
     \/ pc = "rollback" /\ pos # 0 /\ pc' = "remove" /\ RollbackCheck
  /\ UNCHANGED <<fileVars, Rows, job, pos, pushed, blocked>>

Skips ==
  /\ pc = "rollback" /\ pos # 0 /\ pc' = "rollback" /\ pos' = pos - 1 /\ blocked'
  /\ UNCHANGED <<fileVars, Rows, job>>

\* The loop that a removal belongs to.
Loop == IF pc = "undo" THEN "undo" ELSE "rollback"

Removes ==
  /\ pc \in {"remove", "undo"} /\ pos # 0 /\ (blocked => blocked')
  /\ temp' = temp \ {Current.path}
  /\ \/ /\ Current.existed /\ backup[Current.path] = Missing
        /\ pc' = Loop /\ pos' = pos - 1 /\ UNCHANGED disk
     \/ /\ ~Current.existed /\ pc' = Loop /\ pos' = pos - 1
        /\ disk' = [disk EXCEPT ![Current.path] = Missing]
     \/ /\ Current.existed /\ backup[Current.path] # Missing
        /\ pc' = (IF pc = "undo" THEN "restore" ELSE "putback") /\ pos' = pos
        /\ disk' = [disk EXCEPT ![Current.path] = Missing]
  /\ UNCHANGED <<backup, Rows, job>>

Renames ==
  /\ pc \in {"putback", "restore"} /\ pos' = pos - 1
  /\ pc' = IF pc = "restore" THEN "undo" ELSE "rollback"
  /\ disk' = [disk EXCEPT ![Current.path] = backup[Current.path]]
  /\ backup' = [backup EXCEPT ![Current.path] = Missing]
  /\ UNCHANGED <<temp, Rows, job, blocked>>

Finishes ==
  /\ pc \in {"rollback", "undo"} /\ pos = 0 /\ ~blocked /\ pc' \in {"idle", "settle"}
  /\ \E s \in {"aborted", "recovered"} : status' = [status EXCEPT ![job] = s]
  /\ \A j \in Journal : j # job => cleaned'[j] = cleaned[j]
  /\ UNCHANGED <<fileVars, draftOf, base, files>>

Shape ==
  \/ Still \/ Edited \/ Leaves \/ TakesUp \/ GivesUp \/ Commits \/ Plans
  \/ \E d \in Draft, j \in Journal : Begin(d, j)
  \/ RecordFile \/ Checks \/ MoveAside \/ WriteTemp \/ Publish
  \/ CleanFile \/ Cleaned \/ Skips \/ Removes \/ Renames \/ Finishes

\* Every step has one of the shapes.
LEMMA StepShape == ASSUME IInv, [Next]_vars PROVE Shape
<1> USE DEF Rows, rowVars, runVars, stepVars, Goto
<1>0. /\ pc # "idle" => job \in Journal
      /\ pos \in Nat /\ edits \in Nat /\ todo \subseteq Journal
      /\ status \in [Journal -> Status] /\ cleaned \in [Journal -> BOOLEAN]
      /\ mode = "clean" => \A j \in todo : status[j] = "committed"
      /\ mode = "recover" => \A j \in todo : status[j] = "pending"
      /\ pc = "cleanup" => status[job] = "committed"
  BY DEF IInv, IndexOK, RowOK, TypeOK, RowTypes, RunTypes
<1>1. CASE \/ \E d \in Draft : Plan(d)
           \/ RefreshGate \/ Start \/ FindPending \/ Ready \/ UNCHANGED vars
  BY <1>1 DEF Shape, Still, Plan, RefreshGate, Start, FindPending, Ready, vars
<1>2. CASE \E j \in Journal : RollForward(j)
  BY <1>2, NothingToRollForward DEF Shape, Still, RollForward
<1>3. CASE \E p \in Path, c \in Content : Edit(p, c)
  <2>1. UNCHANGED <<backup, temp, Rows, stepVars>> /\ edits' # 0
    BY <1>0, <1>3 DEF Edit
  <2> QED
    BY <1>3, <2>1 DEF Shape, Edited
<1>4. CASE CleanFails \/ RollbackFails \/ UndoFails \/ Settle \/ Crash
  BY <1>4 DEF Shape, Leaves, CleanFails, RollbackFails, UndoFails, Settle, Crash,
              Return, Idle
<1>5. CASE \E j \in Journal : CleanRow(j)
  BY <1>0, <1>5 DEF Shape, TakesUp, CleanRow
<1>6. CASE \E j \in Journal : RecoverRow(j)
  BY <1>0, <1>6 DEF Shape, TakesUp, Still, RecoverRow
<1>7. CASE Refuse \/ MoveVanished \/ Fail \/ AppendConflict
  BY <1>7 DEF Shape, GivesUp, Applying, Refuse, MoveFails, MoveVanished, Fail,
              AppendConflict
<1>8. CASE Commit \/ AppendAndCommit
  BY <1>8 DEF Shape, Commits, Commit, AppendAndCommit
<1>9. CASE PlanEvent
  BY <1>9 DEF Shape, Plans, PlanEvent
<1>10. CASE CleanDone
  <2>1. status' = status
    BY <1>0, <1>10 DEF CleanDone
  <2> QED
    BY <1>10, <2>1 DEF Shape, Cleaned, CleanDone, Return, Idle
<1>11. CASE Recheck \/ RollbackCheck
  <2>1. CASE Recheck
    BY <2>1 DEF Shape, Checks, Recheck
  <2>2. CASE RollbackCheck /\ Foreign(Current)
    BY <1>0, <2>2 DEF Shape, Skips, RollbackCheck
  <2>3. CASE RollbackCheck /\ ~Foreign(Current)
    BY <1>0, <2>3 DEF Shape, Checks, RollbackCheck
  <2> QED
    BY <1>11, <2>1, <2>2, <2>3
<1>17. CASE RollbackFile
  <2>1. pos # 0
    BY <1>17 DEF RollbackFile, IInv, IndexOK
  <2> QED
    BY <1>0, <1>17, <2>1 DEF Shape, Removes, Loop, RollbackFile, UndoRemove
<1>12. CASE UndoFile
  <2>1. blocked => blocked'
    BY <1>12 DEF UndoFile
  <2> QED
    BY <1>0, <1>12, <2>1 DEF Shape, Removes, Loop, UndoFile, UndoRemove
<1>13. CASE RollbackRename \/ UndoFileRename
  BY <1>13 DEF Shape, Renames, RollbackRename, UndoFileRename, UndoRename
<1>14. CASE Abort
  <2>1. CASE blocked
    BY <1>14, <2>1 DEF Shape, Leaves, Abort
  <2>2. CASE ~blocked
    BY <1>14, <2>2 DEF Shape, Finishes, Abort
  <2> QED
    BY <2>1, <2>2
<1>15. CASE UndoDone
  <2>1. CASE blocked
    <3>1. cleaned' = cleaned /\ status' = status
      BY <1>0, <1>15, <2>1 DEF UndoDone
    <3> QED
      BY <1>15, <3>1 DEF Shape, Leaves, UndoDone, Idle
  <2>2. CASE ~blocked
    <3>1. \A j \in Journal : j # job => cleaned'[j] = cleaned[j]
      BY <1>0, <1>15 DEF UndoDone
    <3> QED
      BY <1>15, <2>2, <3>1 DEF Shape, Finishes, UndoDone, Idle
  <2> QED
    BY <2>1, <2>2
<1>16. CASE (\E d \in Draft, j \in Journal : Begin(d, j)) \/ RecordFile \/ MoveAside
            \/ WriteTemp \/ Publish \/ CleanFile
  BY <1>16 DEF Shape
<1> QED
  BY <1>1, <1>2, <1>3, <1>4, <1>5, <1>6, <1>7, <1>8, <1>9, <1>10, <1>11, <1>12, <1>13,
     <1>14, <1>15, <1>16, <1>17 DEF Next, Apply, Startup, Faults

-----------------------------------------------------------------------------
(* Lemmas that every part of the invariant needs.                            *)

\* The row a step works on, and the entries of a row.
LEMMA RowIs ==
  ASSUME IInv
  PROVE  /\ pc # "idle" => job \in Journal
         /\ pc \in Applying \cup {"rollback", "remove", "putback", "undo", "restore"}
              => status[job] = "pending"
         /\ pc = "cleanup" => status[job] = "committed"
         /\ pos \in Nat /\ pushed \in Nat
         /\ \A j \in Journal : Len(files[j]) \in Nat /\ status[j] \in Status
         /\ \A i, j \in Journal : status[i] = "pending" /\ status[j] = "pending" => i = j
         /\ \A j \in Journal : status[j] = "none" => files[j] = <<>> /\ Len(files[j]) = 0
  BY DEF IInv, IndexOK, RowOK, PendingOK, TypeOK, RowTypes, RunTypes

\* The fields of an entry of a row.
LEMMA EntryIs ==
  ASSUME IInv, NEW j \in Journal, NEW i \in 1..Len(files[j])
  PROVE  /\ files[j][i] \in Entry /\ files[j][i].path \in Path
         /\ files[j][i].body \in Content /\ files[j][i].existed \in BOOLEAN
<1>1. files[j] \in Seq(Entry)
  BY DEF IInv, TypeOK, RowTypes
<1>2. files[j][i] \in Entry
  BY <1>1
<1> QED
  BY <1>2 DEF Entry

\* RecordFile appends one entry, of the operation that is next, for a path that
\* has no backup.
LEMMA Recorded ==
  ASSUME IInv, RecordFile
  PROVE  /\ job \in Journal /\ status[job] = "pending" /\ pc = "record" /\ pc' = "move"
         /\ pos = Len(files[job]) + 1 /\ pushed = Len(files[job])
         /\ pos <= Len(Writes[draftOf[job]])
         /\ files[job] \in Seq(Entry) /\ files'[job] = Append(files[job], files'[job][pos])
         /\ Len(files'[job]) = pos
         /\ \A i \in 1..Len(files[job]) : files'[job][i] = files[job][i]
         /\ \A j \in Journal : j # job => files'[j] = files[j]
         /\ files'[job][pos] \in Entry
         /\ files'[job][pos].path = CurrentOp.path
         /\ files'[job][pos].body = CurrentOp.body
         /\ files'[job][pos].existed <=> disk[CurrentOp.path] # Missing
         /\ CurrentOp.path \in Path /\ backup[CurrentOp.path] = Missing
         /\ UNCHANGED <<fileVars, status, draftOf, base, cleaned, job, pos, pushed, blocked>>
<1> DEFINE e == [path |-> CurrentOp.path, body |-> CurrentOp.body,
                 existed |-> disk[CurrentOp.path] # Missing]
<1>1. /\ job \in Journal /\ status[job] = "pending" /\ pc = "record" /\ pc' = "move"
      /\ pos = Len(files[job]) + 1 /\ pushed = Len(files[job])
      /\ pos <= Len(Writes[draftOf[job]]) /\ backup[CurrentOp.path] = Missing
      /\ files' = [files EXCEPT ![job] = Append(@, e)]
      /\ UNCHANGED <<fileVars, status, draftOf, base, cleaned, job, pos, pushed, blocked>>
  BY RowIs DEF RecordFile, PreimageHolds, Goto, Applying, IInv, IndexOK
<1>2. CurrentOp \in Ops
  BY <1>1, OpType DEF CurrentOp, IInv, TypeOK, RowTypes, RunTypes
<1>3. e \in Entry /\ CurrentOp.path \in Path
  BY <1>2 DEF Ops, Entry
<1>4. files \in [Journal -> Seq(Entry)] /\ files[job] \in Seq(Entry)
  BY <1>1 DEF IInv, TypeOK, RowTypes
<1>5. files'[job] = Append(files[job], e) /\ \A j \in Journal : j # job => files'[j] = files[j]
  BY <1>1, <1>4
<1>6. /\ Len(files'[job]) = pos /\ files'[job][pos] = e
      /\ \A i \in 1..Len(files[job]) : files'[job][i] = files[job][i]
  <2> HIDE DEF e
  <2> QED
    BY <1>1, <1>3, <1>4, <1>5
<1>7. /\ e.path = CurrentOp.path /\ e.body = CurrentOp.body
      /\ e.existed <=> disk[CurrentOp.path] # Missing
  OBVIOUS
<1> HIDE DEF e
<1> QED
  BY <1>1, <1>3, <1>4, <1>5, <1>6, <1>7

\* A ChangeSet begins with an empty row, and no other row is pending.
LEMMA Begun ==
  ASSUME IInv, NEW d \in Draft, NEW j \in Journal, Begin(d, j)
  PROVE  /\ pc = "idle" /\ pc' = "record" /\ job' = j /\ pushed' = 0 /\ pos' = 1 /\ ~blocked'
         /\ status[j] = "none" /\ Len(files[j]) = 0 /\ Applicable(d)
         /\ \A i \in Journal : status[i] # "pending"
         /\ status' = [status EXCEPT ![j] = "pending"]
         /\ draftOf' = [draftOf EXCEPT ![j] = d] /\ base' = [base EXCEPT ![j] = disk]
         /\ UNCHANGED <<fileVars, files, cleaned>>
<1>1. \A i \in Journal : status[i] # "pending"
  BY DEF Begin, GateOpen, Pending, IInv, PendingOK
<1> QED
  BY <1>1, RowIs DEF Begin, Goto

-----------------------------------------------------------------------------
\* A backup outlives its row in no step: what finishes a row has put back or
\* deleted every backup of the row's entries.
LEMMA OwnedStep == ASSUME IInv, FilesInv, [Next]_vars PROVE OwnedOK'
<1> USE DEF OwnedOK, Owns
<1>0. OwnedOK
  BY DEF FilesInv
<1>a. /\ status \in [Journal -> Status] /\ cleaned \in [Journal -> BOOLEAN]
      /\ backup \in Tree
  BY DEF IInv, TypeOK, FileTypes, RowTypes
<1>1. CASE UNCHANGED <<backup, Rows>>
  BY <1>0, <1>1 DEF Rows
<1>2. CASE \E d \in Draft, j \in Journal : Begin(d, j)
  <2>1. PICK d \in Draft, j \in Journal : Begin(d, j)
    BY <1>2
  <2>2. /\ status[j] = "none" /\ status' = [status EXCEPT ![j] = "pending"]
        /\ UNCHANGED <<backup, files, cleaned>>
    BY <2>1, Begun DEF fileVars
  <2> QED
    BY <1>0, <1>a, <2>2
<1>3. CASE RecordFile
  <2>1. /\ Len(files[job]) \in Nat /\ Len(files'[job]) = Len(files[job]) + 1
        /\ UNCHANGED <<backup, status, cleaned>>
    BY <1>3, Recorded, RowIs DEF fileVars
  <2>2. \A j \in Journal : \A i \in 1..Len(files[j]) :
           i \in 1..Len(files'[j]) /\ files'[j][i] = files[j][i]
    BY <1>3, <2>1, Recorded
  <2> QED
    BY <1>0, <2>1, <2>2
<1>4. CASE MoveAside
  <2>1. /\ job \in Journal /\ status[job] = "pending" /\ pos \in 1..Len(files[job])
        /\ UNCHANGED <<status, cleaned, files>>
    BY <1>4, RowIs DEF MoveAside, Applying, IInv, IndexOK, rowVars
  <2>2. \A p \in Path : backup'[p] # Missing =>
           backup[p] # Missing \/ (p = Current.path /\ Current.existed)
    BY <1>4, <1>a DEF MoveAside, Tree
  <2> QED
    BY <1>0, <2>1, <2>2 DEF Current
<1>5. CASE Commits
  <2>1. job \in Journal /\ status[job] = "pending"
    BY <1>5, RowIs DEF Commits, Written, Applying
  <2> QED
    BY <1>0, <1>a, <1>5, <2>1 DEF Commits, fileVars
<1>6. CASE CleanFile \/ Renames
  <2>1. /\ \A p \in Path : backup'[p] # Missing => backup[p] # Missing
        /\ UNCHANGED Rows
    BY <1>6, <1>a DEF CleanFile, Renames, Tree, rowVars, Rows
  <2> QED
    BY <1>0, <2>1 DEF Rows
<1>7. CASE Cleaned
  <2>1. /\ job \in Journal /\ status[job] = "committed" /\ Len(files[job]) \in Nat /\ pos \in Nat
        /\ cleaned' = [cleaned EXCEPT ![job] = TRUE]
        /\ UNCHANGED <<backup, status, files>>
    BY <1>7, RowIs DEF Cleaned, fileVars
  <2>2. \A i \in 1..Len(files[job]) : backup[files[job][i].path] = Missing
    BY <1>7, <2>1 DEF Cleaned, FilesInv, LoopOK
  <2> QED
    BY <1>0, <1>a, <2>1, <2>2
<1>8. CASE Finishes
  <2>1. /\ job \in Journal /\ status[job] = "pending" /\ Len(files[job]) \in Nat /\ pos = 0
        /\ \A j \in Journal : j # job => cleaned'[j] = cleaned[j] /\ status'[j] = status[j]
        /\ status'[job] \in {"aborted", "recovered"}
        /\ UNCHANGED <<backup, files>>
    BY <1>8, <1>a, RowIs DEF Finishes, fileVars
  <2>2. \A i \in 1..Len(files[job]) :
          files[job][i].existed => backup[files[job][i].path] = Missing
    BY <1>8, <2>1 DEF Finishes, FilesInv, LoopOK
  <2> QED
    BY <1>0, <1>a, <2>1, <2>2
<1> QED
  BY <1>1, <1>2, <1>3, <1>4, <1>5, <1>6, <1>7, <1>8, StepShape
     DEF Shape, Still, Edited, Leaves, TakesUp, GivesUp, Plans, WriteTemp, Publish, Checks, Skips,
         Removes, fileVars, rowVars, Rows

\* Temporary files are removed with the entry that wrote them, or published.
LEMMA TempStep == ASSUME IInv, FilesInv, [Next]_vars PROVE TempOK'
<1> USE DEF TempOK
<1>0. TempOK
  BY DEF FilesInv
<1>a. /\ pc # "idle" => job \in Journal
      /\ pc \in Applying \cup {"rollback", "remove", "putback", "undo", "restore"} => status[job] = "pending"
      /\ pos \in Nat /\ pushed \in Nat
      /\ \A j \in Journal : Len(files[j]) \in Nat
      /\ \A i, j \in Journal : status[i] = "pending" /\ status[j] = "pending" => i = j
      /\ status \in [Journal -> Status]
  BY RowIs DEF IInv, TypeOK, RowTypes
<1>b. /\ pc \in {"move", "rename"} => pos = Len(files[job]) /\ pushed + 1 = pos
      /\ pc \in {"write", "publish"} => pos = Len(files[job]) /\ pushed = pos /\ pos # 0
  BY DEF IInv, IndexOK
<1>1. CASE Still \/ Edited
  BY <1>0, <1>1 DEF Still, Edited, Rows, runVars, stepVars, fileVars, Current
<1>2. CASE Leaves \/ Cleaned
  BY <1>0, <1>2 DEF Leaves, Cleaned, Rows, fileVars, Applying
<1>3. CASE TakesUp
  BY <1>0, <1>3 DEF TakesUp, Rows, fileVars, Applying
<1>4. CASE GivesUp
  <2>1. /\ pc' = "rollback" /\ pos' = pushed' /\ UNCHANGED <<temp, status, files, job>>
        /\ pc = "publish" => pushed' = pushed
    BY <1>4 DEF GivesUp, Rows, fileVars
  <2>2. \A p \in temp : \E i \in 1..pos' : files[job][i].path = p
    BY <1>0, <1>a, <1>b, <1>4, <2>1 DEF GivesUp, Applying, Current
  <2> QED
    BY <1>0, <2>1, <2>2 DEF Applying
<1>5. CASE Commits \/ Plans
  <2>1. temp' = {}
    BY <1>0, <1>5 DEF Commits, Plans, Written, fileVars, Applying
  <2> QED
    BY <1>5, <2>1 DEF Commits, Plans, Applying
<1>6. CASE \E d \in Draft, j \in Journal : Begin(d, j)
  <2>1. temp' = {} /\ pc' = "record"
    BY <1>0, <1>6, Begun DEF fileVars
  <2> QED
    BY <2>1
<1>7. CASE RecordFile \/ MoveAside
  <2>1. temp' = {} /\ pc' \in {"move", "write"}
    BY <1>0, <1>7, Recorded DEF MoveAside, Goto, fileVars, Applying
  <2> QED
    BY <2>1
<1>8. CASE WriteTemp
  <2>1. /\ pc = "write" /\ pc' = "publish" /\ temp' = {Current.path}
        /\ UNCHANGED <<status, files, job, pos>>
    BY <1>0, <1>8 DEF WriteTemp, Goto, Applying, rowVars
  <2>2. Current' = Current /\ Current = files[job][pos] /\ pos \in 1..Len(files[job])
    BY <1>a, <1>b, <2>1 DEF Current
  <2> QED
    BY <1>a, <2>1, <2>2 DEF Applying
<1>9. CASE Publish
  <2>1. temp' = {} /\ pc' = "record"
    BY <1>0, <1>9 DEF Publish, Goto, Applying
  <2> QED
    BY <2>1
<1>10. CASE CleanFile
  <2>1. temp' \subseteq temp /\ pc' = "cleanup" /\ UNCHANGED <<status, files>>
    BY <1>10 DEF CleanFile, Goto, rowVars
  <2> QED
    BY <1>0, <2>1 DEF Applying
<1>11. CASE Skips
  BY <1>0, <1>11 DEF Skips, Rows, fileVars, Applying
<1>12. CASE Removes
  <2>1. /\ pc \in {"remove", "undo"} /\ pos # 0 /\ (blocked => blocked')
        /\ temp' = temp \ {files[job][pos].path} /\ UNCHANGED <<status, files, job>>
        /\ \/ pc' \in {"rollback", "undo"} /\ pos' = pos - 1
           \/ pc' \in {"putback", "restore"} /\ pos' = pos
    BY <1>12 DEF Removes, Loop, Rows, Current
  <2>2. ~blocked' => \A p \in temp' : \E i \in 1..(pos - 1) : files[job][i].path = p
    BY <1>0, <1>a, <2>1
  <2> QED
    BY <1>0, <2>1, <2>2 DEF Applying
<1>13. CASE Renames
  BY <1>0, <1>13 DEF Renames, Rows, Applying
<1>14. CASE Finishes
  <2>1. temp' = {} /\ pc' \in {"idle", "settle"}
    BY <1>0, <1>14 DEF Finishes, fileVars
  <2> QED
    BY <2>1
<1>15. CASE Checks
  BY <1>0, <1>15 DEF Checks, Rows, fileVars, Applying
<1> QED
  BY <1>1, <1>2, <1>3, <1>4, <1>5, <1>6, <1>7, <1>8, <1>9, <1>10, <1>11, <1>12, <1>13,
     <1>14, <1>15, StepShape DEF Shape

\* An entry is pushed when its file has been moved aside; it is recorded only
\* where no backup stands in the way.
LEMMA MovedStep == ASSUME IInv, FilesInv, [Next]_vars PROVE MovedOK'
<1> USE DEF MovedOK, Applying
<1>0. /\ MovedOK /\ backup \in Tree /\ pos \in Nat /\ pushed \in Nat
  BY DEF FilesInv, IInv, TypeOK, FileTypes, RunTypes
<1>1. CASE Still \/ Edited
  BY <1>0, <1>1 DEF Still, Edited, Rows, runVars, stepVars, fileVars, Current
<1>2. CASE Leaves \/ Cleaned \/ TakesUp \/ GivesUp \/ Commits \/ Skips \/ Renames \/ Finishes
  BY <1>0, <1>2 DEF Leaves, Cleaned, TakesUp, GivesUp, Commits, Skips, Renames, Finishes
<1>3. CASE Plans \/ Checks
  BY <1>0, <1>3 DEF Plans, Checks, Written, Rows, fileVars, Current
<1>4. CASE \E d \in Draft, j \in Journal : Begin(d, j)
  <2>1. pc' = "record" /\ pushed' = 0 /\ ~blocked'
    BY <1>4, Begun
  <2> QED
    BY <2>1
<1>5. CASE RecordFile
  <2>1. /\ pc = "record" /\ pc' = "move" /\ ~blocked' /\ pushed = Len(files[job])
        /\ UNCHANGED <<job, pos, pushed, backup>>
    BY <1>0, <1>5, Recorded DEF fileVars
  <2>2. backup'[Current'.path] = Missing
    BY <1>5, <2>1, Recorded DEF Current
  <2>3. \A i \in 1..pushed : files'[job][i].existed => backup'[files'[job][i].path] # Missing
    BY <1>0, <1>5, <2>1, Recorded
  <2> QED
    BY <2>1, <2>2, <2>3
<1>6. CASE MoveAside
  <2>1. /\ pc = "rename" /\ pc' = "write" /\ pushed' = pushed + 1 /\ pushed + 1 = pos
        /\ job \in Journal /\ pos \in 1..Len(files[job])
    BY <1>6, RowIs DEF MoveAside, Goto, IInv, IndexOK
  <2>a. UNCHANGED <<files, job, blocked>>
    BY <1>6 DEF MoveAside, rowVars
  <2>2. Current.path \in Path /\ Current = files[job][pos]
    BY <2>1, EntryIs DEF Current
  <2>3. \A p \in Path : backup[p] # Missing => backup'[p] # Missing
    <3>1. backup' = backup \/ backup' = [backup EXCEPT ![Current.path] = disk[Current.path]]
      BY <1>6 DEF MoveAside
    <3>2. backup' # backup => disk[Current.path] # Missing
      BY <1>6 DEF MoveAside
    <3> QED
      BY <1>0, <2>2, <3>1, <3>2 DEF Tree
  <2>4. Current.existed => backup'[Current.path] # Missing
    BY <1>0, <1>6, <2>2 DEF MoveAside, Tree
  <2> QED
    <3>1. \A i \in 1..pos : files[job][i].path \in Path
      BY <2>1, EntryIs
    <3>2. \A i \in 1..pos : files[job][i].existed => backup'[files[job][i].path] # Missing
      BY <1>0, <2>1, <2>2, <2>3, <2>4, <3>1
    <3> QED
      BY <1>0, <2>1, <2>a, <3>2
<1>7. CASE WriteTemp \/ Publish
  BY <1>0, <1>7 DEF WriteTemp, Publish, Goto, rowVars
<1>8. CASE CleanFile
  BY <1>0, <1>8 DEF CleanFile, Goto
<1>9. CASE Removes
  <2>1. \/ pc' \in {"rollback", "undo"}
        \/ /\ pc' \in {"putback", "restore"} /\ Current.existed
           /\ backup[Current.path] # Missing /\ UNCHANGED <<files, backup, job, pos>>
    BY <1>9 DEF Removes, Loop, Rows
  <2> QED
    BY <2>1 DEF Current
<1> QED
  BY <1>1, <1>2, <1>3, <1>4, <1>5, <1>6, <1>7, <1>8, <1>9, StepShape DEF Shape

\* Undoing an entry that had a backup puts it back, cleaning one up deletes it.
LEMMA LoopStep == ASSUME IInv, FilesInv, [Next]_vars PROVE LoopOK'
<1> USE DEF LoopOK
<1>0. LoopOK /\ backup \in Tree
  BY DEF FilesInv, IInv, TypeOK, FileTypes
<1>a. /\ pc # "idle" => job \in Journal
      /\ pos \in Nat /\ pushed \in Nat
      /\ \A j \in Journal : Len(files[j]) \in Nat
      /\ \A j \in Journal : \A i \in 1..Len(files[j]) : files[j][i].path \in Path
  BY RowIs, EntryIs
<1>1. CASE Still \/ Edited
  BY <1>0, <1>1 DEF Still, Edited, Rows, runVars, stepVars, fileVars
<1>2. CASE Leaves \/ Cleaned \/ Plans \/ RecordFile \/ MoveAside \/ WriteTemp \/ Publish \/ Finishes
  BY <1>2 DEF Leaves, Cleaned, Plans, RecordFile, MoveAside, WriteTemp, Publish, Finishes, Goto
<1>3. CASE \E d \in Draft, j \in Journal : Begin(d, j)
  BY <1>3, Begun
<1>4. CASE TakesUp
  BY <1>a, <1>4 DEF TakesUp, Rows
<1>5. CASE GivesUp
  <2>1. /\ pc \in Applying /\ pc' = "rollback" /\ pos' = pushed'
        /\ pushed' = pushed \/ (pc = "rename" /\ pushed' = pushed + 1)
        /\ UNCHANGED <<backup, files, job>>
    BY <1>5 DEF GivesUp, Rows, fileVars
  <2>2. \/ pushed' = Len(files[job])
        \/ pc \in {"move", "rename"} /\ pushed' + 1 = Len(files[job]) /\ pos = Len(files[job])
    BY <2>1 DEF Applying, IInv, IndexOK
  <2>3. pc \in {"move", "rename"} => backup[files[job][pos].path] = Missing
    BY DEF FilesInv, MovedOK, Current
  <2> QED
    BY <1>a, <2>1, <2>2, <2>3 DEF Applying
<1>6. CASE Commits
  BY <1>a, <1>6 DEF Commits
<1>7. CASE CleanFile
  <2>1. /\ pc = "cleanup" /\ pc' = "cleanup" /\ pos' = pos + 1 /\ pos \in 1..Len(files[job])
        /\ backup' = [backup EXCEPT ![files[job][pos].path] = Missing]
    BY <1>a, <1>7 DEF CleanFile, Goto, Current, IInv, IndexOK
  <2>2. UNCHANGED <<files, job>>
    BY <1>7 DEF CleanFile, rowVars
  <2>3. \A i \in 1..Len(files[job]) : i < pos + 1 => backup'[files[job][i].path] = Missing
    BY <1>0, <1>a, <2>1 DEF Tree
  <2> QED
    BY <2>1, <2>2, <2>3
<1>8. CASE Skips
  BY <1>8 DEF Skips
<1>9. CASE Removes
  <2>1. /\ pc \in {"remove", "undo"} /\ (blocked => blocked')
        /\ UNCHANGED <<backup, files, job>> /\ pc' \in {"rollback", "undo", "putback", "restore"}
        /\ \/ pos' = pos
           \/ /\ pos' = pos - 1
              /\ files[job][pos].existed => backup[files[job][pos].path] = Missing
    BY <1>9 DEF Removes, Loop, Rows, Current
  <2> QED
    BY <1>0, <1>a, <2>1
<1>10. CASE Renames
  <2>1. /\ pc \in {"putback", "restore"} /\ pc' \in {"rollback", "undo"} /\ pos' = pos - 1
        /\ backup' = [backup EXCEPT ![files[job][pos].path] = Missing]
        /\ UNCHANGED <<files, job, blocked>>
    BY <1>10 DEF Renames, Rows, Current
  <2>2. ~blocked => \A i \in 1..Len(files[job]) :
           i > pos - 1 /\ files[job][i].existed => backup'[files[job][i].path] = Missing
    BY <1>0, <1>a, <2>1 DEF Tree
  <2> QED
    BY <2>1, <2>2
<1>11. CASE Checks
  BY <1>0, <1>11 DEF Checks, Rows, fileVars
<1> QED
  BY <1>1, <1>2, <1>3, <1>4, <1>5, <1>6, <1>7, <1>8, <1>9, <1>10, <1>11, StepShape DEF Shape

\* One more operation is recorded, for a path where no earlier entry of the row
\* found a file.
LEMMA FitsAppend ==
  ASSUME NEW d, NEW F \in Seq(Entry), NEW e \in Entry, Fits(F, d),
         Len(F) + 1 <= Len(Writes[d]),
         e.path = Op(d, Len(F) + 1).path, e.body = Op(d, Len(F) + 1).body,
         \A i \in 1..Len(F) : F[i].path = e.path => ~F[i].existed
  PROVE  Fits(Append(F, e), d)
<1> DEFINE n == Len(F)
           G == Append(F, e)
<1>1. /\ n \in Nat /\ Len(G) = n + 1 /\ G[n + 1] = e
      /\ \A i \in 1..n : G[i] = F[i]
  OBVIOUS
<1> HIDE DEF G, n
<1>2. ASSUME NEW i \in 1..n
      PROVE  /\ G[i].path = Op(d, i).path /\ G[i].body = Op(d, i).body
             /\ \E k \in 1..i : G[k].path = G[i].path /\ First(G, k)
  <2>1. PICK k \in 1..i : F[k].path = F[i].path /\ First(F, k)
    BY DEF Fits, n
  <2>2. k \in 1..n /\ \A l \in 1..(k - 1) : l \in 1..n
    BY <1>1
  <2>3. G[k].path = G[i].path /\ First(G, k)
    BY <1>1, <2>1, <2>2 DEF First
  <2> QED
    BY <1>1, <2>3 DEF Fits, n
<1>3. \E k \in 1..(n + 1) : G[k].path = G[n + 1].path /\ First(G, k)
  <2>1. CASE \E i \in 1..n : G[i].path = e.path
    <3>1. PICK i \in 1..n : G[i].path = e.path
      BY <2>1
    <3>2. PICK k \in 1..i : G[k].path = G[i].path /\ First(G, k)
      BY <1>2
    <3> QED
      BY <1>1, <3>1, <3>2
  <2>2. CASE \A i \in 1..n : G[i].path # e.path
    <3>1. First(G, n + 1)
      BY <1>1, <2>2 DEF First
    <3> QED
      BY <1>1, <3>1
  <2> QED
    BY <2>1, <2>2
<1>4. G[n + 1].path = Op(d, n + 1).path /\ G[n + 1].body = Op(d, n + 1).body
  BY <1>1 DEF n
<1>5. \A i \in 1..(n + 1) :
        /\ G[i].path = Op(d, i).path /\ G[i].body = Op(d, i).body
        /\ \E k \in 1..i : G[k].path = G[i].path /\ First(G, k)
  <2>1. \A i \in 1..(n + 1) : i \in 1..n \/ i = n + 1
    BY <1>1
  <2> QED
    BY <1>2, <1>3, <1>4, <2>1
<1>6. ASSUME NEW i \in 1..(n + 1), NEW k \in 1..(n + 1), i < k, G[i].path = G[k].path
      PROVE  ~G[i].existed
  <2>1. i \in 1..n
    BY <1>1, <1>6
  <2>2. CASE k = n + 1
    BY <1>1, <1>6, <2>1, <2>2 DEF n
  <2>3. CASE k \in 1..n
    BY <1>1, <1>6, <2>1, <2>3 DEF Fits, n
  <2> QED
    BY <1>1, <2>2, <2>3
<1>7. Len(G) <= Len(Writes[d])
  BY <1>1 DEF n
<1> QED
  BY <1>1, <1>5, <1>6, <1>7 DEF Fits, G

\* A row's entries are its draft's operations; an entry that found a file, and
\* so has a backup, is the last of its path.
LEMMA EntriesStep == ASSUME IInv, FilesInv, [Next]_vars PROVE EntriesOK'
<1> USE DEF EntriesOK
<1>0. EntriesOK
  BY DEF FilesInv
<1>a. /\ \A j \in Journal : Len(files[j]) \in Nat
      /\ status \in [Journal -> Status] /\ draftOf \in [Journal -> Draft]
  BY RowIs DEF IInv, TypeOK, RowTypes
<1>1. CASE UNCHANGED <<status, draftOf, files>>
  BY <1>0, <1>1
<1>2. CASE Commits \/ Finishes
  <2>1. /\ job \in Journal /\ status[job] = "pending" /\ UNCHANGED <<draftOf, files>>
        /\ \A j \in Journal : j # job => status'[j] = status[j]
    BY <1>a, <1>2, RowIs DEF Commits, Finishes, Written, Applying
  <2> QED
    BY <1>0, <2>1
<1>3. CASE \E d \in Draft, j \in Journal : Begin(d, j)
  <2>1. PICK d \in Draft, j \in Journal : Begin(d, j)
    BY <1>3
  <2>2. /\ Len(files[j]) = 0 /\ Applicable(d) /\ files' = files
        /\ draftOf' = [draftOf EXCEPT ![j] = d] /\ status' = [status EXCEPT ![j] = "pending"]
    BY <2>1, Begun
  <2>3. Len(Writes[d]) \in Nat
    BY FilesAssumption
  <2>4. Fits(files[j], d)
    BY <2>2, <2>3 DEF Fits
  <2>5. \A i \in Journal : i # j => draftOf'[i] = draftOf[i] /\ status'[i] = status[i]
    BY <2>2, <1>a
  <2>6. draftOf'[j] = d
    BY <2>2, <1>a
  <2> QED
    BY <1>0, <2>2, <2>4, <2>5, <2>6
<1>4. CASE RecordFile
  <2> DEFINE e == files'[job][pos]
  <2>1. /\ job \in Journal /\ pos = Len(files[job]) + 1 /\ pushed = Len(files[job])
        /\ pos <= Len(Writes[draftOf[job]]) /\ e \in Entry
        /\ \A j \in Journal : j # job => files'[j] = files[j]
        /\ e.path = Op(draftOf[job], pos).path /\ e.body = Op(draftOf[job], pos).body
        /\ UNCHANGED <<status, draftOf>>
    BY <1>4, Recorded DEF CurrentOp
  <2>2. files'[job] = Append(files[job], e) /\ files[job] \in Seq(Entry)
    BY <1>4, Recorded
  <2>3. \A i \in 1..Len(files[job]) : files[job][i].path = e.path => ~files[job][i].existed
    BY <1>4, <2>1, Recorded DEF FilesInv, MovedOK
  <2> HIDE DEF e
  <2>4. Fits(files'[job], draftOf[job])
    BY <1>0, <2>1, <2>2, <2>3, FitsAppend
  <2> QED
    BY <1>0, <2>1, <2>4
<1> QED
  BY <1>1, <1>2, <1>3, <1>4, StepShape
     DEF Shape, Still, Edited, Leaves, TakesUp, GivesUp, Plans, Checks, MoveAside, WriteTemp,
         Publish, CleanFile, Cleaned, Skips, Removes, Renames, Rows, rowVars

-----------------------------------------------------------------------------
\* Every step keeps both parts of the invariant.
LEMMA FilesStep == IInv /\ FilesInv /\ [Next]_vars => IInv' /\ FilesInv'
BY InvStep, OwnedStep, TempStep, MovedStep, LoopStep, EntriesStep DEF FilesInv

\* The initial states satisfy the second part.
LEMMA InitFiles == Init => FilesInv
<1> SUFFICES ASSUME Init PROVE FilesInv
  OBVIOUS
<1>1. OwnedOK /\ TempOK /\ MovedOK /\ LoopOK
  BY DEF Init, OwnedOK, TempOK, MovedOK, LoopOK, Applying
<1>2. PICK d \in Draft : draftOf = [j \in Journal |-> d]
  BY DEF Init
<1>3. \A j \in Journal : files[j] = <<>> /\ status[j] = "none" /\ draftOf[j] = d
  BY <1>2 DEF Init
<1>4. Len(Writes[d]) \in Nat
  BY FilesAssumption
<1>5. Fits(<<>>, d)
  BY <1>4 DEF Fits
<1> QED
  BY <1>1, <1>3, <1>5 DEF FilesInv, EntriesOK

\* Where backups and temporary files can be, whatever fails, crashes or is
\* edited, and however long the backlog of cleanups grows.
THEOREM FilesInductive == Spec => [](IInv /\ FilesInv)
BY FilesStep, InitIInv, InitFiles, PTL DEF Spec

\* A daemon at rest that owes nothing has left nothing beside the repository's
\* files: every path through apply, rollback, recovery and cleanup ends clean.
THEOREM NothingIsLeft == Spec => []NoLitter
<1>1. IInv /\ FilesInv => NoLitter
  <2> SUFFICES ASSUME IInv, FilesInv, Pending = {}, Uncleaned = {}
               PROVE  temp = {} /\ backup = [p \in Path |-> Missing]
    BY DEF NoLitter
  <2>1. \A j \in Journal : ~Owns(j)
    BY DEF Owns, Pending, Uncleaned
  <2>2. temp = {}
    BY <2>1 DEF FilesInv, TempOK, Owns
  <2>3. \A p \in Path : backup[p] = Missing
    BY <2>1 DEF FilesInv, OwnedOK
  <2>4. backup \in [Path -> Content]
    BY DEF IInv, TypeOK, FileTypes, Tree
  <2> QED
    BY <2>2, <2>3, <2>4
<1> QED
  BY <1>1, FilesInductive, PTL

-----------------------------------------------------------------------------
(* What the cleanup deletes.                                                 *)

\* Of a kind that re-verifies, every backup of the ChangeSet that is applied or
\* cleaned up holds what the planner saw, or what the draft itself wrote there,
\* and so does a file about to be moved aside, if nobody wrote it after the look.
BackupsChecked ==
  pc \in Applying \cup {"cleanup"} =>
    \A i \in 1..Len(files[job]) :
      /\ files[job][i].existed /\ backup[files[job][i].path] # Missing
      /\ files[job][i].path \notin raced
      => backup[files[job][i].path] = Expected(draftOf[job], base[job], i)

FileChecked ==
  pc = "rename" /\ Current.path \notin raced => disk[Current.path] = CurrentExpected

RecheckOK == mode = "up" /\ draftOf[job] \in Rechecked => BackupsChecked /\ FileChecked

\* A serving daemon takes up work only with begin.
LEMMA UpStep ==
  ASSUME IInv, [Next]_vars, mode' = "up", pc' # "idle"
  PROVE  mode = "up" /\ (pc = "idle" => \E d \in Draft, j \in Journal : Begin(d, j))
<1> USE DEF Goto, Idle, runVars, stepVars
<1>0. PhaseOK
  BY DEF IInv
<1>1. CASE \/ Start \/ FindPending \/ Ready \/ Crash
           \/ \E j \in Journal : CleanRow(j) \/ RollForward(j) \/ RecoverRow(j)
  BY <1>0, <1>1 DEF Start, FindPending, Ready, Crash, CleanRow, RollForward, RecoverRow, PhaseOK
<1>2. CASE \/ RefreshGate \/ (\E d \in Draft : Plan(d))
           \/ (\E p \in Path, c \in Content : Edit(p, c)) \/ UNCHANGED vars
  BY <1>2 DEF RefreshGate, Plan, Edit, vars
<1>3. CASE \E d \in Draft, j \in Journal : Begin(d, j)
  BY <1>3 DEF Begin
<1>4. CASE \/ RecordFile \/ Recheck \/ MoveAside \/ WriteTemp \/ Publish \/ Refuse \/ MoveVanished
           \/ Commit \/ PlanEvent \/ AppendAndCommit \/ AppendConflict \/ Fail
  BY <1>4 DEF RecordFile, MoveAside, WriteTemp, Publish, Refuse, MoveFails, MoveVanished, Recheck, Commit, PlanEvent,
     AppendAndCommit, AppendConflict, Fail, Written
<1>5. CASE \/ CleanFile \/ CleanDone \/ CleanFails \/ RollbackCheck \/ RollbackFile \/ RollbackRename \/ Abort
           \/ RollbackFails \/ Settle \/ UndoFile \/ UndoFileRename \/ UndoDone \/ UndoFails
  BY <1>5 DEF CleanFile, CleanDone, CleanFails, RollbackCheck, RollbackFile, RollbackRename, Abort,
     RollbackFails, Settle, UndoFile, UndoFileRename, UndoDone, UndoFails
<1> QED
  BY <1>1, <1>2, <1>3, <1>4, <1>5 DEF Next, Apply, Startup, Faults

\* While an apply runs, a path edited behind its check stays marked.
LEMMA RacedGrows ==
  ASSUME IInv, [Next]_vars, pc \in Applying \cup {"cleanup"},
         pc' \in Applying \cup {"cleanup"}
  PROVE  raced \subseteq raced'
<1>0. pc' # "idle" /\ pc # "idle" /\ pc # "rollback"
  BY DEF Applying
<1>1. CASE \E p \in Path, c \in Content : Edit(p, c)
  BY <1>1 DEF Edit
<1>2. CASE RollbackCheck \/ (\E d \in Draft, j \in Journal : Begin(d, j))
  BY <1>0, <1>2 DEF RollbackCheck, Begin
<1>3. CASE raced' = raced \/ Idle
  BY <1>0, <1>3 DEF Idle, Goto
<1> QED
  BY <1>1, <1>2, <1>3
     DEF Next, Apply, Startup, Faults, vars, runVars, Return, Plan, RefreshGate,
         Settle, RecordFile, Recheck, MoveAside, WriteTemp, Publish, Refuse, MoveFails,
         MoveVanished, Fail, Commit, PlanEvent, AppendAndCommit, AppendConflict, CleanFile,
         CleanDone, CleanFails, RollbackFile, RollbackRename, Abort, RollbackFails, Start,
         CleanRow, FindPending, RollForward, RecoverRow, UndoFile, UndoFileRename, UndoDone,
         UndoFails, Ready, Crash

\* What the re-read saw is there until the rename, or was edited behind it.
LEMMA FileCheckedStep ==
  ASSUME IInv, FilesInv, RecheckOK, [Next]_vars, mode' = "up", draftOf'[job'] \in Rechecked
  PROVE  FileChecked'
<1> SUFFICES ASSUME pc' = "rename", (Current.path \notin raced)'
             PROVE  (disk[Current.path] = CurrentExpected)'
  BY DEF FileChecked
<1>1. pc # "idle" /\ mode = "up"
  BY UpStep, Begun
<1>2. CASE Recheck
  BY <1>2 DEF Recheck, RecheckHolds, CurrentExpected, Current, Goto, fileVars, rowVars
<1>3. CASE Still
  <2>1. /\ UNCHANGED <<disk, files, draftOf, base, job, pos, raced>> /\ pc = "rename"
    BY <1>3 DEF Still, fileVars, Rows, runVars, stepVars
  <2> QED
    BY <1>1, <2>1 DEF RecheckOK, FileChecked, Current, CurrentExpected
<1>4. CASE Edited
  <2>1. PICK p \in Path, c \in Content : Edit(p, c)
    BY <1>4 DEF Edited
  <2>2. /\ UNCHANGED <<files, draftOf, base, job, pos>> /\ pc = "rename"
        /\ disk' = [disk EXCEPT ![p] = c] /\ raced \subseteq raced'
        /\ p = Current.path => Current.path \in raced'
    BY <2>1 DEF Edit, InWindow, rowVars, stepVars
  <2>3. Current' = Current /\ CurrentExpected' = CurrentExpected
    BY <2>2 DEF Current, CurrentExpected
  <2>4. p # Current.path /\ disk'[Current.path] = disk[Current.path]
    BY <2>2, <2>3 DEF IInv, TypeOK, FileTypes, Tree
  <2>5. Current.path \notin raced
    BY <2>2, <2>3
  <2> QED
    BY <1>1, <2>2, <2>3, <2>4, <2>5 DEF RecheckOK, FileChecked
<1>5. CASE Leaves \/ TakesUp \/ GivesUp \/ Commits \/ Plans \/ Cleaned \/ Skips \/ Removes
           \/ Renames \/ Finishes
  BY <1>5 DEF Leaves, TakesUp, GivesUp, Commits, Plans, Cleaned, Skips, Removes, Loop,
              Renames, Finishes
<1>6. CASE \/ (\E d \in Draft, j \in Journal : Begin(d, j)) \/ RecordFile \/ MoveAside
           \/ WriteTemp \/ Publish \/ CleanFile
  BY <1>6 DEF Begin, RecordFile, MoveAside, WriteTemp, Publish, CleanFile, Goto
<1>7. CASE Checks
  BY <1>2, <1>7 DEF Checks
<1> QED
  BY <1>2, <1>3, <1>4, <1>5, <1>6, <1>7, StepShape DEF Shape

\* From the check of the preimage to the cleanup, the backup is the file it checked.
LEMMA RecheckStep == ASSUME IInv, FilesInv, RecheckOK, [Next]_vars PROVE RecheckOK'
<1> SUFFICES ASSUME mode' = "up", draftOf'[job'] \in Rechecked PROVE BackupsChecked'
  BY FileCheckedStep DEF RecheckOK
<1> SUFFICES ASSUME pc' \in Applying \cup {"cleanup"},
                    NEW i \in 1..Len(files'[job']), files'[job'][i].path \notin raced',
                    files'[job'][i].existed, backup'[files'[job'][i].path] # Missing
             PROVE  backup'[files'[job'][i].path] = Expected(draftOf'[job'], base'[job'], i)
  BY DEF BackupsChecked
<1>0. /\ pc' # "idle" /\ backup \in Tree
      /\ mode = "up" /\ (pc = "idle" => \E d \in Draft, j \in Journal : Begin(d, j))
  <2>1. pc' # "idle"
    BY DEF Applying
  <2>2. mode = "up" /\ (pc = "idle" => \E d \in Draft, j \in Journal : Begin(d, j))
    BY <2>1, UpStep
  <2> QED
    BY <2>1, <2>2 DEF IInv, TypeOK, FileTypes
<1>1. CASE \E d \in Draft, j \in Journal : Begin(d, j)
  BY <1>1, Begun
<1> SUFFICES ASSUME ~\E d \in Draft, j \in Journal : Begin(d, j)
             PROVE  backup'[files'[job'][i].path] = Expected(draftOf'[job'], base'[job'], i)
  BY <1>1
<1>2. pc # "idle"
  BY <1>0
<1>3. job \in Journal /\ Len(files[job]) \in Nat
  BY <1>2, RowIs
<1>b. pc \in Applying \cup {"cleanup"} => raced \subseteq raced'
  BY RacedGrows
<1>4. CASE UNCHANGED <<backup, files, draftOf, base, job>> /\ pc \in Applying \cup {"cleanup"}
  BY <1>0, <1>b, <1>4 DEF RecheckOK, BackupsChecked
<1>5. CASE RecordFile
  <2>1. /\ pc = "record" /\ UNCHANGED <<backup, draftOf, base, job>>
        /\ Len(files'[job]) = Len(files[job]) + 1
        /\ \A k \in 1..Len(files[job]) : files'[job][k] = files[job][k]
        /\ backup[files'[job][Len(files[job]) + 1].path] = Missing
    BY <1>5, Recorded DEF fileVars
  <2>2. i \in 1..Len(files[job])
    BY <1>3, <2>1
  <2> QED
    BY <1>0, <1>b, <2>1, <2>2 DEF RecheckOK, BackupsChecked, Applying
<1>6. CASE MoveAside
  <2>1. /\ pc = "rename" /\ pos = Len(files[job]) /\ pos \in 1..Len(files[job])
        /\ UNCHANGED <<files, draftOf, base, job, raced>>
        /\ Current = files[job][pos]
    BY <1>0, <1>3, <1>6 DEF MoveAside, Current, rowVars, IInv, IndexOK
  <2>2. \A k \in 1..Len(files[job]) : files[job][k].path \in Path
    BY <1>3, EntryIs
  <2>3. CASE i = pos
    <3>1. disk[Current.path] = CurrentExpected
      BY <1>0, <2>1, <2>3 DEF RecheckOK, FileChecked
    <3> QED
      BY <1>0, <1>6, <2>1, <2>2, <2>3, <3>1 DEF MoveAside, CurrentExpected, Tree
  <2>4. CASE i # pos
    <3>1. i < pos /\ pos \in 1..Len(files[job]) /\ i \in 1..Len(files[job])
      BY <1>3, <2>1, <2>4
    <3>2. files[job][i].path # files[job][pos].path
      BY <1>3, <2>1, <3>1 DEF FilesInv, EntriesOK, Fits
    <3>3. backup'[files[job][i].path] = backup[files[job][i].path]
      BY <1>0, <1>6, <2>1, <2>2, <3>1, <3>2 DEF MoveAside, Tree
    <3> QED
      BY <1>0, <2>1, <3>1, <3>3 DEF RecheckOK, BackupsChecked, Applying
  <2> QED
    BY <2>3, <2>4
<1>7. CASE CleanFile
  <2>1. /\ pc = "cleanup" /\ UNCHANGED <<files, draftOf, base, job, raced>>
        /\ backup' = [backup EXCEPT ![Current.path] = Missing]
    BY <1>7 DEF CleanFile, rowVars
  <2>2. i \in 1..Len(files[job]) /\ files[job][i].path \in Path
    BY <1>3, <2>1, EntryIs
  <2>3. backup'[files[job][i].path] = backup[files[job][i].path]
    BY <1>0, <2>1, <2>2 DEF Tree
  <2> QED
    BY <1>0, <2>1, <2>2, <2>3 DEF RecheckOK, BackupsChecked
<1>8. CASE Commits \/ Plans \/ WriteTemp \/ Publish \/ Still \/ Edited
  <2>1. UNCHANGED <<backup, files, draftOf, base, job>>
    BY <1>8 DEF Commits, Plans, WriteTemp, Publish, Still, Edited, fileVars, Rows, rowVars, runVars, stepVars
  <2>2. pc \in Applying \cup {"cleanup"}
    BY <1>8 DEF Commits, Plans, Written, WriteTemp, Publish, Still, Edited, runVars, stepVars, Applying
  <2> QED
    BY <1>4, <2>1, <2>2
<1>9. CASE Leaves \/ TakesUp \/ GivesUp \/ Cleaned \/ Skips \/ Removes \/ Renames \/ Finishes
  BY <1>2, <1>9 DEF Leaves, TakesUp, GivesUp, Cleaned, Skips, Removes, Loop, Renames,
                    Finishes, Applying
<1>10. CASE Checks
  <2>1. UNCHANGED <<backup, files, draftOf, base, job>> /\ pc \in Applying \cup {"cleanup"}
    BY <1>10 DEF Checks, fileVars, Rows, Applying
  <2> QED
    BY <1>4, <2>1
<1> QED
  BY <1>1, <1>5, <1>6, <1>7, <1>8, <1>9, <1>10, StepShape DEF Shape

\* Of a file kind that re-verifies, the cleanup of a committed apply deletes an
\* edit only if it was made between the re-read of the file and its rename.
THEOREM PreimagesDeleted == Spec => []CleanupDeletesOnlyPreimages
<1>1. Init => RecheckOK
  BY DEF Init, RecheckOK, BackupsChecked, FileChecked, Applying
<1>2. IInv /\ FilesInv /\ RecheckOK /\ [Next]_vars => RecheckOK'
  BY RecheckStep
<1>3. IInv /\ RecheckOK => CleanupDeletesOnlyPreimages
  <2> SUFFICES ASSUME IInv, RecheckOK, mode = "up", pc = "cleanup", draftOf[job] \in Rechecked,
                      NEW i \in DOMAIN files[job], files[job][i].path \notin raced,
                      files[job][i].existed, backup[files[job][i].path] # Missing
               PROVE  backup[files[job][i].path] = Expected(draftOf[job], base[job], i)
    BY DEF CleanupDeletesOnlyPreimages
  <2>1. files[job] \in Seq(Entry)
    BY RowIs DEF IInv, TypeOK, RowTypes
  <2>2. i \in 1..Len(files[job])
    BY <2>1
  <2> QED
    BY <2>2 DEF RecheckOK, BackupsChecked
<1> QED
  BY <1>1, <1>2, <1>3, FilesInductive, PTL DEF Spec

-----------------------------------------------------------------------------
(* The manifest.                                                             *)

\* Deferring the manifest only reorders the operations of a draft, and puts
\* the manifest, which an applicable draft writes once, at the end.
LEMMA OpOrder ==
  ASSUME NEW d \in Draft, NEW k \in 1..Len(Writes[d])
  PROVE  /\ \E i \in 1..Len(Writes[d]) : Op(d, k) = Writes[d][i]
         /\ Applicable(d) /\ Op(d, k).path = Manifest => k = Len(Writes[d])
<1> DEFINE n == Len(Writes[d])
           m == ManifestIndex(d)
           at == IF k < m THEN k ELSE IF k < n THEN k + 1 ELSE m
<1>1. n \in Nat /\ DOMAIN Writes[d] = 1..n
  BY FilesAssumption
<1>2. /\ (\E i \in 1..n : Writes[d][i].path = Manifest) => m \in 1..n /\ Writes[d][m].path = Manifest
      /\ (~\E i \in 1..n : Writes[d][i].path = Manifest) => m = n + 1
  <2>1. CASE \E i \in 1..n : Writes[d][i].path = Manifest
    <3>1. m = CHOOSE i \in 1..n : Writes[d][i].path = Manifest
      BY <1>1, <2>1 DEF ManifestIndex
    <3> QED
      BY <2>1, <3>1
  <2>2. CASE ~\E i \in 1..n : Writes[d][i].path = Manifest
    BY <1>1, <2>2 DEF ManifestIndex
  <2> QED
    BY <2>1, <2>2
<1>3. Op(d, k) = Writes[d][at]
  BY DEF Op
<1> HIDE DEF m
<1>4. at \in 1..n
  BY <1>1, <1>2
<1>5. ASSUME Applicable(d), Op(d, k).path = Manifest PROVE k = n
  <2>1. Writes[d][at].path = Manifest
    BY <1>3, <1>5
  <2>2. m \in 1..n /\ at = m
    BY <1>1, <1>2, <1>4, <1>5, <2>1 DEF Applicable
  <2> QED
    BY <1>1, <2>2
<1> QED
  BY <1>3, <1>4, <1>5

\* An entry of the manifest is the last of its row, and it is a draft's write:
\* its bytes are not external ones.
LEMMA ManifestEntry ==
  ASSUME IInv, FilesInv, NEW j \in Journal, status[j] = "pending",
         NEW i \in 1..Len(files[j]), files[j][i].path = Manifest
  PROVE  /\ i = Len(files[j])
         /\ ExternalManifest => files[j][i].body # disk[Manifest]
<1> DEFINE d == draftOf[j]
<1>1. d \in Draft /\ Fits(files[j], d) /\ Applicable(d) /\ Len(files[j]) \in Nat
  BY RowIs DEF FilesInv, EntriesOK, IInv, TypeOK, RowTypes
<1>2. Writes \in [Draft -> Seq(Ops)]
  BY FilesAssumption DEF Ops
<1>3. Len(Writes[d]) \in Nat /\ DOMAIN Writes[d] = 1..Len(Writes[d])
  BY <1>1, <1>2
<1>4. /\ i \in 1..Len(Writes[d]) /\ Len(files[j]) <= Len(Writes[d])
      /\ files[j][i].path = Op(d, i).path /\ files[j][i].body = Op(d, i).body
  BY <1>1, <1>3 DEF Fits
<1>5. i = Len(Writes[d]) /\ \E k \in 1..Len(Writes[d]) : Op(d, i) = Writes[d][k]
  BY <1>1, <1>4, OpOrder
<1>6. ExternalManifest => files[j][i].body # disk[Manifest]
  <2> SUFFICES ASSUME files[j][i].body = disk[Manifest], ExternalManifest PROVE FALSE
    OBVIOUS
  <2>1. PICK k \in 1..Len(Writes[d]) : Op(d, i) = Writes[d][k]
    BY <1>5
  <2>2. Writes[d][k] \in Ops
    BY <1>1, <1>2
  <2>3. Writes[d][k] = [path |-> Manifest, body |-> disk[Manifest]]
    BY <1>4, <2>1, <2>2 DEF Ops
  <2> QED
    BY <1>1, <1>3, <2>3 DEF ExternalManifest
<1> QED
  BY <1>1, <1>3, <1>4, <1>5, <1>6

\* Recovery undoes a row only if its manifest entries leave external manifest
\* bytes alone: the file had existed and its backup is already back.
ManifestLooked ==
  pc = "undo" /\ Manifest \notin raced /\ ExternalManifest =>
    \A i \in 1..pos : files[job][i].path = Manifest =>
      files[job][i].existed /\ backup[Manifest] = Missing

\* What a rollback is about to remove, and what a rename is about to replace.
ManifestInHand ==
  Current.path = Manifest /\ Manifest \notin raced =>
    /\ pc = "remove" => disk[Manifest] \in {Missing, Current.body}
    /\ pc \in {"putback", "restore"} => disk[Manifest] = Missing

ManifestOK == ManifestLooked /\ ManifestInHand

\* What the start of a recovery saw of the manifest stays true until an edit.
LEMMA ManifestLookedStep ==
  ASSUME IInv, FilesInv, ManifestOK, [Next]_vars PROVE ManifestLooked'
<1> SUFFICES ASSUME pc' = "undo", ExternalManifest', Manifest \notin raced', NEW i \in 1..pos',
                    files'[job'][i].path = Manifest
             PROVE  files'[job'][i].existed /\ backup'[Manifest] = Missing
  BY DEF ManifestLooked
<1> USE DEF Goto
<1>1. CASE \E j \in Journal : RecoverRow(j)
  <2>1. PICK j \in Journal : RecoverRow(j)
    BY <1>1
  <2> DEFINE mine == {k \in DOMAIN files[j] : files[j][k].path = Manifest}
             undone == {k \in mine : ~files[j][k].existed \/ backup[Manifest] # Missing}
             body(S) == files[j][CHOOSE k \in S : \A l \in S : l <= k].body
  <2>2. /\ ~ManifestConflict(j) /\ job' = j /\ pos' = Len(files[j])
        /\ UNCHANGED <<disk, backup, files>> /\ status[j] = "pending"
    BY <2>1 DEF RecoverRow, fileVars, rowVars, runVars, stepVars, IInv, RowOK
  <2>3. DOMAIN files[j] = 1..Len(files[j]) /\ Len(files[j]) \in Nat
    BY RowIs DEF IInv, TypeOK, RowTypes
  <2>4. ExternalManifest
    BY <2>2 DEF ExternalManifest
  <2>5. mine = {i}
    BY <2>2, <2>3, ManifestEntry
  <2>6. undone = {}
    <3> SUFFICES ASSUME undone # {} PROVE FALSE
      OBVIOUS
    <3>1. undone = {i}
      BY <2>5
    <3>2. (CHOOSE k \in {i} : \A l \in {i} : l <= k) = i
      BY <2>3, <2>2
    <3>3. body(mine) = files[j][i].body /\ body(undone) = files[j][i].body
      BY <2>5, <3>1, <3>2
    <3>4. files[j][i].body # disk[Manifest]
      BY <2>2, <2>3, <2>4, ManifestEntry
    <3>5. disk[Manifest] # Missing
      BY <2>4 DEF ExternalManifest
    <3> QED
      BY <2>2, <3>3, <3>4, <3>5 DEF ManifestConflict
  <2>7. files[j][i].existed /\ backup[Manifest] = Missing
    BY <2>5, <2>6
  <2> QED
    BY <2>2, <2>7
<1>2. CASE UndoFile \/ UndoFileRename
  <2>1. /\ job \in Journal /\ status[job] = "pending" /\ pos \in Nat /\ pos <= Len(files[job])
        /\ pos' = pos - 1 /\ UNCHANGED <<files, job>> /\ Len(files[job]) \in Nat
    <3>1. pc \in {"undo", "restore"} /\ UNCHANGED <<files, job>>
      BY <1>2 DEF UndoFile, UndoFileRename, rowVars
    <3>2. pos' = pos - 1
      BY <1>2 DEF UndoFile, UndoFileRename, UndoRemove, UndoRename
    <3>3. pos <= Len(files[job])
      BY <3>1 DEF IInv, IndexOK
    <3> QED
      BY <3>1, <3>2, <3>3, RowIs
  <2>2. i \in 1..Len(files[job]) /\ i < Len(files[job])
    BY <2>1
  <2>3. i = Len(files[job])
    BY <2>1, <2>2, ManifestEntry
  <2> QED
    BY <2>2, <2>3
<1>3. CASE \E p \in Path, c \in Content : Edit(p, c)
  <2>1. PICK p \in Path, c \in Content : Edit(p, c)
    BY <1>3
  <2>2. /\ pc = "undo" /\ UNCHANGED <<backup, files, job, pos>>
        /\ disk' = [disk EXCEPT ![p] = c] /\ raced \subseteq raced'
        /\ (\E k \in 1..pos : files[job][k].path = p) => p \in raced'
    BY <2>1 DEF Edit, InWindow, rowVars, stepVars
  <2>3. p # Manifest /\ Manifest \notin raced
    BY <2>2
  <2>4. disk'[Manifest] = disk[Manifest]
    BY <2>2, <2>3
  <2>5. ExternalManifest
    BY <2>4 DEF ExternalManifest
  <2> QED
    BY <2>2, <2>3, <2>5 DEF ManifestOK, ManifestLooked
<1>4. CASE UNCHANGED <<disk, backup, files, job, pc, pos, raced>>
  BY <1>4 DEF ManifestOK, ManifestLooked, ExternalManifest
<1>5. CASE \E j \in Journal : RollForward(j)
  BY <1>4, <1>5, NothingToRollForward DEF RollForward, fileVars, rowVars, runVars, stepVars
<1>6. CASE \/ (\E d \in Draft, j \in Journal : Begin(d, j)) \/ RecordFile \/ Recheck \/ MoveAside
           \/ WriteTemp \/ Publish \/ Refuse \/ MoveVanished \/ Commit \/ PlanEvent
           \/ AppendAndCommit \/ AppendConflict \/ CleanFile \/ CleanDone \/ RollbackCheck \/ RollbackFile
           \/ RollbackRename \/ Abort \/ Settle \/ UndoDone \/ Fail \/ CleanFails
           \/ RollbackFails \/ UndoFails \/ Crash \/ (\E j \in Journal : CleanRow(j))
  BY <1>6 DEF Begin, RecordFile, MoveAside, WriteTemp, Publish, Refuse, MoveFails, MoveVanished, Recheck, Commit,
     PlanEvent, AppendAndCommit, AppendConflict, CleanFile, CleanDone, RollbackCheck, RollbackFile,
     RollbackRename, Abort, Settle, UndoDone, Fail, CleanFails, RollbackFails, UndoFails, Crash,
     CleanRow, Return, Idle, UndoRemove, UndoRename
<1> QED
  BY <1>1, <1>2, <1>3, <1>4, <1>5, <1>6
     DEF Next, Apply, Startup, Faults, vars, fileVars, rowVars, runVars, stepVars, Plan, RefreshGate,
         Start, FindPending, Ready

\* What the check of a rollback, or a removal, left at the manifest is there
\* until the call that relies on it, or was edited in between.
LEMMA ManifestInHandStep ==
  ASSUME IInv, FilesInv, ManifestOK, [Next]_vars PROVE ManifestInHand'
<1> SUFFICES ASSUME pc' \in {"remove", "putback", "restore"},
                    Current'.path = Manifest, Manifest \notin raced'
             PROVE  /\ pc' = "remove" => disk'[Manifest] \in {Missing, Current'.body}
                    /\ pc' \in {"putback", "restore"} => disk'[Manifest] = Missing
  BY DEF ManifestInHand
<1>0. Manifest \in Path /\ disk \in Tree
  BY FilesAssumption DEF IInv, TypeOK, FileTypes
<1>1. CASE Still
  <2>1. UNCHANGED <<disk, files, job, pc, pos, raced>>
    BY <1>1 DEF Still, fileVars, Rows, runVars, stepVars
  <2> QED
    BY <2>1 DEF ManifestOK, ManifestInHand, Current
<1>2. CASE Edited
  <2>1. PICK p \in Path, c \in Content : Edit(p, c)
    BY <1>2 DEF Edited
  <2>2. /\ UNCHANGED <<files, job, pc, pos>>
        /\ disk' = [disk EXCEPT ![p] = c] /\ raced \subseteq raced'
        /\ InWindow(p) => p \in raced'
    BY <2>1 DEF Edit, rowVars, stepVars
  <2>3. Current' = Current
    BY <2>2 DEF Current
  <2>a. pc = "restore" => pos \in 1..pos
    BY RowIs DEF IInv, IndexOK
  <2>4. p = Manifest => InWindow(p)
    BY <2>2, <2>3, <2>a DEF InWindow, Current
  <2>5. disk'[Manifest] = disk[Manifest] /\ Manifest \notin raced
    BY <1>0, <2>2, <2>4
  <2> QED
    BY <2>2, <2>3, <2>5 DEF ManifestOK, ManifestInHand
<1>3. CASE RollbackCheck
  <2>1. /\ pc' = "remove" /\ ~Foreign(Current) /\ UNCHANGED <<disk, files, job, pos>>
    BY <1>3 DEF RollbackCheck, Goto, fileVars, rowVars
  <2>2. Current' = Current
    BY <2>1 DEF Current
  <2> QED
    BY <2>1, <2>2 DEF Foreign
<1>4. CASE Removes
  <2>1. /\ pc' \in {"putback", "restore"} /\ UNCHANGED <<files, job, pos>>
        /\ disk' = [disk EXCEPT ![Current.path] = Missing]
    BY <1>4 DEF Removes, Loop, Rows
  <2>2. Current' = Current
    BY <2>1 DEF Current
  <2> QED
    BY <1>0, <2>1, <2>2 DEF Tree
<1>5. CASE Leaves \/ TakesUp \/ GivesUp \/ Commits \/ Plans \/ Cleaned \/ Skips
           \/ Renames \/ Finishes
  BY <1>5 DEF Leaves, TakesUp, GivesUp, Commits, Plans, Cleaned, Skips, Renames, Finishes
<1>6. CASE \/ (\E d \in Draft, j \in Journal : Begin(d, j)) \/ RecordFile \/ MoveAside
           \/ WriteTemp \/ Publish \/ CleanFile
  BY <1>6 DEF Begin, RecordFile, MoveAside, WriteTemp, Publish, CleanFile, Goto
<1>7. CASE Checks
  BY <1>3, <1>7 DEF Checks
<1> QED
  BY <1>1, <1>2, <1>3, <1>4, <1>5, <1>6, <1>7, StepShape DEF Shape

\* Rollback, recovery and cleanup remove or replace manifest bytes that no draft
\* wrote only if they were written after the look at the manifest.
THEOREM ManifestKept == Spec => ExternalManifestKept
<1>1. Init => ManifestOK
  BY DEF Init, ManifestOK, ManifestLooked, ManifestInHand
<1>2. IInv /\ FilesInv /\ ManifestOK /\ [Next]_vars => ManifestOK'
  BY ManifestLookedStep, ManifestInHandStep DEF ManifestOK
<1>3. ASSUME IInv, FilesInv, ManifestOK, [Next]_vars, ExternalManifest,
             Manifest \notin raced, pc \notin {"rename", "write", "publish"}
      PROVE  disk'[Manifest] = disk[Manifest] \/ edits' # edits
  <2>0. Manifest \in Path /\ disk \in Tree
    BY <1>3, FilesAssumption DEF IInv, TypeOK, FileTypes
  <2>1. CASE RollbackFile \/ UndoFile \/ RollbackRename \/ UndoFileRename
    <3>1. /\ job \in Journal /\ status[job] = "pending" /\ pos \in 1..Len(files[job])
      BY <1>3, <2>1, RowIs DEF RollbackFile, UndoFile, RollbackRename, UndoFileRename, IInv,
         IndexOK
    <3>2. /\ Current = files[job][pos] /\ Current.path \in Path
      BY <1>3, <3>1, EntryIs DEF Current
    <3>3. CASE Current.path # Manifest
      BY <2>0, <2>1, <3>2, <3>3 DEF RollbackFile, UndoFile, RollbackRename, UndoFileRename,
         UndoRemove, UndoRename, fileVars, Tree
    <3>4. CASE Current.path = Manifest
      <4>1. Current.body # disk[Manifest] /\ disk[Manifest] # Missing
        BY <1>3, <3>1, <3>2, <3>4, ManifestEntry DEF ExternalManifest
      <4>2. CASE RollbackFile \/ RollbackRename \/ UndoFileRename
        BY <1>3, <3>4, <4>1, <4>2 DEF RollbackFile, RollbackRename, UndoFileRename,
           ManifestOK, ManifestInHand
      <4>3. CASE UndoFile
        <5>1. Current.existed /\ backup[Manifest] = Missing
          <6>1. pc = "undo" /\ pos \in 1..pos
            BY <3>1, <4>3 DEF UndoFile
          <6> QED
            BY <1>3, <3>2, <3>4, <6>1 DEF ManifestOK, ManifestLooked
        <5> QED
          BY <3>4, <4>3, <5>1 DEF UndoFile, UndoRemove
      <4> QED
        BY <2>1, <4>2, <4>3
    <3> QED
      BY <3>3, <3>4
  <2>2. CASE MoveAside \/ Publish
    BY <1>3, <2>2 DEF MoveAside, Publish
  <2>3. CASE \E p \in Path, c \in Content : Edit(p, c)
    BY <1>3, <2>3 DEF Edit, IInv, TypeOK, RunTypes
  <2>4. CASE UNCHANGED disk
    BY <2>4
  <2> QED
    BY <1>3, <2>1, <2>2, <2>3, <2>4
       DEF Next, Apply, Startup, Faults, vars, fileVars, Plan, Begin, RefreshGate, RecordFile,
           WriteTemp, Refuse, MoveFails, MoveVanished, Recheck, Commit, PlanEvent, AppendAndCommit, AppendConflict,
           CleanFile, CleanDone, RollbackCheck, Abort, Settle, Start, FindPending, Ready, UndoDone, CleanRow,
           RollForward, RecoverRow, Fail, CleanFails, RollbackFails, UndoFails, Crash
<1>4. IInv /\ FilesInv /\ ManifestOK /\ [Next]_vars =>
        [ExternalManifest /\ Manifest \notin raced /\ pc \notin {"rename", "write", "publish"}
           => disk'[Manifest] = disk[Manifest] \/ edits' # edits]_vars
  BY <1>3
<1> QED
  BY <1>1, <1>2, <1>4, FilesInductive, PTL DEF Spec, ExternalManifestKept
=============================================================================

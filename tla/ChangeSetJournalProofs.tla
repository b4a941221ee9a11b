----------------------- MODULE ChangeSetJournalProofs -----------------------
(* Theorems about ChangeSetJournal for every set of paths, drafts and        *)
(* journals and every bound on the environment.  The inductive invariant     *)
(* says, for each step of the daemon, which row it works on, what that row's *)
(* status is and which entry of the row the loop index names.                *)
EXTENDS ChangeSetJournal, TLAPS

Applying == {"record", "move", "rename", "write", "publish", "append"}

\* The loop index stays within the entries recorded for the row.
IndexOK ==
  /\ pc # "idle" => job \in Journal
  /\ pc = "record" => pos = Len(files[job]) + 1 /\ pushed = Len(files[job])
  /\ pc \in {"move", "rename"} => pos = Len(files[job]) /\ pushed + 1 = pos
  /\ pc \in {"write", "publish"} => pos = Len(files[job]) /\ pushed = pos /\ pos # 0
  /\ pc = "append" => pushed = Len(files[job]) /\ planned[job] # None
  /\ pc = "cleanup" => pos # 0
  /\ pc = "rollback" => pos <= Len(files[job])
  /\ pc = "undo" => pos <= Len(files[job])
  /\ pc \in {"remove", "putback", "restore"} => pos <= Len(files[job]) /\ pos # 0
  /\ \A j \in Journal : status[j] = "none" => files[j] = <<>>

\* Which steps each phase of the daemon runs.
PhaseOK ==
  /\ mode = "down" => pc = "idle"
  /\ mode = "clean" => pc \in {"idle", "cleanup"}
  /\ mode = "recover" => pc \in {"idle", "undo", "restore"}
  /\ mode = "up" => pc \notin {"undo", "restore"}

\* What the row being worked on, and the rows still to visit, look like.
RowOK ==
  /\ pc \in Applying \cup {"rollback", "remove", "putback", "undo", "restore"}
       => status[job] = "pending"
  /\ pc = "cleanup" => status[job] = "committed"
  /\ mode = "clean" => \A j \in todo : status[j] = "committed"
  /\ mode = "recover" => \A j \in todo : status[j] = "pending"

\* Who may be pending: the row being applied, or one the gate knows of.
PendingOK ==
  /\ \A i, j \in Journal : status[i] = "pending" /\ status[j] = "pending" => i = j
  /\ mode = "up" /\ pc = "idle" /\ ~dirty
       => \A j \in Journal : status[j] = "pending" => j \in unresolved
  /\ mode = "up" /\ pc = "cleanup"
       => \A j \in Journal : status[j] # "pending"

\* An event in the ledger is one of a committed row.
LedgerOK == \A e \in events : status[e.journal] = "committed"

IInv == TypeOK /\ IndexOK /\ PhaseOK /\ RowOK /\ PendingOK /\ LedgerOK

-----------------------------------------------------------------------------
(* The operations of a draft are operations.                                 *)

Ops == [path : Path, body : Content]

\* The reordering behind the deferred manifest write stays within the draft.
LEMMA OpType ==
  ASSUME NEW d \in Draft, NEW k \in Nat, k # 0, k <= Len(Writes[d])
  PROVE  Op(d, k) \in Ops
<1> DEFINE n == Len(Writes[d])
           m == ManifestIndex(d)
<1>a. Writes \in [Draft -> Seq(Ops)]
  BY FilesAssumption DEF Ops
<1>1. Writes[d] \in Seq(Ops) /\ n \in Nat
  BY <1>a
<1>2. m \in 1..(n + 1)
  <2>1. CASE \E i \in DOMAIN Writes[d] : Writes[d][i].path = Manifest
    <3>1. m \in DOMAIN Writes[d]
      BY <2>1 DEF ManifestIndex
    <3> QED
      BY <3>1, <1>1
  <2>2. CASE ~\E i \in DOMAIN Writes[d] : Writes[d][i].path = Manifest
    BY <2>2, <1>1 DEF ManifestIndex
  <2> QED
    BY <2>1, <2>2
<1> DEFINE i == IF k < m THEN k ELSE IF k < n THEN k + 1 ELSE m
<1>3. i \in 1..n
  BY <1>1, <1>2
<1>4. Op(d, k) = Writes[d][i]
  BY DEF Op
<1> QED
  BY <1>1, <1>3, <1>4

-----------------------------------------------------------------------------
(* Trees are updated one path at a time.                                     *)

\* Writing one file gives a tree.
LEMMA TreeUpdate ==
  ASSUME NEW t \in Tree, NEW p \in Path, NEW c \in Content
  PROVE  [t EXCEPT ![p] = c] \in Tree
BY DEF Tree

\* What a tree holds at a path.
LEMMA TreeValue ==
  ASSUME NEW t \in Tree, NEW p \in Path
  PROVE  t[p] \in Content
BY DEF Tree

\* A repository with no files is a tree.
LEMMA EmptyTree == [p \in Path |-> Missing] \in Tree
BY DEF Tree, Content

-----------------------------------------------------------------------------
\* The initial states satisfy the invariant.
LEMMA InitIInv == Init => IInv
<1> SUFFICES ASSUME Init PROVE IInv
  OBVIOUS
<1>1. TypeOK
  <2>1. disk \in Tree /\ backup \in Tree /\ temp \subseteq Path
    BY EmptyTree DEF Init
  <2>2. PICK d \in Draft : draftOf = [j \in Journal |-> d]
    BY DEF Init
  <2>3. draftOf \in [Journal -> Draft] /\ base \in [Journal -> Tree]
    BY <2>1, <2>2 DEF Init
  <2>4. /\ status \in [Journal -> Status]
        /\ files \in [Journal -> Seq(Entry)]
        /\ planned \in [Journal -> Tree \cup {None}]
        /\ cleaned \in [Journal -> BOOLEAN]
        /\ plans \in [Draft -> Tree \cup {None}]
    BY DEF Init, Status
  <2> QED
    BY <2>1, <2>3, <2>4 DEF Init, TypeOK, FileTypes, RowTypes, RunTypes
<1>2. IndexOK /\ PhaseOK /\ RowOK
  BY DEF Init, IndexOK, PhaseOK, RowOK, Applying
<1>3. PendingOK /\ LedgerOK
  BY DEF Init, PendingOK, LedgerOK
<1> QED
  BY <1>1, <1>2, <1>3 DEF IInv

-----------------------------------------------------------------------------
\* The entry a step works on is one of the row's, and names a path.
LEMMA CurrentType ==
  ASSUME IInv, pc \notin {"idle", "record", "append", "settle"}, pos # 0,
         pos <= Len(files[job])
  PROVE  /\ Current \in Entry
         /\ Current.path \in Path /\ Current.body \in Content
         /\ backup[Current.path] \in Content /\ disk[Current.path] \in Content
<1>1. files[job] \in Seq(Entry) /\ pos \in Nat
  BY DEF IInv, TypeOK, RowTypes, RunTypes, IndexOK
<1>2. Current \in Entry
  BY <1>1 DEF Current
<1>3. Current.path \in Path /\ Current.body \in Content
  BY <1>2 DEF Entry
<1> QED
  BY <1>2, <1>3, TreeValue DEF IInv, TypeOK, FileTypes

\* Only seven actions touch a file, and each leaves files and backups trees.
LEMMA FileStep == IInv /\ [Next]_vars => FileTypes'
<1> SUFFICES ASSUME IInv, [Next]_vars PROVE FileTypes'
  OBVIOUS
<1> USE DEF FileTypes
<1>0. FileTypes /\ Missing \in Content
  BY DEF IInv, TypeOK, Content
<1>1. CASE MoveAside
  <2>1. Current.path \in Path /\ disk[Current.path] \in Content
    BY <1>1, CurrentType DEF MoveAside, IInv, IndexOK, TypeOK, RunTypes
  <2> QED
    BY <1>0, <1>1, <2>1, TreeUpdate DEF MoveAside
<1>2. CASE WriteTemp
  <2>1. Current.path \in Path
    BY <1>2, CurrentType DEF WriteTemp, IInv, IndexOK
  <2> QED
    BY <1>0, <1>2, <2>1 DEF WriteTemp
<1>3. CASE Publish
  <2>1. Current.path \in Path /\ Current.body \in Content
    BY <1>3, CurrentType DEF Publish, IInv, IndexOK
  <2> QED
    BY <1>0, <1>3, <2>1, TreeUpdate DEF Publish
<1>4. CASE CleanFile
  <2>1. Current.path \in Path
    BY <1>4, CurrentType DEF CleanFile, IInv, IndexOK
  <2> QED
    BY <1>0, <1>4, <2>1, TreeUpdate DEF CleanFile
<1>5. CASE RollbackFile \/ UndoFile
  <2>1. pos # 0 /\ pos <= Len(files[job])
    BY <1>5 DEF RollbackFile, UndoFile, IInv, IndexOK, TypeOK, RunTypes
  <2>2. Current.path \in Path
    BY <1>5, <2>1, CurrentType DEF RollbackFile, UndoFile
  <2> QED
    BY <1>0, <1>5, <2>2, TreeUpdate
       DEF RollbackFile, UndoFile, UndoRemove
<1>6. CASE RollbackRename \/ UndoFileRename
  <2>1. Current.path \in Path /\ backup[Current.path] \in Content
    BY <1>6, CurrentType DEF RollbackRename, UndoFileRename, IInv, IndexOK
  <2> QED
    BY <1>0, <1>6, <2>1, TreeUpdate
       DEF RollbackRename, UndoFileRename, UndoRename
<1>7. CASE \E p \in Path, c \in Content : Edit(p, c)
  <2>1. PICK p \in Path, c \in Content : Edit(p, c)
    BY <1>7
  <2> QED
    BY <1>0, <2>1, TreeUpdate DEF Edit
<1>8. CASE UNCHANGED fileVars
  BY <1>0, <1>8 DEF fileVars
<1> QED
  BY <1>1, <1>2, <1>3, <1>4, <1>5, <1>6, <1>7, <1>8
     DEF Next, Apply, Startup, Faults, vars, Plan, Begin, RefreshGate,
         RecordFile, Refuse, MoveFails, MoveVanished, Recheck, Commit, PlanEvent, AppendAndCommit,
         AppendConflict, CleanDone, RollbackCheck, Abort, Settle, Start, FindPending, Ready,
         UndoDone, CleanRow, RollForward, RecoverRow, Fail, CleanFails,
         RollbackFails, UndoFails, Crash

\* Rows are written by nine actions; each new value is of the column's type.
LEMMA RowStep == IInv /\ [Next]_vars => RowTypes'
<1> SUFFICES ASSUME IInv, [Next]_vars PROVE RowTypes'
  OBVIOUS
<1> USE DEF RowTypes, Status
<1>0. RowTypes /\ disk \in Tree
  BY DEF IInv, TypeOK, FileTypes
<1>a. pc # "idle" => job \in Journal /\ draftOf[job] \in Draft
  BY <1>0 DEF IInv, IndexOK
<1>1. CASE \E d \in Draft, j \in Journal : Begin(d, j)
  BY <1>0, <1>1 DEF Begin
<1>2. CASE RecordFile
  <2>1. CurrentOp \in Ops
    BY <1>2, <1>a, OpType
       DEF RecordFile, CurrentOp, IInv, IndexOK, TypeOK, RunTypes
  <2> DEFINE e == [path |-> CurrentOp.path, body |-> CurrentOp.body,
                   existed |-> disk[CurrentOp.path] # Missing]
  <2>2. e \in Entry
    BY <2>1 DEF Ops, Entry
  <2>3. files' = [files EXCEPT ![job] = Append(@, e)]
    BY <1>2 DEF RecordFile
  <2>4. job \in Journal /\ Append(files[job], e) \in Seq(Entry)
    BY <1>0, <1>2, <1>a, <2>2 DEF RecordFile
  <2>5. files' \in [Journal -> Seq(Entry)]
    BY <1>0, <2>3, <2>4
  <2> QED
    BY <1>0, <1>2, <2>5 DEF RecordFile
<1>3. CASE Commit
  BY <1>0, <1>3, <1>a DEF Commit
<1>4. CASE PlanEvent
  BY <1>0, <1>4, <1>a DEF PlanEvent
<1>5. CASE AppendAndCommit
  <2>1. job \in Journal /\ planned[job] \in Tree
    BY <1>0, <1>5, <1>a DEF AppendAndCommit, IInv, IndexOK
  <2> QED
    BY <1>0, <1>5, <1>a, <2>1 DEF AppendAndCommit
<1>6. CASE CleanDone
  BY <1>0, <1>6, <1>a DEF CleanDone
<1>7. CASE Abort
  BY <1>0, <1>7, <1>a DEF Abort
<1>8. CASE UndoDone
  <2>1. cleaned' \in [Journal -> BOOLEAN]
    BY <1>0, <1>8 DEF UndoDone
  <2> QED
    BY <1>0, <1>8, <1>a, <2>1 DEF UndoDone
<1>9. CASE UNCHANGED <<rowVars, events>>
  BY <1>0, <1>9 DEF rowVars
<1> QED
  BY <1>1, <1>2, <1>3, <1>4, <1>5, <1>6, <1>7, <1>8, <1>9
     DEF Next, Apply, Startup, Faults, vars, Plan, RefreshGate, MoveAside,
         WriteTemp, Publish, Refuse, MoveFails, MoveVanished, Recheck, AppendConflict, CleanFile,
         RollbackCheck, RollbackFile, RollbackRename, Settle, Start, FindPending, Ready,
         UndoFile, UndoFileRename, CleanRow, RollForward, RecoverRow, Fail,
         CleanFails, RollbackFails, UndoFails, Crash, Edit

\* The history variable holds paths.
LEMMA RacedStep == IInv /\ [Next]_vars => raced' \subseteq Path
<1> SUFFICES ASSUME IInv, [Next]_vars PROVE raced' \subseteq Path
  OBVIOUS
<1>0. raced \subseteq Path
  BY DEF IInv, TypeOK, RunTypes
<1>1. CASE \E p \in Path, c \in Content : Edit(p, c)
  BY <1>0, <1>1 DEF Edit
<1>2. CASE RollbackCheck
  BY <1>0, <1>2 DEF RollbackCheck
<1>3. CASE raced' = raced \/ raced' = {}
  BY <1>0, <1>3
<1> QED
  BY <1>1, <1>2, <1>3
     DEF Next, Apply, Startup, Faults, vars, runVars, stepVars, Idle, Return, Plan, Begin, RefreshGate,
         Settle, RecordFile, Recheck, MoveAside, WriteTemp, Publish, Refuse, MoveFails,
         MoveVanished, Fail, Commit, PlanEvent, AppendAndCommit, AppendConflict, CleanFile,
         CleanDone, CleanFails, RollbackFile, RollbackRename, Abort, RollbackFails, Start,
         CleanRow, FindPending, RollForward, RecoverRow, UndoFile, UndoFileRename, UndoDone,
         UndoFails, Ready, Crash

\* The daemon's own state keeps its types; the loop index goes down only from
\* a positive value.
LEMMA RunStep == IInv /\ [Next]_vars => RunTypes'
<1> SUFFICES ASSUME IInv, [Next]_vars PROVE RunTypes'
  OBVIOUS
<1>r. raced' \subseteq Path
  BY RacedStep
<1> USE <1>r DEF RunTypes, Goto, Idle, Calm, Fault, runVars, stepVars, gateVars, envVars
<1>0. RunTypes /\ disk \in Tree /\ Pending \subseteq Journal
  BY DEF IInv, TypeOK, FileTypes, Pending
<1>1. CASE \E d \in Draft : Plan(d)
  BY <1>0, <1>1 DEF Plan
<1>2. CASE \E d \in Draft, j \in Journal : Begin(d, j)
  <2>1. PICK d \in Draft, j \in Journal : Begin(d, j)
    BY <1>2
  <2>2. /\ job' = j /\ pc' = "record" /\ pos' = 1 /\ pushed' = 0
        /\ UNCHANGED <<mode, todo, unresolved, plans, envVars>>
    BY <2>1 DEF Begin
  <2>3. blocked' \in BOOLEAN /\ dirty' \in BOOLEAN
    BY <2>1 DEF Begin
  <2> QED
    BY <1>0, <2>2, <2>3
<1>3. CASE RefreshGate
  <2>1. dirty' \in BOOLEAN /\ unresolved' = Pending
    BY <1>3 DEF RefreshGate
  <2>2. UNCHANGED <<mode, todo, runVars, plans, envVars>>
    BY <1>3 DEF RefreshGate
  <2> QED
    BY <1>0, <2>1, <2>2
<1>4. CASE Settle
  <2>1. dirty' \in BOOLEAN /\ blocked' \in BOOLEAN
    BY <1>0, <1>4 DEF Settle
  <2>2. /\ unresolved' \in {Pending, unresolved} /\ faults' \in {faults, faults + 1}
        /\ job' = None /\ pc' = "idle" /\ pos' = 0 /\ pushed' = 0
        /\ UNCHANGED <<mode, todo, plans, edits, crashes>>
    BY <1>4 DEF Settle
  <2> QED
    BY <1>0, <2>1, <2>2
<1>5. CASE RecordFile \/ Recheck \/ MoveAside \/ WriteTemp \/ Publish \/ Refuse \/ MoveVanished
  BY <1>0, <1>5 DEF RecordFile, MoveAside, WriteTemp, Publish, Refuse,
                    MoveFails, MoveVanished, Recheck
<1>6. CASE Commit \/ PlanEvent \/ AppendAndCommit \/ AppendConflict
  BY <1>0, <1>6 DEF Commit, PlanEvent, AppendAndCommit, AppendConflict
<1>7. CASE CleanFile
  BY <1>0, <1>7 DEF CleanFile
<1>8. CASE CleanDone \/ CleanFails
  <2>1. /\ blocked' \in BOOLEAN
    BY <1>0, <1>8 DEF CleanDone, CleanFails, Return
  <2>2. /\ pc' \in {"settle", "idle"} /\ pos' = 0 /\ job' \in {job, None}
        /\ pushed' \in {pushed, 0} /\ todo' \subseteq todo
    BY <1>8 DEF CleanDone, CleanFails, Return
  <2>3. /\ UNCHANGED <<mode, gateVars, plans, edits, crashes>>
        /\ faults' \in {faults, faults + 1}
    BY <1>8 DEF CleanDone, CleanFails
  <2> QED
    BY <1>0, <2>1, <2>2, <2>3
<1>9. CASE RollbackCheck \/ RollbackFile \/ RollbackRename \/ Abort \/ RollbackFails
  <2>1. pc' = pc \/ pc' \in {"rollback", "remove", "putback", "settle"}
    BY <1>9 DEF RollbackCheck, RollbackFile, RollbackRename, Abort, RollbackFails, UndoRemove, UndoRename
  <2>2. pos' \in Nat
    BY <1>0, <1>9 DEF RollbackCheck, RollbackFile, RollbackRename, Abort, RollbackFails,
                      UndoRemove, UndoRename, IInv, IndexOK
  <2>3. UNCHANGED <<mode, todo, job, pushed, gateVars, plans, edits, crashes>>
    BY <1>9 DEF RollbackCheck, RollbackFile, RollbackRename, Abort, RollbackFails
  <2>4. blocked' \in BOOLEAN
    BY <1>0, <1>9 DEF RollbackCheck, RollbackFile, RollbackRename, Abort, RollbackFails
  <2>5. faults' \in {faults, faults + 1}
    BY <1>9 DEF RollbackCheck, RollbackFile, RollbackRename, Abort, RollbackFails
  <2> QED
    BY <1>0, <2>1, <2>2, <2>3, <2>4, <2>5
<1>10. CASE UndoFile \/ UndoFileRename \/ UndoDone \/ UndoFails
  <2>1. pc' \in {"undo", "restore", "idle"}
    BY <1>10 DEF UndoFile, UndoFileRename, UndoDone, UndoFails, UndoRemove, UndoRename
  <2>2. pos' \in Nat
    BY <1>0, <1>10 DEF UndoFile, UndoFileRename, UndoDone, UndoFails,
                       UndoRemove, UndoRename, IInv, IndexOK
  <2>3. /\ UNCHANGED <<mode, gateVars, plans, edits, crashes>>
        /\ todo' \subseteq todo /\ job' \in {job, None} /\ pushed' \in {pushed, 0}
    BY <1>10 DEF UndoFile, UndoFileRename, UndoDone, UndoFails
  <2>4. blocked' \in BOOLEAN
    BY <1>0, <1>10 DEF UndoFile, UndoFileRename, UndoDone, UndoFails
  <2>5. faults' \in {faults, faults + 1}
    BY <1>10 DEF UndoFile, UndoFileRename, UndoDone, UndoFails
  <2> QED
    BY <1>0, <2>1, <2>2, <2>3, <2>4, <2>5
<1>11. CASE Start \/ FindPending \/ Ready
  BY <1>0, <1>11 DEF Start, FindPending, Ready, Uncleaned
<1>12. CASE \E j \in Journal : CleanRow(j) \/ RollForward(j)
  BY <1>0, <1>12 DEF CleanRow, RollForward
<1>13. CASE \E j \in Journal : RecoverRow(j)
  <2>1. PICK j \in Journal : RecoverRow(j)
    BY <1>13
  <2>2. Len(files[j]) \in Nat
    BY DEF IInv, TypeOK, RowTypes
  <2> QED
    BY <1>0, <2>1, <2>2 DEF RecoverRow
<1>14. CASE Fail
  BY <1>0, <1>14 DEF Fail, MoveFails
<1>15. CASE Crash
  <2>1. blocked' \in BOOLEAN /\ dirty' \in BOOLEAN
    BY <1>15 DEF Crash
  <2>2. plans' \in [Draft -> Tree \cup {None}]
    BY <1>15 DEF Crash
  <2>3. /\ mode' = "down" /\ todo' = {} /\ unresolved' = {}
        /\ job' = None /\ pc' = "idle" /\ pos' = 0 /\ pushed' = 0
        /\ crashes' = crashes + 1 /\ UNCHANGED <<edits, faults>>
    BY <1>15 DEF Crash
  <2> QED
    BY <1>0, <2>1, <2>2, <2>3
<1>16. CASE \E p \in Path, c \in Content : Edit(p, c)
  BY <1>0, <1>16 DEF Edit
<1>17. CASE UNCHANGED vars
  BY <1>0, <1>17 DEF vars
<1> QED
  BY <1>1, <1>2, <1>3, <1>4, <1>5, <1>6, <1>7, <1>8, <1>9, <1>10, <1>11,
     <1>12, <1>13, <1>14, <1>15, <1>16, <1>17
     DEF Next, Apply, Startup, Faults

-----------------------------------------------------------------------------
\* The loop index names an entry of the row: recording appends one, moving,
\* writing and publishing work on the last, rollback and recovery count down.
LEMMA IndexStep == IInv /\ [Next]_vars => IndexOK'
<1> SUFFICES ASSUME IInv, [Next]_vars PROVE IndexOK'
  OBVIOUS
<1> USE DEF IndexOK, Goto
<1>0. /\ IndexOK /\ None \notin Journal
      /\ job \in Journal \cup {None} /\ pos \in Nat /\ pushed \in Nat
      /\ status \in [Journal -> Status] /\ todo \subseteq Journal
      /\ planned \in [Journal -> Tree \cup {None}]
  BY EnvironmentAssumption DEF IInv, TypeOK, RowTypes, RunTypes
<1>a. /\ files \in [Journal -> Seq(Entry)]
      /\ \A j \in Journal : files[j] \in Seq(Entry) /\ Len(files[j]) \in Nat
  BY DEF IInv, TypeOK, RowTypes
<1>1. CASE \E d \in Draft, j \in Journal : Begin(d, j)
  <2>1. PICK d \in Draft, j \in Journal : Begin(d, j)
    BY <1>1
  <2>2. files[j] = <<>> /\ files' = files /\ job' = j /\ pc' = "record"
        /\ pos' = 1 /\ pushed' = 0
    BY <1>0, <2>1 DEF Begin
  <2>3. Len(files[j]) = 0
    BY <2>2
  <2>4. \A i \in Journal : status'[i] = "none" => status[i] = "none"
    BY <1>0, <2>1 DEF Begin
  <2> QED
    BY <1>0, <2>2, <2>3, <2>4
<1>2. CASE RecordFile
  <2>1. PICK e : files' = [files EXCEPT ![job] = Append(@, e)]
    BY <1>2 DEF RecordFile
  <2>2. /\ job \in Journal /\ status[job] # "none" /\ pos = Len(files[job]) + 1
        /\ pushed = Len(files[job])
        /\ pc' = "move" /\ UNCHANGED <<pos, pushed, job, status>>
    BY <1>0, <1>2 DEF RecordFile, IInv, RowOK, Applying
  <2>3. files'[job] = Append(files[job], e)
    BY <1>a, <2>1, <2>2
  <2>4. Len(files'[job]) = Len(files[job]) + 1
    BY <1>a, <2>2, <2>3
  <2>5. \A j \in Journal : j # job => files'[j] = files[j]
    BY <1>a, <2>1
  <2> QED
    BY <1>0, <1>a, <2>2, <2>4, <2>5
<1>3. CASE Recheck \/ MoveAside \/ WriteTemp \/ Publish
  <2>1. UNCHANGED <<files, status, job, planned>>
    BY <1>3 DEF Recheck, MoveAside, WriteTemp, Publish, rowVars
  <2>2. Len(files[job]) \in Nat
    BY <1>0, <1>3, <1>a DEF Recheck, MoveAside, WriteTemp, Publish
  <2> QED
    BY <1>0, <1>3, <2>1, <2>2 DEF Recheck, MoveAside, WriteTemp, Publish
<1>4. CASE Refuse \/ MoveVanished \/ Fail \/ AppendConflict
  <2>1. UNCHANGED <<files, status, job, planned>>
    BY <1>4 DEF Refuse, MoveFails, MoveVanished, Recheck, Fail, AppendConflict, rowVars
  <2>2. Len(files[job]) \in Nat
    BY <1>0, <1>4, <1>a DEF Refuse, MoveFails, MoveVanished, Recheck, Fail, AppendConflict
  <2> QED
    BY <1>0, <1>4, <2>1, <2>2 DEF Refuse, MoveFails, MoveVanished, Recheck, Fail, AppendConflict
<1>5. CASE Commit \/ AppendAndCommit
  <2>1. /\ job \in Journal /\ UNCHANGED <<files, job>>
        /\ pc' = "cleanup" /\ pos' = 1
    BY <1>0, <1>5 DEF Commit, AppendAndCommit, Written
  <2>2. \A j \in Journal : status'[j] = "none" => status[j] = "none"
    BY <1>0, <1>5 DEF Commit, AppendAndCommit
  <2> QED
    BY <1>0, <2>1, <2>2
<1>6. CASE PlanEvent
  <2>1. /\ job \in Journal /\ UNCHANGED <<files, job, status, pushed>>
        /\ pc' = "append" /\ pushed = Len(files[job])
    BY <1>0, <1>6 DEF PlanEvent, Written
  <2>2. planned'[job] = disk /\ disk # None
    BY <1>0, <1>6, <2>1, EnvironmentAssumption
       DEF PlanEvent, IInv, TypeOK, FileTypes
  <2> QED
    BY <1>0, <2>1, <2>2
<1>7. CASE CleanFile
  BY <1>0, <1>7 DEF CleanFile, rowVars
<1>8. CASE CleanDone \/ CleanFails
  <2>1. /\ files' = files /\ pc' \in {"settle", "idle"}
        /\ pc' = "settle" => job' = job
    BY <1>8 DEF CleanDone, CleanFails, Return, Idle, rowVars
  <2>2. \A j \in Journal : status'[j] = "none" => status[j] = "none"
    BY <1>0, <1>8 DEF CleanDone, CleanFails, rowVars
  <2>3. job \in Journal
    BY <1>0, <1>8 DEF CleanDone, CleanFails
  <2> QED
    BY <1>0, <2>1, <2>2, <2>3
<1>9. CASE RollbackCheck \/ RollbackFile \/ UndoFile
  <2>1. UNCHANGED <<files, status, job, planned>>
    BY <1>9 DEF RollbackCheck, RollbackFile, UndoFile, rowVars
  <2>2. Len(files[job]) \in Nat /\ job \in Journal
    BY <1>0, <1>9, <1>a DEF RollbackCheck, RollbackFile, UndoFile
  <2> QED
    BY <1>0, <1>9, <2>1, <2>2 DEF RollbackCheck, RollbackFile, UndoFile, UndoRemove
<1>10. CASE RollbackRename \/ UndoFileRename
  <2>1. UNCHANGED <<files, status, job, planned>>
    BY <1>10 DEF RollbackRename, UndoFileRename, rowVars
  <2>2. Len(files[job]) \in Nat /\ job \in Journal
    BY <1>0, <1>10, <1>a DEF RollbackRename, UndoFileRename
  <2> QED
    BY <1>0, <1>10, <2>1, <2>2 DEF RollbackRename, UndoFileRename, UndoRename
<1>11. CASE Abort \/ RollbackFails
  <2>1. files' = files /\ job' = job /\ job \in Journal /\ pc' = "settle"
    BY <1>0, <1>11 DEF Abort, RollbackFails, rowVars
  <2>2. \A j \in Journal : status'[j] = "none" => status[j] = "none"
    BY <1>0, <1>11 DEF Abort, RollbackFails, rowVars
  <2> QED
    BY <1>0, <2>1, <2>2
<1>12. CASE UndoDone \/ UndoFails \/ Settle \/ Crash
  <2>1. files' = files /\ pc' = "idle"
    BY <1>12 DEF UndoDone, UndoFails, Settle, Crash, Idle, rowVars
  <2>2. \A j \in Journal : status'[j] = "none" => status[j] = "none"
    BY <1>0, <1>12 DEF UndoDone, UndoFails, Settle, Crash, rowVars
  <2> QED
    BY <1>0, <2>1, <2>2
<1>13. CASE \E j \in Journal : CleanRow(j) \/ RollForward(j)
  BY <1>0, <1>13 DEF CleanRow, RollForward, runVars, stepVars, rowVars
<1>14. CASE \E j \in Journal : RecoverRow(j)
  <2>1. PICK j \in Journal : RecoverRow(j)
    BY <1>14
  <2>2. Len(files[j]) \in Nat /\ UNCHANGED <<files, status, planned>>
    BY <1>a, <2>1 DEF RecoverRow, rowVars
  <2> QED
    BY <1>0, <2>1, <2>2 DEF RecoverRow, runVars, stepVars
<1>15. CASE UNCHANGED <<rowVars, stepVars>>
  BY <1>0, <1>15 DEF rowVars, runVars, stepVars
<1> QED
  BY <1>1, <1>2, <1>3, <1>4, <1>5, <1>6, <1>7, <1>8, <1>9, <1>10, <1>11,
     <1>12, <1>13, <1>14, <1>15
     DEF Next, Apply, Startup, Faults, vars, runVars, Plan, RefreshGate, Start,
         FindPending, Ready, Edit

-----------------------------------------------------------------------------
\* No event of a pending row is in the ledger, so a start never rolls one
\* forward in a store that this build alone has written.
LEMMA NothingToRollForward ==
  ASSUME IInv, NEW j \in Journal, RollForward(j)
  PROVE  todo' = todo \ {j} /\ UNCHANGED runVars
<1>1. status[j] = "pending"
  BY DEF RollForward, IInv, RowOK
<1>2. PICK e \in SameKey(j) :
        IF e.journal = j
        THEN job' = j /\ Goto("cleanup", 1) /\ UNCHANGED <<pushed, blocked, todo>>
        ELSE todo' = todo \ {j} /\ UNCHANGED runVars
  BY DEF RollForward
<1>3. e.journal # j
  BY <1>1, <1>2 DEF SameKey, IInv, LedgerOK
<1> QED
  BY <1>2, <1>3

\* Each phase of the daemon runs its own steps.
LEMMA PhaseStep == IInv /\ [Next]_vars => PhaseOK'
<1> SUFFICES ASSUME IInv, [Next]_vars PROVE PhaseOK'
  OBVIOUS
<1> USE DEF PhaseOK, Goto
<1>0. PhaseOK
  BY DEF IInv
<1>1. CASE \E d \in Draft, j \in Journal : Begin(d, j)
  BY <1>0, <1>1 DEF Begin
<1>2. CASE \/ RecordFile \/ Recheck \/ MoveAside \/ WriteTemp \/ Publish \/ Refuse
           \/ MoveVanished \/ Fail \/ Commit \/ PlanEvent \/ AppendAndCommit
           \/ AppendConflict
  BY <1>0, <1>2 DEF RecordFile, MoveAside, WriteTemp, Publish, Refuse,
     MoveFails, MoveVanished, Recheck, Fail, Commit, PlanEvent, AppendAndCommit, AppendConflict
<1>3. CASE CleanFile \/ CleanDone \/ CleanFails
  BY <1>0, <1>3 DEF CleanFile, CleanDone, CleanFails, Return, Idle
<1>4. CASE RollbackCheck \/ RollbackFile \/ RollbackRename \/ Abort \/ RollbackFails \/ Settle
  BY <1>0, <1>4 DEF RollbackCheck, RollbackFile, RollbackRename, Abort, RollbackFails,
     Settle, UndoRemove, UndoRename, Idle
<1>5. CASE UndoFile \/ UndoFileRename \/ UndoDone \/ UndoFails
  BY <1>0, <1>5 DEF UndoFile, UndoFileRename, UndoDone, UndoFails,
     UndoRemove, UndoRename, Idle
<1>6. CASE Start \/ FindPending \/ Ready \/ Crash
  BY <1>0, <1>6 DEF Start, FindPending, Ready, Crash, Idle, runVars, stepVars
<1>7. CASE \E j \in Journal : RollForward(j)
  BY <1>0, <1>7, NothingToRollForward DEF RollForward, runVars, stepVars
<1>8. CASE \E j \in Journal : CleanRow(j) \/ RecoverRow(j)
  BY <1>0, <1>8 DEF CleanRow, RecoverRow, runVars, stepVars
<1>9. CASE UNCHANGED <<mode, stepVars>>
  BY <1>0, <1>9 DEF runVars, stepVars
<1> QED
  BY <1>1, <1>2, <1>3, <1>4, <1>5, <1>6, <1>7, <1>8, <1>9
     DEF Next, Apply, Startup, Faults, vars, runVars, Plan, RefreshGate, Edit

-----------------------------------------------------------------------------
\* How a step changes the status column: begin opens a new row, and only the
\* row under way is finished.
LEMMA StatusStep ==
  ASSUME IInv, [Next]_vars
  PROVE  \/ UNCHANGED status
         \/ /\ job' \in Journal /\ status[job'] = "none"
            /\ status' = [status EXCEPT ![job'] = "pending"]
            /\ \E d \in Draft, j \in Journal : Begin(d, j)
         \/ /\ job \in Journal /\ status[job] = "pending"
            /\ status' = [status EXCEPT ![job] = "committed"]
            /\ Commit \/ AppendAndCommit
         \/ /\ job \in Journal /\ status[job] = "pending"
            /\ status' = [status EXCEPT ![job] = "aborted"]
            /\ Abort
         \/ /\ job \in Journal /\ status[job] = "pending"
            /\ status' = [status EXCEPT ![job] = "recovered"]
            /\ UndoDone
<1>0. /\ pc # "idle" => job \in Journal
      /\ pc \in Applying \cup {"rollback", "undo"} => status[job] = "pending"
      /\ pc = "cleanup" => status[job] = "committed"
      /\ status \in [Journal -> Status]
  BY DEF IInv, IndexOK, RowOK, TypeOK, RowTypes
<1>1. CASE \E d \in Draft, j \in Journal : Begin(d, j)
  BY <1>1 DEF Begin
<1>2. CASE Commit \/ AppendAndCommit
  BY <1>0, <1>2 DEF Commit, AppendAndCommit, Written, Applying
<1>3. CASE CleanDone
  BY <1>0, <1>3 DEF CleanDone
<1>4. CASE Abort
  BY <1>0, <1>4 DEF Abort
<1>5. CASE UndoDone
  BY <1>0, <1>5 DEF UndoDone
<1>6. CASE UNCHANGED status
  BY <1>6
<1> QED
  BY <1>1, <1>2, <1>3, <1>4, <1>5, <1>6
     DEF Next, Apply, Startup, Faults, vars, rowVars, runVars, Plan, RefreshGate,
         RecordFile, MoveAside, WriteTemp, Publish, Refuse, MoveFails, MoveVanished, Recheck,
         PlanEvent, AppendConflict, CleanFile, RollbackCheck, RollbackFile, RollbackRename,
         Settle, Start, FindPending, Ready, UndoFile, UndoFileRename, CleanRow,
         RollForward, RecoverRow, Fail, CleanFails, RollbackFails, UndoFails,
         Crash, Edit

\* A step works on a row that is still what the step takes it for.
LEMMA RowOKStep == IInv /\ [Next]_vars => RowOK'
<1> SUFFICES ASSUME IInv, [Next]_vars PROVE RowOK'
  OBVIOUS
<1> USE DEF RowOK, Applying, Goto
<1>0. /\ RowOK /\ PhaseOK
      /\ pc # "idle" => job \in Journal
      /\ status \in [Journal -> Status] /\ todo \subseteq Journal
  BY DEF IInv, IndexOK, TypeOK, RowTypes, RunTypes
<1>1. CASE \E d \in Draft, j \in Journal : Begin(d, j)
  BY <1>0, <1>1 DEF Begin
<1>2. CASE \/ RecordFile \/ Recheck \/ MoveAside \/ WriteTemp \/ Publish \/ Refuse
           \/ MoveVanished \/ Fail \/ PlanEvent \/ AppendConflict
  BY <1>0, <1>2 DEF RecordFile, MoveAside, WriteTemp, Publish, Refuse,
     MoveFails, MoveVanished, Recheck, Fail, PlanEvent, AppendConflict, rowVars, Written
<1>3. CASE Commit \/ AppendAndCommit
  BY <1>0, <1>3 DEF Commit, AppendAndCommit, Written
<1>4. CASE CleanFile
  BY <1>0, <1>4 DEF CleanFile, rowVars
<1>5. CASE CleanDone \/ CleanFails
  <2>1. UNCHANGED status
    BY <1>0, <1>5 DEF CleanDone, CleanFails, rowVars
  <2>2. mode' = mode /\ todo' \subseteq todo /\ pc' \in {"settle", "idle"}
    BY <1>5 DEF CleanDone, CleanFails, Return, Idle
  <2> QED
    BY <1>0, <2>1, <2>2
<1>6. CASE RollbackCheck \/ RollbackFile \/ RollbackRename \/ UndoFile \/ UndoFileRename
  BY <1>0, <1>6 DEF RollbackCheck, RollbackFile, RollbackRename, UndoFile, UndoFileRename,
     UndoRemove, UndoRename, rowVars
<1>7. CASE Abort \/ RollbackFails
  BY <1>0, <1>7 DEF Abort, RollbackFails
<1>8. CASE UndoDone
  <2>1. /\ mode' = mode /\ pc' = "idle" /\ todo' = todo \ {job}
        /\ \A j \in Journal : j # job => status'[j] = status[j]
    BY <1>0, <1>8 DEF UndoDone, Idle
  <2>2. mode # "clean"
    BY <1>0, <1>8 DEF UndoDone, PhaseOK
  <2> QED
    BY <1>0, <2>1, <2>2
<1>9. CASE UndoFails \/ Settle \/ Crash
  BY <1>0, <1>9 DEF UndoFails, Settle, Crash, Idle, rowVars
<1>10. CASE Start \/ FindPending \/ Ready
  BY <1>0, <1>10 DEF Start, FindPending, Ready, Uncleaned, Pending, PhaseOK,
     rowVars, runVars, stepVars
<1>11. CASE \E j \in Journal : RollForward(j)
  BY <1>0, <1>11, NothingToRollForward DEF RollForward, runVars, stepVars, rowVars
<1>12. CASE \E j \in Journal : CleanRow(j) \/ RecoverRow(j)
  BY <1>0, <1>12 DEF CleanRow, RecoverRow, rowVars, runVars, stepVars
<1>13. CASE UNCHANGED <<status, mode, todo, stepVars>>
  BY <1>0, <1>13 DEF runVars, stepVars
<1> QED
  BY <1>1, <1>2, <1>3, <1>4, <1>5, <1>6, <1>7, <1>8, <1>9, <1>10, <1>11,
     <1>12, <1>13
     DEF Next, Apply, Startup, Faults, vars, rowVars, runVars, Plan, RefreshGate, Edit

-----------------------------------------------------------------------------
\* The gate keeps a second row from becoming pending: it opens only when no
\* row is, and every way back to it reads the pending rows again or marks the
\* cached list stale.
LEMMA PendingStep == IInv /\ [Next]_vars => PendingOK'
<1> SUFFICES ASSUME IInv, [Next]_vars PROVE PendingOK'
  OBVIOUS
<1> USE DEF PendingOK, Goto
<1>0. /\ PendingOK /\ PhaseOK /\ RowOK
      /\ pc # "idle" => job \in Journal
      /\ status \in [Journal -> Status]
  BY DEF IInv, IndexOK, TypeOK, RowTypes
<1>1. \A i, j \in Journal :
        status'[i] = "pending" /\ status'[j] = "pending" => i = j
  <2>1. CASE \E d \in Draft, j \in Journal : Begin(d, j)
    <3>1. \A j \in Journal : status[j] # "pending"
      BY <1>0, <2>1 DEF Begin, GateOpen, Pending
    <3> QED
      BY <1>0, <2>1, <3>1 DEF Begin
  <2> QED
    BY <1>0, <2>1, StatusStep
<1>2. mode' = "up" /\ pc' = "idle" /\ ~dirty'
        => \A j \in Journal : status'[j] = "pending" => j \in unresolved'
  <2> SUFFICES ASSUME mode' = "up", pc' = "idle", ~dirty', NEW j \in Journal,
                      status'[j] = "pending"
               PROVE  j \in unresolved'
    OBVIOUS
  <2>1. CASE RefreshGate \/ Ready \/ Settle
    <3>1. UNCHANGED status
      BY <2>1 DEF RefreshGate, Ready, Settle, rowVars
    <3>2. unresolved' = Pending
      BY <2>1 DEF RefreshGate, Ready, Settle
    <3> QED
      BY <3>1, <3>2 DEF Pending
  <2>2. CASE UNCHANGED <<rowVars, mode, stepVars, gateVars>>
    BY <1>0, <2>2 DEF rowVars, runVars, stepVars, gateVars
  <2>3. CASE \E d \in Draft, i \in Journal : Begin(d, i)
    BY <2>3 DEF Begin
  <2>4. CASE \/ RecordFile \/ Recheck \/ MoveAside \/ WriteTemp \/ Publish \/ Refuse
             \/ MoveVanished \/ Fail \/ Commit \/ PlanEvent
             \/ AppendAndCommit \/ AppendConflict
    BY <2>4 DEF RecordFile, MoveAside, WriteTemp, Publish, Refuse,
       MoveFails, MoveVanished, Recheck, Fail, Commit, PlanEvent, AppendAndCommit, AppendConflict
  <2>5. CASE CleanFile \/ CleanDone \/ CleanFails
    BY <2>5 DEF CleanFile, CleanDone, CleanFails, Return, Idle
  <2>6. CASE RollbackCheck \/ RollbackFile \/ RollbackRename \/ Abort \/ RollbackFails
    BY <2>6 DEF RollbackCheck, RollbackFile, RollbackRename, Abort, RollbackFails,
       UndoRemove, UndoRename
  <2>7. CASE UndoFile \/ UndoFileRename \/ UndoDone \/ UndoFails
    BY <1>0, <2>7 DEF UndoFile, UndoFileRename, UndoDone, UndoFails,
       UndoRemove, UndoRename, PhaseOK
  <2>8. CASE Start \/ FindPending \/ Crash
    BY <2>8 DEF Start, FindPending, Crash
  <2>9. CASE \E i \in Journal : CleanRow(i) \/ RollForward(i) \/ RecoverRow(i)
    BY <2>9 DEF CleanRow, RollForward, RecoverRow
  <2> QED
    BY <2>1, <2>2, <2>3, <2>4, <2>5, <2>6, <2>7, <2>8, <2>9
       DEF Next, Apply, Startup, Faults, vars, runVars, Plan, Edit
<1>3. mode' = "up" /\ pc' = "cleanup"
        => \A j \in Journal : status'[j] # "pending"
  <2> SUFFICES ASSUME mode' = "up", pc' = "cleanup"
               PROVE  \A j \in Journal : status'[j] # "pending"
    OBVIOUS
  <2>1. CASE Commit \/ AppendAndCommit
    <3>1. /\ status[job] = "pending" /\ job \in Journal
          /\ status' = [status EXCEPT ![job] = "committed"]
      BY <1>0, <2>1 DEF Commit, AppendAndCommit, Written, RowOK, Applying
    <3> QED
      BY <1>0, <3>1
  <2>2. CASE CleanFile
    BY <1>0, <2>2 DEF CleanFile, rowVars
  <2>3. CASE UNCHANGED <<status, mode, stepVars>>
    BY <1>0, <2>3 DEF runVars, stepVars
  <2>4. CASE \/ RecordFile \/ Recheck \/ MoveAside \/ WriteTemp \/ Publish \/ Refuse
             \/ MoveVanished \/ Fail \/ PlanEvent \/ AppendConflict
             \/ CleanDone \/ CleanFails \/ RollbackCheck \/ RollbackFile \/ RollbackRename
             \/ Abort \/ RollbackFails \/ Settle
    BY <2>4 DEF RecordFile, MoveAside, WriteTemp, Publish, Refuse,
       MoveFails, MoveVanished, Recheck, Fail, PlanEvent, AppendConflict, CleanDone, CleanFails,
       Return, Idle, RollbackCheck, RollbackFile, RollbackRename, Abort, RollbackFails,
       Settle, UndoRemove, UndoRename
  <2>5. CASE UndoFile \/ UndoFileRename \/ UndoDone \/ UndoFails
    BY <2>5 DEF UndoFile, UndoFileRename, UndoDone, UndoFails,
       UndoRemove, UndoRename, Idle
  <2>6. CASE Start \/ FindPending \/ Ready \/ Crash
    BY <2>6 DEF Start, FindPending, Ready, Crash, Idle, runVars, stepVars
  <2>7. CASE \E i \in Journal : CleanRow(i) \/ RollForward(i) \/ RecoverRow(i)
    BY <2>7 DEF CleanRow, RollForward, RecoverRow
  <2>8. CASE \E d \in Draft, i \in Journal : Begin(d, i)
    BY <2>8 DEF Begin
  <2> QED
    BY <2>1, <2>2, <2>3, <2>4, <2>5, <2>6, <2>7, <2>8
       DEF Next, Apply, Startup, Faults, vars, rowVars, runVars, Plan, RefreshGate, Edit
<1> QED
  BY <1>1, <1>2, <1>3

\* How a step changes the ledger: the transaction that appends a row's event
\* is the one that commits the row.
LEMMA EventStep ==
  ASSUME IInv, [Next]_vars
  PROVE  \/ UNCHANGED events /\ ~AppendAndCommit
         \/ /\ AppendAndCommit /\ job \in Journal
            /\ status' = [status EXCEPT ![job] = "committed"]
            /\ \E e : events' = events \cup {e} /\ e.journal = job
<1>1. CASE AppendAndCommit
  <2> DEFINE new == [draft |-> draftOf[job], source |-> planned[job],
                     journal |-> job]
  <2>1. /\ job \in Journal /\ events' = events \cup {new}
        /\ status' = [status EXCEPT ![job] = "committed"]
    BY <1>1 DEF AppendAndCommit, IInv, IndexOK
  <2>2. new.journal = job
    OBVIOUS
  <2> HIDE DEF new
  <2> QED
    BY <1>1, <2>1, <2>2
<1>2. CASE ~AppendAndCommit
  BY <1>2 DEF Next, Apply, Startup, Faults, vars, Plan, Begin, RefreshGate,
     Settle, RecordFile, MoveAside, WriteTemp, Publish, Refuse, MoveFails, MoveVanished, Recheck,
     Fail, Commit, PlanEvent, AppendConflict, CleanFile, CleanDone,
     CleanFails, RollbackCheck, RollbackFile, RollbackRename, Abort, RollbackFails, Start,
     CleanRow, FindPending, RollForward, RecoverRow, UndoFile,
     UndoFileRename, UndoDone, UndoFails, Ready, Crash, Edit
<1> QED
  BY <1>1, <1>2

\* An event stays one of a committed row.
LEMMA LedgerStep == IInv /\ [Next]_vars => LedgerOK'
<1> SUFFICES ASSUME IInv, [Next]_vars PROVE LedgerOK'
  OBVIOUS
<1>1. /\ LedgerOK /\ status \in [Journal -> Status]
      /\ \A e \in events : e.journal \in Journal
  BY DEF IInv, TypeOK, RowTypes
<1>2. \A j \in Journal : status[j] = "committed" => status'[j] = "committed"
  BY <1>1, StatusStep
<1> QED
  BY <1>1, <1>2, EventStep DEF LedgerOK

\* In dual mode every committed row has its event.  Apart from the invariant,
\* because it does not hold of the rows that an older build left.
CommitsAppended ==
  WritesLedger =>
    \A j \in Journal : status[j] = "committed" => \E e \in events : e.journal = j

\* A row is committed in dual mode by the transaction that appends its event.
LEMMA AppendedStep == IInv /\ CommitsAppended /\ [Next]_vars => CommitsAppended'
<1> SUFFICES ASSUME IInv, CommitsAppended, [Next]_vars, WritesLedger,
                    NEW j \in Journal, status'[j] = "committed"
             PROVE  \E e \in events' : e.journal = j
  BY DEF CommitsAppended
<1>1. events \subseteq events' /\ status \in [Journal -> Status]
  BY EventStep DEF IInv, TypeOK, RowTypes
<1>2. CASE status[j] = "committed"
  BY <1>1, <1>2 DEF CommitsAppended
<1>3. CASE status[j] # "committed"
  <2>1. AppendAndCommit /\ j = job
    BY <1>1, <1>3, StatusStep DEF Commit
  <2> QED
    BY <2>1, EventStep
<1> QED
  BY <1>2, <1>3

-----------------------------------------------------------------------------
\* Every step keeps the invariant.
LEMMA InvStep == IInv /\ [Next]_vars => IInv'
BY FileStep, RowStep, RunStep, IndexStep, PhaseStep, RowOKStep, PendingStep,
   LedgerStep DEF IInv, TypeOK

\* The invariant holds in every state of every behaviour.
THEOREM Inductive == Spec => []IInv
BY InvStep, InitIInv, PTL DEF Spec

\* Every variable keeps its type, for every tree, draft and journal.
THEOREM TypeCorrect == Spec => []TypeOK
<1>1. IInv => TypeOK
  BY DEF IInv
<1> QED
  BY <1>1, Inductive, PTL

\* No two ChangeSets are ever unfinished at once: the writer gate of the
\* daemon and the start's recovery together serialise them.
THEOREM OnePending == Spec => []AtMostOnePending
<1>1. IInv => AtMostOnePending
  BY DEF IInv, PendingOK, AtMostOnePending, Pending
<1> QED
  BY <1>1, Inductive, PTL

\* An idle daemon's gate is closed, or will read again, when a row is pending.
THEOREM GateKnows == Spec => []GateCoversPending
<1>1. IInv => GateCoversPending
  BY DEF IInv, PendingOK, GateCoversPending, Pending
<1> QED
  BY <1>1, Inductive, PTL

\* In dual mode a row is committed exactly when the ledger holds its event.
THEOREM LedgerAgrees == Spec => []LedgerMatchesJournal
<1>1. IInv /\ CommitsAppended => LedgerMatchesJournal
  BY DEF IInv, LedgerOK, CommitsAppended, LedgerMatchesJournal
<1>2. Init => CommitsAppended
  BY DEF Init, CommitsAppended
<1> QED
  BY <1>1, <1>2, Inductive, AppendedStep, PTL DEF Spec

\* No step of the daemon moves a finished row.
THEOREM Finality == Spec => StatusIsFinal
<1>1. ASSUME IInv, [Next]_vars, NEW j \in Journal,
             status[j] \in {"committed", "aborted", "recovered"}
      PROVE  status'[j] = status[j]
  BY <1>1, StatusStep DEF IInv, TypeOK, RowTypes
<1>2. IInv /\ [Next]_vars =>
        [\A j \in Journal :
           status[j] \in {"committed", "aborted", "recovered"}
             => status'[j] = status[j]]_vars
  BY <1>1
<1> QED
  BY <1>2, Inductive, PTL DEF Spec, StatusIsFinal
=============================================================================

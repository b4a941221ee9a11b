---------------------- MODULE ChangeSetAtomicityProofs ----------------------
(* The journaled write path implements atomic ChangeSets, for every set of   *)
(* paths, drafts and journals, where cleaning up works and nobody else       *)
(* writes the repository; also when it starts from what an older build left. *)
EXTENDS ChangeSetAtomicity, ChangeSetRecoveryProofs

\* Entry i is the last of the first n entries of F that names its path.
Latest(F, n, i) == \A k \in (i + 1)..n : F[k].path # F[i].path

\* Of the first n entries of F, the last of each path other than those skipped
\* is what tree t holds there.
Wrote(F, n, t, skip) ==
  \A p \in Path \ skip : (\E i \in 1..n : F[i].path = p) =>
    \E i \in 1..n : F[i].path = p /\ t[p] = F[i].body /\ Latest(F, n, i)

\* An apply's writes are in place, but for the path it is writing; an event is
\* appended in dual mode, after the last operation.
AppliedOK ==
  /\ edits = 0 /\ pc \in Applying =>
       Wrote(files[job], pushed, disk,
             IF pc \in {"write", "publish"} THEN {Current.path} ELSE {})
  /\ pc = "append" => WritesLedger /\ Len(files[job]) = Len(Writes[draftOf[job]])

-----------------------------------------------------------------------------
\* Deferring the manifest keeps the order of the writes to each path.
LEMMA SameOrder ==
  ASSUME NEW d \in Draft, Applicable(d)
  PROVE  LET n == Len(Writes[d]) IN
         \E at \in [1..n -> 1..n] :
           /\ \A k \in 1..n : Op(d, k) = Writes[d][at[k]]
           /\ \A i \in 1..n : \E k \in 1..n : at[k] = i
           /\ \A k, l \in 1..n : k < l /\ Op(d, k).path = Op(d, l).path => at[k] < at[l]
<1> DEFINE n == Len(Writes[d])
           m == ManifestIndex(d)
           at == [k \in 1..n |-> IF k < m THEN k ELSE IF k < n THEN k + 1 ELSE m]
<1>1. n \in Nat /\ DOMAIN Writes[d] = 1..n
  BY FilesAssumption
<1>2. (m \in 1..n /\ Writes[d][m].path = Manifest) \/ m = n + 1
  <2>1. CASE \E i \in 1..n : Writes[d][i].path = Manifest
    <3>1. m = CHOOSE i \in 1..n : Writes[d][i].path = Manifest
      BY <1>1, <2>1 DEF ManifestIndex
    <3> QED
      BY <2>1, <3>1
  <2>2. CASE ~\E i \in 1..n : Writes[d][i].path = Manifest
    BY <1>1, <2>2 DEF ManifestIndex
  <2> QED
    BY <2>1, <2>2
<1>3. \A k \in 1..n : Op(d, k) = Writes[d][at[k]]
  BY DEF Op
<1> HIDE DEF m
<1>4. at \in [1..n -> 1..n]
  BY <1>1, <1>2
<1>5. ASSUME NEW i \in 1..n PROVE \E k \in 1..n : at[k] = i
  <2>1. CASE i < m
    BY <1>1, <2>1
  <2>2. CASE i = m
    <3>1. at[n] = i
      BY <1>1, <2>2
    <3> QED
      BY <1>1, <3>1
  <2>3. CASE i > m
    <3>1. i - 1 \in 1..n /\ at[i - 1] = i
      BY <1>1, <1>2, <2>3
    <3> QED
      BY <3>1
  <2> QED
    BY <1>1, <1>2, <2>1, <2>2, <2>3
<1>6. ASSUME NEW k \in 1..n, NEW l \in 1..n, k < l, Op(d, k).path = Op(d, l).path
      PROVE  at[k] < at[l]
  <2>1. CASE m = n + 1
    BY <1>1, <1>6, <2>1
  <2>2. CASE m \in 1..n /\ Writes[d][m].path = Manifest
    <3>1. l # n
      <4> SUFFICES ASSUME l = n PROVE FALSE
        OBVIOUS
      <4>1. at[l] = m
        BY <1>1, <2>2
      <4>2. Op(d, k).path = Manifest
        BY <1>3, <1>6, <2>2, <4>1
      <4>3. k = n
        BY <4>2, OpOrder
      <4> QED
        BY <1>1, <1>6, <4>3
    <3> QED
      BY <1>1, <1>6, <2>2, <3>1
  <2> QED
    BY <1>2, <2>1, <2>2
<1> QED
  BY <1>3, <1>4, <1>5, <1>6

\* When all operations of a draft are written, the tree is the one the draft
\* makes: the last write to a path, in the order of the draft, is there.
LEMMA AllWritten ==
  ASSUME NEW d \in Draft, Applicable(d), NEW F, Fits(F, d), Len(F) = Len(Writes[d]),
         NEW t \in Tree, NEW b \in Tree,
         Wrote(F, Len(F), t, {}), Kept(F, Len(F), t, b)
  PROVE  t = Abstract!Result(d, b)
<1> DEFINE n == Len(Writes[d])
           Mine(p) == {i \in DOMAIN Writes[d] : Writes[d][i].path = p}
<1>1. n \in Nat /\ DOMAIN Writes[d] = 1..n
  BY FilesAssumption
<1>2. PICK at \in [1..n -> 1..n] :
        /\ \A k \in 1..n : Op(d, k) = Writes[d][at[k]]
        /\ \A i \in 1..n : \E k \in 1..n : at[k] = i
        /\ \A k, l \in 1..n : k < l /\ Op(d, k).path = Op(d, l).path => at[k] < at[l]
  BY SameOrder
<1>3. \A k \in 1..n : F[k].path = Op(d, k).path /\ F[k].body = Op(d, k).body
  BY DEF Fits
<1>a. \A k \in 1..n : /\ at[k] \in 1..n /\ F[k].path = Writes[d][at[k]].path
                        /\ F[k].body = Writes[d][at[k]].body
  BY <1>2, <1>3
<1>b. \A p, i : i \in Mine(p) <=> i \in 1..n /\ Writes[d][i].path = p
  BY <1>1
<1> HIDE DEF Mine
<1>4. ASSUME NEW p \in Path
      PROVE  t[p] = IF Mine(p) = {} THEN b[p]
                    ELSE Writes[d][CHOOSE i \in Mine(p) : \A k \in Mine(p) : k <= i].body
  <2>1. CASE Mine(p) = {}
    <3>1. \A k \in 1..n : F[k].path # p
      BY <1>a, <1>b, <2>1
    <3> QED
      BY <2>1, <3>1 DEF Kept
  <2>2. CASE Mine(p) # {}
    <3>1. PICK i \in 1..n : Writes[d][i].path = p
      BY <1>b, <2>2
    <3>2. \E k \in 1..n : F[k].path = p
      <4>1. PICK k \in 1..n : at[k] = i
        BY <1>2
      <4> QED
        BY <1>a, <3>1, <4>1
    <3>3. PICK k \in 1..n : F[k].path = p /\ t[p] = F[k].body /\ Latest(F, n, k)
      BY <3>2 DEF Wrote
    <3>4. at[k] \in Mine(p) /\ t[p] = Writes[d][at[k]].body
      BY <1>a, <1>b, <3>3
    <3>5. ASSUME NEW l \in Mine(p) PROVE l <= at[k]
      <4>1. PICK q \in 1..n : at[q] = l
        BY <1>2, <1>b
      <4>2. F[q].path = p
        BY <1>a, <1>b, <4>1
      <4>3. q <= k
        BY <1>1, <3>3, <4>2 DEF Latest
      <4>4. q < k => at[q] < at[k]
        <5>1. Op(d, q).path = Op(d, k).path
          BY <1>3, <3>3, <4>2
        <5> QED
          BY <1>2, <5>1
      <4>5. at[q] \in Nat /\ at[k] \in Nat
        BY <1>1, <1>a
      <4> QED
        BY <1>1, <4>1, <4>3, <4>4, <4>5
    <3>6. (CHOOSE l \in Mine(p) : \A q \in Mine(p) : q <= l) = at[k]
      <4>1. \A l \in Mine(p) : l \in Nat
        BY <1>b
      <4>2. \A l \in Mine(p) : (\A q \in Mine(p) : q <= l) => l = at[k]
        BY <3>4, <3>5, <4>1
      <4> QED
        BY <3>4, <3>5, <4>2
    <3> QED
      BY <2>2, <3>4, <3>6
  <2> QED
    BY <2>1, <2>2
<1>5. Abstract!Result(d, b) =
        [p \in Path |-> IF Mine(p) = {} THEN b[p]
           ELSE Writes[d][CHOOSE i \in Mine(p) : \A k \in Mine(p) : k <= i].body]
  BY DEF Abstract!Result, Mine
<1>6. t \in [Path -> Content]
  BY DEF Tree
<1> QED
  BY <1>4, <1>5, <1>6

-----------------------------------------------------------------------------
\* Each step of an apply leaves what it has written in place.
LEMMA AppliedStep ==
  ASSUME IInv, FilesInv, TreeOK, AppliedOK, [Next]_vars PROVE AppliedOK'
<1> USE DEF Goto
<1>0. edits' = 0 => edits = 0 /\ ~Edited
  BY EditsStep
<1> DEFINE F == files[job]
           skip == IF pc \in {"write", "publish"} THEN {Current.path} ELSE {}
<1>1. CASE Still \/ Edited
  <2>1. UNCHANGED <<job, pc, pos, pushed, files, draftOf>> /\ (edits' = 0 => UNCHANGED disk)
    BY <1>0, <1>1 DEF Still, Edited, Rows, runVars, stepVars, fileVars
  <2> QED
    BY <1>0, <2>1 DEF AppliedOK, Current
<1>2. CASE \E d \in Draft, j \in Journal : Begin(d, j)
  <2>1. pc' = "record" /\ pushed' = 0
    BY <1>2, Begun
  <2>2. Wrote(files'[job'], pushed', disk', {})
    BY <2>1 DEF Wrote
  <2> QED
    BY <2>1, <2>2 DEF AppliedOK
<1>3. CASE RecordFile
  <2>1. /\ pc = "record" /\ pc' = "move" /\ pushed = Len(F) /\ Len(F) \in Nat
        /\ UNCHANGED <<disk, job, pushed>>
        /\ \A i \in 1..Len(F) : files'[job][i] = F[i]
    BY <1>3, Recorded, RowIs DEF fileVars
  <2>2. edits' = 0 => Wrote(F, pushed, disk, {})
    BY <1>0, <2>1 DEF AppliedOK, Applying
  <2> HIDE DEF F
  <2>3. edits' = 0 => Wrote(files'[job], pushed, disk, {})
    BY <2>1, <2>2 DEF Wrote, Latest
  <2> QED
    BY <2>1, <2>3 DEF AppliedOK
<1>4. CASE MoveAside
  <2>1. /\ pc = "rename" /\ pc' = "write" /\ pushed' = pushed + 1 /\ pos' = pos
        /\ UNCHANGED <<files, job>>
    BY <1>4 DEF MoveAside, rowVars
  <2>2. edits' = 0 => /\ pushed + 1 = Len(F) /\ pos = Len(F) /\ pushed \in Nat
                      /\ Wrote(F, pushed, disk, {}) /\ disk \in Tree
    BY <1>0, <2>1, Working DEF AppliedOK, Applying
  <2>3. edits' = 0 => \A q \in Path : q # F[pos].path => disk'[q] = disk[q]
    BY <1>4, <2>2 DEF MoveAside, Current, Tree
  <2> HIDE DEF F
  <2>4. edits' = 0 => Wrote(F, pushed + 1, disk', {F[pos].path})
    BY <2>2, <2>3 DEF Wrote, Latest
  <2> QED
    BY <2>1, <2>4 DEF AppliedOK, Current, F
<1>5. CASE WriteTemp
  <2>1. pc = "write" /\ pc' = "publish" /\ UNCHANGED <<disk, files, job, pos, pushed, edits>>
    BY <1>5 DEF WriteTemp, rowVars, Calm, envVars
  <2> QED
    BY <2>1 DEF AppliedOK, Current, Applying
<1>6. CASE Publish
  <2>1. /\ pc \in {"write", "publish"} /\ pc' = "record" /\ UNCHANGED <<files, job, pushed>>
    BY <1>6 DEF Publish, rowVars
  <2>2. edits' = 0 => /\ pushed = Len(F) /\ pos = Len(F) /\ pushed \in Nat /\ pos # 0
                      /\ Wrote(F, pushed, disk, {F[pos].path}) /\ disk \in Tree
                      /\ F[pos].path \in Path
    BY <1>0, <2>1, Working DEF AppliedOK, Applying, Current
  <2>3. edits' = 0 => /\ \A q \in Path : q # F[pos].path => disk'[q] = disk[q]
                      /\ disk'[F[pos].path] = F[pos].body
    BY <1>6, <2>2 DEF Publish, Current, Tree
  <2> HIDE DEF F
  <2>4. edits' = 0 => Latest(F, pushed, pos) /\ pos \in 1..pushed
    BY <2>2 DEF Latest
  <2>5. edits' = 0 => Wrote(F, pushed, disk', {})
    BY <2>2, <2>3, <2>4 DEF Wrote
  <2> QED
    BY <2>1, <2>5 DEF AppliedOK, F
<1>7. CASE Plans
  <2>1. /\ pc = "record" /\ pc' = "append" /\ WritesLedger
        /\ pos = Len(Writes[draftOf[job]]) + 1
        /\ UNCHANGED <<disk, files, draftOf, job, pos, pushed>>
    BY <1>7 DEF Plans, Written, Rows, fileVars
  <2>2. pos = Len(F) + 1 /\ Len(F) \in Nat /\ draftOf[job] \in Draft
    BY <2>1, RowIs DEF IInv, IndexOK, TypeOK, RowTypes
  <2>3. Len(Writes[draftOf[job]]) \in Nat
    BY <2>2, FilesAssumption
  <2>4. Len(F) = Len(Writes[draftOf[job]])
    BY <2>1, <2>2, <2>3
  <2> QED
    BY <1>0, <2>1, <2>4 DEF AppliedOK, Applying
<1>8. CASE \/ Leaves \/ TakesUp \/ GivesUp \/ Commits \/ CleanFile \/ Cleaned \/ Skips \/ Removes
           \/ Renames \/ Finishes
  <2>1. pc' \notin Applying
    BY <1>8 DEF Leaves, TakesUp, GivesUp, Commits, CleanFile, Cleaned, Skips, Removes, Loop,
       Renames, Finishes, Applying
  <2> QED
    BY <2>1 DEF AppliedOK, Applying
<1>9. CASE Checks
  <2>1. UNCHANGED <<disk, files, job, pos, pushed>>
    BY <1>9 DEF Checks, Rows, fileVars
  <2>2. pc' # "append" /\ ((pc = "move" /\ pc' = "rename") \/ pc' = "remove")
    BY <1>9 DEF Checks
  <2>3. CASE pc' = "remove"
    BY <2>3 DEF AppliedOK, Applying
  <2>4. CASE pc = "move" /\ pc' = "rename"
    <3>1. edits' = 0 => Wrote(F, pushed, disk, {})
      BY <1>0, <2>4 DEF AppliedOK, Applying
    <3> HIDE DEF F
    <3>2. edits' = 0 => Wrote(F', pushed', disk', {})
      BY <2>1, <3>1 DEF F
    <3> QED
      BY <2>4, <3>2 DEF AppliedOK, F
  <2> QED
    BY <2>2, <2>3, <2>4
<1> QED
  BY <1>1, <1>2, <1>3, <1>4, <1>5, <1>6, <1>7, <1>8, <1>9, StepShape DEF Shape

-----------------------------------------------------------------------------
(* What the abstract specification sees.                                     *)

\* Every pending row is open; the repository's tree is its base while there is
\* one, and the files' else.
ViewOK ==
  /\ \A j \in Pending : LogicalTree = base[j]
  /\ Pending = {} => LogicalTree = disk
  /\ \A j \in Journal :
       LogicalState(j) = CASE status[j] = "pending" -> "open"
                           [] status[j] = "committed" -> "applied"
                           [] status[j] \in {"aborted", "recovered"} -> "discarded"
                           [] OTHER -> "none"

\* No event of a pending row is in the ledger.
LEMMA LogicalView == IInv => ViewOK
<1> SUFFICES ASSUME IInv PROVE ViewOK
  OBVIOUS
<1>1. Open = Pending
  <2>1. \A j \in Pending : ~AppendedBy(j)
    BY DEF Pending, AppendedBy, IInv, LedgerOK
  <2> QED
    BY <2>1 DEF Open
<1>2. ASSUME NEW j \in Pending PROVE LogicalTree = base[j]
  <2>1. Open = {j}
    BY <1>1, <1>2 DEF Pending, IInv, PendingOK
  <2>2. (CHOOSE i \in {j} : TRUE) = j
    OBVIOUS
  <2> QED
    BY <2>1, <2>2 DEF LogicalTree
<1>3. Pending = {} => LogicalTree = disk
  BY <1>1 DEF LogicalTree
<1>4. ASSUME NEW j \in Journal
      PROVE  LogicalState(j) = CASE status[j] = "pending" -> "open"
                             [] status[j] = "committed" -> "applied"
                             [] status[j] \in {"aborted", "recovered"} -> "discarded"
                             [] OTHER -> "none"
  <2>1. j \in Open <=> status[j] = "pending"
    BY <1>1 DEF Pending
  <2>2. j \notin Pending \ Open
    BY <1>1
  <2>3. status[j] \in Status
    BY RowIs
  <2> QED
    BY <2>1, <2>2, <2>3 DEF LogicalState, Status
<1> QED
  BY <1>2, <1>3, <1>4 DEF ViewOK

\* A commit finds every operation written: the files are the tree the draft
\* makes of the one the ChangeSet began on.
LEMMA CommitsResult ==
  ASSUME IInv, FilesInv, TreeOK, AppliedOK, edits = 0, Commit \/ AppendAndCommit
  PROVE  /\ job \in Journal /\ status[job] = "pending" /\ draftOf[job] \in Draft
         /\ disk = Abstract!Result(draftOf[job], base[job])
<1> DEFINE F == files[job]
           d == draftOf[job]
<1>1. pc = "append" \/ (pc = "record" /\ pos = Len(Writes[d]) + 1)
  BY DEF Commit, AppendAndCommit, Written
<1>2. /\ job \in Journal /\ status[job] = "pending" /\ Kept(F, Len(F), disk, base[job])
      /\ Len(F) \in Nat /\ pushed = Len(F) /\ disk \in Tree
  BY <1>1, Working DEF Applying
<1>3. d \in Draft /\ base[job] \in Tree
  BY <1>2 DEF IInv, TypeOK, RowTypes
<1>4. Fits(F, d) /\ Applicable(d)
  BY <1>2 DEF FilesInv, EntriesOK
<1>5. Len(F) = Len(Writes[d])
  <2>1. Len(Writes[d]) \in Nat
    BY <1>3, FilesAssumption
  <2>2. pc = "record" => pos = Len(F) + 1
    BY DEF IInv, IndexOK
  <2> QED
    BY <1>1, <1>2, <2>1, <2>2 DEF AppliedOK
<1>6. Wrote(F, Len(F), disk, {})
  BY <1>1, <1>2 DEF AppliedOK, Applying
<1> HIDE DEF F, d
<1>7. disk = Abstract!Result(d, base[job])
  BY <1>2, <1>3, <1>4, <1>5, <1>6, AllWritten
<1> QED
  BY <1>2, <1>3, <1>7 DEF d

\* With no row pending the files change only under an editor's hand.
LEMMA DiskStep ==
  ASSUME IInv, [Next]_vars, edits' = 0, Pending = {} PROVE disk' = disk
<1>1. ~Edited
  BY EditsStep
<1>2. pc \notin Applying \cup {"rollback", "remove", "putback", "undo", "restore"}
  BY RowIs DEF Pending, Applying
<1> QED
  BY <1>1, <1>2, StepShape
     DEF Shape, Still, Leaves, TakesUp, GivesUp, Commits, Plans, Begin, RecordFile, Checks, MoveAside,
         WriteTemp, Publish, CleanFile, Cleaned, Skips, Removes, Renames, Finishes, fileVars,
         Applying

\* The base tree of a row is set when it is inserted.
LEMMA BaseStep ==
  ASSUME IInv, [Next]_vars
  PROVE  UNCHANGED base \/ \E d \in Draft, j \in Journal : Begin(d, j)
BY StepShape
   DEF Shape, Still, Edited, Leaves, TakesUp, GivesUp, Commits, Plans, RecordFile, Checks, MoveAside,
       WriteTemp, Publish, CleanFile, Cleaned, Skips, Removes, Renames, Finishes, Rows, rowVars

States == [j \in Journal |-> LogicalState(j)]
Ledger == {j \in Journal : AppendedBy(j)}

\* How the states that the abstract specification sees follow the status.
LEMMA StatesFollow ==
  ASSUME IInv, IInv', NEW j \in Journal, NEW s \in Status, status' = [status EXCEPT ![j] = s]
  PROVE  States' = [States EXCEPT ![j] = CASE s = "pending" -> "open"
                                           [] s = "committed" -> "applied"
                                           [] s \in {"aborted", "recovered"} -> "discarded"
                                           [] OTHER -> "none"]
<1>1. ViewOK /\ ViewOK'
  <2>1. (IInv => ViewOK)'
    BY LogicalView, PTL
  <2> QED
    BY <2>1, LogicalView
<1>2. \A i \in Journal :
         /\ status'[i] = IF i = j THEN s ELSE status[i]
         /\ LogicalState(i)' = CASE status'[i] = "pending" -> "open"
                             [] status'[i] = "committed" -> "applied"
                             [] status'[i] \in {"aborted", "recovered"} -> "discarded"
                             [] OTHER -> "none"
  BY <1>1 DEF ViewOK, IInv, TypeOK, RowTypes
<1>3. \A i \in Journal : i # j => LogicalState(i)' = LogicalState(i)
  BY <1>1, <1>2 DEF ViewOK
<1> QED
  BY <1>2, <1>3 DEF States

\* The tree that the abstract specification sees after a step.
LEMMA TreeFollows ==
  ASSUME IInv'
  PROVE  /\ \A j \in Pending' : LogicalTree' = base'[j]
         /\ Pending' = {} => LogicalTree' = disk'
<1>1. (IInv => ViewOK)'
  BY LogicalView, PTL
<1> QED
  BY <1>1 DEF ViewOK

-----------------------------------------------------------------------------
\* Every step of the write path is a step of atomic ChangeSets, or none.
LEMMA AtomicStep ==
  ASSUME IInv, FilesInv, TreeOK, AppliedOK, [Next]_vars, IInv', edits' = 0
  PROVE  [Abstract!Next]_(Abstract!vars)
<1>0. /\ edits = 0
      /\ \A j \in Pending : LogicalTree = base[j]
      /\ Pending = {} => LogicalTree = disk
      /\ status \in [Journal -> Status] /\ disk \in Tree /\ base \in [Journal -> Tree]
  BY EditsStep, LogicalView DEF ViewOK, IInv, TypeOK, RowTypes, FileTypes
<1>a. /\ \A j \in Pending' : LogicalTree' = base'[j]
      /\ Pending' = {} => LogicalTree' = disk'
  BY TreeFollows
<1>1. CASE UNCHANGED status
  <2>1. UNCHANGED base /\ UNCHANGED events
    <3>1. ~\E d \in Draft, j \in Journal : Begin(d, j)
      BY <1>0, <1>1 DEF Begin
    <3>2. ~AppendAndCommit
      BY <1>0, <1>1, RowIs DEF AppendAndCommit, Applying
    <3> QED
      BY <3>1, <3>2, BaseStep, EventStep
  <2>2. Pending' = Pending
    BY <1>1 DEF Pending
  <2>3. LogicalTree' = LogicalTree
    <3>1. CASE Pending = {}
      BY <1>0, <1>a, <2>2, <3>1, DiskStep
    <3>2. CASE Pending # {}
      BY <1>0, <1>a, <2>1, <2>2, <3>2
    <3> QED
      BY <3>1, <3>2
  <2>4. States' = States /\ Ledger' = Ledger
    BY <1>1, <2>1 DEF States, Ledger, LogicalState, AppendedBy, Open, Pending
  <2> QED
    BY <2>3, <2>4 DEF Abstract!vars, States, Ledger
<1>2. CASE \E d \in Draft, j \in Journal : Begin(d, j)
  <2>1. PICK d \in Draft, j \in Journal : Begin(d, j)
    BY <1>2
  <2>2. /\ status[j] = "none" /\ status' = [status EXCEPT ![j] = "pending"]
        /\ base' = [base EXCEPT ![j] = disk] /\ events' = events
        /\ \A i \in Journal : status[i] # "pending"
    BY <2>1, Begun DEF Begin
  <2>3. Pending = {} /\ j \in Pending'
    BY <1>0, <2>2 DEF Pending
  <2>4. LogicalTree' = LogicalTree
    BY <1>0, <1>a, <2>2, <2>3
  <2>5. States' = [States EXCEPT ![j] = "open"]
    BY <2>2, StatesFollow DEF Status
  <2>6. States[j] = "none" /\ \A i \in Journal : States[i] # "open"
    BY <2>2, LogicalView DEF ViewOK, States
  <2>7. Ledger' = Ledger
    BY <2>2 DEF Ledger, AppendedBy
  <2> QED
    BY <2>4, <2>5, <2>6, <2>7 DEF Abstract!Next, Abstract!Open, States, Ledger
<1>3. CASE /\ status' = [status EXCEPT ![job] = "committed"]
           /\ Commit \/ AppendAndCommit
  <2>1. /\ job \in Journal /\ status[job] = "pending" /\ draftOf[job] \in Draft
        /\ disk = Abstract!Result(draftOf[job], base[job])
    BY <1>0, <1>3, CommitsResult
  <2>2. job \in Pending /\ Pending' = {} /\ disk' = disk
    BY <1>0, <1>3, <2>1, RowIs DEF Pending, Commit, AppendAndCommit, fileVars
  <2>3. LogicalTree' = Abstract!Result(draftOf[job], LogicalTree)
    BY <1>0, <1>a, <2>1, <2>2
  <2>4. States' = [States EXCEPT ![job] = "applied"]
    BY <1>3, <2>1, StatesFollow DEF Status
  <2>5. States[job] = "open"
    BY <2>1, LogicalView DEF ViewOK, States
  <2>6. Ledger' = IF WritesLedger THEN Ledger \cup {job} ELSE Ledger
    <3>1. CASE Commit
      BY <3>1 DEF Commit, Ledger, AppendedBy
    <3>2. CASE AppendAndCommit
      <4> DEFINE new == [draft |-> draftOf[job], source |-> planned[job], journal |-> job]
      <4>1. WritesLedger /\ events' = events \cup {new} /\ new.journal = job
        BY <3>2 DEF AppendAndCommit, AppliedOK
      <4> HIDE DEF new
      <4> QED
        BY <2>1, <4>1 DEF Ledger, AppendedBy
    <3> QED
      BY <1>3, <3>1, <3>2
  <2>7. Abstract!Apply(job, draftOf[job])
    BY <2>3, <2>4, <2>5, <2>6 DEF Abstract!Apply, States, Ledger
  <2> QED
    BY <2>1, <2>7 DEF Abstract!Next
<1>4. CASE /\ job \in Journal /\ status[job] = "pending"
           /\ \E s \in {"aborted", "recovered"} : status' = [status EXCEPT ![job] = s]
           /\ Abort \/ UndoDone
  <2>1. /\ pc \in {"rollback", "undo"} /\ pos = 0 /\ ~blocked /\ UNCHANGED <<disk, events>>
    BY <1>0, <1>4 DEF Abort, UndoDone, fileVars
  <2>2. job \in Pending /\ Pending' = {}
    BY <1>0, <1>4, RowIs DEF Pending
  <2>3. disk = base[job]
    <3>1. Kept(files[job], 0, disk, base[job])
      BY <1>0, <2>1 DEF TreeOK
    <3>2. \A p \in Path : disk[p] = base[job][p]
      BY <3>1 DEF Kept
    <3>3. disk \in [Path -> Content] /\ base[job] \in [Path -> Content]
      BY <1>0, <1>4 DEF Tree
    <3> QED
      BY <3>2, <3>3
  <2>4. LogicalTree' = LogicalTree
    BY <1>0, <1>a, <2>1, <2>2, <2>3
  <2>5. States' = [States EXCEPT ![job] = "discarded"]
    BY <1>4, StatesFollow DEF Status
  <2>6. States[job] = "open"
    BY <1>4, LogicalView DEF ViewOK, States
  <2>7. Ledger' = Ledger
    BY <2>1 DEF Ledger, AppendedBy
  <2>8. Abstract!Discard(job)
    BY <2>4, <2>5, <2>6, <2>7 DEF Abstract!Discard, States, Ledger
  <2> QED
    BY <1>4, <2>8 DEF Abstract!Next
<1> QED
  BY <1>1, <1>2, <1>3, <1>4, StatusStep

\* The initial states are initial states of the abstract specification.
LEMMA AtomicInit == Init => Abstract!Init
<1> SUFFICES ASSUME Init PROVE Abstract!Init
  OBVIOUS
<1>1. IInv /\ Pending = {} /\ events = {} /\ disk \in [Path -> Content]
  BY InitIInv DEF Init, Pending, Tree
<1>2. LogicalTree = disk
  BY <1>1, LogicalView DEF ViewOK
<1>3. \A j \in Journal : status[j] = "none"
  BY DEF Init
<1>4. States = [j \in Journal |-> "none"]
  BY <1>1, <1>3, LogicalView DEF ViewOK, States
<1>5. Ledger = {}
  BY <1>1 DEF Ledger, AppendedBy
<1> QED
  BY <1>1, <1>2, <1>4, <1>5 DEF Abstract!Init, States, Ledger

\* Where no edit is explored there is none.
LEMMA NoEdits ==
  ASSUME MaxEdits = 0 PROVE edits = 0 /\ [Next]_vars => (edits = 0)'
BY DEF Next, Apply, Startup, Faults, vars, envVars, Calm, Fault, Plan, Begin, RefreshGate,
   Settle, RecordFile, MoveAside, WriteTemp, Publish, Refuse, MoveFails, MoveVanished, Recheck, Fail, Commit,
   PlanEvent, AppendAndCommit, AppendConflict, CleanFile, CleanDone, CleanFails,
   RollbackCheck, RollbackFile, RollbackRename, Abort, RollbackFails, Start, CleanRow, FindPending,
   RollForward, RecoverRow, UndoFile, UndoFileRename, UndoDone, UndoFails, Ready, Crash, Edit

\* The journaled write path implements atomic ChangeSets: whatever fails,
\* crashes and is recovered, readers of the committed state see a ChangeSet's
\* whole result and its event in one step, or nothing of it.
THEOREM Atomicity == ASSUME CleanupWorks, MaxEdits = 0 PROVE Spec => Atomic
<1>1. Spec => [](edits = 0)
  BY NoEdits, PTL DEF Spec, Init
<1>2. Init => AppliedOK
  BY DEF Init, AppliedOK, Applying
<1>3. IInv /\ FilesInv /\ TreeOK /\ AppliedOK /\ [Next]_vars => AppliedOK'
  BY AppliedStep
<1>4. /\ IInv /\ FilesInv /\ TreeOK /\ AppliedOK /\ [Next]_vars
      /\ IInv' /\ (edits = 0)'
      => [Abstract!Next]_(Abstract!vars)
  BY AtomicStep
<1> QED
  BY <1>1, <1>2, <1>3, <1>4, AtomicInit, Trees, PTL DEF Spec, Atomic, Abstract!Spec

-----------------------------------------------------------------------------
(* The store of an older build.                                              *)

\* A set of naturals has a least element.
LEMMA Least ==
  ASSUME NEW S \in SUBSET Nat, S # {}
  PROVE  \E m \in S : \A k \in S : m <= k
<1> DEFINE cut(k) == {i \in S : i <= k}
           T == {cut(k) : k \in S}
           R == StrictSubsetOrdering(Nat)
<1>1. IsWellFoundedOn(R, FiniteSubsetsOf(Nat))
  BY FS_StrictSubsetOrderingWellFounded
<1>2. T \subseteq FiniteSubsetsOf(Nat) /\ T # {}
  <2>1. ASSUME NEW k \in S PROVE cut(k) \in FiniteSubsetsOf(Nat)
    <3>1. cut(k) \in SUBSET Nat /\ \A i \in cut(k) : i <= k
      OBVIOUS
    <3> HIDE DEF cut
    <3> QED
      BY <3>1, FS_BoundedSetOfNaturals DEF FiniteSubsetsOf
  <2> QED
    BY <2>1
<1>3. PICK U \in T : \A V \in T : <<V, U>> \notin R
  <2> HIDE DEF T, R
  <2> DEFINE F == FiniteSubsetsOf(Nat)
  <2>1. IsWellFoundedOn(R, F) /\ T \subseteq F
    BY <1>1, <1>2
  <2> HIDE DEF F
  <2> QED
    BY <1>2, <2>1, WFMin
<1>4. PICK m \in S : U = cut(m)
  OBVIOUS
<1>5. ASSUME NEW k \in S, k < m PROVE FALSE
  <2>1. /\ cut(k) \subseteq cut(m) /\ cut(m) \subseteq Nat
        /\ m \in cut(m) /\ m \notin cut(k)
    <3>1. m \in Nat /\ k \in Nat /\ k < m /\ \A i \in S : i \in Nat
      BY <1>5
    <3>2. \A i : i \in cut(k) <=> i \in S /\ i <= k
      OBVIOUS
    <3>3. \A i : i \in cut(m) <=> i \in S /\ i <= m
      OBVIOUS
    <3>4. cut(k) \in SUBSET S /\ cut(m) \in SUBSET S
      OBVIOUS
    <3> HIDE DEF cut, T
    <3>5. m \in cut(m) /\ m \notin cut(k)
      BY <3>1, <3>2, <3>3
    <3>6. \A i \in S : i \in cut(k) => i \in cut(m)
      BY <3>1, <3>2, <3>3
    <3> QED
      BY <3>1, <3>4, <3>5, <3>6
  <2> HIDE DEF cut
  <2>2. <<cut(k), cut(m)>> \in R
    BY <2>1 DEF StrictSubsetOrdering
  <2> QED
    BY <1>3, <1>4, <2>2
<1>6. \A k \in S : m <= k
  BY <1>5
<1> QED
  BY <1>6

\* A bounded set of naturals has a greatest element.
LEMMA Greatest ==
  ASSUME NEW n \in Nat, NEW S \in SUBSET (1..n), S # {}
  PROVE  \E m \in S : \A k \in S : k <= m
<1> DEFINE T == {i \in Nat : n - i \in S}
<1>1. \A k \in S : k \in 1..n /\ n - k \in T
  OBVIOUS
<1>2. PICK i \in T : \A k \in T : i <= k
  <2>1. T \in SUBSET Nat /\ T # {}
    BY <1>1
  <2> HIDE DEF T
  <2> QED
    BY <2>1, Least
<1> QED
  BY <1>1, <1>2

\* What a write expects at its path is a content.
LEMMA ExpectedType ==
  ASSUME NEW d \in Draft, NEW t \in Tree, NEW k \in 1..Len(Writes[d])
  PROVE  Expected(d, t, k) \in Content
<1> DEFINE p == Op(d, k).path
           before == {i \in 1..(k - 1) : Op(d, i).path = p}
<1>1. /\ Len(Writes[d]) \in Nat /\ k \in Nat
      /\ \A i \in 1..Len(Writes[d]) : Op(d, i) \in Ops
  <2>1. Len(Writes[d]) \in Nat
    BY FilesAssumption
  <2> QED
    BY <2>1, OpType
<1>2. CASE before = {}
  <2>1. p \in Path
    BY <1>1 DEF Ops
  <2> QED
    BY <1>2, <2>1, TreeValue DEF Expected
<1>3. CASE before # {}
  <2> DEFINE last == CHOOSE i \in before : \A l \in before : l <= i
  <2>1. \E i \in before : \A l \in before : l <= i
    <3>1. before \in SUBSET (1..(k - 1)) /\ k - 1 \in Nat
      BY <1>1
    <3> HIDE DEF before
    <3> QED
      BY <1>3, <3>1, Greatest
  <2>2. last \in before
    BY <2>1
  <2>3. Op(d, last).body \in Content
    BY <1>1, <2>2 DEF Ops
  <2> QED
    BY <1>3, <2>3 DEF Expected
<1> QED
  BY <1>2, <1>3

\* The tree that a draft makes of a tree is one.
LEMMA ResultType ==
  ASSUME NEW d \in Draft, NEW t \in Tree PROVE Abstract!Result(d, t) \in Tree
<1> DEFINE mine(p) == {i \in DOMAIN Writes[d] : Writes[d][i].path = p}
<1>1. /\ Len(Writes[d]) \in Nat /\ DOMAIN Writes[d] = 1..Len(Writes[d])
      /\ \A i \in DOMAIN Writes[d] : Writes[d][i].body \in Content
  <2>1. Writes[d] \in Seq(Ops)
    BY FilesAssumption DEF Ops
  <2>2. \A i \in 1..Len(Writes[d]) : Writes[d][i] \in Ops
    BY <2>1
  <2> QED
    BY <2>1, <2>2 DEF Ops
<1>2. ASSUME NEW p \in Path, mine(p) # {}
      PROVE  Writes[d][CHOOSE i \in mine(p) : \A k \in mine(p) : k <= i].body \in Content
  <2>1. mine(p) \in SUBSET (1..Len(Writes[d]))
    BY <1>1
  <2>2. \E i \in mine(p) : \A k \in mine(p) : k <= i
    <3> HIDE DEF mine
    <3> QED
      BY <1>1, <1>2, <2>1, Greatest
  <2> QED
    BY <1>1, <2>1, <2>2
<1>3. Abstract!Result(d, t) =
        [p \in Path |-> IF mine(p) = {} THEN t[p]
           ELSE Writes[d][CHOOSE i \in mine(p) : \A k \in mine(p) : k <= i].body]
  BY DEF Abstract!Result
<1> HIDE DEF mine
<1> QED
  BY <1>2, <1>3, TreeValue DEF Tree

\* What an older build leaves of a draft fits the draft: its entries are the
\* draft's operations, and only the last of a path can have found a file.
LEMMA DoneFits ==
  ASSUME NEW d \in Draft, NEW t \in Tree, Applies(d, t)
  PROVE  DoneEntries(d, t) \in Seq(Entry) /\ Fits(DoneEntries(d, t), d)
<1> DEFINE F == DoneEntries(d, t)
           n == Len(Writes[d])
<1>1. n \in Nat /\ \A k \in 1..n : Op(d, k) \in Ops
  <2>1. n \in Nat
    BY FilesAssumption
  <2> QED
    BY <2>1, OpType
<1>2. /\ F \in Seq(Entry) /\ Len(F) = n
      /\ \A k \in 1..n : /\ F[k].path = Op(d, k).path /\ F[k].body = Op(d, k).body
                         /\ F[k].existed <=> Expected(d, t, k) # Missing
  <2> DEFINE e(k) == [path |-> Op(d, k).path, body |-> Op(d, k).body,
                      existed |-> Expected(d, t, k) # Missing]
  <2>1. \A k \in 1..n : e(k) \in Entry
    BY <1>1 DEF Ops, Entry
  <2>2. F = [k \in 1..n |-> e(k)]
    BY DEF DoneEntries
  <2>3. F \in [1..n -> Entry]
    BY <2>1, <2>2
  <2>4. F \in Seq(Entry) /\ Len(F) = n
    BY <1>1, <2>3
  <2>5. \A k \in 1..n : F[k] = e(k)
    BY <2>2
  <2>6. \A k \in 1..n : /\ e(k).path = Op(d, k).path /\ e(k).body = Op(d, k).body
                        /\ e(k).existed <=> Expected(d, t, k) # Missing
    OBVIOUS
  <2> HIDE DEF F, e
  <2>7. \A k \in 1..n : /\ F[k].path = Op(d, k).path /\ F[k].body = Op(d, k).body
                        /\ F[k].existed <=> Expected(d, t, k) # Missing
    BY <2>5, <2>6
  <2> QED
    BY <2>4, <2>7
<1> HIDE DEF F
<1>3. ASSUME NEW i \in 1..n PROVE \E k \in 1..i : F[k].path = F[i].path /\ First(F, k)
  <2> DEFINE S == {k \in 1..n : F[k].path = F[i].path}
  <2>1. S \in SUBSET Nat /\ i \in S
    BY <1>1
  <2>2. PICK k \in S : \A l \in S : k <= l
    <3> HIDE DEF S
    <3> QED
      BY <2>1, Least
  <2>3. k \in 1..i /\ F[k].path = F[i].path
    BY <1>1, <2>2
  <2>4. \A l \in 1..(k - 1) : F[l].path # F[k].path
    BY <1>1, <2>2
  <2> QED
    BY <2>3, <2>4 DEF First
<1>4. \A i, k \in 1..n : i < k /\ F[i].path = F[k].path => ~F[i].existed
  BY <1>2 DEF Applies
<1>5. Fits(F, d)
  <2>1. Len(F) = n /\ 1..Len(F) = 1..n /\ Len(F) <= n
    BY <1>1, <1>2
  <2>2. ASSUME NEW i \in 1..Len(F)
        PROVE  F[i].path = Op(d, i).path /\ F[i].body = Op(d, i).body
    BY <1>2, <2>1
  <2>3. ASSUME NEW i \in 1..Len(F)
        PROVE  \E k \in 1..i : F[k].path = F[i].path /\ First(F, k)
    <3>1. i \in 1..n
      BY <2>1
    <3> QED
      BY <3>1, <1>3
  <2>4. \A i, k \in 1..Len(F) : i < k /\ F[i].path = F[k].path => ~F[i].existed
    BY <1>4, <2>1
  <2> QED
    BY <2>1, <2>2, <2>3, <2>4 DEF Fits
<1> QED
  BY <1>2, <1>5 DEF F

\* Row j is pending although its event is in the ledger, and no start has
\* finished rolling it forward.
Behind(j) ==
  /\ status = [i \in Journal |-> IF i = j THEN "pending" ELSE "none"]
  /\ \A i \in Journal : i # j => files[i] = <<>>
  /\ planned[j] # None
  /\ events = {[draft |-> draftOf[j], source |-> planned[j], journal |-> j]}
  /\ temp = {}
  /\ \/ mode \in {"down", "clean"} /\ pc = "idle" /\ todo = {}
     \/ mode = "recover" /\ pc = "idle" /\ todo = {j}
     \/ mode = "recover" /\ pc = "cleanup" /\ todo = {j} /\ job = j /\ pos # 0

\* What a start can do with such a store.
LEMMA BehindMoves ==
  ASSUME NEW j \in Journal, Behind(j), ~CleanupMayFail, [Next]_vars
  PROVE  \/ Start \/ FindPending \/ RollForward(j) \/ CleanFile \/ CleanDone \/ Crash
         \/ \E p \in Path, c \in Content : Edit(p, c)
         \/ UNCHANGED vars
<1>1. /\ mode \in {"down", "clean", "recover"} /\ pc \in {"idle", "cleanup"}
      /\ mode = "clean" => todo = {}
      /\ mode = "recover" => todo = {j}
  BY DEF Behind
<1>2. ~NotAppended(j)
  <2> DEFINE e == [draft |-> draftOf[j], source |-> planned[j], journal |-> j]
  <2>1. e \in events /\ e.draft = draftOf[j] /\ e.source = planned[j]
    BY DEF Behind
  <2> HIDE DEF e
  <2> QED
    BY <2>1 DEF NotAppended, SameKey, Behind
<1>3. \A i \in Journal : ~CleanRow(i) /\ ~RecoverRow(i) /\ (RollForward(i) => i = j)
  BY <1>1, <1>2 DEF CleanRow, RecoverRow, RollForward
<1> QED
  BY <1>1, <1>3
     DEF Next, Apply, Startup, Faults, Plan, Begin, RefreshGate, Settle, RecordFile,
         MoveAside, WriteTemp, Publish, Refuse, MoveFails, MoveVanished, Recheck, Fail, Commit, PlanEvent,
         AppendAndCommit, AppendConflict, CleanFails, RollbackCheck, RollbackFile, RollbackRename, Abort,
         RollbackFails, UndoFile, UndoFileRename, UndoDone, UndoFails, Ready

\* Until the row is rolled forward the store stays as it is, but for the
\* backups that the cleanup has deleted.
LEMMA BehindStep ==
  ASSUME NEW j \in Journal, TypeOK, FilesInv, Behind(j), ~CleanupMayFail, [Next]_vars, ~CleanDone
  PROVE  TypeOK' /\ FilesInv' /\ Behind(j)'
<1> USE DEF Goto, Idle
<1>0. /\ status = [i \in Journal |-> IF i = j THEN "pending" ELSE "none"]
      /\ \A e \in events : e.journal = j
      /\ pc \in {"idle", "cleanup"} /\ temp = {}
      /\ pc = "cleanup" => job = j /\ pos # 0 /\ mode = "recover" /\ todo = {j}
      /\ mode \in {"down", "clean"} => pc = "idle" /\ todo = {}
      /\ mode = "recover" => todo = {j}
  BY DEF Behind
<1>a. FileTypes /\ RowTypes /\ RunTypes
  BY DEF TypeOK
<1>1. UNCHANGED <<rowVars, events>>
  BY BehindMoves DEF Start, FindPending, RollForward, CleanFile, Crash, Edit, vars
<1>2. /\ FileTypes' /\ temp' = {}
      /\ \A p \in Path : backup'[p] # Missing => backup[p] # Missing
      /\ CleanFile \/ backup' = backup
  <2>1. CASE CleanFile
    <3>1. Current.path \in Path
      <4>1. files[job] \in Seq(Entry) /\ pos \in 1..Len(files[job])
        BY <1>0, <1>a, <2>1 DEF CleanFile, RowTypes, RunTypes
      <4>2. Current \in Entry
        BY <4>1 DEF Current
      <4> QED
        BY <4>2 DEF Entry
    <3>2. /\ disk' = disk /\ temp' = temp \ {Current.path}
          /\ backup' = [backup EXCEPT ![Current.path] = Missing]
      BY <2>1 DEF CleanFile
    <3>3. backup' \in Tree
      BY <1>a, <3>1, <3>2, TreeUpdate DEF FileTypes, Content
    <3> QED
      BY <1>0, <1>a, <2>1, <3>1, <3>2, <3>3 DEF FileTypes, Tree
  <2>2. CASE \E p \in Path, c \in Content : Edit(p, c)
    <3>1. PICK p \in Path, c \in Content : Edit(p, c)
      BY <2>2
    <3> QED
      BY <1>0, <1>a, <3>1, TreeUpdate DEF Edit, FileTypes
  <2>3. CASE Start \/ FindPending \/ RollForward(j) \/ Crash \/ UNCHANGED vars
    BY <1>0, <1>a, <2>3 DEF Start, FindPending, RollForward, Crash, vars, fileVars, FileTypes
  <2> QED
    BY <2>1, <2>2, <2>3, BehindMoves
<1>3. /\ \/ mode' \in {"down", "clean"} /\ pc' = "idle" /\ todo' = {}
         \/ mode' = "recover" /\ pc' = "idle" /\ todo' = {j}
         \/ mode' = "recover" /\ pc' = "cleanup" /\ todo' = {j} /\ job' = j /\ pos' # 0
      /\ pc' = "cleanup" =>
           \/ pos' = 1
           \/ pc = "cleanup" /\ UNCHANGED <<job, backup>> /\ pos' = pos
           \/ CleanFile
      /\ RunTypes'
  <2>1. CASE Start
    <3>1. Uncleaned = {}
      BY <1>0 DEF Uncleaned
    <3>2. todo' = {} /\ mode' = "clean" /\ mode = "down"
      BY <2>1, <3>1 DEF Start
    <3> QED
      BY <1>0, <1>a, <2>1, <3>2 DEF Start, RunTypes, runVars, stepVars, gateVars, Calm, envVars
  <2>2. CASE FindPending
    <3>1. Pending = {j}
      BY <1>0 DEF Pending
    <3> QED
      BY <1>0, <1>a, <2>2, <3>1 DEF FindPending, RunTypes, runVars, stepVars, gateVars, Calm, envVars
  <2>3. CASE RollForward(j)
    <3>1. /\ job' = j /\ pc' = "cleanup" /\ pos' = 1 /\ UNCHANGED <<pushed, blocked, todo>>
          /\ mode = "recover" /\ mode' = "recover"
      BY <1>0, <2>3 DEF RollForward, SameKey
    <3> QED
      BY <1>0, <1>a, <2>3, <3>1 DEF RollForward, RunTypes, gateVars, Calm, envVars
  <2>4. CASE CleanFile
    <3>1. pc' = "cleanup" /\ pos' = pos + 1 /\ pos \in Nat /\ UNCHANGED <<mode, todo, job>>
      BY <1>a, <2>4 DEF CleanFile, RunTypes
    <3> QED
      BY <1>0, <1>a, <2>4, <3>1 DEF CleanFile, RunTypes, gateVars, Calm, envVars
  <2>5. CASE Crash
    <3>1. /\ mode' = "down" /\ todo' = {} /\ pc' = "idle" /\ pos' = 0 /\ job' = None
          /\ pushed' = 0 /\ raced' = {} /\ unresolved' = {}
          /\ crashes' = crashes + 1 /\ UNCHANGED <<edits, faults>>
      BY <2>5 DEF Crash
    <3>2. blocked' \in BOOLEAN /\ dirty' \in BOOLEAN
      BY <2>5 DEF Crash
    <3>3. plans' \in [Draft -> Tree \cup {None}]
      BY <2>5 DEF Crash
    <3> QED
      BY <1>a, <3>1, <3>2, <3>3 DEF RunTypes
  <2>6. CASE \E p \in Path, c \in Content : Edit(p, c)
    <3>1. /\ UNCHANGED <<backup, mode, todo, stepVars, gateVars, plans, faults, crashes>>
          /\ edits' = edits + 1
      BY <2>6 DEF Edit
    <3>2. raced' \subseteq Path
      BY <1>a, <2>6 DEF Edit, RunTypes
    <3> QED
      BY <1>0, <1>a, <3>1, <3>2 DEF RunTypes, stepVars, gateVars, Behind
  <2>7. CASE UNCHANGED vars
    BY <1>0, <1>a, <2>7 DEF RunTypes, vars, runVars, stepVars, gateVars, envVars, fileVars, Behind
  <2> QED
    BY <2>1, <2>2, <2>3, <2>4, <2>5, <2>6, <2>7, BehindMoves
<1>4. Behind(j)'
  BY <1>1, <1>2, <1>3 DEF Behind, rowVars
<1>5. TypeOK'
  BY <1>1, <1>2, <1>3, <1>a DEF TypeOK, RowTypes, rowVars
<1>6. OwnedOK' /\ EntriesOK'
  <2>1. CASE CleanFile
    <3>1. job = j /\ files[j] \in Seq(Entry) /\ Owns(j)
      BY <1>0, <1>a, <2>1 DEF CleanFile, RowTypes, Owns
    <3> QED
      BY <1>1, <1>2, <3>1 DEF FilesInv, OwnedOK, EntriesOK, Owns, rowVars
  <2>2. CASE backup' = backup
    BY <1>1, <2>2 DEF FilesInv, OwnedOK, EntriesOK, Owns, rowVars
  <2> QED
    BY <1>2, <2>1, <2>2
<1>7. TempOK' /\ MovedOK'
  BY <1>2, <1>3 DEF TempOK, MovedOK, Applying
<1>8. LoopOK'
  <2> SUFFICES ASSUME pc' = "cleanup", NEW i \in 1..Len(files'[job']), i < pos'
               PROVE  backup'[files'[job'][i].path] = Missing
    BY <1>3 DEF LoopOK
  <2>1. CASE pos' = 1
    BY <2>1
  <2>2. CASE pc = "cleanup" /\ UNCHANGED <<job, backup>> /\ pos' = pos
    BY <1>1, <2>2 DEF FilesInv, LoopOK, rowVars
  <2>3. CASE CleanFile
    <3>1. /\ pc = "cleanup" /\ job' = job /\ job = j /\ pos' = pos + 1 /\ files' = files
          /\ backup' = [backup EXCEPT ![files[job][pos].path] = Missing]
          /\ pos \in Nat /\ backup \in Tree /\ files[job] \in Seq(Entry)
      BY <1>0, <1>a, <2>3 DEF CleanFile, Current, RunTypes, FileTypes, RowTypes, rowVars
    <3>2. files[job][i] \in Entry
      BY <3>1
    <3>3. files[job][i].path \in Path
      BY <3>2 DEF Entry
    <3>4. i = pos \/ backup[files[job][i].path] = Missing
      BY <3>1 DEF FilesInv, LoopOK
    <3> QED
      BY <3>1, <3>3, <3>4 DEF Tree
  <2> QED
    BY <1>3, <2>1, <2>2, <2>3
<1> QED
  BY <1>4, <1>5, <1>6, <1>7, <1>8 DEF FilesInv

\* The cleanup's last step commits the row, and the store is as this build
\* leaves one.
LEMMA BehindDone ==
  ASSUME NEW j \in Journal, TypeOK, FilesInv, Behind(j), CleanDone
  PROVE  /\ IInv' /\ FilesInv'
         /\ status' = [i \in Journal |-> IF i = j THEN "committed" ELSE "none"]
         /\ cleaned'[j] /\ mode' = "recover" /\ pc' = "idle"
         /\ UNCHANGED <<fileVars, events, edits>>
<1> USE DEF Goto, Idle
<1>0. /\ status = [i \in Journal |-> IF i = j THEN "pending" ELSE "none"]
      /\ \A e \in events : e.journal = j
      /\ job = j /\ mode = "recover" /\ todo = {j} /\ temp = {}
      /\ \A i \in Journal : i # j => files[i] = <<>>
  BY DEF Behind, CleanDone
<1>a. FileTypes /\ RowTypes /\ RunTypes
  BY DEF TypeOK
<1>1. /\ status' = [i \in Journal |-> IF i = j THEN "committed" ELSE "none"]
      /\ cleaned' = [cleaned EXCEPT ![j] = TRUE] /\ cleaned'[j]
      /\ mode' = "recover" /\ todo' = {} /\ pc' = "idle" /\ pos' = 0 /\ job' = None
      /\ pushed' = 0 /\ blocked' = FALSE /\ raced' = {}
      /\ UNCHANGED <<fileVars, draftOf, base, files, planned, events, gateVars, plans, envVars>>
  BY <1>0, <1>a DEF CleanDone, Return, Calm, RowTypes
<1>2. TypeOK'
  <2>1. FileTypes'
    BY <1>1, <1>a DEF FileTypes, fileVars
  <2>2. RowTypes'
    <3>1. cleaned' \in [Journal -> BOOLEAN] /\ status' \in [Journal -> Status]
      BY <1>1, <1>a DEF RowTypes, Status
    <3> QED
      BY <1>1, <1>a, <3>1 DEF RowTypes
  <2>3. RunTypes'
    BY <1>1, <1>a DEF RunTypes, gateVars, envVars
  <2> QED
    BY <2>1, <2>2, <2>3 DEF TypeOK
<1>3. IInv'
  BY <1>0, <1>1, <1>2
     DEF IInv, IndexOK, PhaseOK, RowOK, PendingOK, LedgerOK, Applying
<1>4. \A p \in Path : backup[p] = Missing
  <2> SUFFICES ASSUME NEW p \in Path, backup[p] # Missing PROVE FALSE
    OBVIOUS
  <2>1. PICK i \in Journal : Owns(i) /\ \E k \in 1..Len(files[i]) : files[i][k].path = p
    BY DEF FilesInv, OwnedOK
  <2>2. i = j
    BY <1>0, <2>1 DEF Owns
  <2>3. PICK k \in 1..Len(files[j]) : files[j][k].path = p
    BY <2>1, <2>2
  <2>4. k < pos
    <3>1. pos \in Nat /\ Len(files[j]) \in Nat /\ pos > Len(files[j])
      BY <1>0, <1>a DEF CleanDone, RunTypes, RowTypes
    <3> QED
      BY <3>1
  <2> QED
    BY <1>0, <2>3, <2>4 DEF FilesInv, LoopOK, CleanDone
<1>5. OwnedOK'
  BY <1>0, <1>1, <1>4, <1>a DEF FilesInv, OwnedOK, fileVars, RowTypes
<1>6. TempOK' /\ MovedOK' /\ LoopOK'
  BY <1>0, <1>1 DEF TempOK, MovedOK, LoopOK, Applying, fileVars
<1>7. EntriesOK'
  BY <1>0, <1>1 DEF FilesInv, EntriesOK
<1> QED
  BY <1>1, <1>3, <1>5, <1>6, <1>7 DEF FilesInv, envVars

-----------------------------------------------------------------------------
\* The rows that an older build committed are rows of this one.
LEMMA InitCommitted ==
  ASSUME InitUpgraded, NEW rows \in SUBSET Journal, NEW d \in Draft, NEW t \in Tree,
         Applies(d, t), CommittedBefore(rows, d, t),
         draftOf = [i \in Journal |-> d], base = [i \in Journal |-> t],
         files = [i \in Journal |-> IF i \in rows THEN DoneEntries(d, t) ELSE <<>>]
  PROVE  /\ IInv /\ FilesInv /\ TreeOK /\ AppliedOK /\ mode = "down" /\ pc = "idle"
         /\ \A j \in Journal : status[j] # "pending"
<1>1. DoneEntries(d, t) \in Seq(Entry) /\ Fits(DoneEntries(d, t), d)
  BY DoneFits
<1>2. Fits(<<>>, d)
  <2>1. Len(Writes[d]) \in Nat
    BY FilesAssumption
  <2> QED
    BY <2>1 DEF Fits
<1>3. /\ status = [i \in Journal |-> IF i \in rows THEN "committed" ELSE "none"]
      /\ disk = Abstract!Result(d, t) /\ backup = [p \in Path |-> Missing]
      /\ planned = [i \in Journal |-> None] /\ events = {}
  BY DEF CommittedBefore
<1>4. /\ temp = {} /\ cleaned = [j \in Journal |-> FALSE]
      /\ mode = "down" /\ todo = {}
      /\ job = None /\ pc = "idle" /\ pos = 0 /\ pushed = 0 /\ blocked = FALSE
      /\ raced = {} /\ unresolved = {} /\ dirty = FALSE
      /\ plans = [i \in Draft |-> None]
      /\ edits = 0 /\ faults = 0 /\ crashes = 0
  BY DEF InitUpgraded
<1>5. TypeOK
  <2>1. FileTypes
    BY <1>3, <1>4, ResultType, EmptyTree DEF FileTypes
  <2>2. RowTypes
    <3>1. status \in [Journal -> Status]
      BY <1>3 DEF Status
    <3>2. files \in [Journal -> Seq(Entry)]
      BY <1>1
    <3> QED
      BY <1>3, <1>4, <3>1, <3>2 DEF RowTypes
  <2>3. RunTypes
    BY <1>4 DEF RunTypes
  <2> QED
    BY <2>1, <2>2, <2>3 DEF TypeOK
<1>6. \A j \in Journal : status[j] \in {"none", "committed"} /\ (status[j] = "none" => files[j] = <<>>)
  BY <1>3
<1>7. IInv
  BY <1>3, <1>4, <1>5, <1>6 DEF IInv, IndexOK, PhaseOK, RowOK, PendingOK, LedgerOK, Applying
<1>8. OwnedOK /\ TempOK /\ MovedOK /\ LoopOK
  BY <1>3, <1>4, <1>6 DEF OwnedOK, TempOK, MovedOK, LoopOK, Applying
<1>9. EntriesOK
  BY <1>1, <1>2 DEF EntriesOK, Applies
<1>10. TreeOK /\ AppliedOK
  BY <1>4, <1>6 DEF TreeOK, AppliedOK, Applying
<1> QED
  BY <1>4, <1>6, <1>7, <1>8, <1>9, <1>10 DEF FilesInv

\* A row that an older build appended and did not commit is behind.
LEMMA InitAppended ==
  ASSUME InitUpgraded, NEW j \in Journal, NEW d \in Draft, NEW t \in Tree,
         Applies(d, t), InterruptedAppend(j, d, t),
         draftOf = [i \in Journal |-> d], base = [i \in Journal |-> t],
         files = [i \in Journal |-> IF i \in {j} THEN DoneEntries(d, t) ELSE <<>>]
  PROVE  TypeOK /\ FilesInv /\ Behind(j)
<1> DEFINE F == DoneEntries(d, t)
           n == Len(Writes[d])
           moved(p, k) == Op(d, k).path = p /\ Expected(d, t, k) # Missing
<1>1. F \in Seq(Entry) /\ Fits(F, d)
  BY DoneFits
<1>2. Fits(<<>>, d) /\ n \in Nat
  <2>1. n \in Nat
    BY FilesAssumption
  <2> QED
    BY <2>1 DEF Fits
<1>3. /\ status = [i \in Journal |-> IF i = j THEN "pending" ELSE "none"]
      /\ disk = Abstract!Result(d, t)
      /\ planned = [i \in Journal |-> IF i = j THEN disk ELSE None]
      /\ events = {[draft |-> d, source |-> disk, journal |-> j]}
  BY DEF InterruptedAppend
<1>4. /\ temp = {} /\ cleaned = [i \in Journal |-> FALSE]
      /\ mode = "down" /\ todo = {}
      /\ job = None /\ pc = "idle" /\ pos = 0 /\ pushed = 0 /\ blocked = FALSE
      /\ raced = {} /\ unresolved = {} /\ dirty = FALSE
      /\ plans = [i \in Draft |-> None]
      /\ edits = 0 /\ faults = 0 /\ crashes = 0
  BY DEF InitUpgraded
<1>5. backup = [p \in Path |-> IF \E k \in 1..n : moved(p, k)
                               THEN Expected(d, t, CHOOSE k \in 1..n : moved(p, k))
                               ELSE Missing]
  BY DEF InterruptedAppend
<1>6. ASSUME NEW p \in Path
      PROVE  /\ backup[p] \in Content
             /\ backup[p] # Missing => \E k \in 1..n : moved(p, k)
  <2> HIDE DEF moved
  <2>1. CASE \E k \in 1..n : moved(p, k)
    <3>1. PICK k \in 1..n : k = CHOOSE l \in 1..n : moved(p, l)
      BY <2>1
    <3>2. backup[p] = Expected(d, t, k)
      BY <1>5, <2>1, <3>1
    <3> QED
      BY <2>1, <3>2, ExpectedType
  <2>2. CASE ~\E k \in 1..n : moved(p, k)
    BY <1>5, <2>2 DEF Content
  <2> QED
    BY <2>1, <2>2
<1>7. TypeOK
  <2>1. FileTypes
    BY <1>3, <1>4, <1>5, <1>6, ResultType DEF FileTypes, Tree
  <2>2. disk \in Tree
    BY <2>1 DEF FileTypes
  <2>3. RowTypes
    <3>1. status \in [Journal -> Status] /\ planned \in [Journal -> Tree \cup {None}]
      BY <1>3, <2>2 DEF Status
    <3>2. files \in [Journal -> Seq(Entry)]
      BY <1>1
    <3>3. events \subseteq [draft : Draft, source : Tree, journal : Journal]
      BY <1>3, <2>2
    <3> QED
      BY <1>4, <3>1, <3>2, <3>3 DEF RowTypes
  <2>4. RunTypes
    BY <1>4 DEF RunTypes
  <2> QED
    BY <2>1, <2>3, <2>4 DEF TypeOK
<1>8. Behind(j)
  <2>1. planned[j] = disk /\ draftOf[j] = d /\ disk # None
    BY <1>3, <1>7, EnvironmentAssumption DEF TypeOK, FileTypes
  <2> QED
    BY <1>3, <1>4, <2>1 DEF Behind
<1>9. OwnedOK
  <2>1. ASSUME NEW p \in Path, backup[p] # Missing
        PROVE  \E i \in 1..Len(files[j]) : files[j][i].path = p /\ files[j][i].existed
    <3>1. PICK k \in 1..n : moved(p, k)
      BY <1>6, <2>1
    <3>2. F[k].path = p /\ F[k].existed
      BY <3>1 DEF DoneEntries
    <3>0. Len(F) = n
      BY <1>2 DEF DoneEntries
    <3>3. files[j] = F
      OBVIOUS
    <3> HIDE DEF F
    <3> QED
      BY <3>2, <3>0, <3>3
  <2> QED
    BY <1>3, <1>4, <2>1 DEF OwnedOK, Owns
<1>10. TempOK /\ MovedOK /\ LoopOK
  BY <1>4 DEF TempOK, MovedOK, LoopOK, Applying
<1>11. EntriesOK
  BY <1>1, <1>2 DEF EntriesOK, Applies
<1> QED
  BY <1>7, <1>8, <1>9, <1>10, <1>11 DEF FilesInv

-----------------------------------------------------------------------------
\* A store with a row that is behind.
Late == TypeOK /\ FilesInv /\ \E j \in Journal : Behind(j)

\* An older build left one, or a store as this build leaves it.
LEMMA UpgradedInit ==
  ASSUME InitUpgraded
  PROVE  \/ Late
         \/ /\ IInv /\ FilesInv /\ TreeOK /\ AppliedOK /\ mode = "down" /\ pc = "idle"
            /\ \A j \in Journal : status[j] # "pending"
<1>1. PICK rows \in SUBSET Journal, d \in Draft, t \in Tree :
        /\ Applies(d, t)
        /\ \/ \E j \in rows : rows = {j} /\ InterruptedAppend(j, d, t)
           \/ CommittedBefore(rows, d, t)
        /\ draftOf = [i \in Journal |-> d]
        /\ base = [i \in Journal |-> t]
        /\ files = [i \in Journal |-> IF i \in rows THEN DoneEntries(d, t) ELSE <<>>]
  BY DEF InitUpgraded
<1>2. CASE CommittedBefore(rows, d, t)
  BY <1>1, <1>2, InitCommitted
<1>3. CASE \E j \in rows : rows = {j} /\ InterruptedAppend(j, d, t)
  <2>1. PICK j \in Journal : rows = {j} /\ InterruptedAppend(j, d, t)
    BY <1>3
  <2>2. TypeOK /\ FilesInv /\ Behind(j)
    BY <1>1, <2>1, InitAppended
  <2> QED
    BY <2>2 DEF Late
<1> QED
  BY <1>1, <1>2, <1>3

\* A store with a row behind stays one until the row is committed.
LEMMA LateStep ==
  ASSUME Late, ~CleanupMayFail, [Next]_vars
  PROVE  Late' \/ (IInv /\ FilesInv /\ BacklogOK /\ TreeOK /\ AppliedOK)'
<1>1. PICK j \in Journal : TypeOK /\ FilesInv /\ Behind(j)
  BY DEF Late
<1>2. CASE ~CleanDone
  <2>1. TypeOK' /\ FilesInv' /\ Behind(j)'
    BY <1>1, <1>2, BehindStep
  <2> QED
    BY <2>1 DEF Late
<1>3. CASE CleanDone
  <2>1. /\ IInv' /\ FilesInv'
        /\ status' = [i \in Journal |-> IF i = j THEN "committed" ELSE "none"]
        /\ cleaned'[j] /\ mode' = "recover" /\ pc' = "idle"
    BY <1>1, <1>3, BehindDone
  <2>2. Uncleaned' = {}
    BY <2>1 DEF Uncleaned
  <2>3. Few'
    BY <2>2, FS_EmptySet, EnvironmentAssumption DEF Few
  <2>4. BacklogOK'
    BY <2>1, <2>3 DEF BacklogOK, Owed
  <2>5. TreeOK' /\ AppliedOK'
    BY <2>1 DEF TreeOK, AppliedOK, Applying
  <2> QED
    BY <2>1, <2>4, <2>5
<1> QED
  BY <1>2, <1>3

\* What an older build's crash left pending, with its event in the ledger, no
\* start undoes, however often it is interrupted: a daemon that serves has
\* committed it.
THEOREM AppliedIsKept == ASSUME ~CleanupMayFail PROVE UpgradedSpec => []UpgradeKeepsApplied
<1>1. InitUpgraded => Late \/ (IInv /\ FilesInv)
  BY UpgradedInit
<1>2. (Late \/ (IInv /\ FilesInv)) /\ [Next]_vars => Late' \/ (IInv /\ FilesInv)'
  BY LateStep, FilesStep
<1>3. Late \/ (IInv /\ FilesInv) => UpgradeKeepsApplied
  BY DEF Late, Behind, IInv, LedgerOK, UpgradeKeepsApplied, AppendedBy
<1> QED
  BY <1>1, <1>2, <1>3, PTL DEF UpgradedSpec

\* Rolling the row forward is nothing to a reader of the committed state: its
\* files and its event have been there all along.
LEMMA LateIsStill ==
  ASSUME Late, ~CleanupMayFail, [Next]_vars, edits' = 0
  PROVE  UNCHANGED Abstract!vars
<1>1. PICK j \in Journal : TypeOK /\ FilesInv /\ Behind(j)
  BY DEF Late
<1>2. /\ status = [i \in Journal |-> IF i = j THEN "pending" ELSE "none"]
      /\ \E e \in events : e.journal = j
      /\ \A e \in events : e.journal = j
  <2> DEFINE e == [draft |-> draftOf[j], source |-> planned[j], journal |-> j]
  <2>1. events = {e} /\ e.journal = j
    BY <1>1 DEF Behind
  <2> HIDE DEF e
  <2> QED
    BY <1>1, <2>1 DEF Behind
<1>3. /\ status' = status
           \/ status' = [i \in Journal |-> IF i = j THEN "committed" ELSE "none"]
      /\ UNCHANGED <<disk, events>>
  <2>1. edits \in Nat
    BY <1>1 DEF TypeOK, RunTypes
  <2>2. ~\E p \in Path, c \in Content : Edit(p, c)
    BY <2>1 DEF Edit
  <2>3. CASE CleanDone
    BY <1>1, <2>3, BehindDone DEF fileVars
  <2>4. CASE ~CleanDone
    BY <1>1, <2>2, <2>4, BehindMoves
       DEF Start, FindPending, RollForward, CleanFile, Crash, vars, rowVars, fileVars
  <2> QED
    BY <2>3, <2>4
<1>4. Open = {} /\ Open' = {}
  BY <1>2, <1>3 DEF Open, Pending, AppendedBy
<1>5. LogicalTree' = LogicalTree
  BY <1>3, <1>4 DEF LogicalTree
<1>6. \A i \in Journal : LogicalState(i)' = LogicalState(i)
  <2>1. \A i \in Journal : LogicalState(i) = IF i = j THEN "applied" ELSE "none"
    BY <1>2, <1>4 DEF LogicalState, Pending
  <2>2. \A i \in Journal : LogicalState(i)' = IF i = j THEN "applied" ELSE "none"
    BY <1>2, <1>3, <1>4 DEF LogicalState, Pending
  <2> QED
    BY <2>1, <2>2
<1>7. Ledger' = Ledger
  BY <1>3 DEF Ledger, AppendedBy
<1> QED
  BY <1>5, <1>6, <1>7 DEF Abstract!vars, States, Ledger

\* The same for a store whose first rows an older build wrote, where one start
\* can clean up all that are owed: beyond that limit a start may delete the
\* backup of a row that is pending, as the run backup_lost shows.
THEOREM UpgradedAtomicity ==
  ASSUME CleanupWorks, MaxEdits = 0 PROVE UpgradedSpec /\ Few => AtomicSteps
<1> DEFINE All == IInv /\ FilesInv /\ BacklogOK /\ TreeOK /\ AppliedOK
<1>1. InitUpgraded /\ Few => Late \/ All
  BY UpgradedInit DEF BacklogOK, Owed
<1>2. (Late \/ All) /\ [Next]_vars => Late' \/ All'
  <2>1. Late /\ [Next]_vars => Late' \/ All'
    BY LateStep DEF CleanupWorks
  <2>2. All /\ [Next]_vars => All'
    BY FilesStep, BacklogStep, TreeStep, AppliedStep
  <2> QED
    BY <2>1, <2>2
<1>3. (Late \/ All) /\ [Next]_vars /\ (edits = 0)' => [Abstract!Next]_(Abstract!vars)
  <2>1. Late /\ [Next]_vars /\ (edits = 0)' => UNCHANGED Abstract!vars
    BY LateIsStill DEF CleanupWorks
  <2>2. All /\ [Next]_vars /\ (edits = 0)' => [Abstract!Next]_(Abstract!vars)
    BY AtomicStep, InvStep
  <2> QED
    BY <2>1, <2>2
<1>4. UpgradedSpec => [](edits = 0)
  BY NoEdits, PTL DEF UpgradedSpec, InitUpgraded
<1> QED
  BY <1>1, <1>2, <1>3, <1>4, PTL DEF UpgradedSpec, AtomicSteps
=============================================================================

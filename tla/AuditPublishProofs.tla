------------------------- MODULE AuditPublishProofs -------------------------
(* Proofs about AuditPublish, for every number of drafts, commits, worktree  *)
(* states and issues: rows name real issues, an issued run is complete, and  *)
(* no draft is filed twice while the listing is complete.                    *)
EXTENDS AuditPublish, TLAPS

\* The records of r name issues that were filed for their drafts.
TrueRow(r) ==
  \A f \in r.recorded :
    f.number \in DOMAIN issues /\ issues[f.number] = f.draft

\* Every row and the handler's copy; and the answer it is about to record.
RecordsOK ==
  /\ \A t \in Scope : TrueRow(rows[t])
  /\ TrueRow(run)
  /\ pc = "record" => answer \in DOMAIN issues /\ issues[answer] = pos
  /\ listed \subseteq DOMAIN issues

\* The loop has recorded every draft before the one it is at.
LoopOK ==
  /\ pc \in {"idle", "intent", "list"} => pos = 1
  /\ pc \in {"filing", "record"} => pos \in Draft
  /\ pc \in {"draft", "filing", "record"} =>
       \A d \in Draft : d < pos => d \in RecordedDrafts(run)

\* Of the drafts the loop has still to file, it has listed every issue.
UniqueOK ==
  Len(issues) <= ListLimit =>
    /\ NoDuplicateIssue
    /\ pc \in {"draft", "filing"} =>
         \A n \in DOMAIN issues : issues[n] >= pos => n \in listed
    /\ pc = "record" =>
         \A n \in DOMAIN issues : issues[n] > pos => n \in listed
    /\ pc = "filing" => Marked(pos) = {}

\* While the scope stays, the row there is what the handler works from, and
\* whatever precedes a filed draft is recorded.
OrphanOK ==
  edits = 0 =>
    /\ latest = tree
    /\ pc # "idle" => head = tree.head /\ run.recorded = rows[tree].recorded
    /\ \A n \in DOMAIN issues : \A d \in Draft :
         d < issues[n] => d \in RecordedDrafts(rows[tree])

IInv ==
  TypeOK /\ RecordsOK /\ LoopOK /\ IssuedIsComplete /\ UniqueOK /\ OrphanOK

USE PublishAssumption DEF Other

-----------------------------------------------------------------------------
(* Types of the parts of a step.                                             *)

\* Drafts are positions, from one on.
LEMMA DraftNat == Draft \subseteq Nat \ {0}
BY DEF Draft

\* A scope without a run.
LEMMA NoRowType == NoRow \in Row
BY DEF NoRow, Row

\* GitHub numbers a new issue after all others.
LEMMA NewIssue ==
  ASSUME NEW S, NEW s \in Seq(S), NEW x \in S
  PROVE  /\ Append(s, x) \in Seq(S)
         /\ Len(Append(s, x)) = Len(s) + 1
         /\ DOMAIN Append(s, x) = DOMAIN s \cup {Len(s) + 1}
         /\ \A n \in DOMAIN s : Append(s, x)[n] = s[n]
         /\ Append(s, x)[Len(s) + 1] = x
OBVIOUS

\* What an event writes is a row, in one of the scopes.
LEMMA AppendRunType ==
  ASSUME TypeOK, NEW s \in {"issuing", "issued"},
         NEW recorded \in SUBSET Filed, AppendRun(s, recorded)
  PROVE  rows' \in [Scope -> Row] /\ latest' \in Scope
<1> DEFINE here == [head |-> head, digest |-> tree.digest]
           row == [status |-> s, recorded |-> recorded]
<1>1. here \in Scope
  BY DEF TypeOK, Scope
<1>2. row \in Row
  BY DEF Row
<1>3. rows' = [rows EXCEPT ![here] = row] /\ latest' = here
  BY DEF AppendRun
<1> HIDE DEF here, row
<1> QED
  BY <1>1, <1>2, <1>3 DEF TypeOK

-----------------------------------------------------------------------------
\* Nothing is filed and the run is pending.
LEMMA InitIInv == Init => IInv
<1> SUFFICES ASSUME Init PROVE IInv
  OBVIOUS
<1> USE DEF Init, NoRow
<1>1. TypeOK
  <2>1. issues \in Seq(Draft \cup {Other})
    OBVIOUS
  <2>2. rows \in [Scope -> Row] /\ run \in Row
    BY DEF Row
  <2> QED
    BY <2>1, <2>2 DEF TypeOK, Scope
<1>2. RecordsOK
  BY DEF RecordsOK, TrueRow
<1>3. LoopOK /\ IssuedIsComplete
  BY DEF LoopOK, IssuedIsComplete
<1>4. UniqueOK /\ OrphanOK
  BY DEF UniqueOK, NoDuplicateIssue, OrphanOK
<1> QED
  BY <1>1, <1>2, <1>3, <1>4 DEF IInv

-----------------------------------------------------------------------------
\* The types of what the handler keeps.
LEMMA TypeStep == TypeOK /\ LoopOK /\ RecordsOK /\ [Next]_vars => TypeOK'
<1> SUFFICES ASSUME TypeOK, LoopOK, RecordsOK, [Next]_vars PROVE TypeOK'
  OBVIOUS
<1> USE DEF TypeOK, handlerVars, ledgerVars, envVars
<1>a. DraftCount + 1 \in Nat /\ 1 \in 1..(DraftCount + 1)
  OBVIOUS
<1>b. ASSUME pos \in Draft PROVE pos + 1 \in 1..(DraftCount + 1)
  BY <1>b DEF Draft
<1>c. ASSUME pos \in Draft PROVE Append(issues, pos) \in Seq(Draft \cup {Other})
  BY <1>c, NewIssue
<1>1. ASSUME NEW resume \in BOOLEAN, Approve(resume) PROVE TypeOK'
  BY <1>1 DEF Approve, Calm, Scope
<1>2. CASE Refuse
  BY <1>2, <1>a, NoRowType DEF Refuse, Leave, Calm
<1>3. CASE AppendIntent
  <2>1. rows' \in [Scope -> Row] /\ latest' \in Scope
    BY <1>3, AppendRunType DEF AppendIntent, Row
  <2> QED
    BY <1>3, <2>1 DEF AppendIntent, Calm
<1>4. CASE List
  BY <1>4 DEF List, Recent, Calm
<1>5. CASE Skip
  BY <1>5, <1>b DEF Skip, Calm
<1>6. CASE Reuse
  BY <1>6 DEF Reuse, Marked, Calm
<1>7. CASE Create
  BY <1>7 DEF Create, Calm
<1>8. CASE Answered
  BY <1>8, <1>c DEF Answered, LoopOK, Calm
<1>9. CASE Inconclusive
  BY <1>9, <1>a, <1>c, NoRowType DEF Inconclusive, Landed, Fault, Leave, LoopOK
<1>10. CASE Record
  <2> DEFINE recorded == run.recorded \cup {[draft |-> pos, number |-> answer]}
  <2>1. pos \in Draft /\ answer \in Nat \ {0}
    BY <1>10 DEF Record, LoopOK, RecordsOK
  <2>2. recorded \in SUBSET Filed
    BY <2>1 DEF Row, Filed
  <2>3. run' = [run EXCEPT !.recorded = recorded] /\ AppendRun("issuing", recorded)
    BY <1>10 DEF Record
  <2> HIDE DEF recorded
  <2>4. run' \in Row
    BY <2>2, <2>3 DEF Row
  <2>5. rows' \in [Scope -> Row] /\ latest' \in Scope
    BY <2>2, <2>3, AppendRunType
  <2> QED
    BY <1>10, <1>b, <2>1, <2>4, <2>5 DEF Record, Calm
<1>11. CASE Finish
  <2>1. rows' \in [Scope -> Row] /\ latest' \in Scope
    BY <1>11, AppendRunType DEF Finish, Row
  <2> QED
    BY <1>11, <1>a, <2>1, NoRowType DEF Finish, Leave, Calm
<1>12. CASE Interrupted
  BY <1>12, <1>a, NoRowType DEF Interrupted, Leave, Fault
<1>13. CASE Crash
  <2>1. issues' \in Seq(Draft \cup {Other})
    BY <1>13, <1>c DEF Crash, Landed, LoopOK
  <2> QED
    BY <1>13, <1>a, <2>1, NoRowType DEF Crash, Leave
<1>14. CASE Edit
  BY <1>14 DEF Edit
<1>15. CASE OtherEvent
  BY <1>15 DEF OtherEvent, Calm
<1>16. CASE OtherIssue
  BY <1>16, NewIssue DEF OtherIssue
<1>17. CASE UNCHANGED vars
  BY <1>17 DEF vars
<1> QED
  BY <1>1, <1>2, <1>3, <1>4, <1>5, <1>6, <1>7, <1>8, <1>9, <1>10, <1>11,
     <1>12, <1>13, <1>14, <1>15, <1>16, <1>17 DEF Next

-----------------------------------------------------------------------------
\* Issues are never withdrawn or renumbered.
LEMMA Grown ==
  ASSUME TypeOK, NEW x \in Draft \cup {Other},
         issues' \in {issues, Append(issues, x)}
  PROVE  /\ DOMAIN issues \subseteq DOMAIN issues'
         /\ \A n \in DOMAIN issues : issues'[n] = issues[n]
BY NewIssue DEF TypeOK

\* Issues are only ever appended, one at a time.
LEMMA IssuesStep ==
  ASSUME TypeOK, LoopOK, [Next]_vars
  PROVE  \E x \in Draft \cup {Other} : issues' \in {issues, Append(issues, x)}
<1> USE DEF ledgerVars, handlerVars, envVars
<1>1. CASE Answered
  BY <1>1 DEF Answered, LoopOK
<1>2. CASE Inconclusive
  BY <1>2 DEF Inconclusive, Landed, LoopOK
<1>3. CASE Crash
  BY <1>3 DEF Crash, Landed, LoopOK
<1>4. CASE OtherIssue
  BY <1>4 DEF OtherIssue
<1>5. CASE UNCHANGED issues
  BY <1>5
<1> QED
  BY <1>1, <1>2, <1>3, <1>4, <1>5
  DEF Next, vars, Approve, Refuse, AppendIntent, List, Skip, Reuse, Create,
      Record, Finish, Interrupted, Edit, OtherEvent

\* A true row stays true.
LEMMA RowsStayTrue ==
  ASSUME TypeOK, LoopOK, [Next]_vars, NEW r \in Row, TrueRow(r)
  PROVE  \A f \in r.recorded :
           f.number \in DOMAIN issues' /\ issues'[f.number] = f.draft
BY IssuesStep, Grown DEF TrueRow

\* A row names a filed issue since the handler copies what it was answered or has listed.
LEMMA RecordsStep == TypeOK /\ LoopOK /\ RecordsOK /\ [Next]_vars => RecordsOK'
<1> SUFFICES ASSUME TypeOK, LoopOK, RecordsOK, [Next]_vars PROVE RecordsOK'
  OBVIOUS
<1> DEFINE TrueNow(r) ==
      \A f \in r.recorded :
        f.number \in DOMAIN issues' /\ issues'[f.number] = f.draft
<1>a. /\ DOMAIN issues \subseteq DOMAIN issues'
      /\ \A n \in DOMAIN issues : issues'[n] = issues[n]
  BY IssuesStep, Grown
<1>b. /\ \A t \in Scope : rows[t] \in Row /\ TrueNow(rows[t])
      /\ run \in Row /\ TrueNow(run)
  <2>1. /\ \A t \in Scope : rows[t] \in Row /\ TrueRow(rows[t])
        /\ run \in Row /\ TrueRow(run)
    BY DEF TypeOK, RecordsOK
  <2> QED
    BY <2>1, RowsStayTrue
<1>c. TrueNow(NoRow)
  BY DEF NoRow
<1>d. ASSUME NEW s, NEW recorded, AppendRun(s, recorded),
             TrueNow([status |-> s, recorded |-> recorded])
      PROVE  \A t \in Scope : TrueNow(rows'[t])
  <2> DEFINE here == [head |-> head, digest |-> tree.digest]
             row == [status |-> s, recorded |-> recorded]
  <2>1. rows' = [rows EXCEPT ![here] = row]
    BY <1>d DEF AppendRun
  <2>2. TrueNow(row)
    BY <1>d
  <2> HIDE DEF here, row, TrueNow
  <2>3. \A t \in Scope : rows'[t] = rows[t] \/ rows'[t] = row
    BY <2>1 DEF TypeOK
  <2> QED
    BY <2>2, <2>3, <1>b
<1>e. SUFFICES /\ \A t \in Scope : TrueNow(rows'[t])
               /\ TrueNow(run')
               /\ pc' = "record" =>
                    answer' \in DOMAIN issues' /\ issues'[answer'] = pos'
               /\ listed' \subseteq DOMAIN issues'
  BY DEF RecordsOK, TrueRow
<1>f. listed \subseteq DOMAIN issues
  BY DEF RecordsOK
<1> HIDE DEF TrueNow
<1> USE DEF handlerVars, ledgerVars, envVars
<1>1. ASSUME NEW resume \in BOOLEAN, Approve(resume)
      PROVE /\ \A t \in Scope : TrueNow(rows'[t])
            /\ TrueNow(run')
            /\ pc' # "record"
            /\ listed' \subseteq DOMAIN issues'
  BY <1>1, <1>a, <1>b, <1>f DEF Approve, TypeOK
<1>2. CASE Refuse
  BY <1>2, <1>b, <1>c DEF Refuse, Leave
<1>3. CASE AppendIntent
  <2>1. TrueNow([status |-> "issuing", recorded |-> run.recorded])
    BY <1>b DEF TrueNow
  <2>2. \A t \in Scope : TrueNow(rows'[t])
    BY <1>3, <1>d, <2>1 DEF AppendIntent
  <2> QED
    BY <1>3, <1>a, <1>b, <1>f, <2>2 DEF AppendIntent
<1>4. CASE List
  BY <1>4, <1>b DEF List, Recent
<1>5. CASE Skip
  BY <1>5, <1>b, <1>f DEF Skip
<1>6. CASE Reuse
  BY <1>6, <1>b, <1>f DEF Reuse, Marked
<1>7. CASE Create
  BY <1>7, <1>b, <1>f DEF Create
<1>8. CASE Answered
  <2>1. /\ issues' = Append(issues, pos) /\ answer' = Len(issues) + 1
        /\ pos' = pos /\ rows' = rows /\ run' = run /\ listed' = listed
        /\ pos \in Draft
    BY <1>8 DEF Answered, LoopOK
  <2>2. answer' \in DOMAIN issues' /\ issues'[answer'] = pos'
    BY <2>1, NewIssue DEF TypeOK
  <2> QED
    BY <1>a, <1>b, <1>f, <2>1, <2>2
<1>9. CASE Inconclusive
  BY <1>9, <1>b, <1>c DEF Inconclusive, Leave
<1>10. CASE Record
  <2> DEFINE recorded == run.recorded \cup {[draft |-> pos, number |-> answer]}
  <2>1. issues' = issues /\ answer \in DOMAIN issues /\ issues[answer] = pos
    BY <1>10 DEF Record, RecordsOK
  <2>2. \A f \in recorded : f.number \in DOMAIN issues' /\ issues'[f.number] = f.draft
    BY <1>b, <2>1 DEF TrueNow
  <2>3. run' = [run EXCEPT !.recorded = recorded] /\ AppendRun("issuing", recorded)
    BY <1>10 DEF Record
  <2> HIDE DEF recorded
  <2>4. run'.recorded = recorded
    BY <2>3, <1>b DEF Row
  <2>5. TrueNow(run') /\ TrueNow([status |-> "issuing", recorded |-> recorded])
    BY <2>2, <2>4 DEF TrueNow
  <2>6. \A t \in Scope : TrueNow(rows'[t])
    BY <2>3, <2>5, <1>d
  <2> QED
    BY <1>10, <2>5, <2>6, <1>f DEF Record
<1>11. CASE Finish
  <2>1. TrueNow([status |-> "issued", recorded |-> run.recorded])
    BY <1>b DEF TrueNow
  <2>2. \A t \in Scope : TrueNow(rows'[t])
    BY <1>11, <1>d, <2>1 DEF Finish
  <2> QED
    BY <1>11, <1>c, <2>2 DEF Finish, Leave
<1>12. CASE Interrupted
  BY <1>12, <1>b, <1>c DEF Interrupted, Leave
<1>13. CASE Crash
  BY <1>13, <1>b, <1>c DEF Crash, Leave
<1>14. CASE Edit
  BY <1>14, <1>a, <1>b, <1>f DEF Edit, RecordsOK
<1>15. CASE OtherEvent
  BY <1>15, <1>a, <1>b, <1>f DEF OtherEvent, RecordsOK
<1>16. CASE OtherIssue
  BY <1>16, <1>a, <1>b, <1>f DEF OtherIssue, RecordsOK
<1>17. CASE UNCHANGED vars
  BY <1>17, <1>a, <1>b, <1>f DEF vars, RecordsOK
<1> QED
  BY <1>1, <1>2, <1>3, <1>4, <1>5, <1>6, <1>7, <1>8, <1>9, <1>10, <1>11,
     <1>12, <1>13, <1>14, <1>15, <1>16, <1>17 DEF Next

-----------------------------------------------------------------------------
\* The rows the step may write keep the drafts that the loop has passed.
LEMMA LoopStep == TypeOK /\ LoopOK /\ [Next]_vars => LoopOK'
<1> SUFFICES ASSUME TypeOK, LoopOK, [Next]_vars PROVE LoopOK'
  OBVIOUS
<1> USE DEF LoopOK, handlerVars, ledgerVars, envVars
<1>a. pos \in Nat /\ Draft \subseteq Nat
  BY DraftNat DEF TypeOK
<1>1. ASSUME NEW resume \in BOOLEAN, Approve(resume) PROVE LoopOK'
  BY <1>1 DEF Approve
<1>2. CASE Refuse \/ Inconclusive \/ Interrupted \/ Crash \/ Finish
  BY <1>2 DEF Refuse, Inconclusive, Interrupted, Crash, Finish, Leave
<1>3. CASE AppendIntent
  BY <1>3 DEF AppendIntent
<1>4. CASE List
  <2>1. pc' = "draft" /\ pos' = 1
    BY <1>4 DEF List
  <2>2. \A d \in Draft : ~(d < 1)
    BY DraftNat
  <2> QED
    BY <2>1, <2>2
<1>5. CASE Skip
  <2>1. /\ pc' = "draft" /\ pc = "draft" /\ run' = run /\ pos' = pos + 1
        /\ pos \in RecordedDrafts(run)
    BY <1>5 DEF Skip
  <2>2. \A d \in Draft : d < pos + 1 => d < pos \/ d = pos
    BY <1>a
  <2> QED
    BY <2>1, <2>2 DEF RecordedDrafts
<1>6. CASE Reuse
  BY <1>6 DEF Reuse, RecordedDrafts
<1>7. CASE Create
  BY <1>7 DEF Create, RecordedDrafts
<1>8. CASE Answered
  BY <1>8 DEF Answered, RecordedDrafts
<1>10. CASE Record
  <2> DEFINE entry == [draft |-> pos, number |-> answer]
             recorded == run.recorded \cup {entry}
  <2>1. /\ pc' = "draft" /\ pc = "record" /\ pos' = pos + 1
        /\ run' = [run EXCEPT !.recorded = recorded]
    BY <1>10 DEF Record
  <2>2. entry.draft = pos
    OBVIOUS
  <2> HIDE DEF entry
  <2>3. run'.recorded = run.recorded \cup {entry}
    BY <2>1 DEF TypeOK, Row
  <2>4. RecordedDrafts(run') = RecordedDrafts(run) \cup {pos}
    BY <2>2, <2>3 DEF RecordedDrafts
  <2>5. \A d \in Draft : d < pos + 1 => d < pos \/ d = pos
    BY <1>a
  <2>6. \A d \in Draft : d < pos' => d \in RecordedDrafts(run')
    BY <2>1, <2>4, <2>5
  <2> QED
    BY <2>1, <2>6 DEF RecordedDrafts
<1>14. CASE Edit \/ OtherEvent \/ OtherIssue \/ UNCHANGED vars
  BY <1>14 DEF Edit, OtherEvent, OtherIssue, vars, RecordedDrafts
<1> QED
  BY <1>1, <1>2, <1>3, <1>4, <1>5, <1>6, <1>7, <1>8, <1>10, <1>14 DEF Next

\* A row becomes issued only after the loop has recorded the last draft.
LEMMA CompleteStep ==
  TypeOK /\ LoopOK /\ IssuedIsComplete /\ [Next]_vars => IssuedIsComplete'
<1> SUFFICES ASSUME TypeOK, LoopOK, IssuedIsComplete, [Next]_vars,
                    NEW t \in Scope, rows'[t].status = "issued"
             PROVE  RecordedDrafts(rows'[t]) = Draft
  BY DEF IssuedIsComplete
<1>a. ASSUME NEW s, NEW recorded, AppendRun(s, recorded)
      PROVE  rows'[t] = rows[t] \/ rows'[t] = [status |-> s, recorded |-> recorded]
  <2> DEFINE here == [head |-> head, digest |-> tree.digest]
             row == [status |-> s, recorded |-> recorded]
  <2>1. rows' = [rows EXCEPT ![here] = row]
    BY <1>a DEF AppendRun
  <2> HIDE DEF here, row
  <2>2. rows'[t] = rows[t] \/ rows'[t] = row
    BY <2>1 DEF TypeOK
  <2> QED
    BY <2>2 DEF row
<1>b. CASE rows'[t] = rows[t]
  BY <1>b DEF IssuedIsComplete, RecordedDrafts
<1>c. ASSUME NEW recorded, AppendRun("issuing", recorded)
      PROVE  RecordedDrafts(rows'[t]) = Draft
  <2>1. [status |-> "issuing", recorded |-> recorded].status = "issuing"
    OBVIOUS
  <2> QED
    BY <1>a, <1>b, <1>c, <2>1
<1>1. CASE AppendIntent
  <2>1. AppendRun("issuing", run.recorded)
    BY <1>1 DEF AppendIntent
  <2> QED
    BY <1>c, <2>1
<1>2. CASE Record
  <2>1. \E recorded : AppendRun("issuing", recorded)
    BY <1>2 DEF Record
  <2> QED
    BY <1>c, <2>1
<1>3. CASE Finish
  <2>1. /\ pc = "draft" /\ pos = DraftCount + 1
        /\ AppendRun("issued", run.recorded)
    BY <1>3 DEF Finish
  <2>2. \A d \in Draft : d < pos
    BY <2>1 DEF Draft
  <2>3. Draft \subseteq RecordedDrafts(run)
    BY <2>1, <2>2 DEF LoopOK
  <2>4. RecordedDrafts(run) \subseteq Draft
    BY DEF TypeOK, Row, Filed, RecordedDrafts
  <2>5. RecordedDrafts([status |-> "issued", recorded |-> run.recorded])
          = RecordedDrafts(run)
    BY DEF RecordedDrafts
  <2> QED
    BY <1>a, <1>b, <2>1, <2>3, <2>4, <2>5
<1>4. CASE UNCHANGED rows
  BY <1>4, <1>b
<1> QED
  BY <1>1, <1>2, <1>3, <1>4
  DEF Next, vars, ledgerVars, handlerVars, Approve, Refuse, List, Skip, Reuse,
      Create, Answered, Inconclusive, Interrupted, Crash, Edit, OtherEvent,
      OtherIssue

-----------------------------------------------------------------------------
\* An issue that the loop is about to file is not filed yet.
LEMMA UniqueStep ==
  TypeOK /\ RecordsOK /\ LoopOK /\ UniqueOK /\ [Next]_vars => UniqueOK'
<1> SUFFICES ASSUME TypeOK, RecordsOK, LoopOK, UniqueOK, [Next]_vars,
                    Len(issues') <= ListLimit
             PROVE  /\ NoDuplicateIssue'
                    /\ pc' \in {"draft", "filing"} =>
                         \A n \in DOMAIN issues' :
                           issues'[n] >= pos' => n \in listed'
                    /\ pc' = "record" =>
                         \A n \in DOMAIN issues' :
                           issues'[n] > pos' => n \in listed'
                    /\ pc' = "filing" => Marked(pos)' = {}
  BY DEF UniqueOK
<1> USE DEF handlerVars, ledgerVars, envVars
<1>a. PICK x \in Draft \cup {Other} : issues' \in {issues, Append(issues, x)}
  BY IssuesStep
<1>b. /\ Len(issues) \in Nat /\ Len(issues) <= ListLimit
      /\ DOMAIN issues = 1..Len(issues)
      /\ \A n \in DOMAIN issues : issues[n] \in Nat
  <2>1. Len(issues') = Len(issues) \/ Len(issues') = Len(issues) + 1
    BY <1>a, NewIssue DEF TypeOK
  <2>2. issues \in Seq(Draft \cup {Other}) /\ Draft \cup {Other} \subseteq Nat
    BY DraftNat DEF TypeOK
  <2>3. /\ Len(issues) \in Nat /\ DOMAIN issues = 1..Len(issues)
        /\ \A n \in DOMAIN issues : issues[n] \in Draft \cup {Other}
    BY <2>2
  <2>4. Len(issues) <= ListLimit
    BY <2>1, <2>3
  <2> QED
    BY <2>2, <2>3, <2>4
<1>c. /\ NoDuplicateIssue
      /\ pc \in {"draft", "filing"} =>
           \A n \in DOMAIN issues : issues[n] >= pos => n \in listed
      /\ pc = "record" =>
           \A n \in DOMAIN issues : issues[n] > pos => n \in listed
      /\ pc = "filing" => Marked(pos) = {}
  BY <1>b DEF UniqueOK
<1>d. pos \in Nat \ {0}
  BY DEF TypeOK
<1>e. CASE issues' = issues
  <2>1. NoDuplicateIssue'
    BY <1>c, <1>e DEF NoDuplicateIssue
  <2>2. ASSUME NEW resume \in BOOLEAN, Approve(resume) PROVE pc' = "intent"
    BY <2>2 DEF Approve
  <2>3. CASE Refuse \/ Inconclusive \/ Interrupted \/ Crash \/ Finish
    BY <2>1, <2>3 DEF Refuse, Inconclusive, Interrupted, Crash, Finish, Leave
  <2>4. CASE AppendIntent
    BY <2>1, <2>4 DEF AppendIntent
  <2>5. CASE List
    <3>1. pc' = "draft" /\ listed' = Recent
      BY <2>5 DEF List
    <3>2. DOMAIN issues \subseteq Recent
      BY <1>b DEF Recent
    <3> QED
      BY <1>e, <2>1, <3>1, <3>2
  <2>6. CASE Skip
    <3>1. /\ pc = "draft" /\ pc' = "draft" /\ pos' = pos + 1
          /\ listed' = listed
      BY <2>6 DEF Skip
    <3> QED
      BY <1>b, <1>c, <1>d, <1>e, <2>1, <3>1
  <2>7. CASE Reuse
    <3>1. /\ pc = "draft" /\ pc' = "record" /\ pos' = pos /\ listed' = listed
      BY <2>7 DEF Reuse
    <3> QED
      BY <1>b, <1>c, <1>d, <1>e, <2>1, <3>1
  <2>8. CASE Create
    <3>1. /\ pc = "draft" /\ pc' = "filing" /\ pos' = pos /\ listed' = listed
          /\ Marked(pos) = {}
      BY <2>8 DEF Create
    <3> QED
      BY <1>c, <1>e, <2>1, <3>1 DEF Marked
  <2>9. CASE Answered
    BY <1>e, <2>9, NewIssue DEF Answered, TypeOK, LoopOK
  <2>10. CASE Record
    <3>1. /\ pc = "record" /\ pc' = "draft" /\ pos' = pos + 1
          /\ listed' = listed
      BY <2>10 DEF Record
    <3> QED
      BY <1>b, <1>c, <1>d, <1>e, <2>1, <3>1
  <2>11. CASE Edit \/ OtherEvent \/ OtherIssue \/ UNCHANGED vars
    <3>1. UNCHANGED <<pc, pos, listed>>
      BY <2>11 DEF Edit, OtherEvent, OtherIssue, vars
    <3> QED
      BY <1>c, <1>e, <2>1, <3>1 DEF Marked
  <2> QED
    BY <2>1, <2>2, <2>3, <2>4, <2>5, <2>6, <2>7, <2>8, <2>9, <2>10, <2>11
    DEF Next
<1>f. ASSUME NEW y \in Draft \cup {Other}, issues' = Append(issues, y),
             y # Other => \A n \in DOMAIN issues : issues[n] # y
      PROVE  NoDuplicateIssue'
  <2>1. /\ DOMAIN issues' = DOMAIN issues \cup {Len(issues) + 1}
        /\ \A n \in DOMAIN issues : issues'[n] = issues[n]
        /\ issues'[Len(issues) + 1] = y
    BY <1>f, NewIssue DEF TypeOK
  <2> QED
    BY <1>c, <1>f, <2>1 DEF NoDuplicateIssue
<1>g. ASSUME pc = "filing"
      PROVE  \A n \in DOMAIN issues : issues[n] # pos
  BY <1>b, <1>c, <1>d, <1>g DEF Marked
<1>1. CASE Answered
  <2>1. /\ pc = "filing" /\ issues' = Append(issues, pos) /\ pos \in Draft
        /\ pc' = "record" /\ pos' = pos /\ listed' = listed
    BY <1>1 DEF Answered, LoopOK
  <2>2. /\ DOMAIN issues' = DOMAIN issues \cup {Len(issues) + 1}
        /\ \A n \in DOMAIN issues : issues'[n] = issues[n]
        /\ issues'[Len(issues) + 1] = pos
    BY <2>1, NewIssue DEF TypeOK
  <2>3. \A n \in DOMAIN issues' : issues'[n] > pos => n \in listed
    BY <1>b, <1>c, <1>d, <2>1, <2>2
  <2> QED
    BY <1>f, <1>g, <2>1, <2>3
<1>2. CASE Inconclusive
  <2>1. pc = "filing" /\ pos \in Draft /\ pc' = "idle"
        /\ issues' \in {issues, Append(issues, pos)}
    BY <1>2 DEF Inconclusive, Leave, Landed, LoopOK
  <2> QED
    BY <1>e, <1>f, <1>g, <2>1
<1>3. CASE Crash
  <2>1. /\ pc' = "idle"
        /\ issues' # issues =>
             pc = "filing" /\ pos \in Draft /\ issues' = Append(issues, pos)
    BY <1>3 DEF Crash, Leave, Landed, LoopOK
  <2> QED
    BY <1>e, <1>f, <1>g, <2>1
<1>4. CASE OtherIssue
  <2>1. issues' = Append(issues, Other) /\ UNCHANGED <<pc, pos, listed>>
    BY <1>4 DEF OtherIssue
  <2>2. /\ DOMAIN issues' = DOMAIN issues \cup {Len(issues) + 1}
        /\ \A n \in DOMAIN issues : issues'[n] = issues[n]
        /\ issues'[Len(issues) + 1] = Other
    BY <2>1, NewIssue DEF TypeOK
  <2>3. listed \subseteq DOMAIN issues
    BY DEF RecordsOK
  <2>4. NoDuplicateIssue'
    BY <1>f, <2>1
  <2>5. pc = "filing" => Marked(pos)' = {}
    BY <1>c, <2>1, <2>2, <2>3 DEF Marked
  <2>6. /\ ~(Other >= pos) /\ ~(Other > pos)
    BY <1>d
  <2> QED
    BY <1>c, <2>1, <2>2, <2>4, <2>5, <2>6
<1>5. CASE UNCHANGED issues
  BY <1>5, <1>e
<1> QED
  BY <1>1, <1>2, <1>3, <1>4, <1>5
  DEF Next, vars, Approve, Refuse, AppendIntent, List, Skip, Reuse, Create,
      Record, Finish, Interrupted, Edit, OtherEvent

-----------------------------------------------------------------------------
\* While the scope stays, drafts are filed in the order they are recorded in.
LEMMA OrphanStep ==
  TypeOK /\ LoopOK /\ OrphanOK /\ [Next]_vars => OrphanOK'
<1> DEFINE Before(n, r) == \A d \in Draft : d < n => d \in RecordedDrafts(r)
<1> SUFFICES ASSUME TypeOK, LoopOK, OrphanOK, [Next]_vars, edits' = 0
             PROVE  /\ latest' = tree'
                    /\ pc' # "idle" => /\ head' = tree'.head
                                       /\ run'.recorded = rows'[tree'].recorded
                    /\ \A n \in DOMAIN issues' : Before(issues'[n], rows'[tree'])
  BY DEF OrphanOK
<1> USE DEF handlerVars, ledgerVars, envVars
<1>a. edits = 0 /\ tree' = tree /\ edits' = edits
  <2>1. ~Edit
    BY DEF Edit, TypeOK
  <2>2. UNCHANGED <<tree, edits>>
    BY <2>1
    DEF Next, vars, Approve, Refuse, AppendIntent, List, Skip, Reuse, Create,
        Answered, Inconclusive, Record, Finish, Interrupted, Crash, OtherEvent,
        OtherIssue, Calm, Fault
  <2> QED
    BY <2>2
<1>b. /\ latest = tree
      /\ pc # "idle" => head = tree.head /\ run.recorded = rows[tree].recorded
      /\ \A n \in DOMAIN issues : Before(issues[n], rows[tree])
  BY <1>a DEF OrphanOK
<1>c. /\ DOMAIN issues \subseteq DOMAIN issues'
      /\ \A n \in DOMAIN issues : issues'[n] = issues[n]
  BY IssuesStep, Grown
<1>d. ASSUME pc # "idle", NEW s, NEW recorded, AppendRun(s, recorded)
      PROVE  latest' = tree /\ rows'[tree] = [status |-> s, recorded |-> recorded]
  <2> DEFINE row == [status |-> s, recorded |-> recorded]
  <2>1. [head |-> head, digest |-> tree.digest] = tree
    BY <1>b, <1>d DEF TypeOK, Scope
  <2>2. rows' = [rows EXCEPT ![tree] = row] /\ latest' = tree
    BY <1>d, <2>1 DEF AppendRun
  <2> HIDE DEF row
  <2>3. rows'[tree] = row
    BY <2>2 DEF TypeOK
  <2> QED
    BY <2>2, <2>3 DEF row
\* The draft in flight is the first that is not recorded.
<1>e. ASSUME pc = "filing" PROVE Before(pos, rows[tree])
  BY <1>b, <1>e DEF LoopOK, RecordedDrafts
<1>f. ASSUME rows' = rows, NEW y \in Draft \cup {Other},
             issues' = Append(issues, y), Before(y, rows[tree])
      PROVE  \A n \in DOMAIN issues' : Before(issues'[n], rows'[tree'])
  <2>1. DOMAIN issues' = DOMAIN issues \cup {Len(issues) + 1}
        /\ issues'[Len(issues) + 1] = y
    BY <1>f, NewIssue DEF TypeOK
  <2> HIDE DEF Before
  <2> QED
    BY <1>a, <1>b, <1>c, <1>f, <2>1
<1>g. ASSUME issues' = issues, RecordedDrafts(rows[tree]) \subseteq RecordedDrafts(rows'[tree])
      PROVE  \A n \in DOMAIN issues' : Before(issues'[n], rows'[tree'])
  BY <1>a, <1>b, <1>g
<1> HIDE DEF Before
<1>1. ASSUME NEW resume \in BOOLEAN, Approve(resume)
      PROVE  /\ latest' = tree'
             /\ head' = tree'.head /\ run'.recorded = rows'[tree'].recorded
             /\ \A n \in DOMAIN issues' : Before(issues'[n], rows'[tree'])
  BY <1>1, <1>a, <1>b, <1>g DEF Approve
<1>2. CASE Refuse
  BY <1>2, <1>a, <1>b, <1>g DEF Refuse, Leave
<1>3. CASE AppendIntent
  <2>1. /\ pc = "intent" /\ AppendRun("issuing", run.recorded)
        /\ UNCHANGED <<issues, head, run>>
    BY <1>3 DEF AppendIntent
  <2>2. latest' = tree /\ rows'[tree] = [status |-> "issuing", recorded |-> run.recorded]
    BY <1>d, <2>1
  <2>3. rows'[tree].recorded = rows[tree].recorded
    BY <1>b, <2>1, <2>2
  <2> QED
    BY <1>a, <1>b, <1>g, <2>1, <2>2, <2>3 DEF RecordedDrafts
<1>4. CASE List
  BY <1>4, <1>a, <1>b, <1>g DEF List
<1>5. CASE Skip
  BY <1>5, <1>a, <1>b, <1>g DEF Skip
<1>6. CASE Reuse
  BY <1>6, <1>a, <1>b, <1>g DEF Reuse
<1>7. CASE Create
  BY <1>7, <1>a, <1>b, <1>g DEF Create
<1>8. CASE Answered
  BY <1>8, <1>a, <1>b, <1>e, <1>f DEF Answered, LoopOK
<1>9. CASE Inconclusive
  BY <1>9, <1>a, <1>b, <1>e, <1>f, <1>g DEF Inconclusive, Leave, Landed, LoopOK
<1>10. CASE Record
  <2> DEFINE recorded == run.recorded \cup {[draft |-> pos, number |-> answer]}
  <2>1. /\ pc = "record" /\ AppendRun("issuing", recorded)
        /\ run' = [run EXCEPT !.recorded = recorded] /\ UNCHANGED <<issues, head>>
    BY <1>10 DEF Record
  <2>2. run.recorded \subseteq recorded
    OBVIOUS
  <2> HIDE DEF recorded
  <2>3. latest' = tree /\ rows'[tree] = [status |-> "issuing", recorded |-> recorded]
    BY <1>d, <2>1
  <2>4. run'.recorded = recorded /\ rows'[tree].recorded = recorded
    BY <2>1, <2>3 DEF TypeOK, Row
  <2>5. RecordedDrafts(rows[tree]) \subseteq RecordedDrafts(rows'[tree])
    BY <1>b, <2>1, <2>2, <2>4 DEF RecordedDrafts
  <2> QED
    BY <1>a, <1>b, <1>g, <2>1, <2>3, <2>4, <2>5
<1>11. CASE Finish
  <2>1. /\ pc = "draft" /\ AppendRun("issued", run.recorded)
        /\ issues' = issues /\ pc' = "idle"
    BY <1>11 DEF Finish, Leave
  <2>2. latest' = tree /\ rows'[tree] = [status |-> "issued", recorded |-> run.recorded]
    BY <1>d, <2>1
  <2>3. rows'[tree].recorded = rows[tree].recorded
    BY <1>b, <2>1, <2>2
  <2> QED
    BY <1>a, <1>g, <2>1, <2>2, <2>3 DEF RecordedDrafts
<1>12. CASE Interrupted
  BY <1>12, <1>a, <1>b, <1>g DEF Interrupted, Leave
<1>13. CASE Crash
  BY <1>13, <1>a, <1>b, <1>e, <1>f, <1>g DEF Crash, Leave, Landed, LoopOK
<1>14. CASE Edit
  BY <1>14, <1>a DEF Edit, TypeOK
<1>15. CASE OtherEvent
  BY <1>15, <1>a, <1>b, <1>g DEF OtherEvent
<1>16. CASE OtherIssue
  <2>1. issues' = Append(issues, Other) /\ UNCHANGED <<rows, latest, pc, head, run>>
    BY <1>16 DEF OtherIssue
  <2>2. Before(Other, rows[tree])
    BY DraftNat DEF Before
  <2> QED
    BY <1>a, <1>b, <1>f, <2>1, <2>2
<1>17. CASE UNCHANGED vars
  BY <1>17, <1>a, <1>b, <1>g DEF vars
<1> QED
  BY <1>1, <1>2, <1>3, <1>4, <1>5, <1>6, <1>7, <1>8, <1>9, <1>10, <1>11,
     <1>12, <1>13, <1>14, <1>15, <1>16, <1>17 DEF Next

-----------------------------------------------------------------------------
\* The invariant is inductive: it holds in every state of auditApprove.
THEOREM PublishInductive == Spec => []IInv
<1>1. IInv /\ [Next]_vars => IInv'
  BY TypeStep, RecordsStep, LoopStep, CompleteStep, UniqueStep,
     OrphanStep DEF IInv
<1> QED
  BY InitIInv, <1>1, PTL DEF Spec

\* Type correctness of the rows, the issues and the call that publishes them.
THEOREM PublishTypes == Spec => []TypeOK
<1>1. IInv => TypeOK
  BY DEF IInv
<1> QED
  BY PublishInductive, <1>1, PTL

\* Whatever was reused, interrupted, resumed or recorded elsewhere before, the
\* numbers in audit_runs are those of the issues filed for their drafts.
THEOREM RecordsTrue == Spec => []RecordsAreTrue
<1>1. IInv => RecordsAreTrue
  BY DEF IInv, RecordsOK, TrueRow, RecordsAreTrue
<1> QED
  BY PublishInductive, <1>1, PTL

\* A run reaches issued only with an issue recorded for each of its drafts.
THEOREM IssuedComplete == Spec => []IssuedIsComplete
<1>1. IInv => IssuedIsComplete
  BY DEF IInv
<1> QED
  BY PublishInductive, <1>1, PTL

\* No draft is filed twice while gh lists all the issues of the repository,
\* however many calls fail after their effect and however often the daemon dies.
THEOREM NoDuplicateFiled == Spec => []NoDuplicateWhileListed
<1>1. IInv => NoDuplicateWhileListed
  BY DEF IInv, UniqueOK, NoDuplicateWhileListed
<1> QED
  BY PublishInductive, <1>1, PTL

\* While nobody commits or edits, what is filed but unrecorded is one draft's
\* issue at most, whatever fails, times out or is killed, and however often.
THEOREM OneOrphanAtMost == Spec => []OneOrphan
<1>1. ASSUME IInv, edits = 0, NEW d \in Orphans, NEW e \in Orphans
      PROVE  d = e
  <2>1. /\ d \in Draft /\ d \notin RecordedDrafts(rows[tree])
        /\ e \in Draft /\ e \notin RecordedDrafts(rows[tree])
        /\ \E n \in DOMAIN issues : issues[n] = d
        /\ \E n \in DOMAIN issues : issues[n] = e
    BY <1>1 DEF IInv, TypeOK, Orphans
  <2>2. ~(d < e) /\ ~(e < d)
    BY <1>1, <2>1 DEF IInv, OrphanOK
  <2> QED
    BY <2>1, <2>2, DraftNat
<1>2. IInv => OneOrphan
  BY <1>1 DEF OneOrphan
<1> QED
  BY PublishInductive, <1>2, PTL
=============================================================================

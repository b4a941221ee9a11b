---------------------------- MODULE AuditPublish ----------------------------
(* Publishing the issue drafts of an audit run on GitHub: auditApprove of    *)
(* packages/local-runtime/runtime-daemon/src/audit.ts with the gh calls of   *)
(* github-issue-executor.ts and the audit_runs rows of the local store.      *)
(* The handler holds the daemon's writer, so there is one at a time; between *)
(* its calls the daemon may be killed, a call may fail after it has had its  *)
(* effect, other people file issues, files are edited, and audits that run   *)
(* in the background append events of their own.                             *)
(*                                                                           *)
(* A row belongs to the scope of the event that wrote it: the branch (here   *)
(* one), HEAD and the digest of the worktree.  Readers take the scope of the *)
(* branch's latest event.                                                    *)
(*                                                                           *)
(* A definition named Broken... is a deliberate bug in the definition after  *)
(* it; the properties are run against each.                                  *)
EXTENDS Naturals, Sequences, FiniteSets

CONSTANTS
  DraftCount,   \* the drafts of the run, published in the order of the plan
  Commit, Digest,  \* states of HEAD and of the worktree on the run's branch
  ListLimit,    \* GITHUB_ISSUE_LIST_LIMIT
  MaxOthers, MaxEdits, MaxFaults, MaxCrashes   \* bounds on the environment

ASSUME PublishAssumption ==
  /\ DraftCount \in Nat \ {0} /\ ListLimit \in Nat
  /\ {MaxOthers, MaxEdits, MaxFaults, MaxCrashes} \subseteq Nat

Scope  == [head : Commit, digest : Digest]
Draft  == 1..DraftCount
Other  == 0                  \* an issue without the footer marker of the run
Filed  == [draft : Draft, number : Nat \ {0}]
Row    == [status : {"none", "pending", "issuing", "issued"},
           recorded : SUBSET Filed]

VARIABLES
  issues,   \* the repository's issues on GitHub, in the order of their numbers
  rows,     \* audit_runs: the row of the run in each scope
  tree,     \* the present HEAD and worktree
  latest,   \* the scope of the branch's latest event
  pc, head, run, listed, pos, answer,  \* the handler and its session's HEAD
  others, edits, faults, crashes

handlerVars == <<pc, head, run, listed, pos, answer>>
ledgerVars  == <<rows, latest>>
envVars     == <<others, edits, faults, crashes>>
vars == <<issues, ledgerVars, tree, handlerVars, envVars>>

NoRow == [status |-> "none", recorded |-> {}]

\* An investigation has succeeded: its run is pending where it was recorded.
Init ==
  /\ issues = <<>>
  /\ tree \in Scope /\ latest = tree
  /\ rows = [t \in Scope |-> IF t = tree THEN [NoRow EXCEPT !.status = "pending"]
                            ELSE NoRow]
  /\ pc = "idle" /\ head = tree.head
  /\ run = NoRow /\ listed = {} /\ pos = 1 /\ answer = 0
  /\ others = 0 /\ edits = 0 /\ faults = 0 /\ crashes = 0

Calm  == UNCHANGED envVars
Fault ==
  /\ faults < MaxFaults /\ faults' = faults + 1
  /\ UNCHANGED <<others, edits, crashes>>

\* The handler returns or throws, and frees the writer.
Leave ==
  /\ UNCHANGED head
  /\ pc' = "idle" /\ run' = NoRow /\ listed' = {} /\ pos' = 1 /\ answer' = 0

\* An event of the run: its scope is the session's HEAD and the worktree as it
\* is now, its row replaces the run's row there, and it is the latest event.
AppendRun(s, recorded) ==
  LET here == [head |-> head, digest |-> tree.digest] IN
  /\ rows' = [rows EXCEPT ![here] = [status |-> s, recorded |-> recorded]]
  /\ latest' = here

RecordedDrafts(r) == {f.draft : f \in r.recorded}

\* Broken: gh lists nothing that the marker could be found in.
BrokenRecent == {}

\* gh issue list --state all --limit: the newest issues.
Recent == {n \in DOMAIN issues : n + ListLimit > Len(issues)}

\* Broken: any issue of the run is taken for the draft's.
BrokenMarked(d) == {n \in listed : issues[n] # Other}

\* findExistingGithubIssueByMarker: issues whose footer names run and draft.
Marked(d) == {n \in listed : issues[n] = d}

-----------------------------------------------------------------------------
(* auditApprove.                                                             *)

\* The gates: the run exists and is neither issued nor failed, and a run that
\* was interrupted is taken up again only with --resume.
Approve(resume) ==
  /\ pc = "idle"
  /\ \/ rows[latest].status = "pending"
     \/ rows[latest].status = "issuing" /\ resume
  /\ run' = rows[latest] /\ head' = tree.head /\ pc' = "intent"
  /\ UNCHANGED <<issues, ledgerVars, tree, listed, pos, answer>>
  /\ Calm

\* A proposal, token, visibility, confirmation or preflight check refuses.
Refuse ==
  /\ pc = "intent" /\ Leave
  /\ UNCHANGED <<issues, ledgerVars, tree>>
  /\ Calm

\* Authorised: the event comes before any call that files an issue.
AppendIntent ==
  /\ pc = "intent"
  /\ AppendRun("issuing", run.recorded) /\ pc' = "list"
  /\ UNCHANGED <<issues, tree, head, run, listed, pos, answer>>
  /\ Calm

List ==
  /\ pc = "list"
  /\ listed' = Recent /\ pc' = "draft"
  /\ UNCHANGED <<issues, ledgerVars, tree, head, run, pos, answer>>
  /\ Calm

\* A draft that the run's row already records.
Skip ==
  /\ pc = "draft" /\ pos \in Draft /\ pos \in RecordedDrafts(run)
  /\ pos' = pos + 1
  /\ UNCHANGED <<issues, ledgerVars, tree, pc, head, run, listed, answer>>
  /\ Calm

\* Broken: the number of the issue found is not taken over.
BrokenReuse ==
  /\ pc = "draft" /\ pos \in Draft \ RecordedDrafts(run) /\ Marked(pos) # {}
  /\ pc' = "record"
  /\ UNCHANGED <<issues, ledgerVars, tree, head, run, listed, pos, answer>>
  /\ Calm

\* A draft whose issue is listed: gh lists the newest first.
Reuse ==
  /\ pc = "draft" /\ pos \in Draft \ RecordedDrafts(run)
  /\ \E n \in Marked(pos) : (\A k \in Marked(pos) : k <= n) /\ answer' = n
  /\ pc' = "record"
  /\ UNCHANGED <<issues, ledgerVars, tree, head, run, listed, pos>>
  /\ Calm

\* Otherwise gh issue create is started.
Create ==
  /\ pc = "draft" /\ pos \in Draft \ RecordedDrafts(run) /\ Marked(pos) = {}
  /\ pc' = "filing"
  /\ UNCHANGED <<issues, ledgerVars, tree, head, run, listed, pos, answer>>
  /\ Calm

Answered ==
  /\ pc = "filing"
  /\ issues' = Append(issues, pos) /\ answer' = Len(issues) + 1
  /\ pc' = "record"
  /\ UNCHANGED <<ledgerVars, tree, head, run, listed, pos>>
  /\ Calm

\* The request in flight has reached GitHub, or not.
Landed == issues' \in {issues, Append(issues, pos)}

\* Broken: the loop goes on to the next draft.
BrokenInconclusive ==
  /\ pc = "filing" /\ Landed /\ Fault
  /\ pc' = "draft" /\ pos' = pos + 1
  /\ UNCHANGED <<ledgerVars, tree, head, run, listed, answer>>

\* gh fails, times out, or answers something that is not an issue URL.
Inconclusive ==
  /\ pc = "filing" /\ Landed /\ Fault /\ Leave
  /\ UNCHANGED <<ledgerVars, tree>>

\* Broken: the handler keeps what it filed until the end.
BrokenRecord ==
  /\ pc = "record"
  /\ run' = [run EXCEPT !.recorded = @ \cup {[draft |-> pos, number |-> answer]}]
  /\ pos' = pos + 1 /\ answer' = 0 /\ pc' = "draft"
  /\ UNCHANGED <<issues, ledgerVars, tree, head, listed>>
  /\ Calm

\* Each draft's issue is recorded at once, still as issuing.
Record ==
  /\ pc = "record"
  /\ LET recorded == run.recorded \cup {[draft |-> pos, number |-> answer]} IN
       /\ run' = [run EXCEPT !.recorded = recorded]
       /\ AppendRun("issuing", recorded)
  /\ pos' = pos + 1 /\ answer' = 0 /\ pc' = "draft"
  /\ UNCHANGED <<issues, tree, head, listed>>
  /\ Calm

Finish ==
  /\ pc = "draft" /\ pos = DraftCount + 1
  /\ AppendRun("issued", run.recorded)
  /\ Leave
  /\ UNCHANGED <<issues, tree>>
  /\ Calm

\* The list call or an append fails: the run stays as it is recorded.
Interrupted ==
  /\ \/ pc \in {"intent", "list", "record"}
     \/ pc = "draft" /\ pos = DraftCount + 1
  /\ Leave /\ Fault
  /\ UNCHANGED <<issues, ledgerVars, tree>>

-----------------------------------------------------------------------------
(* The environment.                                                          *)

\* The daemon is killed, and started again later.
Crash ==
  /\ crashes < MaxCrashes /\ crashes' = crashes + 1
  /\ pc # "idle" /\ Leave
  /\ IF pc = "filing" THEN Landed ELSE UNCHANGED issues
  /\ UNCHANGED <<ledgerVars, tree, others, edits, faults>>

\* Somebody commits, or edits a file.
Edit ==
  /\ edits < MaxEdits /\ edits' = edits + 1
  /\ tree' \in Scope \ {tree}
  /\ UNCHANGED <<issues, ledgerVars, handlerVars, others, faults, crashes>>

\* An audit in the background, or a ChangeSet, appends an event here and now.
OtherEvent ==
  /\ latest # tree /\ latest' = tree
  /\ UNCHANGED <<issues, rows, tree, handlerVars>>
  /\ Calm

\* Somebody else files an issue.
OtherIssue ==
  /\ others < MaxOthers /\ others' = others + 1
  /\ issues' = Append(issues, Other)
  /\ UNCHANGED <<ledgerVars, tree, handlerVars, edits, faults, crashes>>

Next ==
  \/ \E resume \in BOOLEAN : Approve(resume)
  \/ Refuse \/ AppendIntent \/ List \/ Skip \/ Reuse \/ Create \/ Answered
  \/ Inconclusive \/ Record \/ Finish \/ Interrupted
  \/ Crash \/ Edit \/ OtherEvent \/ OtherIssue

Spec == Init /\ [][Next]_vars

-----------------------------------------------------------------------------
(* What publishing promises.                                                 *)

\* Issues are other people's or of a draft, a row holds numbers of issues, and
\* the handler is at a step of its loop over the drafts.
TypeOK ==
  /\ issues \in Seq(Draft \cup {Other})
  /\ rows \in [Scope -> Row] /\ tree \in Scope /\ latest \in Scope /\ head \in Commit
  /\ pc \in {"idle", "intent", "list", "draft", "filing", "record"}
  /\ run \in Row /\ listed \subseteq Nat /\ pos \in 1..(DraftCount + 1)
  /\ answer \in Nat
  /\ others \in Nat /\ edits \in Nat /\ faults \in Nat /\ crashes \in Nat

\* No draft is filed twice: "already-filed drafts are never re-published".
NoDuplicateIssue ==
  \A m, n \in DOMAIN issues :
    issues[m] = issues[n] /\ issues[m] # Other => m = n

\* The same, as long as the repository has no more issues than gh lists.
NoDuplicateWhileListed == Len(issues) <= ListLimit => NoDuplicateIssue

\* Every entry of a row names the issue that was filed for its draft, whatever
\* was reused, interrupted or recorded in another scope before.
RecordsAreTrue ==
  \A t \in Scope : \A f \in rows[t].recorded :
    f.number \in DOMAIN issues /\ issues[f.number] = f.draft

\* A run that is issued has an issue for each of its drafts.
IssuedIsComplete ==
  \A t \in Scope :
    rows[t].status = "issued" => RecordedDrafts(rows[t]) = Draft

\* Drafts with an issue that no row records.
Orphans ==
  {d \in Draft : (\E n \in DOMAIN issues : issues[n] = d)
                 /\ \A t \in Scope : d \notin RecordedDrafts(rows[t])}

\* However often it is interrupted and resumed, publishing leaves at most one
\* issue filed but unrecorded: "that window is bounded to at most one draft".
\* Once a file was edited a row that is behind may become the latest again.
OneOrphan == edits = 0 => \A d, e \in Orphans : d = e

\* An interrupted run is there to be resumed: while a row says issuing, approve
\* reads a run that is issuing or issued.
InterruptedRunResumable ==
  pc = "idle" /\ (\E t \in Scope : rows[t].status = "issuing")
    => rows[latest].status \in {"issuing", "issued"}
=============================================================================

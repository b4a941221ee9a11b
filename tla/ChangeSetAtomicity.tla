------------------------- MODULE ChangeSetAtomicity -------------------------
(* The journaled write path implements atomic ChangeSets, as long as nobody  *)
(* else writes the repository: what a pending ChangeSet has done to the      *)
(* files is not yet the repository's tree, and the commit makes it so.       *)
(* Also the state an older build leaves for this one to start from.          *)
EXTENDS ChangeSetJournal

AppendedBy(j) == \E e \in events : e.journal = j

Open == {j \in Pending : ~AppendedBy(j)}

LogicalTree ==
  IF Open = {} THEN disk ELSE base[CHOOSE j \in Open : TRUE]

LogicalState(j) ==
  CASE j \in Open -> "open"
    [] j \in Pending \ Open -> "applied"
    [] status[j] = "committed" -> "applied"
    [] status[j] \in {"aborted", "recovered"} -> "discarded"
    [] OTHER -> "none"

Abstract == INSTANCE AtomicChangeSet WITH
  tree   <- LogicalTree,
  state  <- [j \in Journal |-> LogicalState(j)],
  ledger <- {j \in Journal : AppendedBy(j)}

\* Every run of the write path, with its crashes, failures, rollbacks and
\* recoveries, is a run of atomic ChangeSets.
Atomic == Abstract!Spec

\* The same for a store whose first rows an older build wrote.
AtomicSteps == [][Abstract!Next]_(Abstract!vars)

-----------------------------------------------------------------------------
(* A store an older build left behind.                                       *)

\* The journal entries and the files of a draft whose writes are all done.
DoneEntries(d, t) ==
  [k \in 1..Len(Writes[d]) |->
    [path |-> Op(d, k).path, body |-> Op(d, k).body,
     existed |-> Expected(d, t, k) # Missing]]

\* No path is written again once a write has found a file there:
\* applyFileOperation would refuse the backup that this leaves.
Applies(d, t) ==
  /\ Applicable(d)
  /\ \A k, m \in 1..Len(Writes[d]) :
       k < m /\ Op(d, k).path = Op(d, m).path => Expected(d, t, k) = Missing

\* An older build appended the event and committed the row in two transactions
\* and was killed between them: everything is written, the backups are there.
InterruptedAppend(j, d, t) ==
  /\ disk = Abstract!Result(d, t)
  /\ backup = [p \in Path |->
       IF \E k \in 1..Len(Writes[d]) :
            Op(d, k).path = p /\ Expected(d, t, k) # Missing
       THEN Expected(d, t, CHOOSE k \in 1..Len(Writes[d]) :
              Op(d, k).path = p /\ Expected(d, t, k) # Missing)
       ELSE Missing]
  /\ status = [i \in Journal |-> IF i = j THEN "pending" ELSE "none"]
  /\ planned = [i \in Journal |-> IF i = j THEN disk ELSE None]
  /\ events = {[draft |-> d, source |-> disk, journal |-> j]}

\* Rows committed before rows recorded their cleanup: migration 0011 adds the
\* column with NULL in every row there is.
CommittedBefore(rows, d, t) ==
  /\ disk = Abstract!Result(d, t)
  /\ backup = [p \in Path |-> Missing]
  /\ status = [i \in Journal |-> IF i \in rows THEN "committed" ELSE "none"]
  /\ planned = [i \in Journal |-> None]
  /\ events = {}

InitUpgraded ==
  /\ \E rows \in SUBSET Journal, d \in Draft, t \in Tree :
       /\ Applies(d, t)
       /\ \/ \E j \in rows : rows = {j} /\ InterruptedAppend(j, d, t)
          \/ CommittedBefore(rows, d, t)
       /\ draftOf = [i \in Journal |-> d]
       /\ base = [i \in Journal |-> t]
       /\ files = [i \in Journal |->
                     IF i \in rows THEN DoneEntries(d, t) ELSE <<>>]
  /\ temp = {} /\ cleaned = [j \in Journal |-> FALSE]
  /\ mode = "down" /\ todo = {}
  /\ job = None /\ pc = "idle" /\ pos = 0 /\ pushed = 0 /\ blocked = FALSE
  /\ raced = {} /\ unresolved = {} /\ dirty = FALSE
  /\ plans = [d \in Draft |-> None]
  /\ edits = 0 /\ faults = 0 /\ crashes = 0

UpgradedSpec == InitUpgraded /\ [][Next]_vars

\* An applied ChangeSet that an older build's crash left pending is committed
\* by the next start, never undone: a daemon that serves finds no row whose
\* event is in the ledger and whose status is not committed.
UpgradeKeepsApplied ==
  mode = "up" => \A j \in Journal : AppendedBy(j) => status[j] = "committed"
=============================================================================

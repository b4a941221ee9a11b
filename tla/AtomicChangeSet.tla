--------------------------- MODULE AtomicChangeSet ---------------------------
(* What a ChangeSet promises to the people who approve one: the repository   *)
(* moves from one tree to the next in one step, with the ledger event of the *)
(* step, or it does not move at all; and one ChangeSet is open at a time.    *)
EXTENDS Naturals, Sequences

CONSTANTS Path, Content, Draft, Writes, Journal, WritesLedger

VARIABLES
  tree,     \* the content of each path
  state,    \* what became of each journal: none, open, applied, discarded
  ledger    \* the journals whose event the ledger holds

vars == <<tree, state, ledger>>

Init ==
  /\ tree \in [Path -> Content]
  /\ state = [j \in Journal |-> "none"]
  /\ ledger = {}

\* The tree that draft d makes of t: the last write to a path wins.
Result(d, t) ==
  [p \in Path |->
    LET mine == {i \in DOMAIN Writes[d] : Writes[d][i].path = p} IN
    IF mine = {} THEN t[p]
    ELSE Writes[d][CHOOSE i \in mine : \A k \in mine : k <= i].body]

Open(j) ==
  /\ state[j] = "none" /\ \A i \in Journal : state[i] # "open"
  /\ state' = [state EXCEPT ![j] = "open"]
  /\ UNCHANGED <<tree, ledger>>

Apply(j, d) ==
  /\ state[j] = "open" /\ state' = [state EXCEPT ![j] = "applied"]
  /\ tree' = Result(d, tree)
  /\ ledger' = IF WritesLedger THEN ledger \cup {j} ELSE ledger

Discard(j) ==
  /\ state[j] = "open" /\ state' = [state EXCEPT ![j] = "discarded"]
  /\ UNCHANGED <<tree, ledger>>

Next ==
  \E j \in Journal :
    \/ Open(j) \/ Discard(j)
    \/ \E d \in Draft : Apply(j, d)

Spec == Init /\ [][Next]_vars
=============================================================================

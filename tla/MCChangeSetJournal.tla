------------------------- MODULE MCChangeSetJournal -------------------------
(* Small instances of ChangeSetJournal: two repository paths, one of them    *)
(* the projection manifest, and drafts that replace, create, delete and      *)
(* create-then-overwrite files.                                              *)
EXTENDS ChangeSetAtomicity, TLC

CONSTANTS p1, man, a, b, x, d1, d2, j1, j2, j3

Op2(p, c) == [path |-> p, body |-> c]

\* d1 writes the manifest first, so the engine defers it behind p1, which it
\* writes twice; d2 deletes p1.
MCWrites ==
  (d1 :> <<Op2(man, a), Op2(p1, a), Op2(p1, b)>>) @@ (d2 :> <<Op2(p1, Missing)>>)
Symm == Permutations(Journal)
=============================================================================

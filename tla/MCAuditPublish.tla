--------------------------- MODULE MCAuditPublish ---------------------------
(* Small instances of AuditPublish: two commits and two states of the     *)
(* worktree, a few drafts, other people's issues.                            *)
EXTENDS AuditPublish, TLC

CONSTANTS h1, h2, w1, w2

Symm == Permutations(Commit) \cup Permutations(Digest)
=============================================================================

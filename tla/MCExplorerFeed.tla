--------------------------- MODULE MCExplorerFeed ---------------------------
(* Instances of ExplorerFeed for TLC: every page asks something else.       *)
EXTENDS ExplorerFeed
OwnQuery == [p \in Pages |-> p]
=============================================================================

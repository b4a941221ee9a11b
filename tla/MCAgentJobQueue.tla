---------------------------- MODULE MCAgentJobQueue ----------------------------
(* Instances of AgentJobQueue for TLC: worker ids, handlers, audits, kinds  *)
(* and None are model values, and nothing tells two worker ids apart.       *)
EXTENDS AgentJobQueue, TLC

TwoPriorities == {0, 1}
SwappedWorkers == Permutations(Workers)
=============================================================================

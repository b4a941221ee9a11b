-------------------------- MODULE MCDaemonLifecycle --------------------------
(* Instances of DaemonLifecycle for TLC: processes are model values. There  *)
(* is no symmetry, since one run checks liveness.                            *)
EXTENDS DaemonLifecycle
=============================================================================

-------------------------- MODULE MCMgrTestHarness --------------------------
(***************************************************************************)
(* The harness on a cluster of three mgr daemons, so that an active and   *)
(* two standbys exist and setUp's fail loop promotes a standby before it  *)
(* fails it too.                                                          *)
(***************************************************************************)
EXTENDS MgrTestHarness

CONSTANTS x, y, z

MCMgrIds == {x, y, z}

\* setUp up to its wait for an active, which its restart of every daemon
\* is there to absorb.
SetUpRestart == {"stop", "fail", "restart", "wait_active"}
=============================================================================

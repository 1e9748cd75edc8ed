---------------------------- MODULE MCThreadPool ----------------------------
(***************************************************************************)
(* ThreadPool for TLC.  The threads, tasks and producers are model values  *)
(* of the configurations; symmetry is not used, since the runs also check  *)
(* liveness.                                                               *)
(***************************************************************************)
EXTENDS ThreadPool
=============================================================================

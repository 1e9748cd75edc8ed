---------------------------- MODULE MCWaitGroup ----------------------------
(***************************************************************************)
(* WaitGroup for TLC.  The threads are model values of the configuration;  *)
(* symmetry is not used, since the run also checks liveness.               *)
(***************************************************************************)
EXTENDS WaitGroup
=============================================================================

--------------------------- MODULE MCReactorServer ---------------------------
(***************************************************************************)
(* ReactorServer for TLC: the clients and the main reactors are model      *)
(* values of the configuration; sub reactors are numbered from 0.          *)
(***************************************************************************)
EXTENDS ReactorServer
=============================================================================

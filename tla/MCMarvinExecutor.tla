-------------------------- MODULE MCMarvinExecutor --------------------------
(***************************************************************************)
(* Small instances of the Marvin executor for TLC: the bounds are in the   *)
(* configurations.                                                         *)
(***************************************************************************)
EXTENDS MarvinExecutorProperties
=============================================================================

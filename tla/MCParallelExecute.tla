------------------------- MODULE MCParallelExecute --------------------------
(***************************************************************************)
(* Instances of ParallelExecute for TLC.                                   *)
(***************************************************************************)
EXTENDS ParallelExecute
=============================================================================

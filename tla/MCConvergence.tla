--------------------------- MODULE MCConvergence ----------------------------
(***************************************************************************)
(* Instances of Convergence for TLC.                                       *)
(***************************************************************************)
EXTENDS Convergence, TLC

CONSTANTS u1, u2, u3

MCSymmetry == Permutations(Ups)
=============================================================================

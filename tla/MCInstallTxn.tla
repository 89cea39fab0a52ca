---------------------------- MODULE MCInstallTxn ----------------------------
(***************************************************************************)
(* The install transaction on small instances.                             *)
(***************************************************************************)
EXTENDS InstallRefinement, TLC

Symmetry == Permutations(Refs)
=============================================================================

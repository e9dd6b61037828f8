------------------------------ MODULE MCDesignItem ------------------------------
(***************************************************************************)
(* Instances of DesignItem for TLC.                                        *)
(***************************************************************************)
EXTENDS DesignItem, TLC

Symmetry == Permutations(Values) \cup Permutations(Artifacts \ Shared)
=============================================================================

---------------------------- MODULE MCDesignItemSeen ----------------------------
(***************************************************************************)
(* Instances of DesignItemSeen for TLC.                                    *)
(***************************************************************************)
EXTENDS DesignItemSeen, TLC

Symmetry == Permutations(Values) \cup Permutations(Artifacts \ Shared)
=============================================================================

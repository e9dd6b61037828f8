---------------------------- MODULE MCDesignSession ----------------------------
(***************************************************************************)
(* A small design whose values are interchangeable.                        *)
(***************************************************************************)
EXTENDS DesignSession, TLC

ValueSymmetry == Permutations(Vals)
=============================================================================

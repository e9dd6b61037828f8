-------------------------- MODULE MCProjectTransaction --------------------------
(***************************************************************************)
(* Two managed files with two contents: the smallest tree on which a save  *)
(* needs the journal.  Edits, crashes, opens and saves are not bounded.    *)
(* The contents are interchangeable.                                       *)
(***************************************************************************)
EXTENDS ProjectTransaction, TLC

ContentSymmetry == Permutations(Contents)
=============================================================================

--------------------------- MODULE MCArtifactSession ---------------------------
(* ArtifactSession on small instances: keys and values are interchangeable. *)
EXTENDS ArtifactSession, TLC

KeyValueSymmetry == Permutations(Keys) \cup Permutations(Vals)
=============================================================================

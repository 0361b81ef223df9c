------------------------- MODULE MCGenerationCancel -------------------------
(* GenerationCancel on small instances; requests are interchangeable.      *)
EXTENDS GenerationCancel, TLC

RequestSymmetry == Permutations(Requests)
=============================================================================

-------------------------- MODULE MCResponsesChain --------------------------
(* ResponsesChain on small instances; requests are interchangeable.        *)
EXTENDS ResponsesChain, TLC

RequestSymmetry == Permutations(Requests)
=============================================================================

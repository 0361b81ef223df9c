--------------------------- MODULE MCRequestQueue ---------------------------
(* RequestQueue on small instances.  The workers are interchangeable: the  *)
(* specification names none of them, so the safety run may identify states *)
(* that differ by a permutation of them.                                   *)
EXTENDS RequestQueue, TLC

WorkerSymmetry == Permutations(Requests)
=============================================================================

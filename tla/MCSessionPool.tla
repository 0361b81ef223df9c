--------------------------- MODULE MCSessionPool ---------------------------
(* SessionPool on small instances.  Requests are interchangeable, and so   *)
(* are the session ids that clients choose.                                *)
EXTENDS SessionPool, TLC

PoolSymmetry == Permutations(Requests) \cup Permutations(ChatIds)
=============================================================================

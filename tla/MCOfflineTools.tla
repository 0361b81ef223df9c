--------------------------- MODULE MCOfflineTools ---------------------------
(* The tools on small instances: three output tensors, of which one has    *)
(* each native encoder, and two locks that share a blob.  Two invocations  *)
(* of one command line are interchangeable.                                *)
EXTENDS OfflineTools, TLC

CONSTANTS r1, r2, tA, tF, tN, x,    \* runs, tensors, an excluded tensor
          p1, p2, e1, e2,           \* attempts and examples
          l1, l2, b1, b2            \* locks and blobs

MCRuns == {r1, r2}
MCTensors == {tA, tF, tN}
MCExcluded == {x}
MCFp8 == {tF}
MCNvfp4 == {tN}
MCAttempts == {p1, p2}
MCExamples == {e1, e2}
MCLocks == {l1, l2}
MCBlobs == {b1, b2}
MCEntriesOf == [l \in MCLocks |-> IF l = l1 THEN {b1, b2} ELSE {b2}]

ToolSymmetry == Permutations(MCRuns)
=============================================================================

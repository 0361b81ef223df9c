------------------------- MODULE MCArtifactCompile -------------------------
EXTENDS ArtifactCompile
CONSTANTS r1, r2, tA, tF, tN, x
MCRuns == {r1, r2}
MCTensors == {tA, tF, tN}
MCExcluded == {x}
MCFp8 == {tF}
MCNvfp4 == {tN}
=============================================================================

---------------------------- MODULE TensorReports ----------------------------
(***************************************************************************)
(* The retained M05 reports: one source is compiled in two lanes, the      *)
(* compile report and the manifest of each are retained by hand, and the   *)
(* generator reconciles them into a tensor report and a QAT summary, or    *)
(* checks that those retained earlier are still what it would write.       *)
(*                                                                         *)
(* A compile stands for everything it writes: its commit, whether the      *)
(* worktree was dirty, its encoder and its statistics.  The plan and the   *)
(* configuration are those CompilePlans checks.                            *)
(***************************************************************************)
EXTENDS Naturals

CONSTANTS MaxCompiles, MaxRevisions, MaxReports

ASSUME ReportAssumption == {MaxCompiles, MaxRevisions, MaxReports} \subseteq Nat

Lanes == {"ordinary", "qat"}

VARIABLES worktree,       \* what the next compile is made with
          compile,        \* the last compile of each lane
          laneReport, laneManifest,   \* what is retained of each lane
          working,          \* where the generator is
          checking,       \* was it asked to check, not to write?
          loaded, named,  \* the lane reports it has parsed, and hashed
          tensorReport, qatSummary,
          verdict,        \* of the last check, while the files are those it read
          compiles, revisions, generated

reportVars == <<worktree, compile, laneReport, laneManifest, working, checking, loaded, named,
                tensorReport, qatSummary, verdict, compiles, revisions, generated>>
retained == <<laneReport, laneManifest>>
written == <<tensorReport, qatSummary, verdict>>
parsedLanes == <<loaded, named, checking>>

Worktree == [commit : 0..MaxRevisions, dirty : BOOLEAN, encoder : 0..1]
NoCompile == [commit |-> 0, dirty |-> FALSE, encoder |-> 0, run |-> 0]
Compiles == [commit : 0..MaxRevisions, dirty : BOOLEAN, encoder : 0..1, run : 0..MaxCompiles]
Nothing == [l \in Lanes |-> NoCompile]
NoDocument05 == [of |-> Nothing, names |-> Nothing, class |-> "none"]

ReportTypeOK ==
    /\ worktree \in Worktree
    /\ \A lanes \in {compile, laneReport, laneManifest, loaded, named, tensorReport.of,
                     tensorReport.names} : lanes \in [Lanes -> Compiles]
    /\ working \in {"rest", "load", "validate", "tensor", "summary"}
    /\ checking \in BOOLEAN /\ verdict \in {"none", "current", "stale"}
    /\ {qatSummary.of, qatSummary.names} \subseteq Compiles
    /\ {tensorReport.class, qatSummary.class} \subseteq {"none", "clean", "diagnostic"}
    /\ compiles \in 0..MaxCompiles /\ revisions \in 0..MaxRevisions /\ generated \in 0..MaxReports

ReportInit ==
    /\ worktree = [commit |-> 0, dirty |-> FALSE, encoder |-> 0]
    /\ compile = Nothing /\ laneReport = Nothing /\ laneManifest = Nothing
    /\ working = "rest" /\ checking = FALSE /\ loaded = Nothing /\ named = Nothing
    /\ tensorReport = NoDocument05
    /\ qatSummary = [of |-> NoCompile, names |-> NoCompile, class |-> "none"]
    /\ verdict = "none" /\ compiles = 0 /\ revisions = 0 /\ generated = 0

-----------------------------------------------------------------------------
\* The world: the worktree moves on, lanes are compiled, and files retained.
Revise ==
    /\ revisions < MaxRevisions /\ revisions' = revisions + 1
    /\ \E dirty \in BOOLEAN, encoder \in 0..1 :
          worktree' = [commit |-> revisions', dirty |-> dirty, encoder |-> encoder]
    /\ UNCHANGED <<compile, retained, working, parsedLanes, written, compiles, generated>>

CompileLane(l) ==
    /\ compiles < MaxCompiles /\ compiles' = compiles + 1
    /\ compile' = [compile EXCEPT ![l] =
           [commit |-> worktree.commit, dirty |-> worktree.dirty,
            encoder |-> worktree.encoder, run |-> compiles']]
    /\ UNCHANGED <<worktree, retained, working, parsedLanes, written, revisions, generated>>

RetainReport(l) ==
    /\ compile[l] # laneReport[l]
    /\ laneReport' = [laneReport EXCEPT ![l] = compile[l]]
    /\ UNCHANGED <<worktree, compile, laneManifest, working, parsedLanes, written, compiles,
                   revisions, generated>>

RetainManifest(l) ==
    /\ compile[l] # laneManifest[l]
    /\ laneManifest' = [laneManifest EXCEPT ![l] = compile[l]]
    /\ UNCHANGED <<worktree, compile, laneReport, working, parsedLanes, written, compiles,
                   revisions, generated>>

-----------------------------------------------------------------------------
World05 == <<worktree, compile, retained, compiles, revisions>>

\* The generator ends here, with its documents or without.
Leave == working' = "rest" /\ loaded' = Nothing /\ named' = Nothing /\ checking' = FALSE

StartReport ==
    /\ working = "rest" /\ generated < MaxReports /\ generated' = generated + 1
    /\ checking' \in BOOLEAN /\ working' = "load"
    /\ UNCHANGED <<World05, loaded, named, written>>

\* generate: both reports are parsed, the ordinary one first ...
LoadLane(l) ==
    /\ working = "load" /\ l = IF loaded["ordinary"] = NoCompile THEN "ordinary" ELSE "qat"
    /\ IF laneReport[l] = NoCompile THEN Leave
       ELSE /\ loaded' = [loaded EXCEPT ![l] = laneReport[l]]
            /\ working' = IF l = "qat" THEN "validate" ELSE "load"
            /\ UNCHANGED <<named, checking>>
    /\ UNCHANGED <<World05, written, generated>>

\* The two lanes must share the encoder and its build ...
SameNativeIdentity == loaded["ordinary"].encoder = loaded["qat"].encoder

\* ... and be both dirty, which is diagnostic, or both clean and of one commit.
\* Mutated form: the commits of clean lanes may differ.
ClassifiableByState == loaded["ordinary"].dirty = loaded["qat"].dirty

Classifiable ==
    /\ loaded["ordinary"].dirty = loaded["qat"].dirty
    /\ ~loaded["qat"].dirty => loaded["ordinary"].commit = loaded["qat"].commit

EvidenceClass == IF loaded["ordinary"].dirty THEN "diagnostic" ELSE "clean"

\* ... then each file is hashed, and the retained manifest must be the one the
\* parsed report names; the lanes are compared when both are done.
ValidateLane(l) ==
    /\ working = "validate" /\ l = IF named["ordinary"] = NoCompile THEN "ordinary" ELSE "qat"
    /\ IF laneManifest[l] = loaded[l] /\ (l = "qat" => SameNativeIdentity /\ Classifiable)
       THEN /\ named' = [named EXCEPT ![l] = laneReport[l]]
            /\ working' = IF l = "qat" THEN "tensor" ELSE "validate"
            /\ UNCHANGED <<loaded, checking>>
       ELSE Leave
    /\ UNCHANGED <<World05, written, generated>>

BuildTensorReport == [of |-> loaded, names |-> named, class |-> EvidenceClass]
BuildQatSummary == [of |-> loaded["qat"], names |-> named["qat"], class |-> EvidenceClass]

\* _write_or_check, for the tensor report and then for the summary: each file is
\* replaced atomically, or compared; the first that differs ends the check.
WriteTensorReport ==
    /\ working = "tensor"
    /\ IF ~checking THEN /\ tensorReport' = BuildTensorReport /\ verdict' = "none"
                         /\ working' = "summary" /\ UNCHANGED parsedLanes
       ELSE IF tensorReport = BuildTensorReport
       THEN working' = "summary" /\ UNCHANGED <<parsedLanes, tensorReport, verdict>>
       ELSE Leave /\ verdict' = "stale" /\ UNCHANGED tensorReport
    /\ UNCHANGED <<World05, qatSummary, generated>>

WriteQatSummary ==
    /\ working = "summary" /\ Leave
    /\ IF ~checking THEN qatSummary' = BuildQatSummary /\ verdict' = "none"
       ELSE /\ verdict' = IF qatSummary = BuildQatSummary THEN "current" ELSE "stale"
            /\ UNCHANGED qatSummary
    /\ UNCHANGED <<World05, tensorReport, generated>>

\* Killed between the two files, the generator leaves a pair that does not match.
KillReport ==
    /\ working # "rest" /\ Leave
    /\ UNCHANGED <<World05, written, generated>>

ReportNext ==
    \/ Revise \/ \E l \in Lanes : CompileLane(l) \/ RetainReport(l) \/ RetainManifest(l)
    \/ StartReport \/ \E l \in Lanes : LoadLane(l) \/ ValidateLane(l)
    \/ WriteTensorReport \/ WriteQatSummary \/ KillReport

ReportSpec == ReportInit /\ [][ReportNext]_reportVars

-----------------------------------------------------------------------------
\* Whatever is compiled and retained while the generator runs, a tensor report
\* compares lanes of one encoder, evidence called clean comes from one clean
\* commit, and a pair of files a check calls current describes one QAT compile
\* (_validate_lane, _evidence_class, _write_or_check).
RetainedReconcile ==
    LET lanes == tensorReport.of
    IN  /\ lanes["ordinary"].encoder = lanes["qat"].encoder
        /\ tensorReport.class = "clean" =>
               /\ lanes["ordinary"].commit = lanes["qat"].commit
               /\ \A l \in Lanes : ~lanes[l].dirty
        /\ verdict = "current" => /\ qatSummary.of = lanes["qat"]
                                  /\ qatSummary.class = tensorReport.class
=============================================================================

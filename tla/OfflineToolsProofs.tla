-------------------------- MODULE OfflineToolsProofs --------------------------
(***************************************************************************)
(* Proofs about the tools as they are run, one program at a time: each     *)
(* component behaves as its own specification says, so what its proofs     *)
(* promise holds for the tools together.                                   *)
(***************************************************************************)
EXTENDS OfflineTools, ArtifactCompileProofs, MeasurementProofs, DistributionProofs

\* Together the tools begin as each of them does ...
LEMMA ToolsBegin ==
  ToolsInit => /\ Init /\ PlanInit /\ TrellisInit /\ PackageInit /\ FetchInit /\ QualInit
               /\ EvalInit /\ TrialInit /\ ReportInit /\ program \in Programs
BY DEF ToolsInit

\* ... and a step is one of the program that is run, which no other tool sees.
LEMMA ToolsMove ==
  [ToolsNext]_toolVars =>
    /\ [Next]_vars /\ [PlanNext]_planVars /\ [TrellisNext]_trellisVars
    /\ [PackageNext]_packageVars /\ [FetchNext]_fetchVars /\ [QualNext]_qualVars
    /\ [EvalNext]_evalVars /\ [TrialNext]_trialVars /\ [ReportNext]_reportVars
    /\ UNCHANGED program
BY DEF ToolsNext, toolVars, QualNext, EvalNext

LEMMA ToolsAsEach ==
  ToolsSpec => /\ Spec /\ PlanSpec /\ TrellisSpec /\ PackageSpec /\ FetchSpec /\ QualSpec
               /\ EvalSpec /\ TrialSpec /\ ReportSpec
BY ToolsBegin, ToolsMove, PTL
   DEF ToolsSpec, Spec, PlanSpec, TrellisSpec, PackageSpec, FetchSpec, QualSpec, EvalSpec,
       TrialSpec, ReportSpec

\* The rows and records of an evaluation are of their kinds.
LEMMA EvalTypes == EvalInv => EvalTypeOK
BY DEF EvalInv, EvalKinds, Holding, SweepKinds, SweepFacts, EvalTypeOK

\* The program that is run is one of them, and all of the tools' variables keep
\* their kinds, whichever program it is.
THEOREM ToolsTypeCorrect == ToolsSpec => []ToolsTypeOK
<1>1. ToolsInit => program \in Programs
  BY DEF ToolsInit
<1>2. program \in Programs /\ [ToolsNext]_toolVars => (program \in Programs)'
  BY ToolsMove
<1>3. ToolsSpec => [](program \in Programs)
  BY <1>1, <1>2, PTL DEF ToolsSpec
<1>4. /\ program \in Programs /\ TypeOK /\ PlanInv /\ TrellisInv /\ PackageInv /\ FetchInv
      /\ QualInv /\ EvalInv /\ TrialInv /\ ReportInv
      => ToolsTypeOK
  BY PlansTyped, TrellisTypes, QualTypes, EvalTypes
     DEF ToolsTypeOK, PackageInv, FetchInv, TrialInv, ReportInv
<1> QED
  BY <1>3, <1>4, ToolsAsEach, TypeCorrect, PlanInvAlways, TrellisInvAlways, PackageInvAlways,
     FetchInvAlways, QualInvAlways, EvalInvAlways, TrialInvAlways, ReportInvAlways, PTL

\* While the source changes at most once, what has the output name is complete and
\* made of the locked source, the lock binds it, and verify_artifact passes nothing
\* else (compile_artifact, publish_staging, verify_artifact).
THEOREM ToolsPublishWhole ==
  ASSUME MaxSourceChanges <= 1
  PROVE  ToolsSpec => [](PublishedIsWhole /\ LockBindsOutput /\ VerdictSound)
BY ToolsAsEach, PublishedAlwaysWhole, LockAlwaysBinds, VerdictAlwaysSound, PTL

\* The compiler keeps the promise of Publication beside the other tools
\* (compile_artifact, publish_staging).
THEOREM ToolsKeepPromise == ToolsSpec => PromiseKept
BY ToolsAsEach, PromiseAlwaysKept, PTL

\* An artifact is only compiled from a plan that meets every source tensor just
\* once (_validate_coverage and the profiles' validators).
THEOREM ToolsPlansExact == ToolsSpec => []CompiledPlanExact
BY ToolsAsEach, CompiledPlansAlwaysExact, PTL

\* Retained reports and comparisons are about the artifacts they name
\* (_validate_lane, _reverify_artifact_files, _evidence_class, _write_or_check).
THEOREM ToolsEvidenceBound == ToolsSpec => []EvidenceBound
<1>1. PlanEvidenceBound /\ RetainedReconcile => EvidenceBound
  BY DEF EvidenceBound
<1> QED BY <1>1, ToolsAsEach, PlanEvidenceAlwaysBound, RetainedAlwaysReconcile, PTL

\* From the candidate cache to the device image every file is what the file
\* above it says (load_cached_candidate, package_trellis, validate_v1, build).
THEOREM ToolsReleaseExact == ToolsSpec => []ReleaseExact
BY ToolsAsEach, ReleaseAlwaysExact, PTL

\* What the file written last makes a package is whole, and a fetched lock is linked
\* to the right bytes (package_target, package_trellis, package_vision, install_entry).
THEOREM ToolsDeliverSound == ToolsSpec => [](PackagesSound /\ CacheSound)
BY ToolsAsEach, PackagesAlwaysSound, CacheAlwaysSound, PTL

\* What the gates accept, the evaluations report and the scripts around a server
\* state was measured so (run_diagnostic, execute_run, run_context, qualify,
\* benchmark_quality, summarize_runs).
THEOREM ToolsMeasureHonestly ==
  ToolsSpec => [](AcceptedIsMeasured /\ DiagnosticBound /\ EvaluationsExact /\ ReportsHonest)
BY ToolsAsEach, AcceptedAlwaysMeasured, DiagnosticAlwaysBound, EvaluationsAlwaysExact,
   TrialReportsAlwaysHonest, PTL
===============================================================================

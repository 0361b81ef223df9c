---------------------------- MODULE OfflineTools ----------------------------
(***************************************************************************)
(* The command line tools around the engine.  They are programs of their   *)
(* own that share nothing with each other but finished files, so a run     *)
(* takes one of them at a time: "program" says which, and the others stay  *)
(* where they begin.  The inputs of a tool (profiles, plan kinds, builds,  *)
(* what lies in the cache) are chosen when it is taken.                    *)
(***************************************************************************)
EXTENDS ArtifactCompile, CompilePlans, TrellisRelease, Packages, ModelFetch,
        Qualification, EvaluationRuns, ServerTrials, TensorReports

VARIABLE program    \* the family of tools that is run

toolVars == <<program, vars, planVars, trellisVars, packageVars, fetchVars, qualVars,
              evalVars, trialVars, reportVars>>

Programs == {"compile", "plan", "trellis", "package", "fetch", "target", "beside",
             "evaluate", "sweep", "trial", "report"}

\* The tools that are not run begin with one choice of their inputs.
Unused(name, choice) == program # name => choice

ToolsInit ==
    /\ program \in Programs
    /\ Init /\ Unused("compile", \A r \in Runs : profile[r] = CHOOSE p \in Profiles : TRUE)
    /\ PlanInit /\ Unused("plan", /\ checkpoint = FrozenSchema(kind) /\ reference = ExternalSchema
                                  /\ kind = CHOOSE k \in PlanKinds : TRUE)
    /\ TrellisInit /\ Unused("trellis", build = CHOOSE b \in Builds : TRUE)
    /\ FetchInit /\ Unused("fetch", \A b \in Blobs : blob[b] = None /\ partial[b] = None)
    /\ PackageInit /\ QualInit /\ EvalInit /\ TrialInit /\ ReportInit

ToolsNext ==
    /\ UNCHANGED program
    /\ \/ /\ program = "compile" /\ Next
          /\ UNCHANGED <<planVars, trellisVars, packageVars, fetchVars, qualVars, evalVars, trialVars, reportVars>>
       \/ /\ program = "plan" /\ PlanNext
          /\ UNCHANGED <<vars, trellisVars, packageVars, fetchVars, qualVars, evalVars, trialVars, reportVars>>
       \/ /\ program = "trellis" /\ TrellisNext
          /\ UNCHANGED <<vars, planVars, packageVars, fetchVars, qualVars, evalVars, trialVars, reportVars>>
       \/ /\ program = "package" /\ PackageNext
          /\ UNCHANGED <<vars, planVars, trellisVars, fetchVars, qualVars, evalVars, trialVars, reportVars>>
       \/ /\ program = "fetch" /\ FetchNext
          /\ UNCHANGED <<vars, planVars, trellisVars, packageVars, qualVars, evalVars, trialVars, reportVars>>
       \/ /\ program = "target" /\ TargetNext
          /\ UNCHANGED <<vars, planVars, trellisVars, packageVars, fetchVars, evalVars, trialVars, reportVars>>
       \/ /\ program = "beside" /\ BesideNext
          /\ UNCHANGED <<vars, planVars, trellisVars, packageVars, fetchVars, evalVars, trialVars, reportVars>>
       \/ /\ program = "evaluate" /\ QualityNext
          /\ UNCHANGED <<vars, planVars, trellisVars, packageVars, fetchVars, qualVars, trialVars, reportVars>>
       \/ /\ program = "sweep" /\ SweepNext
          /\ UNCHANGED <<vars, planVars, trellisVars, packageVars, fetchVars, qualVars, trialVars, reportVars>>
       \/ /\ program = "trial" /\ TrialNext
          /\ UNCHANGED <<vars, planVars, trellisVars, packageVars, fetchVars, qualVars, evalVars, reportVars>>
       \/ /\ program = "report" /\ ReportNext
          /\ UNCHANGED <<vars, planVars, trellisVars, packageVars, fetchVars, qualVars, evalVars,
                         trialVars>>

ToolsSpec == ToolsInit /\ [][ToolsNext]_toolVars

-----------------------------------------------------------------------------
\* The variables of the tools that are run stay of their kinds.
ToolsTypeOK ==
    /\ program \in Programs
    /\ program = "compile" => TypeOK
    /\ program = "plan" => PlanTypeOK
    /\ program = "trellis" => TrellisTypeOK
    /\ program = "package" => PackageTypeOK
    /\ program = "fetch" => FetchTypeOK
    /\ program \in {"target", "beside"} => QualTypeOK
    /\ program \in {"evaluate", "sweep"} => EvalTypeOK
    /\ program = "trial" => TrialTypeOK
    /\ program = "report" => ReportTypeOK

\* Evidence is about what it names, although files are read twice and change in
\* between: see PlanEvidenceBound and RetainedReconcile (_validate_lane,
\* _reverify_artifact_files, _evidence_class, _write_or_check).
EvidenceBound == PlanEvidenceBound /\ RetainedReconcile
=============================================================================

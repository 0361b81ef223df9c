---------------------------- MODULE CompilePlans ----------------------------
(***************************************************************************)
(* The compiler plans: how they are generated from the source inventory,   *)
(* edited, checked and loaded, profile by profile, and what is later       *)
(* reported about the artifact compiled from them.                         *)
(*                                                                         *)
(* One source tensor stands for each role a profile treats in its own way, *)
(* two for vision so that an exclusion can be doubled while another is     *)
(* dropped.  An output is the tensor it is made from, the last part of its *)
(* name and the family of its encoder; an operation is a tensor and a      *)
(* family.  A hash stands for what is hashed, so equal documents are equal *)
(* hashes.                                                                 *)
(***************************************************************************)
EXTENDS Naturals, FiniteSets

CONSTANTS MaxEdits,     \* edits by hand and other changes from outside
          ShardSizes,   \* values of target_shard_bytes
          PlanKinds     \* profiles under consideration

ASSUME PlanAssumption ==
    /\ MaxEdits \in Nat /\ ShardSizes # {}
    /\ PlanKinds \subseteq {"copied", "attention", "experts", "head", "complete", "assistant"}

VARIABLES kind,         \* the profile
          checkpoint,   \* names of its source tensors
          reference,    \* tensors of the quantized checkpoint it is compared with
          inventory,    \* does the retained inventory describe the frozen names?
          planFile, configured,   \* the plan, and the plan whose hash the config records
          parsed,       \* what the loader has parsed, before it hashes the file
          compiled,     \* the artifact: the plan it follows and the one it names
          reported,     \* the same for the retained tensor report
          comparison,   \* the comparison with the reference checkpoint
          damaged,      \* have the artifact's files changed since?
          edits

planVars == <<kind, checkpoint, reference, inventory, planFile, configured, parsed, compiled,
              reported, comparison, damaged, edits>>

schemas == <<kind, checkpoint, reference>>

Vision == {"vision tower", "vision projection"}
FrozenSchema(profile) == {"attention", "expert", "tied head", "norm"}
                   \cup (IF profile = "assistant" THEN {} ELSE Vision)

Parts(family) ==
    CASE family = "copy"     -> {"weight"}
      [] family = "fp8"      -> {"weight", "weight_scale"}
      [] family = "nvfp4"    -> {"weight_packed", "weight_scale", "weight_global_scale",
                                 "input_global_scale"}
      [] family = "constant" -> {"k_scale"}

Made(source, family) == {[of |-> source, name |-> n, family |-> family] : n \in Parts(family)}
CacheScale == Made("nothing", "constant")
Outputs(profile) ==
    CacheScale \cup UNION {Made(s, "copy") \cup Made(s, "fp8") \cup Made(s, "nvfp4")
                            : s \in FrozenSchema(profile)}

\* What the reference checkpoint quantizes, and what it leaves as it was.
ExternalSchema ==
    Made("attention", "fp8") \cup Made("expert", "nvfp4") \cup CacheScale
    \cup UNION {Made(s, "copy") : s \in Vision \cup {"tied head", "norm"}}

\* The forecast of compiled-hybrid.json: what the compiler will make of each
\* source tensor, by its role.
CompiledSummary(sources) ==
    CacheScale \cup UNION {Made(s, CASE s \in {"tied head", "expert"} -> "nvfp4"
                                    [] s = "attention" -> "fp8"
                                    [] OTHER -> "copy") : s \in sources \ Vision}

From(plan, source) == {t \in plan.tensors : t.of = source}
Transformed(plan) == {t.of : t \in plan.tensors} \ {"nothing"}
Excluding(sources, profile) == [s \in FrozenSchema(profile) |-> IF s \in sources THEN 1 ELSE 0]

-----------------------------------------------------------------------------
\* The generators, one per profile, each from the inventory; the complete one
\* joins the tensors of the three others and copies what they leave.
Attention == Made("attention", "fp8")
Experts == Made("expert", "nvfp4")
HeadOutputs == Made("tied head", "nvfp4")

HybridTensors ==
    LET joined == Attention \cup Experts \cup HeadOutputs
        left == (FrozenSchema("complete") \ Vision) \ {t.of : t \in joined}
    IN  joined \cup CacheScale \cup UNION {Made(s, "copy") : s \in left}

AssistantTensors ==
    UNION {Made(s, CASE s \in {"tied head", "expert"} -> "nvfp4"
                     [] s = "attention" -> "fp8"
                     [] OTHER -> "copy") : s \in FrozenSchema("assistant")}

Recipe(profile, shard) ==
    LET tensors == CASE profile = "copied"    ->
                            UNION {Made(s, "copy") : s \in FrozenSchema(profile) \ Vision}
                     [] profile = "attention" -> Attention
                     [] profile = "experts"   -> Experts
                     [] profile = "head"      -> HeadOutputs
                     [] profile = "complete"  -> HybridTensors
                     [] profile = "assistant" -> AssistantTensors
    IN  [tensors |-> tensors, shard |-> shard,
         excluded |-> Excluding(FrozenSchema(profile) \ {t.of : t \in tensors}, profile)]

-----------------------------------------------------------------------------
\* profiles.py: the encoders a profile allows.
AllowedEncoders(profile) ==
    CASE profile = "copied" -> {"copy"}
      [] profile = "attention" -> {"fp8"}
      [] profile \in {"experts", "head"} -> {"nvfp4"}
      [] profile = "complete" -> {"copy", "constant", "fp8", "nvfp4"}
      [] profile = "assistant" -> {"copy", "fp8", "nvfp4"}

\* _tensor_plan and the checks of load_quantization_plan on single records.
WellFormed(plan, profile) ==
    /\ plan.tensors # {}
    /\ \A t \in plan.tensors : t.family \in AllowedEncoders(profile)
    /\ \A t, u \in plan.tensors : t.of = u.of /\ t.name = u.name => t = u

\* What a group of outputs must be: a weight with its scale, the four
\* components, or a single copy.
Pair(plan, source) == From(plan, source) = Made(source, "fp8")
Quad(plan, source) == From(plan, source) = Made(source, "nvfp4")
Copied(plan, source) == From(plan, source) = Made(source, "copy")

\* The profiles' source inventories are frozen: other names are refused.
SourceInventory(profile, sources) == sources = FrozenSchema(profile)

AttentionCoverage(plan, sources) ==
    /\ SourceInventory("attention", sources)
    /\ "attention" \in Transformed(plan)
    /\ \A s \in Transformed(plan) : s = "attention" /\ Pair(plan, s)
    /\ plan.excluded["attention"] = 0

ExpertCoverage(plan, sources) ==
    /\ SourceInventory("experts", sources)
    /\ Transformed(plan) = {"expert"}
    /\ Quad(plan, "expert")

Number(excluded) == Cardinality({e \in (DOMAIN excluded) \X (1..2) : e[2] <= excluded[e[1]]})

HeadCoverage(plan, sources) ==
    /\ SourceInventory("head", sources)
    /\ Transformed(plan) = {"tied head"} /\ Quad(plan, "tied head")
    /\ Number(plan.excluded) = Cardinality(sources) - 1
    /\ plan.excluded["tied head"] = 0

HybridCoverage(plan, sources) ==
    /\ SourceInventory("complete", sources)
    /\ Quad(plan, "tied head") /\ Quad(plan, "expert") /\ Pair(plan, "attention")
    /\ Copied(plan, "norm")
    /\ From(plan, "nothing") = CacheScale
    /\ Cardinality(plan.tensors) = Cardinality(HybridTensors)
    /\ Number(plan.excluded) = Cardinality(Vision)
    /\ \A s \in sources : plan.excluded[s] > 0 => s \in Vision

AssistantCoverage(plan, sources) ==
    /\ SourceInventory("assistant", sources)
    /\ Number(plan.excluded) = 0
    /\ Transformed(plan) = sources
    /\ Quad(plan, "tied head") /\ Quad(plan, "expert")
    /\ Pair(plan, "attention") /\ Copied(plan, "norm")

ProfileCoverage(plan, profile, sources) ==
    CASE profile = "copied" -> TRUE
      [] profile = "attention" -> AttentionCoverage(plan, sources)
      [] profile = "experts" -> ExpertCoverage(plan, sources)
      [] profile = "head" -> HeadCoverage(plan, sources)
      [] profile = "complete" -> HybridCoverage(plan, sources)
      [] profile = "assistant" -> AssistantCoverage(plan, sources)

\* Mutated form: entries are counted instead of compared.
CoverageByCount(plan, profile, sources) ==
    /\ \A t \in plan.tensors : t.of \in sources \cup {"nothing"}
    /\ ProfileCoverage(plan, profile, sources)
    /\ Cardinality(Transformed(plan)) + Number(plan.excluded) = Cardinality(sources)

\* _validate_coverage: known sources, one operation for each, the profile's own
\* rules, no source both compiled and excluded or excluded twice, none left over.
Coverage(plan, profile, sources) ==
    /\ \A t \in plan.tensors : t.of \in sources \cup {"nothing"}
    /\ \A t, u \in plan.tensors : t.of = u.of => t.family = u.family
    /\ ProfileCoverage(plan, profile, sources)
    /\ \A s \in DOMAIN plan.excluded :
           plan.excluded[s] <= (IF s \in Transformed(plan) THEN 0 ELSE 1)
    /\ Transformed(plan) \cup {s \in DOMAIN plan.excluded : plan.excluded[s] > 0} = sources

-----------------------------------------------------------------------------
NoDocument == [tensors |-> {}, shard |-> 0, excluded |-> <<>>]
NoArtifact == [plan |-> NoDocument, names |-> NoDocument]
NoComparison == [step |-> "none", clean |-> TRUE]

PlanOf(profile) == [tensors : SUBSET Outputs(profile), shard : ShardSizes,
                    excluded : [FrozenSchema(profile) -> 0..2]]

PlanTypeOK ==
    /\ kind \in PlanKinds /\ checkpoint \subseteq FrozenSchema(kind) \cup {"unknown"}
    /\ reference \subseteq ExternalSchema
    /\ inventory \in BOOLEAN /\ damaged \in BOOLEAN /\ edits \in 0..MaxEdits
    /\ LET documents == PlanOf(kind)
       IN  \A p \in {planFile, configured, parsed, compiled.plan, compiled.names,
                     reported.plan, reported.names} : p = NoDocument \/ p \in documents
    /\ comparison \in [step : {"none", "native", "recheck", "done"}, clean : BOOLEAN]

\* The locked checkpoint has the frozen names, or one more.
PlanInit ==
    /\ kind \in PlanKinds
    /\ checkpoint \in {FrozenSchema(kind), FrozenSchema(kind) \cup {"unknown"}}
    /\ \/ reference = ExternalSchema
       \/ checkpoint = FrozenSchema(kind) /\ reference = ExternalSchema \ CacheScale
    /\ inventory = FALSE /\ planFile = NoDocument /\ configured = NoDocument
    /\ parsed = NoDocument /\ compiled = NoArtifact /\ reported = NoArtifact
    /\ comparison = NoComparison /\ damaged = FALSE /\ edits = 0

TouchPlan == edits < MaxEdits /\ edits' = edits + 1
Default == CHOOSE n \in ShardSizes : TRUE

\* require_exact_schema: nothing missing, nothing unexpected.
RequireExactSchema(actual, expected) == actual = expected

\* build_outputs: the inventories are written only for the schemas it expects.
GenerateManifests ==
    /\ ~inventory /\ inventory' = TRUE /\ kind # "copied"
    /\ RequireExactSchema(checkpoint, FrozenSchema(kind))
    /\ RequireExactSchema(reference, ExternalSchema)
    /\ UNCHANGED <<schemas, planFile, configured, parsed, compiled, reported,
                   comparison, damaged, edits>>

\* generate: the plan is written first, then the config with its hash, where the
\* profile has one.  The synthetic profile has no generator: its plan is written
\* by a test.
WritePlan ==
    /\ inventory \/ kind = "copied"
    /\ planFile' = Recipe(kind, Default)
    /\ UNCHANGED <<schemas, inventory, configured, parsed, compiled, reported,
                   comparison, damaged, edits>>

WriteConfig ==
    /\ kind \in {"attention", "experts", "head"} /\ inventory
    /\ planFile = Recipe(kind, Default) /\ configured' = planFile
    /\ UNCHANGED <<schemas, inventory, planFile, parsed, compiled, reported,
                   comparison, damaged, edits>>

\* An edit by hand, or a plan left by another revision.
EditPlan ==
    /\ TouchPlan /\ planFile # NoDocument
    /\ \/ \E t \in Outputs(kind) :
              planFile' = [planFile EXCEPT !.tensors = IF t \in @ THEN @ \ {t} ELSE @ \cup {t}]
       \/ \E s \in FrozenSchema(kind), n \in 0..2 : planFile' = [planFile EXCEPT !.excluded[s] = n]
       \/ \E n \in ShardSizes : planFile' = [planFile EXCEPT !.shard = n]
    /\ planFile' # planFile
    /\ UNCHANGED <<schemas, inventory, configured, parsed, compiled, reported,
                   comparison, damaged>>

\* load_quantization_plan parses the document (a --shard-size overrides its own) ...
ParsePlan ==
    /\ compiled = NoArtifact /\ planFile # NoDocument
    /\ \E n \in ShardSizes : parsed' = [planFile EXCEPT !.shard = n]
    /\ UNCHANGED <<schemas, inventory, planFile, configured, compiled, reported,
                   comparison, damaged, edits>>

\* ... and hashes what a second read of the file returns; an accepted plan is
\* compiled, a refused one leaves nothing.
LoadQuantizationPlan ==
    /\ parsed # NoDocument /\ parsed' = NoDocument
    /\ compiled' = IF WellFormed(parsed, kind) /\ Coverage(parsed, kind, checkpoint)
                   THEN [plan |-> parsed, names |-> planFile]
                   ELSE compiled
    /\ UNCHANGED <<schemas, inventory, planFile, configured, reported, comparison,
                   damaged, edits>>

\* The artifact's files change behind the tools' back.
DamageArtifact ==
    /\ TouchPlan /\ compiled # NoArtifact /\ ~damaged /\ damaged' = TRUE
    /\ UNCHANGED <<schemas, inventory, planFile, configured, parsed, compiled,
                   reported, comparison>>

-----------------------------------------------------------------------------
\* Mutated form: the hash of the file is enough.
ReportLaneByFileHash ==
    /\ kind = "attention" /\ compiled # NoArtifact
    /\ configured = planFile /\ compiled.names = planFile
    /\ reported' = compiled
    /\ UNCHANGED <<schemas, inventory, planFile, configured, parsed, compiled,
                   comparison, damaged, edits>>

\* The M05 report: config, plan file, and both hashes of the compile report agree.
ReportLane ==
    /\ kind = "attention" /\ compiled # NoArtifact
    /\ configured = planFile /\ compiled.names = planFile /\ compiled.plan = planFile
    /\ reported' = compiled
    /\ UNCHANGED <<schemas, inventory, planFile, configured, parsed, compiled,
                   comparison, damaged, edits>>

\* compare_attention: every file of the artifact agrees with its manifest ...
StartComparison ==
    /\ kind = "attention" /\ compiled # NoArtifact /\ ~damaged
    /\ comparison = NoComparison /\ comparison' = [step |-> "native", clean |-> TRUE]
    /\ UNCHANGED <<schemas, inventory, planFile, configured, parsed, compiled,
                   reported, damaged, edits>>

\* ... the native tool reads it ...
NativePass ==
    /\ comparison.step = "native" /\ comparison' = [step |-> "recheck", clean |-> ~damaged]
    /\ UNCHANGED <<schemas, inventory, planFile, configured, parsed, compiled,
                   reported, damaged, edits>>

\* ... and they still agree afterwards, or nothing is reported.
ReverifyArtifact ==
    /\ comparison.step = "recheck"
    /\ comparison' = IF damaged THEN NoComparison ELSE [comparison EXCEPT !.step = "done"]
    /\ UNCHANGED <<schemas, inventory, planFile, configured, parsed, compiled,
                   reported, damaged, edits>>

PlanNext ==
    \/ GenerateManifests \/ WritePlan \/ WriteConfig \/ EditPlan \/ ParsePlan
    \/ LoadQuantizationPlan \/ DamageArtifact \/ ReportLane
    \/ StartComparison \/ NativePass \/ ReverifyArtifact

PlanSpec == PlanInit /\ [][PlanNext]_planVars

-----------------------------------------------------------------------------
\* What a profile does with a source, stated once for all of them.
Fate(profile, source) ==
    IF source \in Vision /\ profile # "copied" THEN "excluded"
    ELSE CASE profile = "attention" -> IF source = "attention" THEN "fp8" ELSE "excluded"
           [] profile = "experts"   -> IF source = "expert" THEN "nvfp4" ELSE "excluded"
           [] profile = "head"      -> IF source = "tied head" THEN "nvfp4" ELSE "excluded"
           [] profile \in {"complete", "assistant"} ->
                  CASE source = "attention" -> "fp8"
                    [] source = "norm"      -> "copy"
                    [] OTHER                -> "nvfp4"
           [] profile = "copied"    -> "copy or excluded"

Meets(plan, source, fate) ==
    LET out == plan.excluded[source]
    IN  CASE fate = "excluded" -> From(plan, source) = {} /\ out = 1
          [] fate = "copy or excluded" ->
                 \/ From(plan, source) = {} /\ out = 1
                 \/ Copied(plan, source) /\ out = 0
          [] OTHER -> From(plan, source) = Made(source, fate) /\ out = 0

\* Whatever was edited, an artifact is only compiled from a plan under which
\* every source tensor of the checkpoint meets its profile's fate exactly once:
\* no half pair, no tensor left over, excluded twice, or compiled and excluded;
\* and a complete artifact has just the tensors the manifests have forecast
\* (_validate_coverage and the profiles' validators, compiled_summary).
CompiledPlanExact ==
    compiled # NoArtifact =>
        /\ checkpoint = FrozenSchema(kind)
        /\ \A s \in checkpoint : Meets(compiled.plan, s, Fate(kind, s))
        /\ {t.of : t \in compiled.plan.tensors} \subseteq checkpoint \cup {"nothing"}
        /\ kind = "complete" => compiled.plan.tensors = CompiledSummary(checkpoint)

\* Evidence is about the artifact it names although the plan is read twice and
\* the artifact long after it was checked: a retained tensor report names the
\* plan the compiler followed, a comparison has read what the manifest lists
\* (_validate_lane, _reverify_artifact_files).
PlanEvidenceBound ==
    /\ reported # NoArtifact => reported.plan = reported.names
    /\ comparison.step = "done" => comparison.clean
=============================================================================

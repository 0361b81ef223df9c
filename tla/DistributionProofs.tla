------------------------- MODULE DistributionProofs --------------------------
(***************************************************************************)
(* Proofs about what the tools build and hand on, for any number of        *)
(* layers, builds, locks, blobs, edits, kills and faults: the plans a      *)
(* compile may follow, the Trellis35 checkpoint and its device image, the  *)
(* packages and the download.  The invariants are inductive because they   *)
(* say, beside the property, what the running tool holds of the files it   *)
(* has read.                                                               *)
(***************************************************************************)
EXTENDS CompilePlans, TrellisRelease, Packages, ModelFetch, FiniteSetTheorems, TLAPS

-----------------------------------------------------------------------------
(* The plans of the compiler (CompilePlans).                               *)

(* The documents are plans of the profile, or not there.                   *)
Documents == PlanOf(kind) \cup {NoDocument}

PlanTypes ==
  /\ kind \in PlanKinds
  /\ checkpoint \in {FrozenSchema(kind), FrozenSchema(kind) \cup {"unknown"}}
  /\ reference \in SUBSET ExternalSchema
  /\ inventory \in BOOLEAN /\ damaged \in BOOLEAN /\ edits \in 0..MaxEdits
  /\ planFile \in Documents /\ configured \in Documents /\ parsed \in Documents
  /\ compiled # NoArtifact => compiled.plan \in PlanOf(kind) /\ compiled.names \in Documents
  /\ reported # NoArtifact => reported.plan \in PlanOf(kind) /\ reported.names \in Documents
  /\ comparison \in [step : {"none", "native", "recheck", "done"}, clean : BOOLEAN]

(* What the compiler has followed it has checked before, against the       *)
(* checkpoint that is still there.                                         *)
Checked ==
  compiled # NoArtifact =>
    WellFormed(compiled.plan, kind) /\ Coverage(compiled.plan, kind, checkpoint)

(* A comparison that is about to be confirmed has read what is there,      *)
(* unless it is damaged now.                                               *)
ComparisonFacts == comparison.step = "recheck" /\ ~damaged => comparison.clean

PlanInv == PlanTypes /\ Checked /\ ComparisonFacts /\ PlanEvidenceBound

-----------------------------------------------------------------------------
(* The parts of an encoder's output, spelled out.                          *)
LEMMA PartsOf ==
  /\ Parts("copy") = {"weight"}
  /\ Parts("fp8") = {"weight", "weight_scale"}
  /\ Parts("nvfp4") = {"weight_packed", "weight_scale", "weight_global_scale", "input_global_scale"}
  /\ Parts("constant") = {"k_scale"}
BY DEF Parts

\* What is made of a source says so.
LEMMA MadeOf ==
  ASSUME NEW s, NEW f, NEW t \in Made(s, f)
  PROVE  t.of = s /\ t.family = f /\ t.name \in Parts(f)
         /\ t = [of |-> t.of, name |-> t.name, family |-> t.family]
BY DEF Made

\* Every encoder makes something.
LEMMA MadeSome ==
  ASSUME NEW s, NEW f \in {"copy", "fp8", "nvfp4", "constant"} PROVE Made(s, f) # {}
<1>1. PICK n : n \in Parts(f)
  BY PartsOf
<1>2. [of |-> s, name |-> n, family |-> f] \in Made(s, f)
  BY <1>1 DEF Made
<1> QED BY <1>2

(* Every possible output is made of a known tensor by a known encoder.     *)
LEMMA OutputMade ==
  ASSUME NEW k, NEW t \in Outputs(k)
  PROVE  \/ t.of = "nothing" /\ t \in CacheScale
         \/ t.of \in FrozenSchema(k) /\ t.family \in {"copy", "fp8", "nvfp4"}
              /\ t \in Made(t.of, t.family)
<1>1. CASE t \in CacheScale
  BY <1>1, MadeOf DEF CacheScale
<1>2. ASSUME NEW s \in FrozenSchema(k), NEW f \in {"copy", "fp8", "nvfp4"}, t \in Made(s, f)
      PROVE  t.of = s /\ t.family = f
  BY <1>2, MadeOf
<1> QED BY <1>1, <1>2 DEF Outputs

\* The frozen names, by profile.
LEMMA SchemaOf ==
  /\ \A k : {"attention", "expert", "tied head", "norm"} \subseteq FrozenSchema(k)
  /\ \A k : k # "assistant" =>
               FrozenSchema(k) = {"attention", "expert", "tied head", "norm"} \cup Vision
  /\ FrozenSchema("assistant") = {"attention", "expert", "tied head", "norm"}
  /\ \A k : "nothing" \notin FrozenSchema(k) /\ "unknown" \notin FrozenSchema(k)
  /\ Vision \cap {"attention", "expert", "tied head", "norm"} = {}
BY DEF FrozenSchema, Vision

(* One source of an accepted plan: without an output it is excluded just   *)
(* once, with one it is not.                                               *)
LEMMA OneOrOther ==
  ASSUME NEW k, NEW plan \in PlanOf(k), NEW sources, sources = FrozenSchema(k),
         Coverage(plan, k, sources), NEW s \in sources
  PROVE  /\ plan.excluded[s] \in 0..2 /\ s # "nothing"
         /\ s \in Transformed(plan) <=> From(plan, s) # {}
         /\ From(plan, s) = {} => plan.excluded[s] = 1
         /\ From(plan, s) # {} => plan.excluded[s] = 0
<1>1. plan.excluded \in [FrozenSchema(k) -> 0..2]
  BY DEF PlanOf
<1>2. plan.excluded[s] \in 0..2 /\ s # "nothing" /\ s \in DOMAIN plan.excluded
  BY <1>1, SchemaOf
<1>3. s \in Transformed(plan) <=> From(plan, s) # {}
  BY <1>2 DEF Transformed, From
<1>4. plan.excluded[s] <= (IF s \in Transformed(plan) THEN 0 ELSE 1)
  BY <1>2 DEF Coverage
<1>5. s \notin Transformed(plan) => plan.excluded[s] > 0
  BY DEF Coverage
<1> QED BY <1>2, <1>3, <1>4, <1>5

(* Two different things are two.                                           *)
LEMMA PairCounts ==
  ASSUME NEW a, NEW b, a # b PROVE IsFiniteSet({a, b}) /\ Cardinality({a, b}) = 2
<1>1. IsFiniteSet({a}) /\ Cardinality({a}) = 1
  BY FS_Singleton
<1>2. {a, b} = {a} \cup {b} /\ b \notin {a}
  OBVIOUS
<1> QED BY <1>1, <1>2, FS_AddElement

(* A pair of excluded vision tensors is all there can be: two entries for  *)
(* two names, none of them double.                                         *)
LEMMA TwoOfVision ==
  ASSUME NEW e \in [FrozenSchema("complete") -> 0..2], Number(e) = Cardinality(Vision),
         \A s \in FrozenSchema("complete") : e[s] > 0 => s \in Vision,
         \A s \in FrozenSchema("complete") : e[s] <= 1
  PROVE  \A s \in Vision : e[s] = 1
<1> DEFINE Entries == {p \in (DOMAIN e) \X (1..2) : p[2] <= e[p[1]]}
           Once == {<<"vision tower", 1>>, <<"vision projection", 1>>}
<1>1. Entries \subseteq Once
  <2> SUFFICES ASSUME NEW p \in Entries PROVE p \in Once
    OBVIOUS
  <2>1. p[1] \in FrozenSchema("complete") /\ p[2] \in 1..2 /\ p[2] <= e[p[1]] /\ p = <<p[1], p[2]>>
    OBVIOUS
  <2>2. e[p[1]] \in 0..2 /\ e[p[1]] <= 1
    BY <2>1
  <2>3. p[2] = 1 /\ p[1] \in Vision
    BY <2>1, <2>2
  <2> QED BY <2>1, <2>3 DEF Vision
<1>2. IsFiniteSet(Once) /\ Cardinality(Once) = 2
  <2>1. <<"vision tower", 1>> # <<"vision projection", 1>>
    OBVIOUS
  <2> QED BY <2>1, PairCounts
<1>3. Cardinality(Vision) = 2
  BY PairCounts DEF Vision
<1>4. Entries = Once
  <2>1. Cardinality(Entries) = 2
    BY <1>3 DEF Number
  <2> QED BY <1>1, <1>2, <2>1, FS_Subset
<1> SUFFICES ASSUME NEW s \in Vision PROVE e[s] = 1
  OBVIOUS
<1>5. s \in FrozenSchema("complete")
  BY DEF FrozenSchema
<1>6. <<s, 1>> \in Entries
  BY <1>4 DEF Vision
<1>7. 1 <= e[s]
  BY <1>6
<1>8. e[s] \in 0..2 /\ e[s] <= 1
  BY <1>5
<1> QED BY <1>7, <1>8

(* What a complete plan leaves out is the vision, once each.               *)
LEMMA CompleteLeavesVision ==
  ASSUME NEW plan \in PlanOf("complete"), NEW sources,
         Coverage(plan, "complete", sources)
  PROVE  /\ sources = FrozenSchema("complete") /\ HybridCoverage(plan, sources)
         /\ \A s \in Vision : plan.excluded[s] = 1 /\ From(plan, s) = {}
<1>1. sources = FrozenSchema("complete") /\ HybridCoverage(plan, sources)
  BY DEF Coverage, ProfileCoverage, HybridCoverage, SourceInventory
<1>2. plan.excluded \in [FrozenSchema("complete") -> 0..2]
  BY DEF PlanOf
<1>3. \A s \in FrozenSchema("complete") : plan.excluded[s] <= 1
  BY <1>1, OneOrOther
<1>4. \A s \in Vision : plan.excluded[s] = 1
  <2>1. /\ Number(plan.excluded) = Cardinality(Vision)
        /\ \A s \in FrozenSchema("complete") : plan.excluded[s] > 0 => s \in Vision
    BY <1>1 DEF HybridCoverage
  <2> QED BY <1>2, <1>3, <2>1, TwoOfVision
<1>5. ASSUME NEW s \in Vision PROVE From(plan, s) = {}
  <2>1. s \in sources
    BY <1>1 DEF FrozenSchema
  <2> QED BY <1>1, <1>4, <2>1, OneOrOther
<1> QED BY <1>1, <1>4, <1>5

(* An accepted plan is one for the frozen names, and for nothing else.     *)
LEMMA AcceptedNames ==
  ASSUME NEW k \in {"copied", "attention", "experts", "head", "complete", "assistant"},
         NEW plan \in PlanOf(k), NEW sources,
         sources \in {FrozenSchema(k), FrozenSchema(k) \cup {"unknown"}},
         Coverage(plan, k, sources)
  PROVE  sources = FrozenSchema(k)
<1>1. CASE k = "copied"
  <2>1. Transformed(plan) \cup {s \in DOMAIN plan.excluded : plan.excluded[s] > 0} = sources
    BY DEF Coverage
  <2>2. DOMAIN plan.excluded = FrozenSchema(k)
    BY DEF PlanOf
  <2>3. "unknown" \notin Transformed(plan)
    <3>1. ASSUME NEW t \in plan.tensors PROVE t.of # "unknown"
      <4>1. t \in Outputs(k)
        BY DEF PlanOf
      <4>2. t.of = "nothing" \/ t.of \in FrozenSchema(k)
        BY <4>1, OutputMade
      <4> QED BY <4>2, SchemaOf
    <3> QED BY <3>1 DEF Transformed
  <2> QED BY <2>1, <2>2, <2>3, SchemaOf
<1>2. CASE k # "copied"
  BY <1>2 DEF Coverage, ProfileCoverage, SourceInventory, AttentionCoverage, ExpertCoverage,
              HeadCoverage, HybridCoverage, AssistantCoverage
<1> QED BY <1>1, <1>2

(* Every source of an accepted plan meets what its profile has in store.   *)
LEMMA FateMet ==
  ASSUME NEW k \in {"copied", "attention", "experts", "head", "complete", "assistant"},
         NEW plan \in PlanOf(k), NEW sources, sources = FrozenSchema(k),
         WellFormed(plan, k), Coverage(plan, k, sources), NEW s \in sources
  PROVE  Meets(plan, s, Fate(k, s))
<1> USE PartsOf, MadeSome
<1>1. /\ From(plan, s) = {} => plan.excluded[s] = 1
      /\ From(plan, s) # {} => plan.excluded[s] = 0
      /\ s \in Transformed(plan) <=> From(plan, s) # {}
  BY OneOrOther
<1>2. From(plan, s) = {} => Meets(plan, s, "excluded")
  BY <1>1 DEF Meets
<1>3. ASSUME NEW f \in {"copy", "fp8", "nvfp4"}, From(plan, s) = Made(s, f)
      PROVE  Meets(plan, s, f)
  BY <1>1, <1>3 DEF Meets
<1>4. CASE k = "copied"
  <2>1. ASSUME From(plan, s) # {} PROVE From(plan, s) = Made(s, "copy")
    <3>1. ASSUME NEW t \in From(plan, s)
          PROVE  t \in Made(s, "copy") /\ t.name = "weight"
      <4>1. t \in Outputs(k) /\ t.of = s /\ t.family = "copy" /\ s # "nothing"
        BY <1>4, <3>1, SchemaOf DEF From, PlanOf, WellFormed, AllowedEncoders
      <4>2. t \in Made(s, "copy")
        BY <4>1, OutputMade
      <4> QED BY <4>2, MadeOf
    <3>2. Made(s, "copy") = {[of |-> s, name |-> "weight", family |-> "copy"]}
      BY DEF Made
    <3> QED BY <2>1, <3>1, <3>2
  <2>2. Fate(k, s) = "copy or excluded"
    BY <1>4 DEF Fate
  <2> QED BY <1>1, <2>1, <2>2 DEF Meets, Copied
<1>5. CASE k = "attention"
  <2>1. AttentionCoverage(plan, sources)
    BY <1>5 DEF Coverage, ProfileCoverage
  <2>2. CASE s = "attention"
    BY <1>3, <1>5, <2>1, <2>2, SchemaOf DEF AttentionCoverage, Pair, Fate
  <2>3. CASE s # "attention"
    BY <1>1, <1>2, <1>5, <2>1, <2>3 DEF AttentionCoverage, Fate
  <2> QED BY <2>2, <2>3
<1>6. CASE k \in {"experts", "head"}
  <2> DEFINE one == IF k = "experts" THEN "expert" ELSE "tied head"
  <2>1. Transformed(plan) = {one} /\ From(plan, one) = Made(one, "nvfp4")
    BY <1>6 DEF Coverage, ProfileCoverage, ExpertCoverage, HeadCoverage, Quad
  <2>2. CASE s = one
    BY <1>3, <1>6, <2>1, <2>2, SchemaOf DEF Fate
  <2>3. CASE s # one
    BY <1>1, <1>2, <1>6, <2>1, <2>3 DEF Fate
  <2> QED BY <2>2, <2>3
<1>7. CASE k = "complete"
  <2>1. HybridCoverage(plan, sources) /\ \A v \in Vision : From(plan, v) = {}
    BY <1>7, CompleteLeavesVision
  <2>2. CASE s \in Vision
    BY <1>2, <1>7, <2>1, <2>2 DEF Fate
  <2>3. CASE s \in {"attention", "expert", "tied head", "norm"}
    <3>1. s \notin Vision
      BY <2>3, SchemaOf
    <3> DEFINE f == IF s = "attention" THEN "fp8" ELSE IF s = "norm" THEN "copy" ELSE "nvfp4"
    <3>2. From(plan, s) = Made(s, f)
      BY <2>1, <2>3 DEF HybridCoverage, Quad, Pair, Copied
    <3>3. Fate(k, s) = f
      BY <1>7, <2>3, <3>1 DEF Fate
    <3> QED BY <1>3, <3>2, <3>3
  <2> QED BY <1>7, <2>2, <2>3, SchemaOf
<1>8. CASE k = "assistant"
  <2>1. AssistantCoverage(plan, sources)
    BY <1>8 DEF Coverage, ProfileCoverage
  <2>2. s \in {"attention", "expert", "tied head", "norm"} /\ s \notin Vision
    BY <1>8, SchemaOf
  <2> DEFINE f == IF s = "attention" THEN "fp8" ELSE IF s = "norm" THEN "copy" ELSE "nvfp4"
  <2>3. From(plan, s) = Made(s, f)
    BY <2>1, <2>2 DEF AssistantCoverage, Quad, Pair, Copied
  <2>4. Fate(k, s) = f
    BY <1>8, <2>2 DEF Fate
  <2> QED BY <1>3, <2>3, <2>4
<1> QED BY <1>4, <1>5, <1>6, <1>7, <1>8

(* A complete plan makes just what the manifests have forecast.            *)
LEMMA CompleteAsForecast ==
  ASSUME NEW plan \in PlanOf("complete"), NEW sources,
         Coverage(plan, "complete", sources)
  PROVE  plan.tensors = CompiledSummary(sources)
<1>1. /\ sources = FrozenSchema("complete") /\ HybridCoverage(plan, sources)
      /\ \A s \in Vision : From(plan, s) = {}
  BY CompleteLeavesVision
<1>2. sources = {"attention", "expert", "tied head", "norm"} \cup Vision
  BY <1>1, SchemaOf
<1>3. sources \ Vision = {"attention", "expert", "tied head", "norm"}
  BY <1>2, SchemaOf
<1>4. CompiledSummary(sources) = CacheScale \cup Made("attention", "fp8")
         \cup Made("expert", "nvfp4") \cup Made("tied head", "nvfp4") \cup Made("norm", "copy")
  BY <1>3 DEF CompiledSummary
<1>5. \A t \in plan.tensors : t \in From(plan, t.of) /\ t.of \in sources \cup {"nothing"}
  BY DEF From, Coverage
<1>6. plan.tensors = From(plan, "nothing") \cup From(plan, "attention") \cup From(plan, "expert")
         \cup From(plan, "tied head") \cup From(plan, "norm")
  <2>1. \A t \in plan.tensors :
           t.of \in {"nothing", "attention", "expert", "tied head", "norm"}
    BY <1>1, <1>2, <1>5
  <2>2. \A s : From(plan, s) \subseteq plan.tensors
    BY DEF From
  <2> QED BY <1>5, <2>1, <2>2
<1> QED BY <1>1, <1>4, <1>6 DEF HybridCoverage, Quad, Pair, Copied

-----------------------------------------------------------------------------
(* Checked and PlanTypes are enough for the artifact to be exact.          *)
LEMMA CheckedIsExact == PlanInv => CompiledPlanExact
<1> SUFFICES ASSUME PlanInv, compiled # NoArtifact
    PROVE  /\ checkpoint = FrozenSchema(kind)
           /\ \A s \in checkpoint : Meets(compiled.plan, s, Fate(kind, s))
           /\ {t.of : t \in compiled.plan.tensors} \subseteq checkpoint \cup {"nothing"}
           /\ kind = "complete" => compiled.plan.tensors = CompiledSummary(checkpoint)
  BY DEF CompiledPlanExact
<1>1. /\ kind \in {"copied", "attention", "experts", "head", "complete", "assistant"}
      /\ compiled.plan \in PlanOf(kind)
      /\ checkpoint \in {FrozenSchema(kind), FrozenSchema(kind) \cup {"unknown"}}
      /\ WellFormed(compiled.plan, kind) /\ Coverage(compiled.plan, kind, checkpoint)
  BY PlanAssumption DEF PlanInv, PlanTypes, Checked
<1>2. checkpoint = FrozenSchema(kind)
  BY <1>1, AcceptedNames
<1>3. \A s \in checkpoint : Meets(compiled.plan, s, Fate(kind, s))
  BY <1>1, <1>2, FateMet
<1>4. {t.of : t \in compiled.plan.tensors} \subseteq checkpoint \cup {"nothing"}
  BY <1>1 DEF Coverage
<1>5. kind = "complete" => compiled.plan.tensors = CompiledSummary(checkpoint)
  BY <1>1, CompleteAsForecast
<1> QED BY <1>2, <1>3, <1>4, <1>5

-----------------------------------------------------------------------------
(* The generators and the edits only write plans of the profile.           *)
LEMMA RecipeIsPlan ==
  ASSUME NEW k \in {"copied", "attention", "experts", "head", "complete", "assistant"},
         NEW n \in ShardSizes
  PROVE  Recipe(k, n) \in PlanOf(k)
<1> DEFINE tensors == Recipe(k, n).tensors
<1>1. ASSUME NEW s \in {"attention", "expert", "tied head", "norm"} \cup
                       (IF k = "assistant" THEN {} ELSE Vision),
             NEW f \in {"copy", "fp8", "nvfp4"}
      PROVE  Made(s, f) \subseteq Outputs(k)
  <2>1. s \in FrozenSchema(k)
    BY DEF FrozenSchema
  <2> DEFINE any(x) == Made(x, "copy") \cup Made(x, "fp8") \cup Made(x, "nvfp4")
  <2>2. Made(s, f) \subseteq any(s)
    BY Zenon
  <2>3. Outputs(k) = CacheScale \cup UNION {any(x) : x \in FrozenSchema(k)}
    BY DEF Outputs
  <2> HIDE DEF any
  <2> QED BY <2>1, <2>2, <2>3
<1>2. CacheScale \subseteq Outputs(k)
  BY DEF Outputs
<1>4. tensors \subseteq Outputs(k)
  <2>1. CASE k = "copied"
    <3>1. tensors = UNION {Made(s, "copy") : s \in FrozenSchema(k) \ Vision}
      BY <2>1 DEF Recipe
    <3> QED BY <1>1, <3>1 DEF FrozenSchema
  <2>2. CASE k \in {"attention", "experts", "head"}
    BY <1>1, <2>2 DEF Recipe, Attention, Experts, HeadOutputs
  <2>3. CASE k = "complete"
    <3>1. tensors = HybridTensors
      BY <2>3 DEF Recipe
    <3> DEFINE joined == Attention \cup Experts \cup HeadOutputs
               left == (FrozenSchema("complete") \ Vision) \ {t.of : t \in joined}
    <3>2. HybridTensors = joined \cup CacheScale \cup UNION {Made(s, "copy") : s \in left}
      BY DEF HybridTensors
    <3>3. joined \subseteq Outputs(k)
      BY <1>1 DEF Attention, Experts, HeadOutputs
    <3>4. left \subseteq {"attention", "expert", "tied head", "norm"}
      BY DEF FrozenSchema
    <3>5. \A s \in left : Made(s, "copy") \subseteq Outputs(k)
      BY <1>1, <3>4
    <3> HIDE DEF joined, left
    <3>6. UNION {Made(s, "copy") : s \in left} \subseteq Outputs(k)
      BY <3>5
    <3> QED BY <1>2, <3>1, <3>2, <3>3, <3>6
  <2>4. CASE k = "assistant"
    <3>1. tensors = AssistantTensors
      BY <2>4 DEF Recipe
    <3> DEFINE by(s) == CASE s \in {"tied head", "expert"} -> "nvfp4"
                          [] s = "attention" -> "fp8"
                          [] OTHER -> "copy"
    <3>2. \A s : by(s) \in {"copy", "fp8", "nvfp4"}
      OBVIOUS
    <3>3. AssistantTensors = UNION {Made(s, by(s)) : s \in FrozenSchema("assistant")}
      BY DEF AssistantTensors
    <3> HIDE DEF by
    <3>4. \A s \in FrozenSchema("assistant") : Made(s, by(s)) \subseteq Outputs(k)
      BY <1>1, <3>2 DEF FrozenSchema
    <3> QED BY <3>1, <3>3, <3>4
  <2> QED BY <2>1, <2>2, <2>3, <2>4
<1>5. Recipe(k, n).excluded \in [FrozenSchema(k) -> 0..2]
  BY DEF Recipe, Excluding
<1>6. Recipe(k, n) = [tensors |-> tensors, shard |-> n, excluded |-> Recipe(k, n).excluded]
  BY DEF Recipe
<1> QED BY <1>4, <1>5, <1>6 DEF PlanOf

(* The edits that a hand may make leave a plan of the profile.             *)
LEMMA EditedIsPlan ==
  ASSUME NEW k, NEW p \in PlanOf(k)
  PROVE  /\ \A t \in Outputs(k) : [p EXCEPT !.tensors = IF t \in @ THEN @ \ {t} ELSE @ \cup {t}]
                                    \in PlanOf(k)
         /\ \A s \in FrozenSchema(k), n \in 0..2 : [p EXCEPT !.excluded[s] = n] \in PlanOf(k)
         /\ \A n \in ShardSizes : [p EXCEPT !.shard = n] \in PlanOf(k)
BY DEF PlanOf

\* The invariant holds of the checkpoint before anything is generated.
LEMMA PlanInvInit == PlanInit => PlanInv
<1> SUFFICES ASSUME PlanInit PROVE PlanInv
  OBVIOUS
<1>1. PlanTypes
  <2>1. comparison \in [step : {"none", "native", "recheck", "done"}, clean : BOOLEAN]
    BY DEF PlanInit, NoComparison
  <2>2. edits \in 0..MaxEdits
    BY PlanAssumption DEF PlanInit
  <2>3. reference \in SUBSET ExternalSchema
    BY DEF PlanInit
  <2> QED BY <2>1, <2>2, <2>3 DEF PlanInit, PlanTypes, Documents
<1>2. Checked /\ ComparisonFacts /\ PlanEvidenceBound
  BY DEF PlanInit, Checked, ComparisonFacts, PlanEvidenceBound, NoComparison
<1> QED BY <1>1, <1>2 DEF PlanInv

(* What was compiled is only replaced in the loader.                       *)
LEMMA PlanInvNext == PlanInv /\ [PlanNext]_planVars => PlanInv'
<1> SUFFICES ASSUME PlanInv, [PlanNext]_planVars PROVE PlanInv'
  OBVIOUS
<1> USE DEF schemas
<1>0. /\ PlanTypes /\ Checked /\ ComparisonFacts /\ PlanEvidenceBound
      /\ kind \in {"copied", "attention", "experts", "head", "complete", "assistant"}
      /\ Default \in ShardSizes /\ MaxEdits \in Nat
  BY PlanAssumption DEF PlanInv, PlanTypes, Default
<1>1. UNCHANGED schemas
  BY DEF planVars, PlanNext, GenerateManifests, WritePlan, WriteConfig, EditPlan, ParsePlan,
         LoadQuantizationPlan, DamageArtifact, ReportLane, StartComparison, NativePass,
         ReverifyArtifact
<1>2. CASE GenerateManifests
  BY <1>0, <1>2 DEF GenerateManifests, PlanInv, PlanTypes, Checked, ComparisonFacts,
                    PlanEvidenceBound, Documents
<1>3. CASE WritePlan
  <2>1. planFile' \in Documents'
    BY <1>0, <1>3, RecipeIsPlan DEF WritePlan, Documents
  <2> QED BY <1>0, <1>3, <2>1 DEF WritePlan, PlanInv, PlanTypes, Checked, ComparisonFacts,
                                  PlanEvidenceBound, Documents
<1>4. CASE WriteConfig
  BY <1>0, <1>4 DEF WriteConfig, PlanInv, PlanTypes, Checked, ComparisonFacts,
                    PlanEvidenceBound, Documents
<1>5. CASE EditPlan
  <2>1. planFile \in PlanOf(kind)
    BY <1>0, <1>5 DEF EditPlan, PlanTypes, Documents
  <2>2. planFile' \in PlanOf(kind)
    <3>1. ASSUME NEW t \in Outputs(kind),
                 planFile' = [planFile EXCEPT !.tensors = IF t \in @ THEN @ \ {t} ELSE @ \cup {t}]
          PROVE  planFile' \in PlanOf(kind)
      BY <2>1, <3>1, EditedIsPlan
    <3>2. ASSUME NEW s \in FrozenSchema(kind), NEW n \in 0..2,
                 planFile' = [planFile EXCEPT !.excluded[s] = n]
          PROVE  planFile' \in PlanOf(kind)
      BY <2>1, <3>2, EditedIsPlan
    <3>3. ASSUME NEW n \in ShardSizes, planFile' = [planFile EXCEPT !.shard = n]
          PROVE  planFile' \in PlanOf(kind)
      BY <2>1, <3>3, EditedIsPlan
    <3> QED BY <1>5, <3>1, <3>2, <3>3 DEF EditPlan
  <2>3. edits' \in 0..MaxEdits
    BY <1>0, <1>5 DEF EditPlan, TouchPlan, PlanTypes
  <2> QED BY <1>0, <1>5, <2>2, <2>3 DEF EditPlan, PlanInv, PlanTypes, Checked,
                                        ComparisonFacts, PlanEvidenceBound, Documents
<1>6. CASE ParsePlan
  <2>1. planFile \in PlanOf(kind)
    BY <1>0, <1>6 DEF ParsePlan, PlanTypes, Documents
  <2>2. parsed' \in PlanOf(kind)
    BY <1>6, <2>1, EditedIsPlan DEF ParsePlan
  <2> QED BY <1>0, <1>6, <2>2 DEF ParsePlan, PlanInv, PlanTypes, Checked,
                                  ComparisonFacts, PlanEvidenceBound, Documents
<1>7. CASE LoadQuantizationPlan
  <2>1. parsed \in PlanOf(kind)
    BY <1>0, <1>7 DEF LoadQuantizationPlan, PlanTypes, Documents
  <2>2. compiled' # NoArtifact' => compiled'.plan \in PlanOf(kind) /\ compiled'.names \in Documents
           /\ WellFormed(compiled'.plan, kind) /\ Coverage(compiled'.plan, kind, checkpoint)
    <3>1. CASE WellFormed(parsed, kind) /\ Coverage(parsed, kind, checkpoint)
      <4>1. compiled'.plan = parsed /\ compiled'.names = planFile
        BY <1>7, <3>1 DEF LoadQuantizationPlan
      <4> QED BY <1>0, <2>1, <3>1, <4>1 DEF PlanTypes
    <3>2. CASE ~(WellFormed(parsed, kind) /\ Coverage(parsed, kind, checkpoint))
      BY <1>0, <1>7, <3>2 DEF LoadQuantizationPlan, PlanTypes, Checked, NoArtifact, NoDocument
    <3> QED BY <3>1, <3>2
  <2>3. Checked'
    BY <1>1, <2>2 DEF Checked
  <2>4. PlanTypes'
    BY <1>0, <1>7, <2>2 DEF LoadQuantizationPlan, PlanTypes, Documents, NoArtifact, NoDocument
  <2> QED BY <1>0, <1>7, <2>3, <2>4 DEF LoadQuantizationPlan, PlanInv, ComparisonFacts,
                                        PlanEvidenceBound
<1>8. CASE DamageArtifact
  <2>1. edits' \in 0..MaxEdits
    BY <1>0, <1>8 DEF DamageArtifact, TouchPlan, PlanTypes
  <2> QED BY <1>0, <1>8, <2>1 DEF DamageArtifact, PlanInv, PlanTypes, Checked,
                                  ComparisonFacts, PlanEvidenceBound, Documents
<1>9. CASE ReportLane
  <2>1. reported'.plan = reported'.names /\ reported'.plan \in PlanOf(kind)
           /\ reported'.names \in Documents
    BY <1>0, <1>9 DEF ReportLane, PlanTypes
  <2> QED BY <1>0, <1>9, <2>1 DEF ReportLane, PlanInv, PlanTypes, Checked,
                                  ComparisonFacts, PlanEvidenceBound, Documents
<1>10. CASE StartComparison
  BY <1>0, <1>10 DEF StartComparison, PlanInv, PlanTypes, Checked, ComparisonFacts,
                     PlanEvidenceBound, Documents
<1>11. CASE NativePass
  BY <1>0, <1>11 DEF NativePass, PlanInv, PlanTypes, Checked, ComparisonFacts,
                     PlanEvidenceBound, Documents
<1>12. CASE ReverifyArtifact
  BY <1>0, <1>12 DEF ReverifyArtifact, PlanInv, PlanTypes, Checked, ComparisonFacts,
                     PlanEvidenceBound, Documents, NoComparison
<1>13. CASE UNCHANGED planVars
  BY <1>0, <1>13 DEF planVars, PlanInv, PlanTypes, Checked, ComparisonFacts,
                     PlanEvidenceBound, Documents
<1> QED BY <1>2, <1>3, <1>4, <1>5, <1>6, <1>7, <1>8, <1>9, <1>10, <1>11, <1>12, <1>13
        DEF PlanNext

\* The inductive invariant of the plans.
LEMMA PlanInvAlways == PlanSpec => []PlanInv
BY PlanInvInit, PlanInvNext, PTL DEF PlanSpec

(* The plan type invariant, as the runs check it.                          *)
LEMMA PlansTyped == PlanInv => PlanTypeOK
BY DEF PlanInv, PlanTypes, PlanTypeOK, Documents, NoArtifact

\* Whatever was edited, an artifact is compiled only from a plan that meets every
\* source tensor just once, and a complete one has the tensors of its forecast
\* (_validate_coverage and the profiles' validators, compiled_summary).
THEOREM CompiledPlansAlwaysExact == PlanSpec => []CompiledPlanExact
BY PlanInvAlways, CheckedIsExact, PTL

\* A lane's report names the plan the compiler followed although the plan is read
\* twice, and a confirmed comparison has read what the manifest lists
\* (_validate_lane, _reverify_artifact_files).
THEOREM PlanEvidenceAlwaysBound == PlanSpec => []PlanEvidenceBound
<1>1. PlanInv => PlanEvidenceBound
  BY DEF PlanInv
<1> QED BY <1>1, PlanInvAlways, PTL

-----------------------------------------------------------------------------
(* From the layer compiler to the device image (TrellisRelease).           *)

(* A document that vouches for bytes: its producer made them.              *)
Vouched == {Absent, Torn} \cup {<<b, <<b>>>> : b \in Builds}

FileKinds ==
  /\ DOMAIN file = FileNames \cup {Partial}
  /\ \A l \in 1..Layers : file[<<"meta", l>>] \in Vouched /\ file[<<"manifest", l>>] \in Vouched

ComponentKinds ==
  /\ linked \subseteq ComponentFiles /\ linked \subseteq DOMAIN component
  /\ DOMAIN component \in {{}, ComponentFiles}
  /\ component = [n \in DOMAIN component |-> component[n]]
  /\ \A l \in 1..Layers :
       <<"manifest", l>> \in DOMAIN component => component[<<"manifest", l>>] \in Vouched

(* The running tool is somewhere, the image in one of its stages.          *)
JobKinds ==
  /\ build \in Builds /\ job.layer \in 1..Layers /\ job.alone \in BOOLEAN
  /\ job = [at |-> job.at, layer |-> job.layer, alone |-> job.alone, held |-> job.held]
  /\ image.stage \in 0..6
  /\ image = [stage |-> image.stage, from |-> image.from, data |-> image.data]
  /\ job.at = "publish" => image.stage \in 1..5
  /\ kills \in 0..MaxKills /\ repairs \in 0..MaxRepairs

(* What the layer compiler holds is this build's own.                      *)
LayerFacts ==
  /\ job.at \in {"save", "pack"} => file[<<"payload", job.layer>>] = <<build>>
  /\ job.at = "describe" => file[<<"bin", job.layer>>] = <<build>>

(* A checkpoint record states the artifact of a layer and its manifest.    *)
States(record, bin) == record[1] = bin /\ record[2] = <<bin[1], bin>>

(* What the image builder and the verifier hold was so when they took it,  *)
(* and for the builder it still is.                                        *)
HeldFacts ==
  /\ job.at = "concat" => \A l \in 1..Layers : States(job.held[1][2][l], component[<<"bin", l>>])
  /\ job.at = "publish" \/ image.stage >= 2 =>
       \A l \in 1..Layers : States(image.from[1][2][l], image.data[l])
  /\ job.at = "verified" =>
       \A l \in 1..Layers : /\ job.held[l][2] = <<job.held[l][1][1], job.held[l][1]>>
                            /\ job.held[l][3][2] = <<job.held[l][1], job.held[l][2]>>

TrellisInv == FileKinds /\ ComponentKinds /\ JobKinds /\ LayerFacts /\ HeldFacts

-----------------------------------------------------------------------------
\* The names of a layer's files, and which of them the component shares.
LEMMA NamesOf ==
  /\ \A l \in 1..Layers : /\ <<"payload", l>> \in FileNames /\ <<"meta", l>> \in FileNames
                          /\ <<"bin", l>> \in FileNames /\ <<"manifest", l>> \in FileNames
                          /\ <<"report", l>> \in FileNames
                          /\ <<"bin", l>> \in ComponentFiles /\ <<"manifest", l>> \in ComponentFiles
                          /\ <<"report", l>> \in ComponentFiles
  /\ \A n \in OneFiles : <<n, 0>> \in FileNames
  /\ <<"checkpoint", 0>> \in ComponentFiles /\ <<"index", 0>> \in ComponentFiles
  /\ ComponentFiles \subseteq FileNames
BY TrellisAssumption DEF FileNames, LayerFiles, OneFiles, ComponentFiles

(* Who vouches for bytes, whole, has made them.                            *)
LEMMA VouchedIsMade ==
  ASSUME NEW c \in Vouched, WholeFile(c)
  PROVE  \E b \in Builds : c = <<b, <<b>>>> /\ c[1] = b /\ c[2] = <<b>>
BY DEF Vouched, WholeFile

\* What the verifier accepts for a layer was made by whom its manifest names.
LEMMA VerifiedStates ==
  ASSUME NEW bin, NEW manifest \in Vouched, LayerVerifies(bin, manifest)
  PROVE  manifest = <<bin[1], bin>>
<1>1. PICK b \in Builds : manifest = <<b, <<b>>>> /\ manifest[2] = <<b>>
  BY VouchedIsMade DEF LayerVerifies
<1>2. bin = <<b>>
  BY <1>1 DEF LayerVerifies
<1> QED BY <1>1, <1>2

(* A write in place changes the file, and the component if it shares it.   *)
LEMMA WriteDoes ==
  ASSUME FileKinds, ComponentKinds, NEW n \in FileNames \cup {Partial}, NEW c, Write(n, c),
         \A l \in 1..Layers : n \in {<<"meta", l>>, <<"manifest", l>>} => c \in Vouched,
         UNCHANGED linked
  PROVE  /\ FileKinds' /\ ComponentKinds'
         /\ file'[n] = c /\ \A m \in FileNames : m # n => file'[m] = file[m]
<1>1. /\ DOMAIN file' = FileNames \cup {Partial} /\ file'[n] = c
      /\ \A m \in FileNames : m # n => file'[m] = file[m]
  BY DEF FileKinds, Write, Written
<1>2. FileKinds'
  BY <1>1, NamesOf DEF FileKinds
<1>3. ASSUME NEW l \in 1..Layers, <<"manifest", l>> \in DOMAIN component'
      PROVE  component'[<<"manifest", l>>] \in Vouched
  <2>1. <<"manifest", l>> \in DOMAIN component /\ component[<<"manifest", l>>] \in Vouched
    BY <1>3 DEF Write, Written, ComponentKinds
  <2>2. CASE n = <<"manifest", l>> /\ n \in linked
    BY <1>3, <2>1, <2>2 DEF Write, Written
  <2>3. CASE ~(n = <<"manifest", l>> /\ n \in linked)
    BY <1>3, <2>1, <2>3 DEF Write, Written
  <2> QED BY <2>2, <2>3
<1>4. DOMAIN component' = DOMAIN component
  BY DEF Write, Written
<1>5. ComponentKinds'
  <2>1. component' = [m \in DOMAIN component' |-> component'[m]]
    BY DEF Write, Written, ComponentKinds
  <2> QED BY <1>3, <1>4, <2>1 DEF ComponentKinds
<1> QED BY <1>1, <1>2, <1>5

-----------------------------------------------------------------------------
\* An empty directory and no tool running is where it begins.
LEMMA TrellisInvInit == TrellisInit => TrellisInv
<1> SUFFICES ASSUME TrellisInit PROVE TrellisInv
  OBVIOUS
<1>1. FileKinds
  BY NamesOf DEF TrellisInit, FileKinds, Vouched
<1>2. ComponentKinds
  BY DEF TrellisInit, ComponentKinds
<1>3. JobKinds
  BY TrellisAssumption DEF TrellisInit, JobKinds, Resting, NoImage
<1>4. LayerFacts /\ HeldFacts
  BY DEF TrellisInit, LayerFacts, HeldFacts, Resting, NoImage
<1> QED BY <1>1, <1>2, <1>3, <1>4 DEF TrellisInv

(* A step that moves the tool on and leaves the files alone keeps what is  *)
(* known, if it is to a place that asks for nothing or gives it.           *)
Quiet == {"rest", "candidate", "look", "check", "clean", "index", "routedless", "import",
          "importManifest", "final", "lock", "link", "sums"}

JobMoved == job' = [at |-> job'.at, layer |-> job'.layer, alone |-> job'.alone, held |-> job'.held]
            /\ job'.layer \in 1..Layers /\ job'.alone \in BOOLEAN

\* Such a step keeps the invariant if the files keep their kinds.
LEMMA QuietStep ==
  ASSUME TrellisInv, FileKinds', ComponentKinds', JobMoved, job'.at \in Quiet,
         build' \in Builds, UNCHANGED image, kills' \in 0..MaxKills, repairs' \in 0..MaxRepairs
  PROVE  TrellisInv'
<1>1. JobKinds'
  BY DEF TrellisInv, JobKinds, JobMoved, Quiet
<1>2. LayerFacts' /\ HeldFacts'
  BY DEF TrellisInv, LayerFacts, HeldFacts, Quiet, States
<1> QED BY <1>1, <1>2 DEF TrellisInv

(* Where a step of the tool leads.                                         *)
LEMMA Moved ==
  ASSUME JobKinds
  PROVE  /\ \A place : Step(place) => /\ JobMoved /\ job'.at = place
                                      /\ job'.layer = job.layer /\ job'.held = job.held
         /\ GiveUp => JobMoved /\ job'.at = "rest"
<1>1. ASSUME NEW place, Step(place)
      PROVE  /\ JobMoved /\ job'.at = place /\ job'.layer = job.layer /\ job'.held = job.held
  BY <1>1 DEF JobKinds, JobMoved, Step
<1>2. ASSUME GiveUp PROVE JobMoved /\ job'.at = "rest"
  BY <1>2, TrellisAssumption DEF JobMoved, GiveUp, Resting
<1> QED BY <1>1, <1>2

(* Nothing written, to a quiet place.                                      *)
LEMMA QuietUnwritten ==
  ASSUME TrellisInv, JobMoved, job'.at \in Quiet,
         UNCHANGED <<build, file, linked, component, image, kills, repairs>>
  PROVE  TrellisInv'
<1>1. FileKinds' /\ ComponentKinds'
  BY DEF TrellisInv, FileKinds, ComponentKinds
<1>2. build' \in Builds /\ kills' \in 0..MaxKills /\ repairs' \in 0..MaxRepairs
  BY DEF TrellisInv, JobKinds
<1> QED BY <1>1, <1>2, QuietStep

(* One file written, to a quiet place.                                     *)
LEMMA QuietWritten ==
  ASSUME TrellisInv, JobMoved, job'.at \in Quiet, UNCHANGED beside,
         NEW n \in FileNames \cup {Partial}, NEW c, Write(n, c),
         \A l \in 1..Layers : n \in {<<"meta", l>>, <<"manifest", l>>} => c \in Vouched
  PROVE  TrellisInv'
<1>1. FileKinds' /\ ComponentKinds'
  BY WriteDoes DEF TrellisInv, beside
<1>2. /\ build' \in Builds /\ kills' \in 0..MaxKills /\ repairs' \in 0..MaxRepairs
      /\ UNCHANGED image
  BY DEF TrellisInv, JobKinds, beside, counters
<1> QED BY <1>1, <1>2, QuietStep

-----------------------------------------------------------------------------
(* The layer compiler: a payload of this build, then documents about it.   *)
LEMMA LoadKeeps == TrellisInv /\ LoadCachedCandidate => TrellisInv'
<1> SUFFICES ASSUME TrellisInv, LoadCachedCandidate PROVE TrellisInv'
  OBVIOUS
<1>1. /\ JobMoved /\ job'.at = "pack" /\ job'.layer = job.layer /\ job.layer \in 1..Layers
      /\ UNCHANGED <<build, file, linked, component, image, kills, repairs>>
  BY Moved DEF LoadCachedCandidate, TrellisInv, JobKinds, released, counters
<1>2. file[<<"payload", job.layer>>] = <<build>>
  <2>1. PICK b \in Builds : /\ file[<<"meta", job.layer>>][1] = b
                            /\ file[<<"meta", job.layer>>][2] = <<b>>
    BY <1>1, VouchedIsMade DEF LoadCachedCandidate, CandidateCached, Of, TrellisInv, FileKinds
  <2> QED BY <2>1 DEF LoadCachedCandidate, CandidateCached, Of
<1>3. FileKinds' /\ ComponentKinds' /\ JobKinds'
  BY <1>1 DEF TrellisInv, FileKinds, ComponentKinds, JobKinds, JobMoved
<1>4. LayerFacts' /\ HeldFacts'
  BY <1>1, <1>2 DEF TrellisInv, LayerFacts, HeldFacts, States
<1> QED BY <1>3, <1>4 DEF TrellisInv

\* The native tools leave bytes of this build.
LEMMA CompileKeeps == TrellisInv /\ CompileCandidate => TrellisInv'
<1> SUFFICES ASSUME TrellisInv, CompileCandidate PROVE TrellisInv'
  OBVIOUS
<1>1. /\ JobMoved /\ job'.at = "save" /\ job'.layer = job.layer /\ job.layer \in 1..Layers
      /\ UNCHANGED <<build, linked, image, kills, repairs>>
  BY Moved DEF CompileCandidate, TrellisInv, JobKinds, beside, counters
<1>2. /\ FileKinds' /\ ComponentKinds'
      /\ file'[<<"payload", job.layer>>] = <<build>>
  BY <1>1, NamesOf, WriteDoes DEF CompileCandidate, Of, TrellisInv
<1>3. JobKinds'
  BY <1>1 DEF TrellisInv, JobKinds, JobMoved
<1>4. LayerFacts' /\ HeldFacts'
  BY <1>1, <1>2 DEF TrellisInv, LayerFacts, HeldFacts, States
<1> QED BY <1>2, <1>3, <1>4 DEF TrellisInv

\* The metadata is about the bytes just written.
LEMMA SaveKeeps == TrellisInv /\ SaveCandidate => TrellisInv'
<1> SUFFICES ASSUME TrellisInv, SaveCandidate PROVE TrellisInv'
  OBVIOUS
<1>1. /\ JobMoved /\ job'.at = "pack" /\ job'.layer = job.layer /\ job.layer \in 1..Layers
      /\ UNCHANGED <<build, linked, image, kills, repairs>>
  BY Moved DEF SaveCandidate, TrellisInv, JobKinds, beside, counters
<1>2. file[<<"payload", job.layer>>] = <<build>> /\ build \in Builds
  BY DEF SaveCandidate, AtStep, TrellisInv, LayerFacts, JobKinds
<1>3. <<build, file[Of("payload")]>> \in Vouched
  BY <1>2 DEF Of, Vouched
<1>4. /\ FileKinds' /\ ComponentKinds'
      /\ file'[<<"payload", job.layer>>] = file[<<"payload", job.layer>>]
  <2>1. Write(<<"meta", job.layer>>, <<build, file[Of("payload")]>>)
    BY DEF SaveCandidate, Of
  <2>2. <<"meta", job.layer>> \in FileNames /\ <<"payload", job.layer>> \in FileNames
           /\ <<"payload", job.layer>> # <<"meta", job.layer>>
    BY <1>1, NamesOf
  <2>3. FileKinds /\ ComponentKinds
    BY DEF TrellisInv
  <2>4. /\ FileKinds' /\ ComponentKinds'
        /\ \A m \in FileNames : m # <<"meta", job.layer>> => file'[m] = file[m]
    BY <1>1, <1>3, <2>1, <2>2, <2>3, WriteDoes
  <2> QED BY <2>2, <2>4
<1>5. JobKinds'
  BY <1>1 DEF TrellisInv, JobKinds, JobMoved
<1>6. LayerFacts' /\ HeldFacts'
  BY <1>1, <1>2, <1>4 DEF TrellisInv, LayerFacts, HeldFacts, States
<1> QED BY <1>4, <1>5, <1>6 DEF TrellisInv

\* The artifact is the payload.
LEMMA ArtifactKeeps == TrellisInv /\ WriteLayerArtifact => TrellisInv'
<1> SUFFICES ASSUME TrellisInv, WriteLayerArtifact PROVE TrellisInv'
  OBVIOUS
<1>1. /\ JobMoved /\ job'.at = "describe" /\ job'.layer = job.layer /\ job.layer \in 1..Layers
      /\ UNCHANGED <<build, linked, image, kills, repairs>>
  BY Moved DEF WriteLayerArtifact, TrellisInv, JobKinds, beside, counters
<1>2. file[<<"payload", job.layer>>] = <<build>>
  BY DEF WriteLayerArtifact, AtStep, TrellisInv, LayerFacts
<1>3. /\ FileKinds' /\ ComponentKinds'
      /\ file'[<<"bin", job.layer>>] = <<build>>
  BY <1>1, <1>2, NamesOf, WriteDoes DEF WriteLayerArtifact, Of, TrellisInv
<1>4. JobKinds'
  BY <1>1 DEF TrellisInv, JobKinds, JobMoved
<1>5. LayerFacts' /\ HeldFacts'
  BY <1>1, <1>3 DEF TrellisInv, LayerFacts, HeldFacts, States
<1> QED BY <1>3, <1>4, <1>5 DEF TrellisInv

\* The manifest states this build of bytes that are its own.
LEMMA ManifestKeeps == TrellisInv /\ WriteLayerManifest => TrellisInv'
<1> SUFFICES ASSUME TrellisInv, WriteLayerManifest PROVE TrellisInv'
  OBVIOUS
<1>1. JobMoved /\ job'.at \in Quiet /\ job.layer \in 1..Layers
  BY Moved DEF WriteLayerManifest, TrellisInv, JobKinds, Quiet
<1>2. file[<<"bin", job.layer>>] = <<build>> /\ build \in Builds
  BY DEF WriteLayerManifest, AtStep, TrellisInv, LayerFacts, JobKinds
<1>3. <<build, file[Of("bin")]>> \in Vouched
  BY <1>2 DEF Of, Vouched
<1>4. Of("manifest") \in FileNames
  BY <1>1, NamesOf DEF Of
<1> QED BY <1>1, <1>3, <1>4, QuietWritten DEF WriteLayerManifest

-----------------------------------------------------------------------------
(* The checkpoint tool and the packaging: reports, indexes, descriptions.  *)
LEMMA CheckpointToolKeeps ==
  ASSUME TrellisInv, CheckLayer \/ CleanLayer \/ WriteCheckpointIndex \/ WriteNonRouted
                       \/ WriteNonRoutedManifest \/ WriteCheckpoint \/ WriteRuntimeLock
  PROVE  TrellisInv'
<1> USE DEF Quiet
<1>0. job.layer \in 1..Layers /\ JobKinds
  BY DEF TrellisInv, JobKinds
<1>1. CASE CheckLayer
  <2>1. CASE LayerVerifies(file[Of("bin")], file[Of("manifest")])
    <3>1. JobMoved /\ job'.at \in Quiet /\ Of("report") \in FileNames
      BY <1>0, <1>1, <2>1, Moved, NamesOf DEF CheckLayer, Of
    <3>2. \A l \in 1..Layers : Of("report") \notin {<<"meta", l>>, <<"manifest", l>>}
      BY DEF Of
    <3> QED BY <1>1, <2>1, <3>1, <3>2, QuietWritten DEF CheckLayer
  <2>2. CASE ~LayerVerifies(file[Of("bin")], file[Of("manifest")])
    <3>1. /\ JobMoved /\ job'.at \in Quiet
          /\ UNCHANGED <<build, file, linked, component, image, kills, repairs>>
      BY <1>0, <1>1, <2>2, Moved DEF CheckLayer, beside, counters
    <3> QED BY <3>1, QuietUnwritten
  <2> QED BY <2>1, <2>2
<1>2. CASE CleanLayer
  <2>1. JobMoved /\ job'.at \in Quiet /\ UNCHANGED <<build, linked, component, image, kills, repairs>>
    <3>1. CASE job.layer < Layers /\ job' = [job EXCEPT !.at = "look", !.layer = @ + 1]
      <4>1. job' = [at |-> "look", layer |-> job.layer + 1, alone |-> job.alone, held |-> job.held]
        BY <1>0, <3>1 DEF JobKinds
      <4>2. job.layer + 1 \in 1..Layers
        BY <1>0, <3>1, TrellisAssumption
      <4> QED BY <1>0, <1>2, <4>1, <4>2 DEF CleanLayer, JobKinds, JobMoved, released, counters
    <3>2. CASE Step("index")
      BY <1>0, <1>2, <3>2, Moved DEF CleanLayer, released, counters
    <3> QED BY <1>2, <3>1, <3>2 DEF CleanLayer
  <2>2. FileKinds'
    <3>1. DOMAIN file' = DOMAIN file
      BY <1>2 DEF CleanLayer, Written
    <3>2. ASSUME NEW l \in 1..Layers, NEW n \in {<<"meta", l>>, <<"manifest", l>>}
          PROVE  file'[n] \in {file[n], Absent}
      <4>1. n \in DOMAIN file
        BY NamesOf DEF TrellisInv, FileKinds
      <4> QED BY <1>2, <4>1 DEF CleanLayer, Written
    <3>3. ASSUME NEW l \in 1..Layers
          PROVE  file'[<<"meta", l>>] \in Vouched /\ file'[<<"manifest", l>>] \in Vouched
      BY <3>2 DEF TrellisInv, FileKinds, Vouched
    <3> QED BY <3>1, <3>3 DEF TrellisInv, FileKinds
  <2>3. ComponentKinds'
    BY <2>1 DEF TrellisInv, ComponentKinds
  <2>4. build' \in Builds /\ kills' \in 0..MaxKills /\ repairs' \in 0..MaxRepairs
    BY <1>0, <2>1 DEF JobKinds
  <2> QED BY <2>1, <2>2, <2>3, <2>4, QuietStep
<1>3. CASE WriteCheckpointIndex
  <2>1. JobMoved /\ job'.at \in Quiet /\ UNCHANGED beside
    BY <1>0, <1>3, Moved DEF WriteCheckpointIndex
  <2>2. ASSUME NEW c, Write(One("index"), c) PROVE TrellisInv'
    <3>1. One("index") \in FileNames
             /\ \A l \in 1..Layers : One("index") \notin {<<"meta", l>>, <<"manifest", l>>}
      BY NamesOf DEF One, OneFiles
    <3> QED BY <2>1, <2>2, <3>1, QuietWritten
  <2>3. CASE UNCHANGED <<file, component>>
    BY <2>1, <2>3, QuietUnwritten DEF beside, counters
  <2> QED BY <1>3, <2>2, <2>3 DEF WriteCheckpointIndex
<1>4. ASSUME NEW n \in {"routedless", "routedlessManifest", "checkpoint", "lock"}, NEW c,
             Write(One(n), c), JobMoved, job'.at \in Quiet, UNCHANGED beside
      PROVE  TrellisInv'
  <2>1. One(n) \in FileNames /\ \A l \in 1..Layers : One(n) \notin {<<"meta", l>>, <<"manifest", l>>}
    BY NamesOf DEF One, OneFiles
  <2> QED BY <1>4, <2>1, QuietWritten
<1>5. CASE WriteNonRouted
  <2>1. JobMoved /\ job'.at \in Quiet /\ UNCHANGED beside
    BY <1>0, <1>5, Moved DEF WriteNonRouted
  <2> QED BY <1>4, <1>5, <2>1 DEF WriteNonRouted
<1>6. CASE WriteNonRoutedManifest
  <2>1. JobMoved /\ job'.at \in Quiet /\ UNCHANGED beside
    BY <1>0, <1>6, Moved DEF WriteNonRoutedManifest
  <2> QED BY <1>4, <1>6, <2>1 DEF WriteNonRoutedManifest
<1>7. CASE WriteCheckpoint
  <2>1. JobMoved /\ job'.at \in Quiet /\ UNCHANGED beside
    BY <1>0, <1>7, Moved DEF WriteCheckpoint
  <2> QED BY <1>4, <1>7, <2>1 DEF WriteCheckpoint
<1>8. CASE WriteRuntimeLock
  <2>1. JobMoved /\ job'.at \in Quiet /\ UNCHANGED beside
    BY <1>0, <1>8, Moved DEF WriteRuntimeLock
  <2> QED BY <1>4, <1>8, <2>1 DEF WriteRuntimeLock
<1> QED BY <1>1, <1>2, <1>3, <1>5, <1>6, <1>7, <1>8

(* Steps that only look, and the tools that begin.                         *)
LEMMA LookingKeeps ==
  ASSUME TrellisInv,
         \/ \E l \in 1..Layers : StartLayer(l) \/ StartCheckpoint(l)
         \/ LookForLayer \/ StartPackage \/ ExistingNonRouted \/ ReportCheckpoint \/ CheckComponent
  PROVE  TrellisInv'
<1> USE DEF Quiet, released, counters
<1>0. JobKinds
  BY DEF TrellisInv
<1>1. ASSUME NEW l \in 1..Layers, StartLayer(l) \/ StartCheckpoint(l) PROVE TrellisInv'
  <2>1. JobMoved /\ job'.at \in Quiet
    BY <1>1 DEF StartLayer, StartCheckpoint, Resting, JobMoved
  <2> QED BY <1>1, <2>1, QuietUnwritten DEF StartLayer, StartCheckpoint
<1>2. CASE LookForLayer
  <2>1. JobMoved /\ job'.at \in Quiet
    BY <1>0, <1>2, Moved DEF LookForLayer
  <2> QED BY <1>2, <2>1, QuietUnwritten DEF LookForLayer
<1>3. CASE StartPackage
  <2>1. JobMoved /\ job'.at \in Quiet
    BY <1>0, <1>3, Moved DEF StartPackage
  <2> QED BY <1>3, <2>1, QuietUnwritten DEF StartPackage
<1>4. CASE ExistingNonRouted
  <2>1. JobMoved /\ job'.at \in Quiet
    BY <1>0, <1>4, Moved DEF ExistingNonRouted
  <2> QED BY <1>4, <2>1, QuietUnwritten DEF ExistingNonRouted
<1>5. CASE ReportCheckpoint
  <2>1. JobMoved /\ job'.at \in Quiet
    BY <1>0, <1>5, Moved DEF ReportCheckpoint
  <2> QED BY <1>5, <2>1, QuietUnwritten DEF ReportCheckpoint
<1>6. CASE CheckComponent
  <2>1. JobMoved /\ job'.at \in Quiet
    <3>1. job' = [at |-> "link", layer |-> 1, alone |-> FALSE, held |-> file[One("checkpoint")]]
      BY <1>6 DEF CheckComponent, Resting
    <3> QED BY <3>1, TrellisAssumption DEF JobMoved
  <2> QED BY <1>6, <2>1, QuietUnwritten DEF CheckComponent
<1> QED BY <1>1, <1>2, <1>3, <1>4, <1>5, <1>6

-----------------------------------------------------------------------------
(* The component directory takes over what the checkpoint has.             *)
LEMMA ComponentKeeps ==
  ASSUME TrellisInv, LinkComponent \/ WriteSums
  PROVE  TrellisInv'
<1> USE DEF Quiet, counters
<1>0. JobKinds /\ FileKinds /\ ComponentKinds
  BY DEF TrellisInv
<1>1. CASE LinkComponent
  <2>1. JobMoved /\ job'.at \in Quiet
    BY <1>0, <1>1, Moved DEF LinkComponent
  <2>2. component' = [n \in ComponentFiles |-> file[n]] /\ linked' \in {{}, ComponentFiles}
    BY <1>1 DEF LinkComponent
  <2>3. ComponentKinds'
    BY <1>0, <2>2 DEF ComponentKinds, FileKinds
  <2>4. /\ FileKinds' /\ UNCHANGED image
        /\ build' \in Builds /\ kills' \in 0..MaxKills /\ repairs' \in 0..MaxRepairs
    BY <1>0, <1>1 DEF LinkComponent, FileKinds, JobKinds
  <2> QED BY <2>1, <2>3, <2>4, QuietStep
<1>2. CASE WriteSums
  <2>1. JobMoved /\ job'.at \in Quiet
    BY <1>0, <1>2, Moved DEF WriteSums
  <2> QED BY <1>2, <2>1, QuietUnwritten DEF WriteSums
<1> QED BY <1>1, <1>2

(* What the verifier holds is what the index says of files that agree.     *)
LEMMA VerifyKeeps == TrellisInv /\ VerifyCheckpoint => TrellisInv'
<1> SUFFICES ASSUME TrellisInv, VerifyCheckpoint PROVE TrellisInv'
  OBVIOUS
<1>1. /\ job' = [at |-> "verified", layer |-> 1, alone |-> FALSE, held |-> LayerRecords(file)]
      /\ UNCHANGED <<build, file, linked, component, image, kills, repairs>>
  <2>1. file[One("index")][2] = LayerRecords(file)
    BY DEF VerifyCheckpoint, CheckpointHolds
  <2> QED BY <2>1 DEF VerifyCheckpoint, Resting, released, counters
<1>2. ASSUME NEW l \in 1..Layers
      PROVE  /\ job'.held[l][2] = <<job'.held[l][1][1], job'.held[l][1]>>
             /\ job'.held[l][3][2] = <<job'.held[l][1], job'.held[l][2]>>
  <2>1. job'.held[l] = LayerRecord(file, l)
    BY <1>1 DEF LayerRecords
  <2>2. ReportHolds(LayerRecord(file, l))
    BY DEF VerifyCheckpoint
  <2>3. /\ LayerRecord(file, l)[1] = file[<<"bin", l>>]
        /\ LayerRecord(file, l)[2] = file[<<"manifest", l>>]
    BY DEF LayerRecord
  <2>4. LayerRecord(file, l)[2] = <<LayerRecord(file, l)[1][1], LayerRecord(file, l)[1]>>
    BY <2>2, <2>3, VerifiedStates DEF ReportHolds, TrellisInv, FileKinds
  <2> QED BY <2>1, <2>2, <2>4 DEF ReportHolds
<1>3. FileKinds' /\ ComponentKinds'
  BY <1>1 DEF TrellisInv, FileKinds, ComponentKinds
<1>4. JobKinds'
  BY <1>1, TrellisAssumption DEF TrellisInv, JobKinds
<1>5. LayerFacts' /\ HeldFacts'
  BY <1>1, <1>2 DEF TrellisInv, LayerFacts, HeldFacts, States
<1> QED BY <1>3, <1>4, <1>5 DEF TrellisInv

(* What the image builder holds is so of the component, and stays so of    *)
(* the image when the component is linked to files that change.            *)
LEMMA StartImageKeeps == TrellisInv /\ StartImage => TrellisInv'
<1> SUFFICES ASSUME TrellisInv, StartImage PROVE TrellisInv'
  OBVIOUS
<1>1. /\ job' = [at |-> "concat", layer |-> 1, alone |-> FALSE, held |-> component[One("checkpoint")]]
      /\ UNCHANGED <<build, file, linked, component, image, kills, repairs>>
  BY DEF StartImage, Resting, released, counters
<1>2. ASSUME NEW l \in 1..Layers
      PROVE  States(job'.held[1][2][l], component'[<<"bin", l>>])
  <2>1. /\ component[One("checkpoint")][1] = component[One("index")]
        /\ component[One("index")][2] = LayerRecords(component)
    BY DEF StartImage, ValidateV1, CheckpointHolds
  <2>2. job'.held[1][2][l] = LayerRecord(component, l)
    BY <1>1, <2>1 DEF LayerRecords
  <2>3. component[<<"manifest", l>>] \in Vouched
    <3>1. DOMAIN component # {}
      <4>1. component # <<>> /\ component = [n \in DOMAIN component |-> component[n]]
        BY DEF StartImage, InventoryHolds, TrellisInv, ComponentKinds
      <4>2. [n \in {} |-> component[n]] = <<>>
        OBVIOUS
      <4>3. ASSUME DOMAIN component = {} PROVE component = [n \in {} |-> component[n]]
        BY <4>1, <4>3
      <4> QED BY <4>1, <4>2, <4>3
    <3> QED BY <3>1, NamesOf DEF TrellisInv, ComponentKinds
  <2>4. LayerVerifies(component[<<"bin", l>>], component[<<"manifest", l>>])
    BY DEF StartImage, ValidateV1
  <2>5. component[<<"manifest", l>>] = <<component[<<"bin", l>>][1], component[<<"bin", l>>]>>
    BY <2>3, <2>4, VerifiedStates
  <2>6. /\ LayerRecord(component, l)[1] = component[<<"bin", l>>]
        /\ LayerRecord(component, l)[2] = component[<<"manifest", l>>]
    BY DEF LayerRecord
  <2> QED BY <1>1, <2>2, <2>5, <2>6 DEF States
<1>3. FileKinds' /\ ComponentKinds'
  BY <1>1 DEF TrellisInv, FileKinds, ComponentKinds
<1>4. JobKinds'
  BY <1>1, TrellisAssumption DEF TrellisInv, JobKinds
<1>5. LayerFacts' /\ HeldFacts'
  BY <1>1, <1>2 DEF TrellisInv, LayerFacts, HeldFacts, States
<1> QED BY <1>3, <1>4, <1>5 DEF TrellisInv

\* The image takes the artifacts the checkpoint states, for nothing ran in between.
LEMMA ConcatKeeps == TrellisInv /\ StreamConcat => TrellisInv'
<1> SUFFICES ASSUME TrellisInv, StreamConcat PROVE TrellisInv'
  OBVIOUS
<1> USE DEF counters
<1>1. /\ JobMoved /\ job'.at = "publish"
      /\ UNCHANGED <<build, file, linked, component, kills, repairs>>
  BY Moved DEF StreamConcat, TrellisInv
<1>2. image' = [stage |-> 1, from |-> job.held, data |-> [l \in 1..Layers |-> component[<<"bin", l>>]]]
  BY DEF StreamConcat
<1>3. \A l \in 1..Layers : States(job.held[1][2][l], component[<<"bin", l>>])
  BY DEF StreamConcat, AtStep, TrellisInv, HeldFacts
<1>4. \A l \in 1..Layers : States(image'.from[1][2][l], image'.data[l])
  BY <1>2, <1>3 DEF States
<1>5. FileKinds' /\ ComponentKinds'
  BY <1>1 DEF TrellisInv, FileKinds, ComponentKinds
<1>6. JobKinds'
  BY <1>1, <1>2 DEF TrellisInv, JobKinds, JobMoved
<1>7. LayerFacts' /\ HeldFacts'
  BY <1>1, <1>4 DEF LayerFacts, HeldFacts, States
<1> QED BY <1>5, <1>6, <1>7 DEF TrellisInv

\* What is published is that image.
LEMMA PublishKeeps == TrellisInv /\ PublishImage => TrellisInv'
<1> SUFFICES ASSUME TrellisInv, PublishImage PROVE TrellisInv'
  OBVIOUS
<1> USE DEF counters
<1>1. /\ image.stage \in 1..5 /\ image' = [image EXCEPT !.stage = @ + 1]
      /\ image'.stage = image.stage + 1 /\ image'.from = image.from /\ image'.data = image.data
      /\ UNCHANGED <<build, file, linked, component, kills, repairs>>
  BY DEF PublishImage, AtStep, TrellisInv, JobKinds
<1>2. /\ JobMoved /\ job'.at \in {"rest", "publish"}
      /\ job'.at = "publish" => image.stage # 5
  BY Moved DEF PublishImage, AtStep, TrellisInv, JobKinds, JobMoved
<1>3. \A l \in 1..Layers : States(image.from[1][2][l], image.data[l])
  BY DEF PublishImage, AtStep, TrellisInv, HeldFacts
<1>4. FileKinds' /\ ComponentKinds'
  BY <1>1 DEF TrellisInv, FileKinds, ComponentKinds
<1>5. JobKinds'
  BY <1>1, <1>2 DEF TrellisInv, JobKinds, JobMoved
<1>6. LayerFacts' /\ HeldFacts'
  BY <1>1, <1>2, <1>3 DEF LayerFacts, HeldFacts, States
<1> QED BY <1>4, <1>5, <1>6 DEF TrellisInv

-----------------------------------------------------------------------------
(* The places where a tool writes a file.                                  *)
LEMMA WritingOne ==
  ASSUME TrellisInv, job.at \in DOMAIN Writing
  PROVE  Writing[job.at] \in FileNames \cup {Partial}
<1>1. DOMAIN Writing = {"candidate", "save", "pack", "describe", "check", "index",
                        "import", "importManifest", "final", "lock"}
  BY DEF Writing
<1>2. /\ Of("payload") \in FileNames /\ Of("meta") \in FileNames /\ Of("bin") \in FileNames
      /\ Of("manifest") \in FileNames /\ Of("report") \in FileNames
      /\ One("index") \in FileNames /\ One("routedlessManifest") \in FileNames
      /\ One("checkpoint") \in FileNames /\ One("lock") \in FileNames
  BY NamesOf DEF Of, One, OneFiles, TrellisInv, JobKinds
<1> QED BY <1>1, <1>2 DEF Writing

(* A tool that dies leaves what it was writing as it was, or torn.         *)
LEMMA KillKeeps == TrellisInv /\ KillTrellisTool => TrellisInv'
<1> SUFFICES ASSUME TrellisInv, KillTrellisTool PROVE TrellisInv'
  OBVIOUS
<1> USE DEF Quiet
<1>1. /\ JobMoved /\ job'.at = "rest" /\ build' \in Builds
      /\ kills' \in 0..MaxKills /\ repairs' \in 0..MaxRepairs
  BY Moved, TrellisAssumption DEF KillTrellisTool, TrellisInv, JobKinds
<1>2. CASE UNCHANGED <<file, component, linked, image>>
  <2>1. FileKinds' /\ ComponentKinds'
    BY <1>2 DEF TrellisInv, FileKinds, ComponentKinds
  <2> QED BY <1>1, <1>2, <2>1, QuietStep
<1>3. CASE job.at \in DOMAIN Writing /\ Write(Writing[job.at], Torn) /\ UNCHANGED <<linked, image>>
  <2>1. FileKinds' /\ ComponentKinds'
    <3>1. Torn \in Vouched
      BY DEF Vouched
    <3>2. Writing[job.at] \in FileNames \cup {Partial}
      BY <1>3, WritingOne
    <3> QED BY <1>3, <3>1, <3>2, WriteDoes DEF TrellisInv
  <2> QED BY <1>1, <1>3, <2>1, QuietStep
<1>4. CASE AtStep("clean") /\ Write(Of("payload"), Absent) /\ UNCHANGED <<linked, image>>
  <2>1. FileKinds' /\ ComponentKinds'
    <3>1. Absent \in Vouched
      BY DEF Vouched
    <3>2. Of("payload") \in FileNames
      BY NamesOf DEF Of, TrellisInv, JobKinds
    <3> QED BY <1>4, <3>1, <3>2, WriteDoes DEF TrellisInv
  <2> QED BY <1>1, <1>4, <2>1, QuietStep
<1>5. CASE /\ AtStep("concat") /\ image' = [NoImage EXCEPT !.stage = 1]
           /\ UNCHANGED <<file, component, linked>>
  <2>1. FileKinds' /\ ComponentKinds'
    BY <1>5 DEF TrellisInv, FileKinds, ComponentKinds
  <2>2. image' = [stage |-> 1, from |-> <<>>, data |-> <<>>]
    BY <1>5 DEF NoImage
  <2>3. JobKinds'
    BY <1>1, <2>2 DEF JobKinds, JobMoved
  <2>4. LayerFacts' /\ HeldFacts'
    BY <1>1, <2>2 DEF LayerFacts, HeldFacts
  <2> QED BY <2>1, <2>3, <2>4 DEF TrellisInv
<1> QED BY <1>2, <1>3, <1>4, <1>5 DEF KillTrellisTool

(* What the operator repairs while nothing runs.                           *)
LEMMA RepairKeeps ==
  ASSUME TrellisInv, (\E l \in 1..Layers : RemoveLayer(l)) \/ ClearOutputs \/ ExchangeTools
  PROVE  TrellisInv'
<1>0. /\ repairs' \in 0..MaxRepairs /\ kills' \in 0..MaxKills /\ build' \in Builds
      /\ UNCHANGED job /\ job.at = "rest" /\ JobMoved /\ job'.at \in Quiet
  BY TrellisAssumption DEF TrellisInv, JobKinds, RemoveLayer, ClearOutputs, ExchangeTools,
     Repair, AtStep,
         JobMoved, Quiet
<1>1. ASSUME NEW l \in 1..Layers, RemoveLayer(l) PROVE TrellisInv'
  <2>1. FileKinds'
    <3>1. file' = [n \in DOMAIN file |-> IF n \in LayerFiles \X {l} THEN Absent ELSE file[n]]
      BY <1>1 DEF RemoveLayer
    <3>2. \A n \in DOMAIN file : file'[n] = Absent \/ file'[n] = file[n]
      BY <3>1
    <3>3. DOMAIN file' = DOMAIN file
      BY <3>1
    <3> QED BY <3>2, <3>3, NamesOf DEF TrellisInv, FileKinds, Vouched
  <2>2. ComponentKinds'
    BY <1>1 DEF RemoveLayer, TrellisInv, ComponentKinds
  <2>3. UNCHANGED image
    BY <1>1 DEF RemoveLayer
  <2> QED BY <1>0, <2>1, <2>2, <2>3, QuietStep
<1>2. CASE ClearOutputs
  <2>1. FileKinds' /\ ComponentKinds'
    BY <1>2 DEF ClearOutputs, TrellisInv, FileKinds, ComponentKinds
  <2>2. image' = [stage |-> 0, from |-> <<>>, data |-> <<>>]
    BY <1>2 DEF ClearOutputs, NoImage
  <2>3. JobKinds'
    BY <1>0, <2>2 DEF TrellisInv, JobKinds, JobMoved
  <2>4. LayerFacts' /\ HeldFacts'
    BY <1>0, <2>2 DEF LayerFacts, HeldFacts
  <2> QED BY <2>1, <2>3, <2>4 DEF TrellisInv
<1>3. CASE ExchangeTools
  <2>1. FileKinds' /\ ComponentKinds' /\ UNCHANGED image
    BY <1>3 DEF ExchangeTools, released, TrellisInv, FileKinds, ComponentKinds
  <2> QED BY <1>0, <2>1, QuietStep
<1> QED BY <1>1, <1>2, <1>3

\* Together: every step keeps the inductive invariant.
LEMMA TrellisInvNext == TrellisInv /\ [TrellisNext]_trellisVars => TrellisInv'
<1> SUFFICES ASSUME TrellisInv, [TrellisNext]_trellisVars PROVE TrellisInv'
  OBVIOUS
<1>1. CASE UNCHANGED trellisVars
  BY <1>1 DEF trellisVars, counters, TrellisInv, FileKinds, ComponentKinds, JobKinds,
     LayerFacts, HeldFacts
<1>2. ASSUME NEW l \in 1..Layers, StartLayer(l) \/ StartCheckpoint(l) PROVE TrellisInv'
  BY <1>2, LookingKeeps
<1>3. ASSUME NEW l \in 1..Layers, RemoveLayer(l) PROVE TrellisInv'
  BY <1>3, RepairKeeps
<1>4. CASE TrellisNext
  BY <1>2, <1>3, <1>4, LoadKeeps, CompileKeeps, SaveKeeps, ArtifactKeeps, ManifestKeeps,
     CheckpointToolKeeps, LookingKeeps, ComponentKeeps, VerifyKeeps, StartImageKeeps,
     ConcatKeeps, PublishKeeps, KillKeeps, RepairKeeps
     DEF TrellisNext
<1> QED BY <1>1, <1>4

\* The inductive invariant from the layers to the image.
LEMMA TrellisInvAlways == TrellisSpec => []TrellisInv
BY TrellisInvInit, TrellisInvNext, PTL DEF TrellisSpec

\* It keeps the variables in their kinds ...
LEMMA TrellisTypes == TrellisInv => TrellisTypeOK
BY DEF TrellisInv, FileKinds, ComponentKinds, JobKinds, TrellisTypeOK

\* ... and what it says of the steps is what the release promises.
LEMMA ReleasedIsExact == TrellisInv => ReleaseExact
<1> SUFFICES ASSUME TrellisInv PROVE LayerHonest /\ ImageExact
  BY DEF ReleaseExact
<1>1. LayerHonest
  BY VouchedIsMade DEF TrellisInv, FileKinds, LayerHonest
<1>2. ASSUME image.stage >= 5, NEW l \in 1..Layers
      PROVE  /\ image.from[1][2][l][1] = image.data[l]
             /\ image.from[1][2][l][2] = <<image.data[l][1], image.data[l]>>
  BY <1>2 DEF TrellisInv, JobKinds, HeldFacts, States
<1>3. ASSUME AtStep("verified"), NEW l \in 1..Layers
      PROVE  /\ job.held[l][2] = <<job.held[l][1][1], job.held[l][1]>>
             /\ job.held[l][3][2] = <<job.held[l][1], job.held[l][2]>>
  BY <1>3 DEF AtStep, TrellisInv, HeldFacts
<1>4. ImageExact
  BY <1>2, <1>3 DEF ImageExact
<1> QED BY <1>1, <1>4

\* From the candidate cache to the device image every file is what the file above it
\* says, whatever builds were exchanged, tools killed and files shared in between
\* (load_cached_candidate, write_layer_artifact, package_trellis, validate_v1, build).
THEOREM ReleaseAlwaysExact == TrellisSpec => []ReleaseExact
BY TrellisInvAlways, ReleasedIsExact, PTL

-----------------------------------------------------------------------------
(* The packages (Packages).                                                *)

(* What a packager has put in place before it writes the file that makes   *)
(* the package.                                                            *)
PackageFacts ==
  /\ task = "marking" => target.arena = "exact"
  /\ task \in {"assistant", "vision", "manifest"} => bundle.trellis = 3
  /\ task = "manifest" => bundle.vision = "whole"

PackageInv == PackageTypeOK /\ PackageFacts /\ PackagesSound

\* The vision branch grows by one commit.
LEMMA CommitTyped ==
  ASSUME head \in Seq({"source", "foreign", "arranged"}), HeadKept,
         NEW c \in {"foreign", "arranged"}, head' = Append(head, c),
         c = "arranged" => head = <<"source">>
  PROVE  head' \in Seq({"source", "foreign", "arranged"}) /\ HeadKept'
<1>1. head' \in Seq({"source", "foreign", "arranged"})
  OBVIOUS
<1>2. ASSUME NEW i \in DOMAIN head', head'[i] = "arranged" PROVE i = 2
  <2>1. CASE i \in DOMAIN head
    <3>1. head'[i] = head[i]
      BY <2>1
    <3> QED BY <1>2, <2>1, <3>1 DEF HeadKept
  <2>2. CASE i \notin DOMAIN head
    <3>1. i = Len(head) + 1 /\ head'[i] = c
      BY <2>2
    <3>2. head = <<"source">>
      BY <1>2, <3>1
    <3> QED BY <3>1, <3>2
  <2> QED BY <2>1, <2>2
<1> QED BY <1>1, <1>2 DEF HeadKept

\* A bundle takes over the whole Trellis35 set.
LEMMA BundledTyped ==
  ASSUME bundle \in [step : 0..4, trellis : TrellisFiles, vision : {"none", "staged", "whole"}],
         bundle' = [bundle EXCEPT !.step = 2, !.trellis = 3]
  PROVE  /\ bundle' \in [step : 0..4, trellis : TrellisFiles, vision : {"none", "staged", "whole"}]
         /\ bundle'.step = 2 /\ bundle'.trellis = 3
<1>1. 2 \in 0..4 /\ 3 \in TrellisFiles
  BY DEF TrellisFiles
<1>2. bundle' = [step |-> 2, trellis |-> 3, vision |-> bundle.vision]
  OBVIOUS
<1> QED BY <1>1, <1>2

\* Every step of a packager keeps its invariant.
LEMMA PackageStep ==
  ASSUME PackageInv, [PackageNext]_packageVars PROVE PackageInv'
<1> USE PackageAssumption DEF PackageInv, PackageTypeOK, PackageFacts, PackagesSound,
      MarkedIsWhole,
      Tasks, Bytes, TrellisFiles, NoTarget, NoBundle, Doing, Trouble
<1>1. CASE VerifyExternalLock
  BY <1>1 DEF VerifyExternalLock, HeadKept
<1>2. CASE WriteArena
  BY <1>2 DEF WriteArena, HeadKept
<1>3. CASE RenameArena
  BY <1>3 DEF RenameArena, HeadKept
<1>4. CASE StartTarget
  BY <1>4 DEF StartTarget, HeadKept
<1>5. CASE LinkTarget
  BY <1>5 DEF LinkTarget, HeadKept
<1>6. CASE MarkTarget
  BY <1>6 DEF MarkTarget, HeadKept
<1>7. CASE StartVision
  BY <1>7 DEF StartVision, HeadKept
<1>8. CASE EncodeVision
  BY <1>8 DEF EncodeVision, HeadKept
<1>9. CASE LockVision
  BY <1>9 DEF LockVision, HeadKept
<1>10. CASE PublishVision
  BY <1>10 DEF PublishVision, HeadKept
<1>11. CASE AddTrellisFile
  BY <1>11 DEF AddTrellisFile, HeadKept
<1>12. CASE StartBundle
  BY <1>12 DEF StartBundle, HeadKept
<1>13. CASE BundleTrellis
  <2>1. CASE trellis = 3
    <3>1. task' = "assistant" /\ UNCHANGED <<artifact, arena, vision, trellis, target, head, troubles>>
      BY <1>13, <2>1 DEF BundleTrellis
    <3>2. /\ bundle' \in [step : 0..4, trellis : TrellisFiles, vision : {"none", "staged", "whole"}]
          /\ bundle'.step = 2 /\ bundle'.trellis = 3
      BY <1>13, <2>1, BundledTyped DEF BundleTrellis
    <3> QED BY <3>1, <3>2 DEF HeadKept
  <2>2. CASE trellis # 3
    BY <1>13, <2>2 DEF BundleTrellis, HeadKept
  <2> QED BY <2>1, <2>2
<1>14. CASE BundleAssistant
  BY <1>14 DEF BundleAssistant, HeadKept
<1>15. CASE BundleVision
  BY <1>15 DEF BundleVision, HeadKept
<1>16. CASE WriteCompatibilityManifest
  BY <1>16 DEF WriteCompatibilityManifest, HeadKept
<1>17. CASE ValidateRemote
  BY <1>17 DEF ValidateRemote, HeadKept
<1>18. CASE CreateCommit
  BY <1>18, CommitTyped DEF CreateCommit, HeadKept
<1>19. CASE ForeignCommit
  BY <1>19, CommitTyped DEF ForeignCommit
<1>20. CASE AlterArtifact
  BY <1>20 DEF AlterArtifact, HeadKept
<1>21. CASE BringArena
  BY <1>21 DEF BringArena, HeadKept
<1>22. CASE KillPackager
  BY <1>22 DEF KillPackager, HeadKept
<1>23. CASE RemoveDebris
  BY <1>23 DEF RemoveDebris, HeadKept
<1>24. CASE UNCHANGED packageVars
  BY <1>24 DEF packageVars, HeadKept
<1> QED BY <1>1, <1>2, <1>3, <1>4, <1>5, <1>6, <1>7, <1>8, <1>9, <1>10, <1>11, <1>12, <1>13,
      <1>14, <1>15, <1>16, <1>17, <1>18, <1>19, <1>20, <1>21, <1>22, <1>23, <1>24 DEF PackageNext

\* The inductive invariant of the packagers.
LEMMA PackageInvAlways == PackageSpec => []PackageInv
<1>1. PackageInit => PackageInv
  BY PackageAssumption DEF PackageInit, PackageInv, PackageTypeOK, PackageFacts, PackagesSound,
     MarkedIsWhole, HeadKept, NoTarget, NoBundle, Tasks, Bytes, TrellisFiles
<1> QED BY <1>1, PackageStep, PTL DEF PackageSpec

\* The file written last makes a package, wherever a packager was killed or repeated
\* and whatever it was given (package_target, package_trellis, package_vision), and the
\* rearranging commit buries nothing it has not seen (publish, parent_commit).
THEOREM PackagesAlwaysSound == PackageSpec => []PackagesSound
<1>1. PackageInv => PackagesSound
  BY DEF PackageInv
<1> QED BY <1>1, PackageInvAlways, PTL

-----------------------------------------------------------------------------
(* The download (ModelFetch).                                              *)

(* A fetch works on its entries one by one: what it has gone through       *)
(* without a failure is linked and right, and before a name is linked its  *)
(* blob has been verified.                                                 *)
Installing == Stages \ {"idle", "preflight", "next"}

FetchFacts ==
  /\ stage # "idle" => want \notin fetched
  /\ stage \in {"mark", "link"} => Verified(blob[item])
  /\ stage # "idle" /\ ~failures =>
       \A b \in EntriesOf[want] \ todo :
         Verified(view[want][b]) \/ (b = item /\ stage \in Installing)

FetchInv == FetchTypeOK /\ FetchFacts /\ CacheSound

\* What is in the cache is of its kind.
LEMMA FilesTyped ==
  /\ None \in File
  /\ \A l \in Locks, good \in BOOLEAN, n \in 0..Size :
       [len |-> n, good |-> good, by |-> l] \in File
<1>1. 0 \in 0..Size /\ 0..Size \subseteq 0..(Size + 1)
  BY FetchAssumption
<1> QED BY <1>1 DEF None, File

\* There is a lock and a blob to begin with.
LEMMA SomeLockAndBlob ==
  /\ (CHOOSE l \in Locks : TRUE) \in Locks
  /\ (CHOOSE b \in Blobs : TRUE) \in Blobs
BY FetchAssumption

\* Faults are counted.
LEMMA FetchFaultTyped ==
  ASSUME faultsLeft \in 0..MaxFetchFaults, FaultHits
  PROVE  faultsLeft' \in 0..MaxFetchFaults
BY FetchAssumption DEF FaultHits

\* Every step keeps the kinds.
LEMMA FetchTypeStep ==
  ASSUME FetchInv, [FetchNext]_fetchVars PROVE FetchTypeOK'
<1> USE FetchAssumption, FilesTyped DEF FetchInv, FetchTypeOK, Stages, cache
<1>1. ASSUME NEW l \in Locks, WriteLockFile(l) PROVE FetchTypeOK'
  BY <1>1 DEF WriteLockFile, FaultHits
<1>2. ASSUME NEW l \in Locks, NEW m \in {"download", "import", "verify"}, StartFetch(l, m)
      PROVE  FetchTypeOK'
  BY <1>2 DEF StartFetch
<1>3. CASE CapacityPreflight
  BY <1>3, SomeLockAndBlob, FetchFaultTyped DEF CapacityPreflight, Stop
<1>4. CASE NextEntry
  BY <1>4 DEF NextEntry
<1>5. CASE FinishFetch
  BY <1>5, SomeLockAndBlob DEF FinishFetch, Stop
<1>6. CASE VerifyBlob
  BY <1>6 DEF VerifyBlob, EntryFails
<1>7. CASE ImportEntry
  <2>1. [len |-> Size, good |-> TRUE, by |-> want] \in File
    <3>1. Size \in 0..Size
      OBVIOUS
    <3> QED BY <3>1
  <2>2. blob' \in [Blobs -> File] /\ partial' \in [Blobs -> File]
    BY <1>7, <2>1 DEF ImportEntry
  <2>3. stage' \in Stages /\ failures' \in BOOLEAN /\ faultsLeft' \in 0..MaxFetchFaults
    BY <1>7, FetchFaultTyped DEF ImportEntry, EntryFails
  <2> QED BY <1>7, <2>2, <2>3 DEF ImportEntry
<1>8. CASE CheckIdentity
  BY <1>8 DEF CheckIdentity
<1>9. CASE OpenPartial
  <2>1. [len |-> 0, good |-> TRUE, by |-> want] \in File
    BY DEF File
  <2>2. partial' \in [Blobs -> File]
    BY <1>9, <2>1 DEF OpenPartial
  <2>3. stage' \in Stages /\ failures' \in BOOLEAN /\ faultsLeft' \in 0..MaxFetchFaults
    BY <1>9, FetchFaultTyped DEF OpenPartial, EntryFails
  <2> QED BY <1>9, <2>2, <2>3 DEF OpenPartial
<1>10. CASE ReceiveBlock
  <2>1. PICK sound \in BOOLEAN :
           partial' = [partial EXCEPT ![item].len = @ + 1, ![item].good = @ /\ sound]
    BY <1>10 DEF ReceiveBlock
  <2>2. partial[item] \in File /\ partial[item].len + 1 \in 0..(Size + 1)
    BY <1>10 DEF ReceiveBlock, File
  <2>3. [partial[item] EXCEPT !.len = partial[item].len + 1,
                              !.good = partial[item].good /\ sound] \in File
    <3> DEFINE good == partial[item].good /\ sound
    <3>1. good \in BOOLEAN
      OBVIOUS
    <3> HIDE DEF good
    <3>2. [partial[item] EXCEPT !.len = partial[item].len + 1, !.good = good] \in File
      BY <2>2, <3>1 DEF File
    <3> QED BY <3>2 DEF good
  <2>4. partial' \in [Blobs -> File]
    BY <2>1, <2>3
  <2> QED BY <1>10, <2>4 DEF ReceiveBlock, FaultHits
<1>11. CASE EndOfStream
  BY <1>11 DEF EndOfStream, FaultHits
<1>12. CASE CheckSize
  BY <1>12 DEF CheckSize, EntryFails
<1>13. CASE CheckDigest
  <2>1. /\ stage' \in Stages /\ failures' \in BOOLEAN
        /\ sidecar' \in [Blobs -> Locks \cup {"none", "torn"}]
    BY <1>13 DEF CheckDigest, EntryFails
  <2>2. blob' \in [Blobs -> File] /\ partial' \in [Blobs -> File]
    <3>1. /\ blob' \in {blob, [blob EXCEPT ![item] = partial[item]]}
          /\ partial' = [partial EXCEPT ![item] = None]
      BY <1>13 DEF CheckDigest
    <3>2. partial[item] \in File /\ None \in File
      OBVIOUS
    <3> QED BY <3>1, <3>2
  <2>3. UNCHANGED <<mode, want, todo, item, lockFile, view, fetched, faultsLeft>>
    BY <1>13 DEF CheckDigest
  <2> QED BY <2>1, <2>2, <2>3
<1>14. CASE ForgetIdentity
  BY <1>14 DEF ForgetIdentity
<1>15. CASE ReverifyBlob
  BY <1>15 DEF ReverifyBlob, EntryFails
<1>16. CASE MarkVerified
  BY <1>16 DEF MarkVerified
<1>17. CASE LinkEntry
  BY <1>17 DEF LinkEntry
<1>18. CASE KillFetch
  BY <1>18, SomeLockAndBlob, FetchFaultTyped DEF KillFetch, Stop, FaultHits
<1>19. CASE UNCHANGED fetchVars
  BY <1>19 DEF fetchVars
<1>20. CASE RefuseResume
  BY <1>20 DEF RefuseResume, EntryFails
<1> QED BY <1>1, <1>2, <1>3, <1>4, <1>5, <1>6, <1>7, <1>8, <1>9, <1>10, <1>11, <1>12, <1>13,
      <1>14, <1>15, <1>16, <1>17, <1>18, <1>19, <1>20 DEF FetchNext, FetchStep, InstallEntry

\* A fetch keeps what it has gone through.
LEMMA FetchFactsStep ==
  ASSUME FetchInv, FetchTypeOK', [FetchNext]_fetchVars PROVE FetchFacts'
<1> USE FetchAssumption DEF FetchInv, FetchTypeOK, FetchFacts, Verified, Installing, Stages, cache
<1>1. ASSUME NEW l \in Locks, WriteLockFile(l) PROVE FetchFacts'
  BY <1>1 DEF WriteLockFile, FaultHits
<1>2. ASSUME NEW l \in Locks, NEW m \in {"download", "import", "verify"}, StartFetch(l, m)
      PROVE  FetchFacts'
  BY <1>2 DEF StartFetch
<1>3. CASE CapacityPreflight
  BY <1>3 DEF CapacityPreflight, FaultHits, Stop
<1>4. CASE NextEntry
  BY <1>4 DEF NextEntry
<1>5. CASE FinishFetch
  BY <1>5 DEF FinishFetch, Stop
<1>6. CASE VerifyBlob
  BY <1>6 DEF VerifyBlob, EntryFails
<1>7. CASE ImportEntry
  BY <1>7 DEF ImportEntry, EntryFails, FaultHits
<1>8. CASE CheckIdentity
  BY <1>8 DEF CheckIdentity
<1>9. CASE OpenPartial
  BY <1>9 DEF OpenPartial, EntryFails, FaultHits
<1>10. CASE ReceiveBlock
  BY <1>10 DEF ReceiveBlock, FaultHits
<1>11. CASE EndOfStream
  BY <1>11 DEF EndOfStream, FaultHits
<1>12. CASE CheckSize
  BY <1>12 DEF CheckSize, EntryFails
<1>13. CASE CheckDigest
  BY <1>13 DEF CheckDigest, EntryFails
<1>14. CASE ForgetIdentity
  BY <1>14 DEF ForgetIdentity
<1>15. CASE ReverifyBlob
  BY <1>15 DEF ReverifyBlob, EntryFails
<1>16. CASE MarkVerified
  BY <1>16 DEF MarkVerified
<1>17. CASE LinkEntry
  BY <1>17 DEF LinkEntry
<1>18. CASE KillFetch
  BY <1>18 DEF KillFetch, Stop, FaultHits
<1>19. CASE UNCHANGED fetchVars
  BY <1>19 DEF fetchVars
<1>20. CASE RefuseResume
  BY <1>20 DEF RefuseResume, EntryFails
<1> QED BY <1>1, <1>2, <1>3, <1>4, <1>5, <1>6, <1>7, <1>8, <1>9, <1>10, <1>11, <1>12, <1>13,
      <1>14, <1>15, <1>16, <1>17, <1>18, <1>19, <1>20 DEF FetchNext, FetchStep, InstallEntry

\* No step makes the cache unsound.
LEMMA CacheStep ==
  ASSUME FetchInv, [FetchNext]_fetchVars PROVE CacheSound'
<1> USE FetchAssumption DEF FetchInv, FetchTypeOK, FetchFacts, CacheSound, FetchSound,
      BlobsNeverWedge,
      Verified, Complete, Installing, Stages, cache
<1>1. ASSUME NEW l \in Locks, WriteLockFile(l) PROVE CacheSound'
  BY <1>1 DEF WriteLockFile, FaultHits
<1>2. ASSUME NEW l \in Locks, NEW m \in {"download", "import", "verify"}, StartFetch(l, m)
      PROVE  CacheSound'
  BY <1>2 DEF StartFetch
<1>3. CASE CapacityPreflight
  BY <1>3 DEF CapacityPreflight, FaultHits, Stop
<1>4. CASE NextEntry
  BY <1>4 DEF NextEntry
<1>5. CASE FinishFetch
  BY <1>5 DEF FinishFetch, Stop
<1>6. CASE VerifyBlob
  BY <1>6 DEF VerifyBlob, EntryFails
<1>7. CASE ImportEntry
  BY <1>7 DEF ImportEntry, EntryFails, FaultHits
<1>8. CASE CheckIdentity
  BY <1>8 DEF CheckIdentity
<1>9. CASE OpenPartial
  BY <1>9 DEF OpenPartial, EntryFails, FaultHits
<1>10. CASE ReceiveBlock
  BY <1>10 DEF ReceiveBlock, FaultHits
<1>11. CASE EndOfStream
  BY <1>11 DEF EndOfStream, FaultHits
<1>12. CASE CheckSize
  BY <1>12 DEF CheckSize, EntryFails
<1>13. CASE CheckDigest
  BY <1>13 DEF CheckDigest, EntryFails
<1>14. CASE ForgetIdentity
  BY <1>14 DEF ForgetIdentity
<1>15. CASE ReverifyBlob
  BY <1>15 DEF ReverifyBlob, EntryFails
<1>16. CASE MarkVerified
  BY <1>16 DEF MarkVerified
<1>17. CASE LinkEntry
  BY <1>17 DEF LinkEntry
<1>18. CASE KillFetch
  BY <1>18 DEF KillFetch, Stop, FaultHits
<1>19. CASE UNCHANGED fetchVars
  BY <1>19 DEF fetchVars
<1>20. CASE RefuseResume
  BY <1>20 DEF RefuseResume, EntryFails
<1> QED BY <1>1, <1>2, <1>3, <1>4, <1>5, <1>6, <1>7, <1>8, <1>9, <1>10, <1>11, <1>12, <1>13,
      <1>14, <1>15, <1>16, <1>17, <1>18, <1>19, <1>20 DEF FetchNext, FetchStep, InstallEntry

\* The inductive invariant of the download.
LEMMA FetchInvAlways == FetchSpec => []FetchInv
<1>1. FetchInit => FetchInv
  <2> SUFFICES ASSUME FetchInit PROVE FetchInv OBVIOUS
  <2>1. FetchTypeOK
    <3>1. Size - 1 \in 0..(Size + 1) /\ 1..(Size + 1) \subseteq 0..(Size + 1)
      BY FetchAssumption
    <3>2. /\ {None} \cup [len : {Size - 1}, good : {FALSE}, by : {Foreign}] \subseteq File
          /\ {None} \cup LeftByOthers \subseteq File
      BY <3>1, FilesTyped DEF File, LeftByOthers
    <3>3. blob \in [Blobs -> File] /\ partial \in [Blobs -> File]
      BY <3>2 DEF FetchInit
    <3>4. /\ lockFile \in [Locks -> {"none", "torn", "whole"}]
          /\ sidecar \in [Blobs -> Locks \cup {"none", "torn"}]
          /\ view \in [Locks -> [Blobs -> File]]
          /\ faultsLeft \in 0..MaxFetchFaults
      BY FilesTyped, FetchAssumption DEF FetchInit
    <3> QED BY <3>3, <3>4, SomeLockAndBlob DEF FetchInit, FetchTypeOK, Stages
  <2>2. FetchFacts
    BY DEF FetchInit, FetchFacts
  <2>3. CacheSound
    <3>1. Size - 1 # Size
      BY FetchAssumption
    <3>2. ASSUME NEW b \in Blobs PROVE ~Complete(blob[b])
      <4>1. blob[b] \in {None} \cup [len : {Size - 1}, good : {FALSE}, by : {Foreign}]
        BY DEF FetchInit
      <4>2. blob[b].len = Size - 1 \/ blob[b] = None
        BY <4>1
      <4> QED BY <3>1, <4>2 DEF Complete, None
    <3> QED BY <3>2 DEF FetchInit, CacheSound, FetchSound, BlobsNeverWedge
  <2> QED BY <2>1, <2>2, <2>3 DEF FetchInv
<1>2. FetchInv /\ [FetchNext]_fetchVars => FetchInv'
  BY FetchTypeStep, FetchFactsStep, CacheStep DEF FetchInv
<1> QED BY <1>1, <1>2, PTL DEF FetchSpec

\* A fetch that succeeded has linked every locked file, complete and right, and what an
\* interrupted one leaves never keeps a later one from finishing (install_entry, main,
\* verify).
THEOREM CacheAlwaysSound == FetchSpec => []CacheSound
<1>1. FetchInv => CacheSound
  BY DEF FetchInv
<1> QED BY <1>1, FetchInvAlways, PTL

==============================================================================

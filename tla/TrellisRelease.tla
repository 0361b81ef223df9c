--------------------------- MODULE TrellisRelease ---------------------------
(***************************************************************************)
(* From the source checkpoint to the Trellis35 device image: the layer     *)
(* compiler with its candidate cache, the resumable 30-layer checkpoint    *)
(* tool, the packaging and the verification of the checkpoint, the         *)
(* component directory of hard links with its SHA256SUMS, and the          *)
(* second-generation image built from that.                                *)
(*                                                                         *)
(* The operator runs one tool at a time; a tool may be killed anywhere and *)
(* run again, by the same or another build of the repository.  A hash is   *)
(* the content it is taken of, so contents are nested sequences: <<v>> for *)
(* bytes that build v made, <<v, c>> for a document of build v about c.    *)
(* Quantization, layouts and offsets are left out: the bytes of two builds *)
(* have the same size and shape.                                           *)
(***************************************************************************)
EXTENDS Naturals, Sequences, FiniteSets

CONSTANTS Layers,          \* number of layers
          Builds,          \* builds of the repository and its native tools
          MaxKills,
          MaxRepairs       \* directories the operator removes, builds he exchanges

ASSUME TrellisAssumption ==
    Layers \in Nat \ {0} /\ IsFiniteSet(Builds) /\ MaxKills \in Nat /\ MaxRepairs \in Nat

VARIABLES build,      \* the build the tools are run from
          file,       \* the checkpoint directory: name -> content
          linked,     \* names whose file the component directory shares
          component,  \* the component directory: name -> content
          sums,       \* its SHA256SUMS
          image,      \* the output directory of the device image
          job,        \* the running tool: where it is, its layer, what it holds
          kills, repairs

trellisVars == <<build, file, linked, component, sums, image, job, kills, repairs>>
counters == <<kills, repairs>>
beside == <<build, linked, sums, image, counters>>
released == <<linked, component, sums, image>>

Absent == <<>>
Torn == <<"torn">>
WholeFile(c) == c # Absent /\ c # Torn

LayerFiles == {"payload", "meta", "bin", "manifest", "report"}
OneFiles == {"index", "routedless", "routedlessManifest", "checkpoint", "lock"}
FileNames == (LayerFiles \X (1..Layers)) \cup (OneFiles \X {0})
Partial == <<"partial", 0>>

Resting == [at |-> "rest", layer |-> 1, alone |-> FALSE, held |-> <<>>]
NoImage == [stage |-> 0, from |-> <<>>, data |-> <<>>]
AtStep(place) == job.at = place
Step(place) == job' = [job EXCEPT !.at = place]
GiveUp == job' = Resting
Of(name) == <<name, job.layer>>
One(name) == <<name, 0>>
IfWhole(name) == WholeFile(file[One(name)])

\* write_bytes, open("wb"), copyfile: in place, so whoever shares the file sees it.
Written(f, n, c) == [f EXCEPT ![n] = c]
Write(n, c) ==
    /\ file' = Written(file, n, c)
    /\ component' = IF n \in linked THEN Written(component, n, c) ELSE component

TrellisInit ==
    /\ build \in Builds
    /\ file = [n \in FileNames \cup {Partial} |-> Absent]
    /\ linked = {} /\ component = [n \in {} |-> Absent] /\ sums = <<>>
    /\ image = NoImage /\ job = Resting /\ kills = 0 /\ repairs = 0

-----------------------------------------------------------------------------
\* Mutated form: sizes agree, the hash is not looked at.
CandidateCachedBySize ==
    /\ WholeFile(file[Of("meta")]) /\ WholeFile(file[Of("payload")])
    /\ file[Of("meta")][1] = build

\* A candidate is reused when its metadata has this build's fingerprint and
\* its payload still has the recorded hash.
CandidateCached ==
    /\ WholeFile(file[Of("meta")])
    /\ file[Of("meta")][1] = build
    /\ file[Of("meta")][2] = file[Of("payload")]

\* compile_layer runs the capture, the expansion and the layer tool in
\* children; the layer tool may also be run alone.
StartLayer(l) ==
    /\ AtStep("rest")
    /\ job' = [Resting EXCEPT !.at = "candidate", !.layer = l, !.alone = TRUE]
    /\ UNCHANGED <<build, file, released, counters>>

LoadCachedCandidate ==
    /\ AtStep("candidate") /\ CandidateCached
    /\ Step("pack") /\ UNCHANGED <<build, file, released, counters>>

\* The native tools write the payload and the two sidecars.
CompileCandidate ==
    /\ AtStep("candidate") /\ ~CandidateCached
    /\ Write(Of("payload"), <<build>>)
    /\ Step("save") /\ UNCHANGED beside

SaveCandidate ==
    /\ AtStep("save")
    /\ Write(Of("meta"), <<build, file[Of("payload")]>>)
    /\ Step("pack") /\ UNCHANGED beside

\* The artifact first, then the manifest that states its hash and its producer.
WriteLayerArtifact ==
    /\ AtStep("pack")
    /\ Write(Of("bin"), file[Of("payload")])
    /\ Step("describe") /\ UNCHANGED beside

WriteLayerManifest ==
    /\ AtStep("describe")
    /\ Write(Of("manifest"), <<build, file[Of("bin")]>>)
    /\ IF job.alone THEN GiveUp ELSE Step("check")
    /\ UNCHANGED beside

-----------------------------------------------------------------------------
\* The verifier holds a layer against its manifest and the source.
LayerVerifies(bin, manifest) == WholeFile(manifest) /\ manifest[2] = bin /\ WholeFile(bin)

StartCheckpoint(first) ==
    /\ AtStep("rest")
    /\ job' = [Resting EXCEPT !.at = "look", !.layer = first]
    /\ UNCHANGED <<build, file, released, counters>>

\* layer_is_complete: without an artifact or a manifest the layer is compiled;
\* otherwise the verifier must accept it, and its refusal ends the tool.
LookForLayer ==
    /\ AtStep("look")
    /\ Step(IF Absent \in {file[Of("bin")], file[Of("manifest")]} THEN "candidate" ELSE "check")
    /\ UNCHANGED <<build, file, released, counters>>

CheckLayer ==
    /\ AtStep("check")
    /\ IF LayerVerifies(file[Of("bin")], file[Of("manifest")])
       THEN /\ Write(Of("report"), <<"pass", <<file[Of("bin")], file[Of("manifest")]>>>>)
            /\ Step("clean")
       ELSE GiveUp /\ UNCHANGED <<file, component>>
    /\ UNCHANGED beside

\* cleanup_layer_intermediates, then the next layer of the range or the index.
CleanLayer ==
    /\ AtStep("clean")
    /\ file' = Written(Written(file, Of("payload"), Absent), Of("meta"), Absent)
    /\ \/ job.layer < Layers /\ job' = [job EXCEPT !.at = "look", !.layer = @ + 1]
       \/ Step("index")
    /\ UNCHANGED <<build, released, counters>>

LayerRecord(f, l) == <<f[<<"bin", l>>], f[<<"manifest", l>>], f[<<"report", l>>]>>
LayerRecords(f) == [l \in 1..Layers |-> LayerRecord(f, l)]

\* All layer directories there: the index takes the hash of every file of
\* every layer; a file missing or a manifest that cannot be read is refused.
WriteCheckpointIndex ==
    /\ AtStep("index") /\ GiveUp
    /\ IF \A l \in 1..Layers : /\ file[<<"bin", l>>] # Absent /\ file[<<"report", l>>] # Absent
                               /\ WholeFile(file[<<"manifest", l>>])
       THEN Write(One("index"), <<"index", LayerRecords(file)>>)
       ELSE UNCHANGED <<file, component>>
    /\ UNCHANGED beside

-----------------------------------------------------------------------------
\* validate_experts: every file of every layer has the hash of the index.
ValidateExperts == IfWhole("index") /\ file[One("index")] = <<"index", LayerRecords(file)>>

\* The accepted base image is known by constants of the tool, so it is the
\* same in every run; its metadata is copied over what is there.
StartPackage ==
    /\ AtStep("rest") /\ ValidateExperts
    /\ Step("routedless") /\ UNCHANGED <<build, file, released, counters>>

\* existing_non_routed: both files or none.
ExistingNonRouted ==
    /\ AtStep("routedless")
    /\ LET data == file[One("routedless")]
           manifest == file[One("routedlessManifest")]
       IN IF data = Absent /\ manifest = Absent
          THEN IF file[Partial] = Absent THEN Step("import") ELSE GiveUp
          ELSE IF WholeFile(manifest) /\ manifest[2] = data THEN Step("final") ELSE GiveUp
    /\ UNCHANGED <<build, file, released, counters>>

\* A partial file, synced, then renamed; its manifest afterwards.
WriteNonRouted ==
    /\ AtStep("import") /\ Write(One("routedless"), <<"base">>)
    /\ Step("importManifest") /\ UNCHANGED beside

WriteNonRoutedManifest ==
    /\ AtStep("importManifest")
    /\ Write(One("routedlessManifest"), <<"base", file[One("routedless")]>>)
    /\ Step("final") /\ UNCHANGED beside

\* The layers are those validated above; the index is hashed again.
WriteCheckpoint ==
    /\ AtStep("final")
    /\ Write(One("checkpoint"), <<file[One("index")], file[One("routedless")],
                                  file[One("routedlessManifest")]>>)
    /\ Step("lock") /\ UNCHANGED beside

WriteRuntimeLock ==
    /\ AtStep("lock") /\ Write(One("lock"), <<"lock", file[One("checkpoint")]>>)
    /\ GiveUp /\ UNCHANGED beside

-----------------------------------------------------------------------------
\* What the verifier of the whole checkpoint asks of a directory's contents.
ReportHolds(record) ==
    /\ WholeFile(record[3]) /\ record[3][2] = <<record[1], record[2]>>
    /\ LayerVerifies(record[1], record[2])

CheckpointHolds(f) ==
    /\ WholeFile(f[One("checkpoint")]) /\ WholeFile(f[One("index")])
    /\ f[One("checkpoint")] = <<f[One("index")], f[One("routedless")],
                                f[One("routedlessManifest")]>>
    /\ f[One("index")] = <<"index", LayerRecords(f)>>

\* main of verify_..._checkpoint: a report, and nothing else, depends on it.
VerifyCheckpoint ==
    /\ AtStep("rest") /\ CheckpointHolds(file)
    /\ \A l \in 1..Layers : ReportHolds(LayerRecord(file, l))
    /\ job' = [Resting EXCEPT !.at = "verified", !.held = file[One("index")][2]]
    /\ UNCHANGED <<build, file, released, counters>>

\* The report is a file that no other tool reads.
ReportCheckpoint ==
    /\ AtStep("verified") /\ GiveUp
    /\ UNCHANGED <<build, file, released, counters>>

ComponentFiles ==
    ({"bin", "manifest", "report"} \X (1..Layers))
       \cup ({"index", "routedless", "routedlessManifest", "checkpoint"} \X {0})

\* package_trellis: every file is held against the checkpoint's records first ...
CheckComponent ==
    /\ AtStep("rest") /\ component = [n \in {} |-> Absent] /\ sums = <<>>
    /\ CheckpointHolds(file)
    /\ job' = [Resting EXCEPT !.at = "link", !.held = file[One("checkpoint")]]
    /\ UNCHANGED <<build, file, released, counters>>

\* ... then linked, or copied where a link is not possible ...
LinkComponent ==
    /\ AtStep("link")
    /\ component' = [n \in ComponentFiles |-> file[n]]
    /\ linked' \in {{}, ComponentFiles}
    /\ Step("sums") /\ UNCHANGED <<build, file, sums, image, counters>>

\* ... and the sums are those of the check.
WriteSums ==
    /\ AtStep("sums") /\ sums' = component
    /\ GiveUp /\ UNCHANGED <<build, file, linked, component, image, counters>>

-----------------------------------------------------------------------------
\* validate_v1: the inventory has the sums, and index, checkpoint and layer
\* manifests agree with each other.  The tool hashes each file once, for the inventory,
\* and compares the recorded hashes; ValidateV1 compares with the contents themselves,
\* which is the same for a component whose inventory holds.
InventoryHolds == sums # <<>> /\ component = sums

ValidateV1 ==
    /\ CheckpointHolds(component)
    /\ \A l \in 1..Layers :
          LayerVerifies(component[<<"bin", l>>], component[<<"manifest", l>>])

\* build wants an empty output directory and a valid source.
StartImage ==
    /\ AtStep("rest") /\ image.stage = 0 /\ InventoryHolds /\ ValidateV1
    /\ job' = [Resting EXCEPT !.at = "concat", !.held = component[One("checkpoint")]]
    /\ UNCHANGED <<build, file, released, counters>>

\* stream_concat: the payloads in order, hashed while written and once more.
StreamConcat ==
    /\ AtStep("concat")
    /\ image' = [stage |-> 1, from |-> job.held,
                 data |-> [l \in 1..Layers |-> component[<<"bin", l>>]]]
    /\ Step("publish") /\ UNCHANGED <<build, file, linked, component, sums, counters>>

\* The rename of the image, gem16_compilation.json, gem16_model.json, the
\* lock and the runtime files: stages 2 to 6, each written beside and renamed.
PublishImage ==
    /\ AtStep("publish") /\ image' = [image EXCEPT !.stage = @ + 1]
    /\ IF image.stage = 5 THEN GiveUp ELSE UNCHANGED job
    /\ UNCHANGED <<build, file, linked, component, sums, counters>>

-----------------------------------------------------------------------------
Writing == [candidate |-> Of("payload"), save |-> Of("meta"), pack |-> Of("bin"),
            describe |-> Of("manifest"), check |-> Of("report"), index |-> One("index"),
            import |-> Partial, importManifest |-> One("routedlessManifest"),
            final |-> One("checkpoint"), lock |-> One("lock")]

\* The tool dies: what it was writing is as before, or torn.  A partial import
\* was never renamed; an image being written counts as a file in its directory.
KillTrellisTool ==
    /\ ~AtStep("rest") /\ kills < MaxKills /\ kills' = kills + 1 /\ GiveUp
    /\ \/ UNCHANGED <<file, component, linked, image>>
       \/ /\ job.at \in DOMAIN Writing /\ Write(Writing[job.at], Torn)
          /\ UNCHANGED <<linked, image>>
       \/ AtStep("clean") /\ Write(Of("payload"), Absent) /\ UNCHANGED <<linked, image>>
       \/ /\ AtStep("concat") /\ image' = [NoImage EXCEPT !.stage = 1]
          /\ UNCHANGED <<file, component, linked>>
    /\ UNCHANGED <<build, sums, repairs>>

Repair == AtStep("rest") /\ repairs < MaxRepairs /\ repairs' = repairs + 1

\* The operator removes a layer's directory; a shared file lives on in the component.
RemoveLayer(l) ==
    /\ Repair
    /\ file' = [n \in DOMAIN file |-> IF n \in LayerFiles \X {l} THEN Absent ELSE file[n]]
    /\ linked' = linked \ (LayerFiles \X {l})
    /\ UNCHANGED <<build, component, sums, image, job, kills>>

ClearOutputs ==
    /\ Repair
    /\ linked' = {} /\ component' = [n \in {} |-> Absent] /\ sums' = <<>> /\ image' = NoImage
    /\ UNCHANGED <<build, file, job, kills>>

ExchangeTools ==
    /\ Repair /\ \E b \in Builds \ {build} : build' = b
    /\ UNCHANGED <<file, released, job, kills>>

TrellisNext ==
    \/ \E l \in 1..Layers : StartLayer(l) \/ StartCheckpoint(l) \/ RemoveLayer(l)
    \/ LoadCachedCandidate \/ CompileCandidate \/ SaveCandidate
    \/ WriteLayerArtifact \/ WriteLayerManifest
    \/ LookForLayer \/ CheckLayer \/ CleanLayer \/ WriteCheckpointIndex
    \/ StartPackage \/ ExistingNonRouted \/ WriteNonRouted \/ WriteNonRoutedManifest
    \/ WriteCheckpoint \/ WriteRuntimeLock \/ VerifyCheckpoint \/ ReportCheckpoint
    \/ CheckComponent \/ LinkComponent \/ WriteSums
    \/ StartImage \/ StreamConcat \/ PublishImage
    \/ KillTrellisTool \/ ClearOutputs \/ ExchangeTools

TrellisSpec == TrellisInit /\ [][TrellisNext]_trellisVars

-----------------------------------------------------------------------------
\* The files, the component and the running tool stay within their kinds.
TrellisTypeOK ==
    /\ build \in Builds /\ DOMAIN file = FileNames \cup {Partial}
    /\ linked \subseteq ComponentFiles
    /\ DOMAIN component \in {{}, ComponentFiles} /\ linked \subseteq DOMAIN component
    /\ image.stage \in 0..6 /\ job.layer \in 1..Layers /\ job.alone \in BOOLEAN
    /\ kills \in 0..MaxKills /\ repairs \in 0..MaxRepairs

\* The producer a layer's manifest names made every byte of the artifact the
\* manifest describes, whatever the candidate cache kept from interrupted runs
\* of other builds (load_cached_candidate, write_layer_artifact).
LayerHonest ==
    \A l \in 1..Layers : LET manifest == file[<<"manifest", l>>]
                         IN WholeFile(manifest) => manifest[2] = <<manifest[1]>>

\* A finished device image holds, layer by layer, the bytes that the checkpoint
\* it names has in its index, and each of them a manifest vouches for - although
\* the component it is built from shares its files with a directory that later
\* runs rewrite in place (package_trellis, validate_v1, build).  What a passing
\* verification stands for was so too, each layer's own report included.
ImageExact ==
    /\ image.stage >= 5 =>
          \A l \in 1..Layers : /\ image.from[1][2][l][1] = image.data[l]
                               /\ image.from[1][2][l][2] = <<image.data[l][1], image.data[l]>>
    /\ AtStep("verified") =>
          \A l \in 1..Layers : LET bin == job.held[l][1]
                                    manifest == job.held[l][2]
                               IN /\ manifest = <<bin[1], bin>>
                                  /\ job.held[l][3][2] = <<bin, manifest>>

\* From the search of a candidate to the image, every file is what the file
\* above it says.
ReleaseExact == LayerHonest /\ ImageExact
=============================================================================

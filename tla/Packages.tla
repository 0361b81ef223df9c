------------------------------ MODULE Packages ------------------------------
(***************************************************************************)
(* What is made of a compiled artifact before it is published: the device  *)
(* image of the text model, the vision module, the Hugging Face packages   *)
(* of target and assistant, the consolidated package with its component    *)
(* directories, and the commit that rearranges the published repository.   *)
(*                                                                         *)
(* One tool runs at a time and may be killed; another program may write    *)
(* into the compiled artifact, except between a file's check and its link  *)
(* (a hazard of its own), and others may commit to the repository.  Only   *)
(* whether bytes are those of the lock matters: "exact" or "other".        *)
(***************************************************************************)
EXTENDS Naturals, Sequences

CONSTANTS MaxTroubles   \* kills, alterations, clean-ups and commits of others

ASSUME PackageAssumption == MaxTroubles \in Nat

VARIABLES artifact,   \* the compiled artifact under its external lock
          arena,      \* model.gem16: "none", "partial", "exact" or "other"
          vision,     \* the vision module: "none", "staged" or "whole"
          trellis,    \* files of the Trellis35 image directory, the last ones its runtime files
          target,     \* the target package: its payload, and how far it got
          bundle,     \* the consolidated package: how far it got, what it holds
          head,       \* commits of the published repository, the latest last
          task,       \* the running tool and where it is
          troubles

packageVars == <<artifact, arena, vision, trellis, target, bundle, head, task, troubles>>

Bytes == {"none", "partial", "exact", "other"}
TrellisFiles == 0..3              \* image, then lock and metadata, then runtime files
Tasks == {"idle", "tensors", "rename", "linking", "marking", "encode", "lockVision",
          "publishVision", "trellis", "assistant", "vision", "manifest", "commit"}

PackageTypeOK ==
    /\ artifact \in {"exact", "other"} /\ arena \in Bytes /\ vision \in {"none", "staged", "whole"}
    /\ trellis \in TrellisFiles
    /\ target \in [step : {"none", "linked", "marked"}, arena : Bytes]
    /\ bundle \in [step : 0..4, trellis : TrellisFiles, vision : {"none", "staged", "whole"}]
    /\ head \in Seq({"source", "foreign", "arranged"})
    /\ task \in Tasks /\ troubles \in 0..MaxTroubles

NoTarget == [step |-> "none", arena |-> "none"]
NoBundle == [step |-> 0, trellis |-> 0, vision |-> "none"]

PackageInit ==
    /\ artifact = "exact" /\ arena = "none" /\ vision = "none" /\ trellis = 0
    /\ target = NoTarget /\ bundle = NoBundle /\ head = <<"source">>
    /\ task = "idle" /\ troubles = 0

Doing(place) == task = place
Trouble == troubles < MaxTroubles /\ troubles' = troubles + 1

-----------------------------------------------------------------------------
\* build_..._device_image: the external lock covers the artifact directory
\* exactly; neither the image nor a partial one may be there.
VerifyExternalLock ==
    /\ Doing("idle") /\ artifact = "exact" /\ arena = "none"
    /\ task' = "tensors" /\ arena' = "partial"
    /\ UNCHANGED <<artifact, vision, trellis, target, bundle, head, troubles>>

\* Every tensor is hashed again as it is laid out; an error leaves the partial
\* file for diagnosis.
WriteArena ==
    /\ Doing("tensors")
    /\ task' = IF artifact = "exact" THEN "rename" ELSE "idle"
    /\ UNCHANGED <<artifact, arena, vision, trellis, target, bundle, head, troubles>>

RenameArena ==
    /\ Doing("rename") /\ task' = "idle" /\ arena' = "exact"
    /\ UNCHANGED <<artifact, vision, trellis, target, bundle, head, troubles>>

-----------------------------------------------------------------------------
\* package_target: an empty output, the metadata files of the lock ...
StartTarget ==
    /\ Doing("idle") /\ target = NoTarget /\ artifact = "exact"
    /\ target' = [step |-> "linked", arena |-> "none"] /\ task' = "linking"
    /\ UNCHANGED <<artifact, arena, vision, trellis, bundle, head, troubles>>

\* ... then the image, which must be the qualified one: a refusal leaves the
\* directory filled, so that a second attempt is refused ...
LinkTarget ==
    /\ Doing("linking")
    /\ IF arena = "exact"
       THEN target' = [step |-> "linked", arena |-> arena] /\ task' = "marking"
       ELSE UNCHANGED target /\ task' = "idle"
    /\ UNCHANGED <<artifact, arena, vision, trellis, bundle, head, troubles>>

\* ... and gem16_model.json as the last file.  The assistant package follows.
MarkTarget ==
    /\ Doing("marking") /\ target' = [target EXCEPT !.step = "marked"] /\ task' = "idle"
    /\ UNCHANGED <<artifact, arena, vision, trellis, bundle, head, troubles>>

-----------------------------------------------------------------------------
\* compile_vision_module: everything happens in a staging directory of its own.
StartVision ==
    /\ Doing("idle") /\ vision # "whole"
    /\ vision' = "staged" /\ task' = "encode"
    /\ UNCHANGED <<artifact, arena, trellis, target, bundle, head, troubles>>

\* The source is verified, the native encoder runs, the tensors are copied:
\* an encoder that fails, or an output hash that differs, discards the staging.
EncodeVision ==
    /\ Doing("encode")
    /\ \/ task' = "lockVision" /\ UNCHANGED <<vision, troubles>>
       \/ task' = "idle" /\ vision' = "none" /\ Trouble
    /\ UNCHANGED <<artifact, arena, trellis, target, bundle, head>>

\* Compilation manifest, descriptor and lock; the bundle of the encoder goes.
LockVision ==
    /\ Doing("lockVision") /\ task' = "publishVision"
    /\ UNCHANGED <<artifact, arena, vision, trellis, target, bundle, head, troubles>>

PublishVision ==
    /\ Doing("publishVision") /\ task' = "idle" /\ vision' = "whole"
    /\ UNCHANGED <<artifact, arena, trellis, target, bundle, head, troubles>>

\* The image builder of TrellisRelease adds one file after the other.
AddTrellisFile ==
    /\ Doing("idle") /\ trellis < 3 /\ trellis' = trellis + 1
    /\ UNCHANGED <<artifact, arena, vision, target, bundle, head, task, troubles>>

-----------------------------------------------------------------------------
\* The consolidated package wants an empty directory and keeps the root files.
StartBundle ==
    /\ Doing("idle") /\ bundle = NoBundle
    /\ bundle' = [bundle EXCEPT !.step = 1] /\ task' = "trellis"
    /\ UNCHANGED <<artifact, arena, vision, trellis, target, head, troubles>>

\* Mutated form: the image and its lock are enough.
BundleTrellisEarly ==
    /\ Doing("trellis")
    /\ IF trellis >= 2
       THEN bundle' = [bundle EXCEPT !.step = 2, !.trellis = trellis] /\ task' = "assistant"
       ELSE UNCHANGED bundle /\ task' = "idle"
    /\ UNCHANGED <<artifact, arena, vision, trellis, target, head, troubles>>

\* package_trellis: model, lock, compilation and the five runtime files of
\* known hash must all be there.
BundleTrellis ==
    /\ Doing("trellis")
    /\ IF trellis = 3
       THEN bundle' = [bundle EXCEPT !.step = 2, !.trellis = trellis] /\ task' = "assistant"
       ELSE UNCHANGED bundle /\ task' = "idle"
    /\ UNCHANGED <<artifact, arena, vision, trellis, target, head, troubles>>

\* package_assistant: each file of its lock, checked and linked.
BundleAssistant ==
    /\ Doing("assistant") /\ bundle' = [bundle EXCEPT !.step = 3] /\ task' = "vision"
    /\ UNCHANGED <<artifact, arena, vision, trellis, target, head, troubles>>

\* package_vision: descriptor, artifact, manifest and lock agree.
BundleVision ==
    /\ Doing("vision")
    /\ IF vision = "whole"
       THEN bundle' = [bundle EXCEPT !.vision = vision] /\ task' = "manifest"
       ELSE UNCHANGED bundle /\ task' = "idle"
    /\ UNCHANGED <<artifact, arena, vision, trellis, target, head, troubles>>

\* gem16_components.json states which components belong together, as the last file.
WriteCompatibilityManifest ==
    /\ Doing("manifest") /\ bundle' = [bundle EXCEPT !.step = 4] /\ task' = "idle"
    /\ UNCHANGED <<artifact, arena, vision, trellis, target, head, troubles>>

-----------------------------------------------------------------------------
\* reorganize --publish reads the source revision, whatever the head is ...
ValidateRemote ==
    /\ Doing("idle") /\ task' = "commit"
    /\ UNCHANGED <<artifact, arena, vision, trellis, target, bundle, head, troubles>>

\* ... and one commit copies, adds and deletes: the hub refuses it when the
\* head is no longer the parent it names.
CreateCommit ==
    /\ Doing("commit") /\ task' = "idle"
    /\ head' = IF head = <<"source">> THEN Append(head, "arranged") ELSE head
    /\ UNCHANGED <<artifact, arena, vision, trellis, target, bundle, troubles>>

-----------------------------------------------------------------------------
ForeignCommit ==
    /\ Trouble /\ head' = Append(head, "foreign")
    /\ UNCHANGED <<artifact, arena, vision, trellis, target, bundle, task>>

AlterArtifact ==
    /\ task \notin {"linking", "marking"} /\ Trouble
    /\ artifact' = IF artifact = "exact" THEN "other" ELSE "exact"
    /\ UNCHANGED <<arena, vision, trellis, target, bundle, head, task>>

\* An image of another origin under the name of the qualified one.
BringArena ==
    /\ Doing("idle") /\ Trouble /\ arena' = "other"
    /\ UNCHANGED <<artifact, vision, trellis, target, bundle, head, task>>

KillPackager ==
    /\ ~Doing("idle") /\ Trouble /\ task' = "idle"
    /\ UNCHANGED <<artifact, arena, vision, trellis, target, bundle, head>>

\* What an interrupted tool left must be removed by hand.
RemoveDebris ==
    /\ Doing("idle") /\ Trouble
    /\ arena' = IF arena = "partial" THEN "none" ELSE arena
    /\ target' = IF target.step = "marked" THEN target ELSE NoTarget
    /\ bundle' = IF bundle.step = 4 THEN bundle ELSE NoBundle
    /\ UNCHANGED <<artifact, vision, trellis, head, task>>

PackageNext ==
    \/ VerifyExternalLock \/ WriteArena \/ RenameArena
    \/ StartTarget \/ LinkTarget \/ MarkTarget
    \/ StartVision \/ EncodeVision \/ LockVision \/ PublishVision \/ AddTrellisFile
    \/ StartBundle \/ BundleTrellis \/ BundleAssistant \/ BundleVision
    \/ WriteCompatibilityManifest \/ ValidateRemote \/ CreateCommit
    \/ ForeignCommit \/ AlterArtifact \/ BringArena \/ KillPackager \/ RemoveDebris

PackageSpec == PackageInit /\ [][PackageNext]_packageVars

-----------------------------------------------------------------------------
\* The file written last makes a package: with gem16_model.json the target holds
\* the qualified image, with gem16_components.json the consolidated package holds
\* a finished Trellis35 target and a finished vision module - whichever tools were
\* killed, repeated or given unfinished inputs (package_target, package_trellis,
\* package_vision).
MarkedIsWhole ==
    /\ target.step = "marked" => target.arena = "exact"
    /\ bundle.step = 4 => bundle.trellis = 3 /\ bundle.vision = "whole"

\* The rearranging commit never buries a commit it has not seen, and is made
\* once (publish, parent_commit).
HeadKept ==
    \A i \in DOMAIN head : head[i] = "arranged" => i = 2

\* What a reader of the published files relies on.
PackagesSound == MarkedIsWhole /\ HeadKept
=============================================================================

-------------------------- MODULE ArtifactCompile --------------------------
(***************************************************************************)
(* The checkpoint compiler (tools/gem16_compile): compile_artifact stages  *)
(* shards, index, metadata and manifest under <output>.incomplete, checks  *)
(* them against the source, and publishes with one rename; it then writes  *)
(* the external lock and the report.  Several invocations with the same    *)
(* command line, a source tree that changes under them, I/O errors, kills, *)
(* losses of power and verify_artifact run in every order.                 *)
(*                                                                         *)
(* A directory is identified by the run that made it; names are looked up  *)
(* in "parent" at every step, as the code does.  A file is "absent", a     *)
(* "hole" (reserved, torn or lost bytes), or holds what was read from the  *)
(* "locked" or the "changed" source.                                       *)
(***************************************************************************)
EXTENDS Naturals, FiniteSets

CONSTANTS Runs,              \* invocations of the command line tool
          Tensors, Excluded, \* output tensors (one shard each), tensors left out
          Fp8, Nvfp4,        \* those of the hybrid profile with native encoders
          Profiles, Nobody,
          MaxSourceChanges,
          MaxFaults          \* I/O errors, kills and losses of power

ASSUME CompileAssumption == /\ Nobody \notin Runs
                            /\ Fp8 \subseteq Tensors /\ Nvfp4 \subseteq Tensors
                            /\ MaxSourceChanges \in Nat /\ MaxFaults \in Nat

VARIABLES pc, profile,
          left,       \* tensors of a run still to be written
          noted,      \* source content the manifest of a directory attributes to a tensor
          dir,        \* content of each directory
          flushed,    \* files of a directory whose bytes reached the disk
          entered,    \* files of a directory whose names reached the disk
          parent,     \* the directories named <output> and <output>.incomplete
          kept,       \* the values of parent a loss of power may leave
          lock, report, debris,   \* external lock, report, and their stale .tmp files
          promised,   \* some compilation has exited with success
          source, changes, faults,
          judge       \* a concurrent verify_artifact

run == <<pc, profile, left>>
disk == <<noted, dir, flushed, entered, parent, kept>>
outside == <<lock, report, debris, promised>>
world == <<source, changes, judge>>
vars == <<pc, profile, left, noted, dir, flushed, entered, parent, kept,
          lock, report, debris, promised, source, changes, judge, faults>>

Files == Tensors \cup {"index", "config", "manifest"}
Names == Files \cup {"bundle"}
Content == {"absent", "hole", "locked", "changed"}
Empty == [n \in Names |-> "absent"]

\* Before the try block, inside it before and after "published" is set, and over.
Before == {"load", "preflight", "look", "mkdir"}
Inside == {"hash", "bundle", "reserve", "job", "direct", "encode", "fill", "index",
           "metadata", "manifest", "check", "reverify", "sync", "rename", "settle"}
Published == {"lock", "report", "writing"}
Excusing == {"failing", "excuse", "excusing"}
Over == {"done", "failed", "dead"}
Live == Before \cup Inside \cup Published \cup Excusing

TypeOK ==
    /\ pc \in [Runs -> Live \cup Over]
    /\ profile \in [Runs -> Profiles]
    /\ left \in [Runs -> SUBSET Tensors]
    /\ noted \in [Runs -> [Tensors \cup Excluded -> Content]]
    /\ dir \in [Runs -> [Names -> Content]]
    /\ flushed \in [Runs -> SUBSET Names] /\ entered \in [Runs -> SUBSET Names]
    /\ parent \in [output : Runs \cup {Nobody}, staging : Runs \cup {Nobody}]
    /\ kept \subseteq [output : Runs \cup {Nobody}, staging : Runs \cup {Nobody}]
    /\ parent \in kept
    /\ lock \in Runs \cup {Nobody}
    /\ report \in {"none", "pass", "fail"}
    /\ debris \subseteq {"lock", "report"}
    /\ promised \in BOOLEAN
    /\ source \in {"locked", "changed"}
    /\ changes \in 0..MaxSourceChanges /\ faults \in 0..MaxFaults
    /\ judge \in [pc : {"idle", "loaded", "hashed", "pass"},
                  dir : Runs \cup {Nobody}, whole : BOOLEAN]

Init ==
    /\ pc = [r \in Runs |-> "load"]
    /\ profile \in [Runs -> Profiles]
    /\ left = [r \in Runs |-> Tensors]
    /\ noted = [r \in Runs |-> [t \in Tensors \cup Excluded |-> "absent"]]
    /\ dir = [r \in Runs |-> Empty]
    /\ flushed = [r \in Runs |-> {}] /\ entered = [r \in Runs |-> {}]
    /\ parent = [output |-> Nobody, staging |-> Nobody]
    /\ kept = {[output |-> Nobody, staging |-> Nobody]}
    /\ lock = Nobody /\ report = "none" /\ debris = {} /\ promised = FALSE
    /\ source = "locked" /\ changes = 0 /\ faults = 0
    /\ judge = [pc |-> "idle", dir |-> Nobody, whole |-> FALSE]

-----------------------------------------------------------------------------
\* What one tensor is encoded by depends on the profile.
NativeFp8(p) == CASE p = "fp8" -> Tensors [] p = "hybrid" -> Fp8 [] OTHER -> {}
NativeNvfp4(p) == CASE p = "nvfp4" -> Tensors [] p = "hybrid" -> Nvfp4 [] OTHER -> {}

Present(d) == {n \in Names : dir[d][n] # "absent"}

\* Mutated form: only missing files are looked for, not superfluous ones.
CanonicalLayoutOrMore(d, p) ==
    /\ Files \subseteq Present(d)
    /\ dir[d]["index"] = "locked"
    /\ dir[d]["config"] = IF p = "hybrid" THEN source ELSE "locked"

\* _validate_canonical_layout: exactly the planned files, each with the
\* canonical header, index and metadata of the plan.
CanonicalLayout(d, p) ==
    /\ Present(d) = Files
    /\ dir[d]["index"] = "locked"
    /\ dir[d]["config"] = IF p = "hybrid" THEN source ELSE "locked"

\* _verify_loaded_artifact, recomputed from disk and source: the hash of every
\* output and of its source, those of the tensors left out, and the rest.
TensorsHold(d) == \A t \in Tensors : dir[d][t] = noted[d][t]
SourcesHold(d) == \A t \in Tensors : noted[d][t] = source
ExclusionsHold(d) == \A x \in Excluded : noted[d][x] = source

VerifyLoadedArtifact(d, p) ==
    /\ dir[d]["manifest"] = "locked"
    /\ CanonicalLayout(d, p)
    /\ TensorsHold(d) /\ SourcesHold(d) /\ ExclusionsHold(d)

\* What a published artifact must be, said without the code's checks.
Whole(d) == \A n \in Names : dir[d][n] = IF n \in Files THEN "locked" ELSE "absent"

Here == parent.staging
Staged(n) == Here # Nobody /\ dir[Here][n] # "absent"

\* verify_source_lock: the source files are those of the source lock.
SourceVerified == source = "locked"

\* The paths a run is about to write must still be free.
PathsFree(r) == report = "none" /\ (profile[r] = "hybrid" => lock = Nobody)
OutputFree == parent.output = Nobody

\* The source hashes a native child reports must be those of its job.
TelemetryAgrees(r, mine) == \A t \in mine : noted[r][t] = source
BundleTelemetryAgrees(r) == TelemetryAgrees(r, NativeFp8(profile[r]))
DirectTelemetryAgrees(r) == TelemetryAgrees(r, NativeNvfp4(profile[r]))

\* Shards are created exclusively, and filled in place only where they exist.
ShardsMissing(some) == Here # Nobody /\ \A t \in some : ~Staged(t)
ShardsReserved(some) == \A t \in some : Staged(t)
BundleReadable(r) == NativeFp8(profile[r]) # {} => Staged("bundle")

\* What the step a run is at must find; a step that does not find it raises.
Allowed(r) ==
    LET p == profile[r]
    IN CASE pc[r] \in {"load", "reverify"} -> SourceVerified
         [] pc[r] = "preflight" -> PathsFree(r)
         [] pc[r] = "look" -> OutputFree
         [] pc[r] = "mkdir" -> Here = Nobody
         [] pc[r] = "bundle" -> Here # Nobody /\ ~Staged("bundle") /\ BundleTelemetryAgrees(r)
         [] pc[r] = "direct" -> ShardsReserved(NativeNvfp4(p)) /\ DirectTelemetryAgrees(r)
         [] pc[r] = "reserve" -> ShardsMissing(Tensors)
         [] pc[r] = "encode" -> ShardsMissing(left[r]) /\ BundleReadable(r)
         [] pc[r] = "fill" -> /\ ShardsReserved(IF left[r] = {} THEN Tensors ELSE left[r])
                              /\ BundleReadable(r)
         [] pc[r] = "metadata" -> /\ Here # Nobody /\ ~Staged("config")
                                  /\ p = "hybrid" \/ SourceVerified
         [] pc[r] = "manifest" -> \A n \in Files \ {"manifest"} : Staged(n)
         [] pc[r] = "check" -> Here # Nobody /\ VerifyLoadedArtifact(Here, p)
         [] pc[r] = "rename" -> Here # Nobody /\ OutputFree
         [] pc[r] = "lock" -> "lock" \notin debris
         [] pc[r] = "report" -> report = "none"
         [] pc[r] = "writing" -> "report" \notin debris
         [] OTHER -> Here # Nobody \/ pc[r] = "settle"

\* A step that something goes wrong in; there are at most MaxFaults of them.
Fault == faults < MaxFaults /\ faults' = faults + 1
Fine == UNCHANGED faults

At(r, phase) == pc[r] = phase /\ Allowed(r)
Goto(r, phase) == pc' = [pc EXCEPT ![r] = phase]

\* A file appears or changes in the staging directory; "forced" ones are fsynced.
Put(new, forced) ==
    /\ dir' = [dir EXCEPT ![Here] = [n \in Names |-> IF n \in DOMAIN new THEN new[n] ELSE @[n]]]
    /\ flushed' = [flushed EXCEPT ![Here] = (@ \ DOMAIN new) \cup forced]

\* _load_request, and the native preflight that comes before it.
LoadRequest(r) ==
    /\ At(r, "load")
    /\ Goto(r, IF profile[r] = "plan" THEN "reverify" ELSE "preflight")
    /\ UNCHANGED <<profile, left, disk, outside, world>>

\* Report and lock must not exist yet; then the output, then the staging directory.
Preflight(r) ==
    /\ At(r, "preflight") /\ Goto(r, "look")
    /\ UNCHANGED <<profile, left, disk, outside, world>>

LookForOutput(r) ==
    /\ At(r, "look") /\ Goto(r, "mkdir")
    /\ UNCHANGED <<profile, left, disk, outside, world>>

MakeStaging(r) ==
    /\ At(r, "mkdir")
    /\ Goto(r, CASE NativeFp8(profile[r]) # {} -> "hash"
                 [] profile[r] = "nvfp4" -> "reserve"
                 [] OTHER -> "encode")
    /\ parent' = [parent EXCEPT !.staging = r]
    /\ kept' = kept \cup {parent'}
    /\ UNCHANGED <<profile, left, noted, dir, flushed, entered, outside, world>>

\* A native job states the hash of each of its sources before the child runs.
HashSources(r, mine) ==
    /\ noted' = [noted EXCEPT ![r] = [t \in DOMAIN @ |-> IF t \in mine THEN source ELSE @[t]]]
    /\ UNCHANGED <<profile, left, dir, flushed, entered, parent, kept, outside, world>>

MakeBundleJob(r) ==
    At(r, "hash") /\ Goto(r, "bundle") /\ HashSources(r, NativeFp8(profile[r]))

MakeDirectJob(r) ==
    At(r, "job") /\ Goto(r, "direct") /\ HashSources(r, NativeNvfp4(profile[r]))

\* prepare_native_bundle: the child's source hashes must be those of the job.
PrepareBundle(r) ==
    /\ At(r, "bundle")
    /\ Goto(r, IF profile[r] = "hybrid" THEN "reserve" ELSE "encode")
    /\ Put([n \in {"bundle"} |-> source], {})
    /\ UNCHANGED <<profile, left, noted, entered, parent, kept, outside, world>>

PrepareDirectShards(r) ==
    /\ At(r, "reserve") /\ Goto(r, "job")
    /\ Put([t \in Tensors |-> "hole"], Tensors)
    /\ UNCHANGED <<profile, left, noted, entered, parent, kept, outside, world>>

\* The child writes its ranges, flushes them, and its telemetry is reconciled.
PrepareNativeDirect(r) ==
    /\ At(r, "direct")
    /\ Goto(r, IF profile[r] = "hybrid" THEN "fill" ELSE "index")
    /\ Put([t \in NativeNvfp4(profile[r]) |-> source], NativeNvfp4(profile[r]))
    /\ left' = [left EXCEPT ![r] = @ \ NativeNvfp4(profile[r])]
    /\ UNCHANGED <<profile, noted, entered, parent, kept, outside, world>>

\* A tensor is encoded from the bundle or from the source as it is now.
Encoded(r, t) == IF t \in NativeFp8(profile[r]) THEN dir[Here]["bundle"] ELSE source

\* The next tensor is written and its output and source hashes are noted.
CompileTensor(r, forced) ==
    /\ left[r] # {}
    /\ LET t == CHOOSE u \in left[r] : TRUE
       IN /\ Put([n \in {t} |-> Encoded(r, t)], IF forced THEN {t} ELSE {})
          /\ noted' = [noted EXCEPT ![r][t] = Encoded(r, t)]
          /\ left' = [left EXCEPT ![r] = @ \ {t}]
    /\ UNCHANGED <<pc, profile, entered, parent, kept, outside, world>>

\* write_shards creates and flushes one shard after the other.
WriteShard(r) == At(r, "encode") /\ CompileTensor(r, TRUE)

\* finalize_mixed_shards fills the reserved ranges the child has not written.
FillShard(r) == At(r, "fill") /\ CompileTensor(r, FALSE)

\* Mutated form: the shards filled in place are not flushed before the index.
FinishShardsUnsynced(r) ==
    /\ At(r, "encode") \/ At(r, "fill")
    /\ left[r] = {}
    /\ Goto(r, "index")
    /\ UNCHANGED <<profile, left, disk, outside, world>>

FinishShards(r) ==
    /\ At(r, "encode") \/ At(r, "fill")
    /\ left[r] = {}
    /\ Goto(r, "index")
    /\ flushed' = [flushed EXCEPT ![Here] = @ \cup (Tensors \cap Present(Here))]
    /\ UNCHANGED <<profile, left, noted, dir, entered, parent, kept, outside, world>>

\* write_file_atomic inside the staging directory also flushes its names.
WriteStaged(n, gone) ==
    /\ dir' = [dir EXCEPT ![Here] = [m \in Names |-> IF m = n THEN "locked"
                                                     ELSE IF m \in gone THEN "absent" ELSE @[m]]]
    /\ flushed' = [flushed EXCEPT ![Here] = @ \cup {n}]
    /\ entered' = [entered EXCEPT ![Here] = Present(Here) \cup {n}]

\* The index, then the clean-up of the bundle, which may fail without notice.
WriteIndex(r) ==
    /\ At(r, "index") /\ Goto(r, "metadata")
    /\ \/ WriteStaged("index", {"bundle"}) /\ Fine
       \/ WriteStaged("index", {}) /\ Fault
    /\ UNCHANGED <<profile, left, noted, parent, kept, outside, world>>

\* Metadata is copied under the hash of the lock; the hybrid config is generated.
CopyApprovedMetadata(r) ==
    /\ At(r, "metadata") /\ Goto(r, "manifest")
    /\ Put([n \in {"config"} |-> source], {"config"})
    /\ UNCHANGED <<profile, left, noted, entered, parent, kept, outside, world>>

BuildCompilationManifest(r) ==
    /\ At(r, "manifest") /\ Goto(r, "check")
    /\ noted' = [noted EXCEPT ![r] = [t \in DOMAIN @ |-> IF t \in Excluded THEN source ELSE @[t]]]
    /\ WriteStaged("manifest", {})
    /\ UNCHANGED <<profile, left, parent, kept, outside, world>>

CheckStaged(r) ==
    /\ At(r, "check") /\ Goto(r, "reverify")
    /\ UNCHANGED <<profile, left, disk, outside, world>>

ReverifySourceFiles(r) ==
    /\ At(r, "reverify")
    /\ Goto(r, IF profile[r] = "plan" THEN "report" ELSE "sync")
    /\ UNCHANGED <<profile, left, disk, outside, world>>

\* Mutated form: the directory that is about to be renamed is forgotten on disk.
SyncStagingForgotten(r) ==
    /\ At(r, "sync") /\ Goto(r, "rename")
    /\ entered' = [entered EXCEPT ![Here] = Present(Here)]
    /\ kept' = kept \ {parent}
    /\ UNCHANGED <<profile, left, noted, dir, flushed, parent, outside, world>>

\* publish_staging: both directories are flushed, then the rename, then its flush.
SyncStaging(r) ==
    /\ At(r, "sync") /\ Goto(r, "rename")
    /\ entered' = [entered EXCEPT ![Here] = Present(Here)]
    /\ kept' = {parent}
    /\ UNCHANGED <<profile, left, noted, dir, flushed, parent, outside, world>>

RenameStaging(r) ==
    /\ At(r, "rename") /\ Goto(r, "settle")
    /\ parent' = [output |-> Here, staging |-> Nobody]
    /\ kept' = kept \cup {parent'}
    /\ UNCHANGED <<profile, left, noted, dir, flushed, entered, outside, world>>

\* Mutated form: the parent directory is not flushed after the rename.
SettleOutputUnsynced(r) ==
    /\ At(r, "settle")
    /\ Goto(r, IF profile[r] = "hybrid" THEN "lock" ELSE "report")
    /\ UNCHANGED <<profile, left, disk, outside, world>>

SettleOutput(r) ==
    /\ At(r, "settle")
    /\ Goto(r, IF profile[r] = "hybrid" THEN "lock" ELSE "report")
    /\ kept' = {parent}
    /\ UNCHANGED <<profile, left, noted, dir, flushed, entered, parent, outside, world>>

WriteLock(r) ==
    /\ At(r, "lock") /\ Goto(r, "report")
    /\ lock' = parent.output
    /\ UNCHANGED <<profile, left, disk, report, debris, promised, world>>

LookForReport(r) ==
    /\ At(r, "report") /\ Goto(r, "writing")
    /\ UNCHANGED <<profile, left, disk, outside, world>>

WriteReport(r) ==
    /\ At(r, "writing") /\ Goto(r, "done")
    /\ report' = "pass"
    /\ promised' = (promised \/ profile[r] # "plan")
    /\ UNCHANGED <<profile, left, disk, lock, debris, world>>

Succeed(r) ==
    \/ WriteIndex(r)
    \/ /\ Fine
       /\ \/ LoadRequest(r) \/ Preflight(r) \/ LookForOutput(r) \/ MakeStaging(r)
          \/ MakeBundleJob(r) \/ MakeDirectJob(r) \/ PrepareBundle(r) \/ PrepareDirectShards(r)
          \/ PrepareNativeDirect(r) \/ WriteShard(r) \/ FillShard(r) \/ FinishShards(r)
          \/ CopyApprovedMetadata(r) \/ BuildCompilationManifest(r) \/ CheckStaged(r)
          \/ ReverifySourceFiles(r) \/ SyncStaging(r) \/ RenameStaging(r)
          \/ SettleOutput(r) \/ WriteLock(r) \/ LookForReport(r) \/ WriteReport(r)

-----------------------------------------------------------------------------
\* A step raises.  An atomic write may fail after its rename, with the file there.
Raise(r) ==
    /\ pc[r] \in Before \cup Inside \cup Published
    /\ IF Allowed(r) THEN Fault ELSE Fine
    /\ Goto(r, IF pc[r] \in Inside /\ profile[r] # "plan" THEN "failing" ELSE "excuse")
    /\ lock' \in {lock} \cup (IF At(r, "lock") THEN {parent.output} ELSE {})
    /\ report' \in {report} \cup (IF At(r, "writing") THEN {"pass"} ELSE {})
    /\ UNCHANGED <<profile, left, disk, debris, promised, world>>

\* discard_staging removes what has the staging name; rmtree may stop half way.
DiscardStaging(r) ==
    /\ pc[r] = "failing" /\ Goto(r, "excuse")
    /\ \/ Here = Nobody /\ Fine /\ UNCHANGED <<dir, parent, kept>>
       \/ /\ Here # Nobody /\ Fine
          /\ dir' = [dir EXCEPT ![Here] = Empty]
          /\ parent' = [parent EXCEPT !.staging = Nobody]
          /\ kept' = kept \cup {parent'}
       \/ /\ Here # Nobody /\ Fault
          /\ \E n \in Present(Here) : dir' = [dir EXCEPT ![Here][n] = "absent"]
          /\ UNCHANGED <<parent, kept>>
    /\ UNCHANGED <<profile, left, noted, flushed, entered, outside, world>>

\* write_failure_report: only where no report exists, and its errors are swallowed.
LookBeforeExcuse(r) ==
    /\ pc[r] = "excuse" /\ Fine
    /\ Goto(r, IF report = "none" THEN "excusing" ELSE "failed")
    /\ UNCHANGED <<profile, left, disk, outside, world>>

WriteFailureReport(r) ==
    /\ pc[r] = "excusing" /\ Goto(r, "failed")
    /\ \/ "report" \notin debris /\ report' = "fail" /\ Fine
       \/ "report" \in debris /\ UNCHANGED report /\ Fine
       \/ "report" \notin debris /\ UNCHANGED report /\ Fault
    /\ UNCHANGED <<profile, left, disk, lock, debris, promised, world>>

Fail(r) == Raise(r) \/ DiscardStaging(r) \/ LookBeforeExcuse(r) \/ WriteFailureReport(r)

-----------------------------------------------------------------------------
\* A kill runs no handler and may leave the temporary file of an atomic write.
Kill(r) ==
    /\ Fault /\ pc[r] \in Live \ {"load"}
    /\ Goto(r, "dead")
    /\ debris' \in {debris} \cup (CASE At(r, "lock") -> {debris \cup {"lock"}}
                                    [] pc[r] \in {"writing", "excusing"} -> {debris \cup {"report"}}
                                    [] OTHER -> {})
    /\ UNCHANGED <<profile, left, disk, lock, report, promised, world>>

\* What is on the disk when the power comes back: unflushed names and bytes go.
Remains(d) == [n \in Names |-> IF n \notin entered[d] THEN "absent"
                               ELSE IF dir[d][n] # "absent" /\ n \notin flushed[d] THEN "hole"
                               ELSE dir[d][n]]

LosePower ==
    /\ Fault
    /\ pc' = [r \in Runs |-> IF pc[r] \in Live \ {"load"} THEN "dead" ELSE pc[r]]
    /\ parent' \in kept
    /\ kept' = {parent'}
    /\ dir' \in {dir, [d \in Runs |-> Remains(d)]}
    /\ judge' = [judge EXCEPT !.pc = "idle"]
    /\ UNCHANGED <<profile, left, noted, flushed, entered, outside, source, changes>>

\* Restart-only recovery: somebody removes a stale .incomplete directory.
RemoveStale ==
    /\ Here # Nobody
    /\ \A r \in Runs : pc[r] \notin Inside \cup {"failing"}
    /\ parent' = [parent EXCEPT !.staging = Nobody]
    /\ kept' = kept \cup {parent'}
    /\ UNCHANGED <<run, noted, dir, flushed, entered, outside, world, faults>>

ChangeSource ==
    /\ changes < MaxSourceChanges
    /\ changes' = changes + 1
    /\ source' = IF source = "locked" THEN "changed" ELSE "locked"
    /\ UNCHANGED <<run, disk, outside, judge, faults>>

-----------------------------------------------------------------------------
\* verify_artifact, pointed at the output or at an .incomplete directory.
VerifyLoad ==
    /\ judge.pc = "idle" /\ SourceVerified
    /\ \E d \in {parent.output, parent.staging} \ {Nobody} :
          judge' = [pc |-> "loaded", dir |-> d, whole |-> FALSE]

VerifyHash ==
    /\ judge.pc = "loaded"
    /\ judge.dir \in {parent.output, parent.staging}
    /\ VerifyLoadedArtifact(judge.dir, profile[judge.dir])
    /\ judge' = [judge EXCEPT !.pc = "hashed", !.whole = Whole(judge.dir)]

\* _verify_external_artifact_lock: the lock of a hybrid artifact names this one.
LockNames(d) == profile[d] = "hybrid" => lock = d

VerifyPass ==
    /\ judge.pc = "hashed" /\ SourceVerified
    /\ LockNames(judge.dir)
    /\ judge' = [judge EXCEPT !.pc = "pass"]

VerifyRefuse ==
    /\ judge.pc \in {"loaded", "hashed"}
    /\ judge' = [judge EXCEPT !.pc = "idle"]

VerifyArtifact == /\ VerifyLoad \/ VerifyHash \/ VerifyPass \/ VerifyRefuse
                  /\ UNCHANGED <<run, disk, outside, source, changes, faults>>

Next == \/ \E r \in Runs : Succeed(r) \/ Fail(r) \/ Kill(r)
        \/ LosePower \/ RemoveStale \/ ChangeSource \/ VerifyArtifact

Spec == Init /\ [][Next]_vars

-----------------------------------------------------------------------------
\* What has the output name is a complete artifact made of the locked source,
\* through concurrent runs, failures at any step, kills, losses of power and a
\* source that changes once under the compiler (compile_artifact, publish_staging).
PublishedIsWhole == parent.output # Nobody => Whole(parent.output)

\* An external lock binds the directory that is published, also after power is
\* lost: it is written after the rename has reached the disk (compile_artifact).
LockBindsOutput == lock # Nobody => lock = parent.output

\* verify_artifact passes no directory that was not whole when it hashed it:
\* neither one being written nor one an interrupted run left behind.
VerdictSound == judge.pc = "pass" => judge.whole

\* CORRECTNESS.md: caught failures publish no artifact.
FailurePublishesNothing ==
    \A r \in Runs : pc[r] = "failed" => parent.output # r

\* The detailed compiler keeps the abstract promise of its output path.
Promise == INSTANCE Publication WITH Directories <- Runs, published <- parent.output
PromiseKept == Promise!Spec
=============================================================================

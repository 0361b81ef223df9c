------------------------ MODULE ArtifactCompileProofs ------------------------
(***************************************************************************)
(* Proofs about ArtifactCompile for any number of invocations, tensors,    *)
(* I/O errors, kills and losses of power: the lock binds what is           *)
(* published and the promise of Publication is kept; and, while the source *)
(* changes at most once, what is published is whole and verify_artifact    *)
(* passes nothing that was not.                                            *)
(***************************************************************************)
EXTENDS ArtifactCompile, TLAPS

\* Steps of a run that leave every name, the lock and the promise alone.
WorkStep(r) ==
    \/ LoadRequest(r) \/ Preflight(r) \/ LookForOutput(r)
    \/ MakeBundleJob(r) \/ MakeDirectJob(r) \/ PrepareBundle(r) \/ PrepareDirectShards(r)
    \/ PrepareNativeDirect(r) \/ WriteShard(r) \/ FillShard(r) \/ FinishShards(r)
    \/ WriteIndex(r) \/ CopyApprovedMetadata(r) \/ BuildCompilationManifest(r)
    \/ CheckStaged(r) \/ ReverifySourceFiles(r) \/ LookForReport(r)

-----------------------------------------------------------------------------
(* Type correctness.                                                       *)

(* What TypeOK says of the contents and of the progress of the runs.       *)
FilesOK ==
    /\ left \in [Runs -> SUBSET Tensors]
    /\ noted \in [Runs -> [Tensors \cup Excluded -> Content]]
    /\ dir \in [Runs -> [Names -> Content]]
    /\ flushed \in [Runs -> SUBSET Names] /\ entered \in [Runs -> SUBSET Names]

PhaseOK == pc \in [Runs -> Live \cup Over] /\ profile \in [Runs -> Profiles]

LEMMA NamesTyped == /\ Tensors \subseteq Names /\ {"index", "config", "manifest", "bundle"} \subseteq Names
                    /\ {"absent", "hole", "locked", "changed"} \subseteq Content
                    /\ "locked" \in Content
  BY DEF Names, Files, Content

LEMMA NativeTyped == \A p : NativeFp8(p) \subseteq Tensors /\ NativeNvfp4(p) \subseteq Tensors
  BY CompileAssumption DEF NativeFp8, NativeNvfp4

LEMMA MoveTyped ==
  ASSUME PhaseOK, NEW r \in Runs, NEW phase \in Live \cup Over, Goto(r, phase)
  PROVE  /\ pc' \in [Runs -> Live \cup Over]
         /\ pc'[r] = phase /\ \A q \in Runs \ {r} : pc'[q] = pc[q]
  BY DEF PhaseOK, Goto

(* Each step of the work moves its run along and leaves the names alone.   *)
Moves(r) ==
    /\ pc' \in [Runs -> Live \cup Over]
    /\ \A q \in Runs \ {r} : pc'[q] = pc[q]
    /\ pc[r] \in Before \cup Inside \cup {"report"}
    /\ pc'[r] \in (Inside \ {"settle"}) \cup {"preflight", "look", "mkdir", "report", "writing"}
    /\ pc'[r] = "report" => pc[r] = "reverify" /\ profile[r] = "plan"
    /\ pc'[r] = "writing" => pc[r] = "report"
    /\ pc'[r] = "reverify" => pc[r] = "check" \/ (pc[r] = "load" /\ profile[r] = "plan")
    /\ UNCHANGED <<profile, parent, kept, outside, world>>
    /\ pc[r] \notin {"mkdir", "sync", "rename", "settle"}
    /\ pc[r] = "load" => pc'[r] = IF profile[r] = "plan" THEN "reverify" ELSE "preflight"
    /\ pc[r] = "report" => pc'[r] = "writing"
    /\ pc[r] \in {"preflight", "look"} => pc'[r] \in {"look", "mkdir"}
    /\ pc'[r] \in Before => pc[r] \in Before
    /\ pc'[r] \in {"hash", "bundle"} => pc[r] = "hash"
    /\ pc'[r] \in {"reserve", "job", "direct"} => \/ pc[r] \in {"reserve", "job"}
                                                 \/ profile[r] = "hybrid"
    /\ pc[r] = "reverify" => pc'[r] = IF profile[r] = "plan" THEN "report" ELSE "sync"

LEMMA WorkMoves ==
  ASSUME TypeOK, NEW r \in Runs, WorkStep(r)
  PROVE  Moves(r)
<1> USE DEF Before, Inside, Live, Published, At, disk, Fine
<1>0. PhaseOK
  BY DEF TypeOK, PhaseOK
<1>1. CASE LoadRequest(r)
  BY <1>0, <1>1, MoveTyped DEF Moves, LoadRequest
<1>2. CASE Preflight(r)
  BY <1>0, <1>2, MoveTyped DEF Moves, Preflight
<1>3. CASE LookForOutput(r)
  BY <1>0, <1>3, MoveTyped DEF Moves, LookForOutput
<1>4. CASE MakeBundleJob(r)
  BY <1>0, <1>4, MoveTyped DEF Moves, MakeBundleJob, HashSources
<1>5. CASE MakeDirectJob(r)
  BY <1>0, <1>5, MoveTyped DEF Moves, MakeDirectJob, HashSources
<1>6. CASE PrepareBundle(r)
  BY <1>0, <1>6, MoveTyped DEF Moves, PrepareBundle
<1>7. CASE PrepareDirectShards(r)
  BY <1>0, <1>7, MoveTyped DEF Moves, PrepareDirectShards
<1>8. CASE PrepareNativeDirect(r)
  BY <1>0, <1>8, MoveTyped DEF Moves, PrepareNativeDirect
<1>9. CASE WriteShard(r)
  BY <1>0, <1>9 DEF Moves, WriteShard, CompileTensor, PhaseOK
<1>10. CASE FillShard(r)
  BY <1>0, <1>10 DEF Moves, FillShard, CompileTensor, PhaseOK
<1>11. CASE FinishShards(r)
  BY <1>0, <1>11, MoveTyped DEF Moves, FinishShards
<1>12. CASE WriteIndex(r)
  BY <1>0, <1>12, MoveTyped DEF Moves, WriteIndex
<1>13. CASE CopyApprovedMetadata(r)
  BY <1>0, <1>13, MoveTyped DEF Moves, CopyApprovedMetadata
<1>14. CASE BuildCompilationManifest(r)
  BY <1>0, <1>14, MoveTyped DEF Moves, BuildCompilationManifest
<1>15. CASE CheckStaged(r)
  BY <1>0, <1>15, MoveTyped DEF Moves, CheckStaged
<1>16. CASE ReverifySourceFiles(r)
  BY <1>0, <1>16, MoveTyped DEF Moves, ReverifySourceFiles
<1>17. CASE LookForReport(r)
  BY <1>0, <1>17, MoveTyped DEF Moves, LookForReport
<1>18. QED
  BY <1>1, <1>2, <1>3, <1>4, <1>5, <1>6, <1>7, <1>8, <1>9, <1>10, <1>11, <1>12,
     <1>13, <1>14, <1>15, <1>16, <1>17 DEF WorkStep

(* What a step does to the directory of another name than <output>.incomplete: nothing. *)
Elsewhere == \A d \in Runs : d # Here => /\ dir'[d] = dir[d]
                                         /\ flushed'[d] = flushed[d]
                                         /\ entered'[d] = entered[d]

LEMMA SourceTyped == TypeOK => source \in Content
  BY DEF TypeOK, Content

LEMMA EncodedTyped ==
  ASSUME TypeOK, NEW r \in Runs, Here \in Runs, NEW t
  PROVE  Encoded(r, t) \in Content
<1>1. dir[Here]["bundle"] \in Content
  BY NamesTyped DEF TypeOK
<1>2. QED
  BY <1>1, SourceTyped DEF Encoded

LEMMA HashTyped ==
  ASSUME TypeOK, NEW r \in Runs, NEW mine, HashSources(r, mine)
  PROVE  FilesOK' /\ Elsewhere
<1>1. noted' \in [Runs -> [Tensors \cup Excluded -> Content]]
  BY SourceTyped DEF TypeOK, HashSources
<1>2. UNCHANGED <<left, dir, flushed, entered>>
  BY DEF HashSources
<1>3. QED
  BY <1>1, <1>2 DEF TypeOK, FilesOK, Elsewhere

LEMMA WriteStagedTyped ==
  ASSUME TypeOK, NEW n \in Names, NEW gone, WriteStaged(n, gone)
  PROVE  /\ dir' \in [Runs -> [Names -> Content]]
         /\ flushed' \in [Runs -> SUBSET Names] /\ entered' \in [Runs -> SUBSET Names]
         /\ Elsewhere
<1>1. dir' \in [Runs -> [Names -> Content]]
  BY NamesTyped DEF TypeOK, WriteStaged
<1>2. Present(Here) \subseteq Names
  BY DEF Present
<1>3. flushed' \in [Runs -> SUBSET Names] /\ entered' \in [Runs -> SUBSET Names]
  BY <1>2 DEF TypeOK, WriteStaged
<1>4. Elsewhere
  BY DEF TypeOK, WriteStaged, Elsewhere
<1>5. QED
  BY <1>1, <1>3, <1>4

LEMMA CompileTyped ==
  ASSUME TypeOK, NEW r \in Runs, NEW forced \in BOOLEAN, Here # Nobody,
         CompileTensor(r, forced)
  PROVE  FilesOK' /\ Elsewhere
<1>1. Here \in Runs
  BY DEF TypeOK, Here
<1>2. PICK t \in left[r] :
        /\ Put([n \in {t} |-> Encoded(r, t)], IF forced THEN {t} ELSE {})
        /\ noted' = [noted EXCEPT ![r][t] = Encoded(r, t)]
        /\ left' = [left EXCEPT ![r] = @ \ {t}]
  BY DEF CompileTensor
<1>3. t \in Tensors /\ t \in Names
  BY NamesTyped DEF TypeOK
<1>4. Encoded(r, t) \in Content
  BY <1>1, EncodedTyped
<1>5. dir' \in [Runs -> [Names -> Content]]
  BY <1>1, <1>2, <1>3, <1>4 DEF Put, TypeOK
<1>6. flushed' \in [Runs -> SUBSET Names]
  BY <1>1, <1>2, <1>3 DEF Put, TypeOK
<1>7. noted' \in [Runs -> [Tensors \cup Excluded -> Content]]
  BY <1>2, <1>3, <1>4 DEF TypeOK
<1>8. left' \in [Runs -> SUBSET Tensors]
  BY <1>2 DEF TypeOK
<1>9. entered' = entered
  BY DEF CompileTensor
<1>10. Elsewhere
  BY <1>2, <1>9 DEF Elsewhere, Put, TypeOK
<1>11. QED
  BY <1>5, <1>6, <1>7, <1>8, <1>9, <1>10 DEF FilesOK, TypeOK

LEMMA WorkFiles ==
  ASSUME TypeOK, NEW r \in Runs, WorkStep(r)
  PROVE  FilesOK' /\ Elsewhere
<1> USE DEF At, disk
<1>1. CASE UNCHANGED <<left, disk>>
  BY <1>1 DEF TypeOK, FilesOK, Elsewhere
<1>2. CASE MakeBundleJob(r) \/ MakeDirectJob(r)
  BY <1>2, HashTyped DEF MakeBundleJob, MakeDirectJob
<1>3. CASE PrepareBundle(r)
  <2>1. Put([n \in {"bundle"} |-> source], {}) /\ UNCHANGED <<left, noted, entered>>
    BY <1>3 DEF PrepareBundle
  <2>2. dir' \in [Runs -> [Names -> Content]] /\ flushed' \in [Runs -> SUBSET Names]
    BY <2>1, SourceTyped, NamesTyped DEF Put, TypeOK
  <2>3. Elsewhere
    BY <2>1 DEF Elsewhere, Put, TypeOK
  <2>4. QED
    BY <2>1, <2>2, <2>3 DEF FilesOK, TypeOK
<1>4. CASE PrepareDirectShards(r)
  <2>1. Put([t \in Tensors |-> "hole"], Tensors) /\ UNCHANGED <<left, noted, entered>>
    BY <1>4 DEF PrepareDirectShards
  <2>2. dir' \in [Runs -> [Names -> Content]] /\ flushed' \in [Runs -> SUBSET Names]
    BY <2>1, NamesTyped DEF Put, TypeOK
  <2>3. Elsewhere
    BY <2>1 DEF Elsewhere, Put, TypeOK
  <2>4. QED
    BY <2>1, <2>2, <2>3 DEF FilesOK, TypeOK
<1>5. CASE PrepareNativeDirect(r)
  <2> DEFINE mine == NativeNvfp4(profile[r])
  <2>1. /\ Put([t \in mine |-> source], mine)
        /\ left' = [left EXCEPT ![r] = @ \ mine]
        /\ UNCHANGED <<noted, entered>>
    BY <1>5 DEF PrepareNativeDirect
  <2>2. mine \subseteq Names
    BY NativeTyped, NamesTyped
  <2> HIDE DEF mine
  <2>3. dir' \in [Runs -> [Names -> Content]] /\ flushed' \in [Runs -> SUBSET Names]
    BY <2>1, <2>2, SourceTyped DEF Put, TypeOK
  <2>4. left' \in [Runs -> SUBSET Tensors]
    BY <2>1 DEF TypeOK
  <2>5. Elsewhere
    BY <2>1 DEF Elsewhere, Put, TypeOK
  <2>6. QED
    BY <2>1, <2>3, <2>4, <2>5 DEF FilesOK, TypeOK
<1>6. CASE WriteShard(r)
  <2>1. Here # Nobody
    BY <1>6 DEF WriteShard, Allowed, ShardsMissing
  <2>2. QED
    BY <1>6, <2>1, CompileTyped DEF WriteShard
<1>7. CASE FillShard(r)
  <2>1. Here # Nobody
    BY <1>7 DEF FillShard, CompileTensor, Allowed, ShardsReserved, Staged
  <2>2. QED
    BY <1>7, <2>1, CompileTyped DEF FillShard
<1>8. CASE FinishShards(r)
  <2>1. /\ flushed' = [flushed EXCEPT ![Here] = @ \cup (Tensors \cap Present(Here))]
        /\ UNCHANGED <<left, noted, dir, entered>>
    BY <1>8 DEF FinishShards
  <2>2. flushed' \in [Runs -> SUBSET Names]
    BY <2>1, NamesTyped DEF TypeOK
  <2>3. QED
    BY <2>1, <2>2 DEF FilesOK, TypeOK, Elsewhere
<1>9. CASE WriteIndex(r)
  <2>1. \E gone : WriteStaged("index", gone)
    BY <1>9 DEF WriteIndex
  <2>2. UNCHANGED <<left, noted>>
    BY <1>9 DEF WriteIndex
  <2>3. QED
    BY <2>1, <2>2, WriteStagedTyped, NamesTyped DEF FilesOK, TypeOK
<1>10. CASE CopyApprovedMetadata(r)
  <2>1. Put([n \in {"config"} |-> source], {"config"}) /\ UNCHANGED <<left, noted, entered>>
    BY <1>10 DEF CopyApprovedMetadata
  <2>2. dir' \in [Runs -> [Names -> Content]] /\ flushed' \in [Runs -> SUBSET Names]
    BY <2>1, SourceTyped, NamesTyped DEF Put, TypeOK
  <2>3. Elsewhere
    BY <2>1 DEF Elsewhere, Put, TypeOK
  <2>4. QED
    BY <2>1, <2>2, <2>3 DEF FilesOK, TypeOK
<1>11. CASE BuildCompilationManifest(r)
  <2>1. /\ noted' = [noted EXCEPT ![r] = [t \in DOMAIN @ |-> IF t \in Excluded THEN source ELSE @[t]]]
        /\ WriteStaged("manifest", {}) /\ UNCHANGED left
    BY <1>11 DEF BuildCompilationManifest
  <2>2. noted' \in [Runs -> [Tensors \cup Excluded -> Content]]
    BY <2>1, SourceTyped DEF TypeOK
  <2>3. QED
    BY <2>1, <2>2, WriteStagedTyped, NamesTyped DEF FilesOK, TypeOK
<1>12. QED
  BY <1>1, <1>2, <1>3, <1>4, <1>5, <1>6, <1>7, <1>8, <1>9, <1>10, <1>11
     DEF WorkStep, LoadRequest, Preflight, LookForOutput, CheckStaged,
         ReverifySourceFiles, LookForReport

(* The other parts of TypeOK.                                              *)
Place == [output : Runs \cup {Nobody}, staging : Runs \cup {Nobody}]
PlacesOK == parent \in Place /\ kept \subseteq Place /\ parent \in kept
OutsideOK ==
    /\ lock \in Runs \cup {Nobody}
    /\ report \in {"none", "pass", "fail"}
    /\ debris \subseteq {"lock", "report"}
    /\ promised \in BOOLEAN
WorldOK ==
    /\ source \in {"locked", "changed"}
    /\ changes \in 0..MaxSourceChanges
    /\ judge \in [pc : {"idle", "loaded", "hashed", "pass"},
                  dir : Runs \cup {Nobody}, whole : BOOLEAN]
FaultsOK == faults \in 0..MaxFaults

LEMMA TypeParts ==
  TypeOK <=> PhaseOK /\ FilesOK /\ PlacesOK /\ OutsideOK /\ WorldOK /\ FaultsOK
  BY DEF TypeOK, PhaseOK, FilesOK, PlacesOK, Place, OutsideOK, WorldOK, FaultsOK

LEMMA TypePartsNext ==
  ASSUME PhaseOK', FilesOK', PlacesOK', OutsideOK', WorldOK', FaultsOK'
  PROVE  TypeOK'
  BY DEF TypeOK, PhaseOK, FilesOK, PlacesOK, Place, OutsideOK, WorldOK, FaultsOK

LEMMA FaultTyped == ASSUME FaultsOK, Fault \/ Fine PROVE FaultsOK'
  BY CompileAssumption DEF FaultsOK, Fault, Fine

LEMMA WorkTyped ==
  ASSUME TypeOK, NEW r \in Runs, WorkStep(r), Fault \/ Fine
  PROVE  TypeOK'
<1>1. Moves(r) /\ FilesOK'
  BY WorkMoves, WorkFiles
<1>2. PhaseOK'
  BY <1>1 DEF Moves, PhaseOK, TypeOK
<1>3. PlacesOK' /\ OutsideOK' /\ WorldOK'
  BY <1>1 DEF Moves, TypeOK, PlacesOK, Place, OutsideOK, WorldOK, outside, world
<1>4. FaultsOK'
  BY FaultTyped, TypeParts
<1>5. QED
  BY <1>1, <1>2, <1>3, <1>4, TypePartsNext

(* A run moves along, and the names on the disk change.                    *)
LEMMA PlaceTyped ==
  ASSUME TypeOK, NEW r \in Runs, NEW phase \in Live \cup Over, Goto(r, phase),
         UNCHANGED profile, PlacesOK', FilesOK', OutsideOK', UNCHANGED world, Fault \/ Fine
  PROVE  TypeOK'
<1>1. PhaseOK'
  BY MoveTyped DEF PhaseOK, TypeOK
<1>2. WorldOK'
  BY DEF WorldOK, TypeOK, world
<1>3. FaultsOK'
  BY FaultTyped, TypeParts
<1>4. QED
  BY <1>1, <1>2, <1>3, TypePartsNext

LEMMA NamingTyped ==
  ASSUME TypeOK, NEW r \in Runs, Fine,
         \/ MakeStaging(r) \/ SyncStaging(r) \/ RenameStaging(r) \/ SettleOutput(r)
  PROVE  TypeOK'
<1> USE DEF Live, Inside, Before, Published, At
<1>1. PlacesOK /\ OutsideOK'
  BY DEF MakeStaging, SyncStaging, RenameStaging, SettleOutput, outside, OutsideOK,
         PlacesOK, Place, TypeOK
<1>2. CASE MakeStaging(r)
  <2>1. PlacesOK'
    BY <1>1, <1>2 DEF MakeStaging, PlacesOK, Place
  <2>2. FilesOK'
    BY <1>2 DEF MakeStaging, FilesOK, TypeOK
  <2>3. PICK phase \in Live : Goto(r, phase)
    BY <1>2 DEF MakeStaging
  <2>4. UNCHANGED <<profile, world>>
    BY <1>2 DEF MakeStaging
  <2>5. QED
    BY <1>1, <2>1, <2>2, <2>3, <2>4, PlaceTyped
<1>3. CASE SyncStaging(r)
  <2>1. PlacesOK'
    BY <1>1, <1>3 DEF SyncStaging, PlacesOK
  <2>2. entered' \in [Runs -> SUBSET Names]
    BY <1>3 DEF SyncStaging, TypeOK, Present
  <2>3. FilesOK'
    BY <1>3, <2>2 DEF SyncStaging, FilesOK, TypeOK
  <2>4. Goto(r, "rename") /\ UNCHANGED <<profile, world>>
    BY <1>3 DEF SyncStaging
  <2>5. QED
    BY <1>1, <2>1, <2>3, <2>4, PlaceTyped
<1>4. CASE RenameStaging(r)
  <2>1. PlacesOK'
    BY <1>1, <1>4 DEF RenameStaging, PlacesOK, Place, Here
  <2>2. FilesOK'
    BY <1>4 DEF RenameStaging, FilesOK, TypeOK
  <2>3. Goto(r, "settle") /\ UNCHANGED <<profile, world>>
    BY <1>4 DEF RenameStaging
  <2>4. QED
    BY <1>1, <2>1, <2>2, <2>3, PlaceTyped
<1>5. CASE SettleOutput(r)
  <2>1. PlacesOK'
    BY <1>1, <1>5 DEF SettleOutput, PlacesOK
  <2>2. FilesOK'
    BY <1>5 DEF SettleOutput, FilesOK, TypeOK
  <2>3. PICK phase \in Live : Goto(r, phase)
    BY <1>5 DEF SettleOutput
  <2>4. UNCHANGED <<profile, world>>
    BY <1>5 DEF SettleOutput
  <2>5. QED
    BY <1>1, <2>1, <2>2, <2>3, <2>4, PlaceTyped
<1>6. QED
  BY <1>2, <1>3, <1>4, <1>5

LEMMA WritingTyped ==
  ASSUME TypeOK, NEW r \in Runs, Fault \/ Fine,
         \/ WriteLock(r) \/ WriteReport(r) \/ Raise(r) \/ LookBeforeExcuse(r)
         \/ WriteFailureReport(r)
  PROVE  TypeOK'
<1>1. UNCHANGED <<profile, left, disk, world>>
  BY DEF WriteLock, WriteReport, Raise, LookBeforeExcuse, WriteFailureReport, outside
<1>2. FilesOK' /\ PlacesOK'
  BY <1>1 DEF disk, FilesOK, PlacesOK, Place, TypeOK
<1>3. PICK phase \in Live \cup Over : Goto(r, phase)
  BY DEF WriteLock, WriteReport, Raise, LookBeforeExcuse, WriteFailureReport,
         Live, Over, Published, Excusing
<1>4. OutsideOK'
  <2>1. lock' \in {lock, parent.output}
    BY DEF WriteLock, WriteReport, Raise, LookBeforeExcuse, WriteFailureReport, outside
  <2>2. report' \in {report, "pass", "fail"} /\ debris' = debris
    BY DEF WriteLock, WriteReport, Raise, LookBeforeExcuse, WriteFailureReport, outside
  <2>3. promised' \in BOOLEAN
    BY DEF WriteLock, WriteReport, Raise, LookBeforeExcuse, WriteFailureReport, outside, TypeOK
  <2>4. QED
    BY <2>1, <2>2, <2>3 DEF OutsideOK, TypeOK
<1>5. QED
  BY <1>1, <1>2, <1>3, <1>4, PlaceTyped

LEMMA DiscardTyped ==
  ASSUME TypeOK, NEW r \in Runs, DiscardStaging(r)
  PROVE  TypeOK' /\ Elsewhere
<1>1. UNCHANGED <<profile, left, noted, flushed, entered, outside, world>>
  BY DEF DiscardStaging
<1>2. dir' \in [Runs -> [Names -> Content]]
  <2>1. Empty \in [Names -> Content]
    BY NamesTyped DEF Empty
  <2>2. CASE \E n \in Present(Here) : dir' = [dir EXCEPT ![Here][n] = "absent"]
    <3>1. PICK n \in Names : dir' = [dir EXCEPT ![Here][n] = "absent"]
      BY <2>2 DEF Present
    <3>2. ASSUME NEW d \in Runs PROVE dir'[d] \in [Names -> Content]
      BY <3>1, NamesTyped DEF TypeOK
    <3>3. DOMAIN dir' = Runs /\ dir' = [d \in Runs |-> dir'[d]]
      BY <3>1 DEF TypeOK
    <3>4. QED
      BY <3>2, <3>3
  <2>3. CASE dir' = dir \/ dir' = [dir EXCEPT ![Here] = Empty]
    BY <2>1, <2>3 DEF TypeOK
  <2>4. QED
    BY <2>2, <2>3 DEF DiscardStaging
<1>3. PlacesOK'
  BY DEF DiscardStaging, TypeOK, PlacesOK, Place
<1>4. FilesOK' /\ OutsideOK'
  BY <1>1, <1>2 DEF FilesOK, OutsideOK, TypeOK, outside
<1>5. Elsewhere
  BY <1>1 DEF DiscardStaging, Elsewhere, TypeOK
<1>6. Goto(r, "excuse") /\ (Fault \/ Fine) /\ "excuse" \in Live \cup Over
  BY DEF DiscardStaging, Live, Excusing
<1>7. QED
  BY <1>1, <1>3, <1>4, <1>5, <1>6, PlaceTyped

LEMMA OutsideTyped ==
  ASSUME TypeOK,
         \/ \E r \in Runs : Kill(r)
         \/ RemoveStale \/ ChangeSource \/ VerifyArtifact
  PROVE  TypeOK'
<1>1. CASE \E r \in Runs : Kill(r)
  <2>1. PICK r \in Runs : Kill(r)
    BY <1>1
  <2>2. Goto(r, "dead") /\ "dead" \in Live \cup Over
    BY <2>1 DEF Kill, Over
  <2>3. UNCHANGED <<profile, left, disk, world>> /\ Fault
    BY <2>1 DEF Kill
  <2>4. FilesOK' /\ PlacesOK'
    BY <2>3 DEF disk, FilesOK, PlacesOK, Place, TypeOK
  <2>5. debris' \subseteq {"lock", "report"}
    BY <2>1 DEF Kill, TypeOK
  <2>6. OutsideOK'
    BY <2>1, <2>5 DEF Kill, OutsideOK, TypeOK
  <2>7. QED
    BY <2>2, <2>3, <2>4, <2>6, PlaceTyped
<1>2. CASE RemoveStale
  <2>1. PlacesOK'
    BY <1>2 DEF RemoveStale, PlacesOK, Place, TypeOK
  <2>2. QED
    BY <1>2, <2>1, TypePartsNext DEF RemoveStale, run, outside, world, TypeOK, PhaseOK, FilesOK,
       OutsideOK, WorldOK, FaultsOK
<1>3. CASE ChangeSource
  <2>1. changes' \in 0..MaxSourceChanges
    BY <1>3, CompileAssumption DEF ChangeSource, TypeOK
  <2>2. WorldOK'
    BY <1>3, <2>1 DEF ChangeSource, WorldOK, TypeOK
  <2>3. QED
    BY <1>3, <2>2, TypePartsNext DEF ChangeSource, run, disk, outside, TypeOK, PhaseOK, FilesOK,
       PlacesOK, Place, OutsideOK, FaultsOK
<1>4. CASE VerifyArtifact
  <2>1. judge' \in [pc : {"idle", "loaded", "hashed", "pass"},
                    dir : Runs \cup {Nobody}, whole : BOOLEAN]
    <3>1. \A d : Whole(d) \in BOOLEAN
      BY DEF Whole
    <3>2. CASE VerifyLoad
      BY <3>2 DEF VerifyLoad, TypeOK
    <3>3. CASE VerifyHash
      BY <3>1, <3>3 DEF VerifyHash, TypeOK
    <3>4. CASE VerifyPass \/ VerifyRefuse
      BY <3>4 DEF VerifyPass, VerifyRefuse, TypeOK
    <3>5. QED
      BY <1>4, <3>2, <3>3, <3>4 DEF VerifyArtifact
  <2>2. WorldOK'
    BY <1>4, <2>1 DEF VerifyArtifact, WorldOK, TypeOK
  <2>3. QED
    BY <1>4, <2>2, TypePartsNext DEF VerifyArtifact, run, disk, outside, TypeOK, PhaseOK,
       FilesOK, PlacesOK, Place, OutsideOK, FaultsOK
<1>5. QED
  BY <1>1, <1>2, <1>3, <1>4

LEMMA LosePowerTyped ==
  ASSUME TypeOK, LosePower
  PROVE  TypeOK'
<1>1. pc' \in [Runs -> Live \cup Over]
  BY DEF LosePower, TypeOK, Over
<1>2. parent' \in kept /\ kept' = {parent'} /\ PlacesOK
  BY DEF LosePower, TypeOK, PlacesOK, Place
<1>3. PlacesOK'
  BY <1>2 DEF PlacesOK, Place
<1>4. dir' \in [Runs -> [Names -> Content]]
  <2>1. \A d \in Runs : Remains(d) \in [Names -> Content]
    BY NamesTyped DEF Remains, TypeOK
  <2>2. CASE dir' = [d \in Runs |-> Remains(d)]
    BY <2>1, <2>2
  <2>3. CASE dir' = dir
    BY <2>3 DEF TypeOK
  <2>4. QED
    BY <2>2, <2>3 DEF LosePower
<1>5. FilesOK' /\ OutsideOK' /\ PhaseOK'
  BY <1>1, <1>4 DEF LosePower, FilesOK, OutsideOK, PhaseOK, TypeOK, outside
<1>6. WorldOK'
  BY DEF LosePower, WorldOK, TypeOK
<1>7. FaultsOK'
  BY FaultTyped, TypeParts DEF LosePower
<1>8. QED
  BY <1>3, <1>5, <1>6, <1>7, TypePartsNext

(* The steps a run may take, in the groups in which they are proved.       *)
LEMMA NextGroups ==
  ASSUME Next
  PROVE  \/ \E r \in Runs : \/ WorkStep(r) /\ (Fault \/ Fine)
                            \/ /\ Fine
                               /\ \/ MakeStaging(r) \/ SyncStaging(r) \/ RenameStaging(r)
                                  \/ SettleOutput(r) \/ WriteLock(r) \/ WriteReport(r)
                            \/ (Fault \/ Fine) /\ (Raise(r) \/ LookBeforeExcuse(r)
                                                   \/ WriteFailureReport(r))
                            \/ DiscardStaging(r) \/ Kill(r)
         \/ LosePower \/ RemoveStale \/ ChangeSource \/ VerifyArtifact
<1>1. ASSUME NEW r \in Runs, WriteIndex(r) PROVE WorkStep(r) /\ (Fault \/ Fine)
  BY <1>1 DEF WorkStep, WriteIndex
<1>2. ASSUME NEW r \in Runs, Raise(r) \/ LookBeforeExcuse(r) \/ WriteFailureReport(r)
      PROVE  Fault \/ Fine
  BY <1>2 DEF Raise, LookBeforeExcuse, WriteFailureReport
<1>3. ASSUME NEW r \in Runs, Succeed(r), ~WriteIndex(r)
      PROVE  /\ Fine
             /\ \/ WorkStep(r) \/ MakeStaging(r) \/ SyncStaging(r) \/ RenameStaging(r)
                \/ SettleOutput(r) \/ WriteLock(r) \/ WriteReport(r)
  BY <1>3 DEF Succeed, WorkStep
<1>4. QED
  BY <1>1, <1>2, <1>3 DEF Next, Fail, Succeed

LEMMA TypeInit == Init => TypeOK
<1> SUFFICES ASSUME Init PROVE TypeOK
  OBVIOUS
<1>1. PhaseOK
  BY DEF Init, PhaseOK, Live, Before
<1>2. OutsideOK /\ PlacesOK
  <2>1. [output |-> Nobody, staging |-> Nobody] \in Place
    BY DEF Place
  <2>2. PlacesOK
    BY <2>1 DEF Init, PlacesOK
  <2>3. OutsideOK
    BY DEF Init, OutsideOK
  <2>4. QED
    BY <2>2, <2>3
<1>3. WorldOK /\ FaultsOK
  <2>1. 0 \in 0..MaxSourceChanges /\ 0 \in 0..MaxFaults
    BY CompileAssumption
  <2>2. judge \in [pc : {"idle", "loaded", "hashed", "pass"},
                  dir : Runs \cup {Nobody}, whole : BOOLEAN]
    BY DEF Init
  <2>3. QED
    BY <2>1, <2>2 DEF Init, WorldOK, FaultsOK
<1>4. FilesOK
  <2>1. Empty \in [Names -> Content]
    BY NamesTyped DEF Empty
  <2>2. [t \in Tensors \cup Excluded |-> "absent"] \in [Tensors \cup Excluded -> Content]
    BY NamesTyped
  <2>3. dir \in [Runs -> [Names -> Content]]
    BY <2>1 DEF Init
  <2>4. noted \in [Runs -> [Tensors \cup Excluded -> Content]]
    BY <2>2 DEF Init
  <2>5. QED
    BY <2>3, <2>4 DEF Init, FilesOK
<1>5. QED
  BY <1>1, <1>2, <1>3, <1>4, TypeParts

LEMMA TypeStep == TypeOK /\ [Next]_vars => TypeOK'
<1> SUFFICES ASSUME TypeOK, [Next]_vars PROVE TypeOK'
  OBVIOUS
<1>1. CASE UNCHANGED vars
  <2>1. PhaseOK' /\ FilesOK' /\ PlacesOK'
    BY <1>1, TypeParts DEF vars, PhaseOK, FilesOK, PlacesOK, Place
  <2>2. OutsideOK' /\ WorldOK' /\ FaultsOK'
    BY <1>1, TypeParts DEF vars, OutsideOK, WorldOK, FaultsOK
  <2> QED BY <2>1, <2>2, TypePartsNext
<1>2. CASE Next
  BY <1>2, NextGroups, WorkTyped, NamingTyped, WritingTyped, DiscardTyped, OutsideTyped,
     LosePowerTyped
<1>3. QED
  BY <1>1, <1>2

\* Runs, directories, files and what a loss of power may leave stay of their kinds
\* in every behaviour of the compiler.
THEOREM TypeCorrect == Spec => []TypeOK
<1>1. QED
  BY TypeInit, TypeStep, PTL DEF Spec

-----------------------------------------------------------------------------
(* Lock and promise.                                                       *)

(* A dry run stays on its short path.                                      *)
PlanPath ==
    \A r \in Runs : profile[r] = "plan" =>
       pc[r] \in {"load", "reverify", "report", "writing", "excuse", "excusing"} \cup Over

(* No loss of power changes what has the output name.                      *)
Anchored == parent.output # Nobody /\ \A k \in kept : k.output = parent.output

(* Nobody goes past the last flush, or has reported success, before that.  *)
LateAnchored ==
    /\ \A r \in Runs :
          pc[r] = "lock" \/ (pc[r] \in {"report", "writing"} /\ profile[r] # "plan") => Anchored
    /\ \A r \in Runs : pc[r] = "settle" => parent.output # Nobody
    /\ promised => Anchored
    /\ lock # Nobody => Anchored

(* A loss of power leaves the output that is there, or none.               *)
KeptLike == \A k \in kept : k.output \in {Nobody, parent.output}

PublishInv == TypeOK /\ PlanPath /\ LateAnchored /\ KeptLike /\ LockBindsOutput

LEMMA PublishInit == Init => PublishInv
<1> SUFFICES ASSUME Init PROVE PublishInv
  OBVIOUS
<1>1. PlanPath /\ LateAnchored /\ KeptLike /\ LockBindsOutput
  BY DEF Init, PlanPath, LateAnchored, KeptLike, LockBindsOutput
<1>2. QED
  BY <1>1, TypeInit DEF PublishInv

(* Adding to "kept" a place with the same output changes none of it.       *)
LEMMA SameOutput ==
  ASSUME PublishInv, TypeOK', NEW place, parent' = place, place.output = parent.output,
         kept' \subseteq kept \cup {place},
         UNCHANGED <<profile, lock, promised>>, PlanPath',
         \A r \in Runs :
            /\ pc'[r] = "lock" \/ (pc'[r] \in {"report", "writing"} /\ profile[r] # "plan")
               => pc[r] = "lock" \/ (pc[r] \in {"report", "writing"} /\ profile[r] # "plan")
            /\ pc'[r] = "settle" => pc[r] = "settle"
  PROVE  PublishInv'
<1>1. Anchored => Anchored'
  BY DEF Anchored
<1>2. LateAnchored'
  BY <1>1 DEF PublishInv, LateAnchored
<1>3. KeptLike' /\ LockBindsOutput'
  BY DEF PublishInv, KeptLike, LockBindsOutput
<1>4. QED
  BY <1>2, <1>3 DEF PublishInv

LEMMA PlanStep ==
  ASSUME PublishInv, NEW r \in Runs, NEW phase, Goto(r, phase), UNCHANGED profile,
         profile[r] = "plan" => phase \in {"load", "reverify", "report", "writing", "excuse",
                                           "excusing"} \cup Over
  PROVE  PlanPath'
  BY DEF PublishInv, PlanPath, Goto, TypeOK

LEMMA WorkPublish ==
  ASSUME PublishInv, NEW r \in Runs, WorkStep(r), Fault \/ Fine
  PROVE  PublishInv'
<1>1. TypeOK' /\ Moves(r)
  BY WorkTyped, WorkMoves DEF PublishInv
<1>2. PlanPath'
  BY <1>1 DEF Moves, PublishInv, PlanPath, Before, Inside, Over
<1>3. QED
  BY <1>1, <1>2, SameOutput DEF Moves, outside, Inside

LEMMA NamingPublish ==
  ASSUME PublishInv, NEW r \in Runs, Fine,
         \/ MakeStaging(r) \/ SyncStaging(r) \/ RenameStaging(r) \/ SettleOutput(r)
  PROVE  PublishInv'
<1> USE DEF At
<1>1. TypeOK /\ TypeOK'
  BY NamingTyped DEF PublishInv
<1>2. /\ pc \in [Runs -> Live \cup Over]
      /\ parent \in Place /\ parent \in kept
  BY <1>1 DEF TypeOK, Place
<1>3. CASE MakeStaging(r)
  <2>1. PICK phase \in {"hash", "reserve", "encode"} : Goto(r, phase)
    BY <1>3 DEF MakeStaging
  <2>2. /\ parent' = [parent EXCEPT !.staging = r] /\ kept' = kept \cup {parent'}
        /\ UNCHANGED <<profile, outside>> /\ pc[r] = "mkdir"
    BY <1>3 DEF MakeStaging
  <2>3. parent'.output = parent.output
    BY <1>2, <2>2 DEF Place
  <2>4. PlanPath'
    BY <1>2, <2>1, <2>2 DEF PublishInv, PlanPath, Over, Goto
  <2>5. QED
    BY <1>1, <1>2, <2>1, <2>2, <2>3, <2>4, SameOutput DEF Goto, outside
<1>4. CASE SyncStaging(r)
  <2>1. /\ Goto(r, "rename") /\ UNCHANGED <<profile, parent, outside>> /\ kept' = {parent}
        /\ pc[r] = "sync"
    BY <1>4 DEF SyncStaging
  <2>2. PlanPath'
    BY <1>2, <2>1 DEF PublishInv, PlanPath, Over, Goto
  <2>3. QED
    BY <1>1, <1>2, <2>1, <2>2, SameOutput DEF Goto, outside
<1>5. CASE SettleOutput(r)
  <2>1. /\ Goto(r, IF profile[r] = "hybrid" THEN "lock" ELSE "report")
        /\ UNCHANGED <<profile, parent, outside>> /\ kept' = {parent} /\ pc[r] = "settle"
    BY <1>5 DEF SettleOutput
  <2>2. PlanPath'
    BY <1>2, <2>1 DEF PublishInv, PlanPath, Over, Goto
  <2>3. Anchored'
    BY <2>1 DEF PublishInv, LateAnchored, Anchored
  <2>4. \A q \in Runs : pc'[q] = "settle" => pc[q] = "settle"
    BY <1>2, <2>1 DEF Goto
  <2>5. LateAnchored'
    BY <2>1, <2>3, <2>4 DEF PublishInv, LateAnchored
  <2>6. KeptLike' /\ LockBindsOutput'
    BY <2>1 DEF PublishInv, KeptLike, LockBindsOutput, outside
  <2>7. QED
    BY <1>1, <2>2, <2>5, <2>6 DEF PublishInv
<1>6. CASE RenameStaging(r)
  <2>1. /\ Goto(r, "settle") /\ UNCHANGED <<profile, outside>> /\ pc[r] = "rename"
        /\ parent' = [output |-> Here, staging |-> Nobody] /\ kept' = kept \cup {parent'}
        /\ parent.output = Nobody /\ Here # Nobody
    BY <1>6 DEF RenameStaging, Allowed, OutputFree
  <2>2. PlanPath'
    BY <1>2, <2>1 DEF PublishInv, PlanPath, Over, Goto
  <2>3. \A k \in kept : k.output = Nobody
    BY <2>1 DEF PublishInv, KeptLike
  <2>4. lock = Nobody /\ ~promised
    BY <2>1 DEF PublishInv, LateAnchored, Anchored
  <2>5. \A q \in Runs : ~(pc'[q] = "lock" \/ (pc'[q] \in {"report", "writing"}
                                              /\ profile'[q] # "plan"))
    BY <1>2, <2>1 DEF PublishInv, LateAnchored, Anchored, Goto
  <2>6. LateAnchored'
    BY <2>1, <2>4, <2>5 DEF LateAnchored, outside
  <2>7. KeptLike' /\ LockBindsOutput'
    BY <2>1, <2>3, <2>4 DEF KeptLike, LockBindsOutput, outside
  <2>8. QED
    BY <1>1, <2>2, <2>6, <2>7 DEF PublishInv
<1>7. QED
  BY <1>3, <1>4, <1>5, <1>6

LEMMA WritingPublish ==
  ASSUME PublishInv, NEW r \in Runs, Fault \/ Fine,
         \/ WriteLock(r) \/ WriteReport(r) \/ Raise(r) \/ LookBeforeExcuse(r)
         \/ WriteFailureReport(r)
  PROVE  PublishInv'
<1>1. TypeOK' /\ pc \in [Runs -> Live \cup Over]
  BY WritingTyped DEF PublishInv, TypeOK
<1>2. UNCHANGED <<profile, parent, kept>>
  BY DEF WriteLock, WriteReport, Raise, LookBeforeExcuse, WriteFailureReport, disk
<1>3. PICK phase \in {"report", "done", "failing", "excuse", "excusing", "failed"} :
        /\ Goto(r, phase)
        /\ phase = "report" => pc[r] = "lock"
        /\ phase = "failing" => profile[r] # "plan"
  BY DEF WriteLock, WriteReport, Raise, LookBeforeExcuse, WriteFailureReport, At
<1>4. profile[r] = "plan" => pc[r] # "lock"
  BY DEF PublishInv, PlanPath, Over
<1>5. PlanPath'
  BY <1>1, <1>2, <1>3, <1>4 DEF PublishInv, PlanPath, Over, Goto
<1>6. lock' = lock \/ (lock' = parent.output /\ pc[r] = "lock")
  BY DEF WriteLock, WriteReport, Raise, LookBeforeExcuse, WriteFailureReport, outside, At
<1>7. promised' => promised \/ (pc[r] = "writing" /\ profile[r] # "plan")
  BY DEF WriteLock, WriteReport, Raise, LookBeforeExcuse, WriteFailureReport, outside, At
<1>8. Anchored' <=> Anchored
  BY <1>2 DEF Anchored
<1>9. /\ promised' => Anchored
      /\ lock' # Nobody => Anchored /\ lock' = parent.output
  BY <1>6, <1>7 DEF PublishInv, LateAnchored, LockBindsOutput
<1>10. \A q \in Runs : \/ pc'[q] = pc[q]
                       \/ q = r /\ pc'[q] = "report" /\ pc[q] = "lock"
                       \/ pc'[q] \notin {"lock", "report", "writing", "settle"}
  BY <1>1, <1>3 DEF Goto
<1>11. LateAnchored'
  BY <1>2, <1>8, <1>9, <1>10 DEF PublishInv, LateAnchored
<1>12. KeptLike' /\ LockBindsOutput'
  BY <1>2, <1>9 DEF PublishInv, KeptLike, LockBindsOutput
<1>13. QED
  BY <1>1, <1>5, <1>11, <1>12 DEF PublishInv

LEMMA DiscardPublish ==
  ASSUME PublishInv, NEW r \in Runs, DiscardStaging(r)
  PROVE  PublishInv'
<1>1. TypeOK' /\ TypeOK
  BY DiscardTyped DEF PublishInv
<1>2. /\ Goto(r, "excuse") /\ UNCHANGED <<profile, outside>>
      /\ parent' = parent \/ parent' = [parent EXCEPT !.staging = Nobody]
      /\ kept' \subseteq kept \cup {parent'}
  BY DEF DiscardStaging
<1>3. parent'.output = parent.output
  BY <1>1, <1>2 DEF TypeOK
<1>4. PlanPath'
  BY <1>2, PlanStep
<1>5. \A q \in Runs : pc'[q] = pc[q] \/ pc'[q] = "excuse"
  BY <1>1, <1>2 DEF TypeOK, Goto
<1>6. QED
  BY <1>1, <1>2, <1>3, <1>4, <1>5, SameOutput DEF outside

LEMMA OutsidePublish ==
  ASSUME PublishInv,
         \/ \E r \in Runs : Kill(r)
         \/ RemoveStale \/ ChangeSource \/ VerifyArtifact
  PROVE  PublishInv'
<1>1. TypeOK' /\ TypeOK
  BY OutsideTyped DEF PublishInv
<1>2. \A q \in Runs : pc'[q] = pc[q] \/ pc'[q] = "dead"
  BY <1>1 DEF Kill, Goto, TypeOK, RemoveStale, ChangeSource, VerifyArtifact, run
<1>3. UNCHANGED <<profile, lock, promised>>
  BY DEF Kill, RemoveStale, ChangeSource, VerifyArtifact, run, outside
<1>4. /\ parent' = parent \/ parent' = [parent EXCEPT !.staging = Nobody]
      /\ kept' \subseteq kept \cup {parent'}
  BY DEF Kill, RemoveStale, ChangeSource, VerifyArtifact, disk
<1>5. parent'.output = parent.output
  BY <1>1, <1>4 DEF TypeOK
<1>6. PlanPath'
  BY <1>2, <1>3 DEF PublishInv, PlanPath, Over
<1>7. QED
  BY <1>1, <1>2, <1>3, <1>4, <1>5, <1>6, SameOutput

LEMMA LosePowerPublish ==
  ASSUME PublishInv, LosePower
  PROVE  PublishInv'
<1>1. TypeOK'
  BY LosePowerTyped DEF PublishInv
<1>2. parent' \in kept /\ kept' = {parent'} /\ UNCHANGED <<profile, outside>>
  BY DEF LosePower
<1>3. \A r \in Runs : pc'[r] \in {"dead", "load"} \cup Over
  BY DEF LosePower, PublishInv, TypeOK, Over
<1>4. PlanPath'
  BY <1>3 DEF PlanPath, Over
<1>5. Anchored => Anchored' /\ parent'.output = parent.output
  BY <1>2 DEF Anchored
<1>6. LateAnchored'
  BY <1>2, <1>3, <1>5 DEF PublishInv, LateAnchored, Over, outside
<1>7. KeptLike' /\ LockBindsOutput'
  BY <1>2, <1>5 DEF PublishInv, KeptLike, LockBindsOutput, LateAnchored, outside
<1>8. QED
  BY <1>1, <1>4, <1>6, <1>7 DEF PublishInv

LEMMA PublishStep == PublishInv /\ [Next]_vars => PublishInv'
<1> SUFFICES ASSUME PublishInv, [Next]_vars PROVE PublishInv'
  OBVIOUS
<1>1. CASE UNCHANGED vars
  BY <1>1, TypeStep DEF vars, PublishInv, PlanPath, LateAnchored, Anchored, KeptLike,
     LockBindsOutput
<1>2. CASE Next
  BY <1>2, NextGroups, WorkPublish, NamingPublish, WritingPublish, DiscardPublish,
     OutsidePublish, LosePowerPublish DEF Fine
<1>3. QED
  BY <1>1, <1>2

\* An external lock names the directory that is published, whatever is killed or
\* lost and however many invocations there are (compile_artifact).
THEOREM LockAlwaysBinds == Spec => []LockBindsOutput
<1>1. PublishInv => LockBindsOutput
  BY DEF PublishInv
<1>2. QED
  BY <1>1, PublishInit, PublishStep, PTL DEF Spec

(* The refinement: what each step means to Publication.                    *)
LEMMA PromiseInit == Init => Promise!Init
  BY DEF Init, Promise!Init

LEMMA PromiseStep == PublishInv /\ [Next]_vars => [Promise!Next]_<<parent.output, promised>>
<1> SUFFICES ASSUME PublishInv, [Next]_vars
             PROVE  Promise!Next \/ UNCHANGED <<parent.output, promised>>
  OBVIOUS
<1>1. parent \in Place
  BY DEF PublishInv, TypeOK, Place
<1>2. CASE UNCHANGED vars
  BY <1>2 DEF vars
<1>3. ASSUME NEW r \in Runs, WorkStep(r) PROVE UNCHANGED <<parent.output, promised>>
  BY <1>3, WorkMoves DEF PublishInv, Moves, outside
<1>4. ASSUME NEW r \in Runs, MakeStaging(r) \/ DiscardStaging(r)
      PROVE  UNCHANGED <<parent.output, promised>>
  BY <1>1, <1>4 DEF MakeStaging, DiscardStaging, outside, Place
<1>5. ASSUME NEW r \in Runs,
             \/ SyncStaging(r) \/ SettleOutput(r) \/ WriteLock(r) \/ Raise(r)
             \/ LookBeforeExcuse(r) \/ WriteFailureReport(r) \/ Kill(r)
      PROVE  UNCHANGED <<parent.output, promised>>
  BY <1>5 DEF SyncStaging, SettleOutput, WriteLock, Raise, LookBeforeExcuse,
     WriteFailureReport, Kill, disk, outside
<1>6. ASSUME NEW r \in Runs, RenameStaging(r) PROVE Promise!Publish
  <2>1. /\ parent' = [output |-> Here, staging |-> Nobody]
        /\ parent.output = Nobody /\ Here # Nobody /\ promised' = promised
    BY <1>6 DEF RenameStaging, At, Allowed, OutputFree, outside
  <2>2. Here \in Runs
    BY <1>1, <2>1 DEF Here, Place
  <2>3. QED
    BY <2>1, <2>2 DEF Promise!Publish
<1>7. ASSUME NEW r \in Runs, WriteReport(r)
      PROVE  Promise!Promise \/ UNCHANGED <<parent.output, promised>>
  <2>1. /\ pc[r] = "writing" /\ parent' = parent
        /\ promised' = (promised \/ profile[r] # "plan")
    BY <1>7 DEF WriteReport, At, disk
  <2>2. CASE profile[r] = "plan"
    BY <2>1, <2>2 DEF PublishInv, TypeOK
  <2>3. CASE profile[r] # "plan"
    BY <2>1, <2>3 DEF PublishInv, LateAnchored, Anchored, Promise!Promise
  <2>4. QED
    BY <2>2, <2>3
<1>8. ASSUME LosePower
      PROVE  Promise!Lose \/ UNCHANGED <<parent.output, promised>>
  <2>1. parent' \in kept /\ promised' = promised
    BY <1>8 DEF LosePower, outside
  <2>2. promised => parent'.output = parent.output
    BY <2>1 DEF PublishInv, LateAnchored, Anchored
  <2>3. parent'.output \in {Nobody, parent.output}
    BY <2>1 DEF PublishInv, KeptLike
  <2>4. QED
    BY <2>1, <2>2, <2>3 DEF Promise!Lose
<1>9. ASSUME Next
      PROVE  Promise!Publish \/ Promise!Promise \/ Promise!Lose
             \/ UNCHANGED <<parent.output, promised>>
  <2>1. CASE RemoveStale
    BY <1>1, <2>1 DEF RemoveStale, outside, Place
  <2>2. CASE ChangeSource \/ VerifyArtifact
    BY <2>2 DEF ChangeSource, VerifyArtifact, disk, outside
  <2>3. QED
    BY <1>3, <1>4, <1>5, <1>6, <1>7, <1>8, <1>9, <2>1, <2>2, NextGroups
<1>10. QED
  BY <1>2, <1>9 DEF Promise!Next

\* The compiler implements Publication: one directory appears under the output
\* path, nothing replaces it, and what a run has reported is not lost.
THEOREM PromiseAlwaysKept == Spec => PromiseKept
<1>1. QED
  BY PromiseInit, PublishInit, PublishStep, PromiseStep, PTL
     DEF Spec, PromiseKept, Promise!Spec

-----------------------------------------------------------------------------
(* What verify_artifact passes.                                            *)

(* With one change at most, a source that is as locked has never changed.  *)
SourceOnce == source = "locked" <=> changes = 0

VerdictInv ==
    /\ SourceOnce /\ TypeOK /\ VerdictSound
    /\ judge.pc = "hashed" /\ source = "locked" => judge.whole

(* The compiler's own check, passed on an unchanged source, is worth all.  *)
LEMMA CheckedIsWhole ==
  ASSUME NEW d, NEW p, VerifyLoadedArtifact(d, p), source = "locked"
  PROVE  Whole(d)
<1>1. /\ dir[d]["manifest"] = "locked" /\ dir[d]["index"] = "locked" /\ dir[d]["config"] = "locked"
      /\ \A t \in Tensors : dir[d][t] = "locked"
      /\ Present(d) = Files
  BY DEF VerifyLoadedArtifact, CanonicalLayout, TensorsHold, SourcesHold
<1>2. \A n \in Names \ Files : dir[d][n] = "absent"
  BY <1>1 DEF Present
<1>3. QED
  BY <1>1, <1>2 DEF Whole, Files

LEMMA VerdictInit == Init => VerdictInv
<1> SUFFICES ASSUME Init PROVE VerdictInv
  OBVIOUS
<1>1. SourceOnce /\ VerdictSound /\ judge.pc = "idle"
  BY DEF Init, SourceOnce, VerdictSound
<1>2. QED
  BY <1>1, TypeInit DEF VerdictInv

(* Only three steps change the source or the judge.                        *)
LEMMA WorldSteps ==
  ASSUME TypeOK, Next
  PROVE  \/ UNCHANGED world
         \/ ChangeSource \/ LosePower \/ VerifyArtifact
<1>1. ASSUME NEW r \in Runs, WorkStep(r) PROVE UNCHANGED world
  BY <1>1, WorkMoves DEF Moves
<1>2. ASSUME NEW r \in Runs,
             \/ MakeStaging(r) \/ SyncStaging(r) \/ RenameStaging(r) \/ SettleOutput(r)
             \/ WriteLock(r) \/ WriteReport(r) \/ Raise(r) \/ LookBeforeExcuse(r)
             \/ WriteFailureReport(r) \/ DiscardStaging(r) \/ Kill(r)
      PROVE  UNCHANGED world
  BY <1>2 DEF MakeStaging, SyncStaging, RenameStaging, SettleOutput, WriteLock, WriteReport,
     Raise, LookBeforeExcuse, WriteFailureReport, DiscardStaging, Kill
<1>3. RemoveStale => UNCHANGED world
  BY DEF RemoveStale
<1>4. QED
  BY <1>1, <1>2, <1>3, NextGroups

LEMMA SourceStep ==
  ASSUME MaxSourceChanges <= 1, TypeOK, SourceOnce, [Next]_vars
  PROVE  SourceOnce'
<1>1. CASE UNCHANGED <<source, changes>>
  BY <1>1 DEF SourceOnce
<1>2. CASE ChangeSource
  <2>1. changes = 0 /\ changes' = 1
    BY <1>2, CompileAssumption DEF ChangeSource, TypeOK
  <2>2. source = "locked" /\ source' = "changed"
    BY <1>2, <2>1 DEF ChangeSource, SourceOnce
  <2>3. QED
    BY <2>1, <2>2 DEF SourceOnce
<1>3. QED
  BY <1>1, <1>2, WorldSteps DEF world, LosePower, VerifyArtifact, vars

LEMMA VerdictStep ==
  ASSUME MaxSourceChanges <= 1, VerdictInv, [Next]_vars
  PROVE  VerdictInv'
<1>1. TypeOK' /\ SourceOnce' /\ TypeOK
  BY SourceStep, TypeStep DEF VerdictInv
<1>2. CASE UNCHANGED world \/ UNCHANGED vars
  BY <1>1, <1>2 DEF VerdictInv, VerdictSound, world, vars
<1>3. CASE ChangeSource
  <2>1. source' = "changed" /\ UNCHANGED judge
    BY <1>1, <1>3, CompileAssumption DEF ChangeSource, VerdictInv, SourceOnce, TypeOK
  <2>2. QED
    BY <1>1, <2>1 DEF VerdictInv, VerdictSound
<1>4. CASE LosePower
  BY <1>1, <1>4 DEF LosePower, VerdictInv, VerdictSound, TypeOK
<1>5. CASE VerifyArtifact
  <2>1. source' = source
    BY <1>5 DEF VerifyArtifact
  <2>2. CASE VerifyLoad \/ VerifyRefuse
    <3>1. judge'.pc \in {"idle", "loaded"}
      BY <1>1, <2>2 DEF VerifyLoad, VerifyRefuse, TypeOK
    <3>2. QED
      BY <1>1, <3>1 DEF VerdictInv, VerdictSound
  <2>3. CASE VerifyHash
    <3>1. source = "locked" => Whole(judge.dir)
      BY <2>3, CheckedIsWhole DEF VerifyHash
    <3>2. judge'.pc = "hashed" /\ judge'.whole = Whole(judge.dir)
      BY <1>1, <2>3 DEF VerifyHash, TypeOK
    <3>3. QED
      BY <1>1, <2>1, <3>1, <3>2 DEF VerdictInv, VerdictSound
  <2>4. CASE VerifyPass
    <3>1. judge'.pc = "pass" /\ judge'.whole = judge.whole /\ judge.whole
      BY <1>1, <2>4 DEF VerifyPass, SourceVerified, VerdictInv, TypeOK
    <3>2. QED
      BY <1>1, <3>1 DEF VerdictInv, VerdictSound
  <2>5. QED
    BY <1>5, <2>2, <2>3, <2>4 DEF VerifyArtifact
<1>6. QED
  BY <1>1, <1>2, <1>3, <1>4, <1>5, WorldSteps

\* As long as the source changes at most once, verify_artifact passes only a
\* directory that was whole when it was hashed, whoever was writing into it.
THEOREM VerdictAlwaysSound == ASSUME MaxSourceChanges <= 1 PROVE Spec => []VerdictSound
<1>1. VerdictInv => VerdictSound
  BY DEF VerdictInv
<1>2. VerdictInv /\ [Next]_vars => VerdictInv'
  BY VerdictStep
<1>3. QED
  BY <1>1, <1>2, VerdictInit, PTL DEF Spec

-----------------------------------------------------------------------------
(* What is published.                                                      *)

(* A run that has made its staging directory and not yet renamed it.       *)
Working(r) == \/ pc[r] \in Inside \ {"settle"} /\ profile[r] # "plan"
              \/ pc[r] = "failing"

(* What is on the disk of its directory when a run is at a step.           *)
Reached(r) ==
    CASE pc[r] = "encode" -> Tensors \ left[r]
      [] pc[r] = "index" -> Tensors
      [] pc[r] = "metadata" -> Tensors \cup {"index"}
      [] pc[r] = "manifest" -> Tensors \cup {"index", "config"}
      [] pc[r] \in {"check", "reverify", "sync", "rename"} -> Files
      [] OTHER -> {}

(* How far a run has got with a directory nobody else touches.             *)
Progress(r) ==
    /\ Reached(r) \subseteq flushed[r]
    /\ pc[r] = "reverify" /\ source = "locked" => Whole(r)
    /\ pc[r] \in {"sync", "rename"} => Whole(r)
    /\ pc[r] = "rename" => Files \subseteq entered[r]

(* While nothing is published, the staging directory is that of the one    *)
(* run at work: it is only taken away by runs that found a published one.  *)
StagedSafe ==
    \A r \in Runs : Working(r) /\ parent.output = Nobody => parent.staging = r /\ Progress(r)

(* Who has made no directory has written no tensor and is named nowhere.   *)
Fresh ==
    /\ \A r \in Runs : pc[r] \in Before \cup {"hash", "bundle"} => left[r] = Tensors
    /\ \A k \in kept : /\ k.staging # Nobody => pc[k.staging] \notin Before
                       /\ k.output # Nobody => pc[k.output] \notin Before
                       /\ k.staging # Nobody => k.staging # k.output

(* Only these profiles reserve their shards for a native child.            *)
DirectPath ==
    \A r \in Runs : pc[r] \in {"reserve", "job", "direct"} => profile[r] \in {"nvfp4", "hybrid"}

OutputSafe ==
    parent.output # Nobody => /\ Whole(parent.output)
                              /\ Files \subseteq flushed[parent.output]
                              /\ Files \subseteq entered[parent.output]

WholeInv == PublishInv /\ SourceOnce /\ StagedSafe /\ Fresh /\ DirectPath /\ OutputSafe

LEMMA WholeInit == Init => WholeInv
<1> SUFFICES ASSUME Init PROVE WholeInv
  OBVIOUS
<1>1. \A r \in Runs : pc[r] = "load"
  BY DEF Init
<1>2. StagedSafe /\ DirectPath
  BY <1>1 DEF StagedSafe, DirectPath, Working, Inside
<1>3. Fresh /\ OutputSafe /\ SourceOnce
  BY DEF Init, Fresh, OutputSafe, SourceOnce
<1>4. QED
  BY <1>2, <1>3, PublishInit DEF WholeInv

(* The staging name and the output name never lead to one directory.       *)
LEMMA Apart == WholeInv /\ parent.output # Nobody => Here # parent.output
  BY DEF WholeInv, Fresh, Here, PublishInv, TypeOK

(* A run inside the try block that has something staged is at work.        *)
LEMMA InsideWorks ==
  ASSUME WholeInv, NEW r \in Runs, pc[r] \in Inside \ {"settle", "reverify"}
  PROVE  Working(r)
  BY DEF WholeInv, PublishInv, PlanPath, Working, Inside, Over

(* A run that is not at work changes no file.                              *)
LEMMA IdleWork ==
  ASSUME WholeInv, NEW r \in Runs, WorkStep(r), ~Working(r)
  PROVE  UNCHANGED <<left, disk>>
<1>1. pc[r] \in Before \cup {"reverify", "report"}
  <2>1. pc[r] \in Before \cup Inside \cup {"report"} /\ pc[r] # "settle"
    BY WorkMoves DEF WholeInv, PublishInv, Moves
  <2>2. QED
    BY <2>1, InsideWorks
<1>2. QED
  BY <1>1 DEF WorkStep, At, Before, LoadRequest, Preflight, LookForOutput, MakeBundleJob,
     MakeDirectJob, PrepareBundle, PrepareDirectShards, PrepareNativeDirect, WriteShard,
     FillShard, FinishShards, WriteIndex, CopyApprovedMetadata, BuildCompilationManifest,
     CheckStaged, ReverifySourceFiles, LookForReport

(* What a run at work adds to its own directory.                           *)
LEMMA OwnWork ==
  ASSUME WholeInv, NEW r \in Runs, WorkStep(r), Working(r), parent.output = Nobody
  PROVE  Progress(r)'
<1>1. /\ TypeOK /\ Here = r /\ Progress(r) /\ Moves(r)
      /\ UNCHANGED source
  BY WorkMoves DEF WholeInv, PublishInv, StagedSafe, Here, Moves, world
<1>2. Reached(r) \subseteq flushed[r]
  BY <1>1 DEF Progress
<1>3. pc[r] \in Inside
  BY <1>1 DEF Working, Moves, Inside, Before
<1>4. CASE pc'[r] \in {"hash", "bundle", "reserve", "job", "direct", "fill"}
  BY <1>4 DEF Progress, Reached
<1>5. CASE PrepareBundle(r) /\ pc'[r] = "encode"
  <2>1. left'[r] = Tensors
    BY <1>5 DEF PrepareBundle, At, WholeInv, Fresh
  <2>2. QED
    BY <1>5, <2>1 DEF Progress, Reached
<1>6. CASE PrepareNativeDirect(r) /\ pc'[r] = "index"
  <2>1. profile[r] = "nvfp4"
    BY <1>1, <1>6 DEF PrepareNativeDirect, At, Goto, WholeInv, DirectPath, TypeOK
  <2>2. Put([t \in Tensors |-> source], Tensors)
    BY <1>6, <2>1 DEF PrepareNativeDirect, NativeNvfp4
  <2>3. flushed'[r] = (flushed[r] \ Tensors) \cup Tensors
    BY <1>1, <2>2 DEF Put, TypeOK
  <2>4. QED
    BY <1>6, <2>3 DEF Progress, Reached
<1>7. CASE WriteShard(r)
  <2>1. PICK t \in left[r] :
          /\ Put([n \in {t} |-> Encoded(r, t)], {t})
          /\ left' = [left EXCEPT ![r] = @ \ {t}]
    BY <1>7 DEF WriteShard, CompileTensor
  <2>2. pc[r] = "encode" /\ pc'[r] = "encode"
    BY <1>7 DEF WriteShard, CompileTensor, At
  <2>3. flushed'[r] = (flushed[r] \ {t}) \cup {t}
    BY <1>1, <2>1 DEF Put, TypeOK
  <2>4. left'[r] = left[r] \ {t}
    BY <1>1, <2>1 DEF TypeOK
  <2>5. Tensors \ left[r] \subseteq flushed[r]
    BY <1>2, <2>2 DEF Reached
  <2>6. Tensors \ left'[r] \subseteq flushed'[r]
    BY <2>3, <2>4, <2>5
  <2>7. QED
    BY <2>2, <2>6 DEF Progress, Reached
<1>8. CASE FinishShards(r)
  <2>1. /\ flushed'[r] = flushed[r] \cup (Tensors \cap Present(r))
        /\ pc'[r] = "index" /\ left[r] = {}
    BY <1>1, <1>8 DEF FinishShards, TypeOK, Goto
  <2>2. CASE At(r, "encode")
    BY <1>2, <2>1, <2>2 DEF Progress, Reached, At
  <2>3. CASE At(r, "fill")
    <3>1. \A t \in Tensors : Staged(t)
      BY <2>1, <2>3 DEF At, Allowed, ShardsReserved
    <3>2. Tensors \subseteq Present(r)
      BY <1>1, <3>1, NamesTyped DEF Staged, Present
    <3>3. QED
      BY <2>1, <3>2 DEF Progress, Reached
  <2>4. QED
    BY <1>8, <2>2, <2>3 DEF FinishShards
<1>9. CASE WriteIndex(r)
  <2>1. pc[r] = "index" /\ pc'[r] = "metadata" /\ flushed'[r] = flushed[r] \cup {"index"}
    BY <1>1, <1>9 DEF WriteIndex, At, Goto, WriteStaged, TypeOK
  <2>2. QED
    BY <1>2, <2>1 DEF Progress, Reached
<1>10. CASE CopyApprovedMetadata(r)
  <2>1. /\ pc[r] = "metadata" /\ pc'[r] = "manifest"
        /\ flushed'[r] = (flushed[r] \ {"config"}) \cup {"config"}
    BY <1>1, <1>10 DEF CopyApprovedMetadata, At, Goto, Put, TypeOK
  <2>2. QED
    BY <1>2, <2>1 DEF Progress, Reached
<1>11. CASE BuildCompilationManifest(r)
  <2>1. pc[r] = "manifest" /\ pc'[r] = "check" /\ flushed'[r] = flushed[r] \cup {"manifest"}
    BY <1>1, <1>11 DEF BuildCompilationManifest, At, Goto, WriteStaged, TypeOK
  <2>2. QED
    BY <1>2, <2>1 DEF Progress, Reached, Files
<1>12. CASE CheckStaged(r)
  <2>1. /\ pc[r] = "check" /\ pc'[r] = "reverify" /\ UNCHANGED <<flushed, dir>>
        /\ VerifyLoadedArtifact(r, profile[r])
    BY <1>1, <1>12 DEF CheckStaged, At, Goto, Allowed, TypeOK, disk
  <2>2. source = "locked" => Whole(r)
    BY <2>1, CheckedIsWhole
  <2>3. Whole(r)' <=> Whole(r)
    BY <2>1 DEF Whole
  <2>4. QED
    BY <1>1, <1>2, <2>1, <2>2, <2>3 DEF Progress, Reached
<1>13. CASE ReverifySourceFiles(r)
  <2>1. /\ pc[r] = "reverify" /\ pc'[r] = "sync" /\ UNCHANGED <<flushed, dir>>
        /\ source = "locked"
    BY <1>1, <1>13 DEF ReverifySourceFiles, At, Allowed, SourceVerified, disk, Moves, Working,
       Inside
  <2>2. Whole(r)' <=> Whole(r)
    BY <2>1 DEF Whole
  <2>3. QED
    BY <1>1, <1>2, <2>1, <2>2 DEF Progress, Reached
<1>14. QED
  <2>1. CASE LoadRequest(r) \/ Preflight(r) \/ LookForOutput(r) \/ LookForReport(r)
    BY <1>3, <2>1 DEF LoadRequest, Preflight, LookForOutput, LookForReport, At, Inside
  <2>2. CASE MakeBundleJob(r) \/ MakeDirectJob(r) \/ PrepareDirectShards(r) \/ FillShard(r)
    BY <1>1, <1>4, <2>2 DEF MakeBundleJob, MakeDirectJob, PrepareDirectShards, FillShard,
       CompileTensor, At, Goto, TypeOK
  <2>3. CASE PrepareBundle(r) \/ PrepareNativeDirect(r)
    BY <1>1, <1>4, <1>5, <1>6, <2>3 DEF PrepareBundle, PrepareNativeDirect, Goto, TypeOK
  <2>4. QED
    BY <1>7, <1>8, <1>9, <1>10, <1>11, <1>12, <1>13, <2>1, <2>2, <2>3 DEF WorkStep

(* A directory whose files stay as they are stays whole.                   *)
LEMMA SafeStays ==
  ASSUME OutputSafe, UNCHANGED parent.output,
         parent.output # Nobody =>
           /\ dir'[parent.output] = dir[parent.output]
           /\ flushed'[parent.output] = flushed[parent.output]
           /\ Files \subseteq entered'[parent.output]
  PROVE  OutputSafe'
<1>1. parent.output # Nobody => (Whole(parent.output)' <=> Whole(parent.output))
  BY DEF Whole
<1>2. QED
  BY <1>1 DEF OutputSafe

LEMMA WorkWhole ==
  ASSUME MaxSourceChanges <= 1, WholeInv, NEW r \in Runs, WorkStep(r), Fault \/ Fine, Next
  PROVE  WholeInv'
<1>1. /\ PublishInv' /\ SourceOnce' /\ TypeOK /\ Moves(r) /\ FilesOK' /\ Elsewhere
  BY WorkPublish, SourceStep, WorkMoves, WorkFiles DEF WholeInv, PublishInv
<1>2. UNCHANGED <<profile, parent, kept, source>>
  BY <1>1 DEF Moves, world
<1>3. OutputSafe'
  <2>1. parent.output \in Runs \cup {Nobody}
    BY <1>1 DEF TypeOK
  <2>2. QED
    BY <1>1, <1>2, <2>1, Apart, SafeStays DEF WholeInv, OutputSafe, Elsewhere
<1>4. DirectPath'
  BY <1>1, <1>2 DEF WholeInv, DirectPath, Moves
<1>5. Fresh'
  <2>1. \A k \in kept : \A d \in {k.staging, k.output} \ {Nobody} : d \in Runs
    BY <1>1 DEF TypeOK
  <2>2. \A d \in Runs : pc'[d] \in Before => pc[d] \in Before
    BY <1>1 DEF Moves
  <2>3. \A q \in Runs : pc'[q] \in Before \cup {"hash", "bundle"} =>
           /\ pc[q] \in Before \cup {"hash", "bundle"}
           /\ q = r => pc[q] \in Before \cup {"hash"}
    BY <1>1 DEF Moves, Before
  <2>4. ASSUME NEW q \in Runs, pc'[q] \in Before \cup {"hash", "bundle"}
        PROVE  left'[q] = left[q]
    <3>1. CASE q # r
      BY <3>1, <1>1 DEF WorkStep, LoadRequest, Preflight, LookForOutput, MakeBundleJob,
         MakeDirectJob, PrepareBundle, PrepareDirectShards, PrepareNativeDirect, WriteShard,
         FillShard, FinishShards, WriteIndex, CopyApprovedMetadata,
         BuildCompilationManifest, CheckStaged, ReverifySourceFiles, LookForReport,
         CompileTensor, HashSources, TypeOK
    <3>2. CASE q = r
      <4>1. pc[r] \in Before \cup {"hash"}
        BY <2>3, <2>4, <3>2
      <4>2. QED
        BY <3>2, <4>1 DEF WorkStep, LoadRequest, Preflight, LookForOutput, MakeBundleJob,
           MakeDirectJob, PrepareBundle, PrepareDirectShards, PrepareNativeDirect, WriteShard,
           FillShard, FinishShards, WriteIndex, CopyApprovedMetadata,
           BuildCompilationManifest, CheckStaged, ReverifySourceFiles, LookForReport,
           HashSources, At, Before
    <3>3. QED
      BY <3>1, <3>2
  <2>5. QED
    BY <1>2, <2>1, <2>2, <2>3, <2>4 DEF WholeInv, Fresh
<1>6. StagedSafe'
  <2> SUFFICES ASSUME NEW q \in Runs, Working(q)', parent.output = Nobody
               PROVE  parent.staging = q /\ Progress(q)'
    BY <1>2 DEF StagedSafe
  <2>1. Working(q)
    <3>1. CASE q # r
      BY <1>1, <1>2, <3>1 DEF Moves, Working
    <3>2. CASE q = r
      <4>1. pc'[r] \in Inside \ {"settle"} /\ profile[r] # "plan"
        BY <1>1, <1>2, <3>2 DEF Moves, Working, Inside
      <4>2. pc[r] \in Inside \ {"settle"}
        BY <1>1, <4>1 DEF Moves, Inside, Before
      <4>3. QED
        BY <3>2, <4>1, <4>2 DEF Working
    <3>3. QED
      BY <3>1, <3>2
  <2>2. parent.staging = q /\ Progress(q)
    BY <2>1 DEF WholeInv, StagedSafe
  <2>3. CASE q = r
    BY <2>1, <2>2, <2>3, OwnWork
  <2>4. CASE q # r
    <3>1. ~Working(r)
      BY <2>2, <2>4 DEF WholeInv, StagedSafe
    <3>2. UNCHANGED <<left, disk>> /\ pc'[q] = pc[q]
      BY <1>1, <2>4, <3>1, IdleWork DEF Moves
    <3>3. (Whole(q)' <=> Whole(q)) /\ Reached(q)' = Reached(q)
      BY <3>2 DEF Whole, Reached, disk
    <3>4. QED
      BY <1>2, <2>2, <3>2, <3>3 DEF Progress, disk
  <2>5. QED
    BY <2>3, <2>4
<1>7. QED
  BY <1>1, <1>3, <1>4, <1>5, <1>6 DEF WholeInv

(* A step that touches no file, and takes nobody into the try block.       *)
LEMMA StillWhole ==
  ASSUME WholeInv, PublishInv', SourceOnce', UNCHANGED <<left, dir, flushed, entered, profile>>,
         UNCHANGED parent.output,
         source' = "locked" => source = "locked",
         \A q \in Runs : Working(q)' /\ parent.output = Nobody =>
            Working(q) /\ pc'[q] \in {pc[q], "failing"} /\ parent'.staging = parent.staging,
         \A q \in Runs : pc'[q] \in Before \cup {"hash", "bundle", "reserve", "job", "direct"}
                           => pc'[q] = pc[q],
         \A k \in kept' : \/ k \in kept
                          \/ k.staging = Nobody /\ k.output = parent.output
  PROVE  WholeInv'
<1>1. TypeOK
  BY DEF WholeInv, PublishInv
<1>2. OutputSafe' /\ DirectPath'
  BY SafeStays DEF WholeInv, OutputSafe, DirectPath
<1>3. Fresh'
  <2>1. \A d \in Runs : pc'[d] \in Before => pc[d] \in Before
    OBVIOUS
  <2>2. \A k \in kept : \A d \in {k.staging, k.output} \ {Nobody} : d \in Runs
    BY <1>1 DEF TypeOK
  <2>3. parent \in kept
    BY <1>1 DEF TypeOK
  <2>4. QED
    BY <2>1, <2>2, <2>3 DEF WholeInv, Fresh
<1>4. StagedSafe'
  <2> SUFFICES ASSUME NEW q \in Runs, Working(q)', parent.output = Nobody
               PROVE  parent'.staging = q /\ Progress(q)'
    BY DEF StagedSafe
  <2>1. parent'.staging = q /\ Progress(q)
    BY DEF WholeInv, StagedSafe
  <2>2. Whole(q)' <=> Whole(q)
    BY DEF Whole
  <2>3. CASE pc'[q] = "failing"
    BY <2>1, <2>3 DEF Progress, Reached
  <2>4. CASE pc'[q] = pc[q]
    BY <2>1, <2>2, <2>4 DEF Progress, Reached
  <2>5. QED
    BY <2>1, <2>3, <2>4
<1>5. QED
  BY <1>2, <1>3, <1>4 DEF WholeInv

LEMMA WritingWhole ==
  ASSUME MaxSourceChanges <= 1, WholeInv, Next, NEW r \in Runs, Fault \/ Fine,
         \/ WriteLock(r) \/ WriteReport(r) \/ Raise(r) \/ LookBeforeExcuse(r)
         \/ WriteFailureReport(r)
  PROVE  WholeInv'
<1>1. PublishInv' /\ SourceOnce' /\ pc \in [Runs -> Live \cup Over]
  BY WritingPublish, SourceStep DEF WholeInv, PublishInv, TypeOK
<1>2. UNCHANGED <<profile, left, disk, world>>
  BY DEF WriteLock, WriteReport, Raise, LookBeforeExcuse, WriteFailureReport, outside
<1>3. PICK phase \in {"report", "done", "failing", "excuse", "excusing", "failed"} :
        /\ Goto(r, phase)
        /\ phase = "failing" => pc[r] \in Inside /\ profile[r] # "plan"
  BY DEF WriteLock, WriteReport, Raise, LookBeforeExcuse, WriteFailureReport, At
<1>4. /\ pc'[r] = phase /\ \A q \in Runs \ {r} : pc'[q] = pc[q]
  BY <1>1, <1>3 DEF Goto
<1>5. ASSUME NEW q \in Runs, Working(q)', parent.output = Nobody
      PROVE  Working(q) /\ pc'[q] \in {pc[q], "failing"}
  <2>1. pc[r] # "settle"
    BY <1>5 DEF WholeInv, PublishInv, LateAnchored
  <2>2. QED
    BY <1>2, <1>3, <1>4, <1>5, <2>1 DEF Working, Inside
<1>6. \A q \in Runs : pc'[q] \in Before \cup {"hash", "bundle", "reserve", "job", "direct"}
                        => pc'[q] = pc[q]
  BY <1>4 DEF Before
<1>7. QED
  BY <1>1, <1>2, <1>5, <1>6, StillWhole DEF disk, world

LEMMA NamingWhole ==
  ASSUME MaxSourceChanges <= 1, WholeInv, Next, NEW r \in Runs, Fine,
         \/ MakeStaging(r) \/ SyncStaging(r) \/ RenameStaging(r) \/ SettleOutput(r)
  PROVE  WholeInv'
<1> USE DEF At
<1>1. /\ PublishInv' /\ SourceOnce' /\ TypeOK /\ pc \in [Runs -> Live \cup Over]
      /\ parent \in Place /\ parent \in kept /\ Nobody \notin Runs
  BY NamingPublish, SourceStep, CompileAssumption DEF WholeInv, PublishInv, TypeOK, Place
<1>2. UNCHANGED <<profile, left, dir, flushed, source>>
  BY DEF MakeStaging, SyncStaging, RenameStaging, SettleOutput, world
<1>3. \A q \in Runs : (Whole(q)' <=> Whole(q))
  BY <1>2 DEF Whole
<1>4. CASE MakeStaging(r)
  <2>1. /\ pc[r] = "mkdir" /\ Here = Nobody /\ entered' = entered
        /\ parent' = [parent EXCEPT !.staging = r] /\ kept' = kept \cup {parent'}
    BY <1>4 DEF MakeStaging, Allowed
  <2>2. PICK phase \in {"hash", "reserve", "encode"} :
          /\ Goto(r, phase)
          /\ phase = "reserve" => profile[r] \in {"nvfp4", "hybrid"}
    BY <1>4 DEF MakeStaging
  <2>3. pc'[r] = phase /\ \A q \in Runs \ {r} : pc'[q] = pc[q]
    BY <1>1, <2>2 DEF Goto
  <2>4. parent'.output = parent.output /\ parent'.staging = r
    BY <1>1, <2>1 DEF Place
  <2>5. left[r] = Tensors /\ parent.output # r
    BY <1>1, <2>1 DEF WholeInv, Fresh, Before
  <2>6. Fresh'
    <3>1. \A d \in Runs : pc'[d] \in Before => pc[d] \in Before /\ d # r
      BY <2>2, <2>3 DEF Before
    <3>2. \A k \in kept : \A d \in {k.staging, k.output} \ {Nobody} : d \in Runs
      BY <1>1 DEF TypeOK
    <3>3. \A q \in Runs : pc'[q] \in Before \cup {"hash", "bundle"} => left[q] = Tensors
      BY <2>3, <2>5 DEF WholeInv, Fresh
    <3>4. parent.output # Nobody => pc[parent.output] \notin Before /\ parent.output \in Runs
      BY <1>1, <3>2 DEF WholeInv, Fresh
    <3>5. pc'[r] \notin Before
      BY <2>2, <2>3 DEF Before
    <3>6. QED
      BY <1>2, <2>1, <2>4, <2>5, <3>1, <3>2, <3>3, <3>4, <3>5 DEF WholeInv, Fresh
  <2>7. DirectPath'
    BY <1>2, <2>2, <2>3 DEF WholeInv, DirectPath
  <2>8. OutputSafe'
    BY <1>2, <2>1, <2>4, SafeStays DEF WholeInv, OutputSafe
  <2>9. StagedSafe'
    <3> SUFFICES ASSUME NEW q \in Runs, Working(q)', parent.output = Nobody
                 PROVE  parent'.staging = q /\ Progress(q)'
      BY <2>4 DEF StagedSafe
    <3>1. q = r
      <4>1. CASE q # r
        <5>1. Working(q)
          BY <1>2, <2>3, <4>1 DEF Working
        <5>2. QED
          BY <1>1, <2>1, <5>1 DEF WholeInv, StagedSafe, Here
      <4>2. QED
        BY <4>1
    <3>2. Progress(r)'
      BY <1>2, <2>2, <2>3, <2>5 DEF Progress, Reached
    <3>3. QED
      BY <2>4, <3>1, <3>2
  <2>10. QED
    BY <1>1, <2>6, <2>7, <2>8, <2>9 DEF WholeInv
<1>5. CASE SyncStaging(r)
  <2>1. /\ Goto(r, "rename") /\ UNCHANGED parent /\ kept' = {parent} /\ pc[r] = "sync"
        /\ entered' = [entered EXCEPT ![Here] = Present(Here)]
    BY <1>5 DEF SyncStaging
  <2>2. pc'[r] = "rename" /\ \A q \in Runs \ {r} : pc'[q] = pc[q]
    BY <1>1, <2>1 DEF Goto
  <2>3. Working(r)
    BY <2>1, InsideWorks DEF Inside
  <2>4. \A d \in Runs : d # Here => entered'[d] = entered[d]
    BY <1>1, <2>1 DEF TypeOK
  <2>5. Fresh'
    <3>1. \A d \in Runs : pc'[d] \in Before \cup {"hash", "bundle"} => pc[d] = pc'[d]
      BY <2>2 DEF Before
    <3>2. \A k \in kept : \A d \in {k.staging, k.output} \ {Nobody} : d \in Runs
      BY <1>1 DEF TypeOK
    <3>3. QED
      BY <1>1, <1>2, <2>1, <3>1, <3>2 DEF WholeInv, Fresh
  <2>6. DirectPath'
    BY <1>2, <2>2 DEF WholeInv, DirectPath
  <2>7. OutputSafe'
    <3>1. parent.output \in Runs \cup {Nobody}
      BY <1>1 DEF TypeOK
    <3>2. QED
      BY <1>2, <2>1, <2>4, <3>1, Apart, SafeStays DEF WholeInv, OutputSafe
  <2>8. StagedSafe'
    <3> SUFFICES ASSUME NEW q \in Runs, Working(q)', parent.output = Nobody
                 PROVE  parent'.staging = q /\ Progress(q)'
      BY <2>1 DEF StagedSafe
    <3>1. parent.staging = r /\ Progress(r) /\ q = r
      <4>1. parent.staging = r /\ Progress(r)
        BY <2>3 DEF WholeInv, StagedSafe
      <4>2. q # r => Working(q)
        BY <1>2, <2>2 DEF Working
      <4>3. QED
        BY <4>1, <4>2 DEF WholeInv, StagedSafe
    <3>2. Whole(r) /\ Files \subseteq flushed[r]
      BY <2>1, <3>1 DEF Progress, Reached
    <3>3. entered'[r] = Present(r)
      BY <1>1, <2>1, <3>1 DEF Here, TypeOK
    <3>4. Files \subseteq Present(r)
      BY <3>2 DEF Whole, Present, Files, Names
    <3>5. QED
      BY <1>2, <1>3, <2>1, <2>2, <3>1, <3>2, <3>3, <3>4 DEF Progress, Reached
  <2>9. QED
    BY <1>1, <2>5, <2>6, <2>7, <2>8 DEF WholeInv
<1>6. CASE RenameStaging(r)
  <2>1. /\ Goto(r, "settle") /\ pc[r] = "rename" /\ entered' = entered
        /\ parent' = [output |-> Here, staging |-> Nobody] /\ kept' = kept \cup {parent'}
        /\ parent.output = Nobody /\ Here # Nobody
    BY <1>6 DEF RenameStaging, Allowed, OutputFree
  <2>2. pc'[r] = "settle" /\ \A q \in Runs \ {r} : pc'[q] = pc[q]
    BY <1>1, <2>1 DEF Goto
  <2>3. Here = r /\ Progress(r)
    BY <2>1, InsideWorks DEF Inside, WholeInv, StagedSafe, Here
  <2>4. Whole(r) /\ Files \subseteq flushed[r] /\ Files \subseteq entered[r]
    BY <2>1, <2>3 DEF Progress, Reached
  <2>5. parent'.output = r /\ parent'.staging = Nobody
    BY <2>1, <2>3
  <2>6. OutputSafe'
    <3>1. Whole(parent.output)' <=> Whole(r)
      BY <1>2, <2>5 DEF Whole
    <3>2. QED
      BY <1>2, <2>1, <2>4, <2>5, <3>1 DEF OutputSafe
  <2>7. DirectPath'
    BY <1>2, <2>2 DEF WholeInv, DirectPath
  <2>8. StagedSafe'
    BY <1>1, <2>5 DEF StagedSafe
  <2>9. Fresh'
    <3>1. \A d \in Runs : pc'[d] \in Before \cup {"hash", "bundle"} => pc[d] = pc'[d] /\ d # r
      BY <2>2 DEF Before
    <3>2. \A k \in kept : \A d \in {k.staging, k.output} \ {Nobody} : d \in Runs
      BY <1>1 DEF TypeOK
    <3>3. QED
      BY <1>2, <2>1, <2>5, <3>1, <3>2 DEF WholeInv, Fresh
  <2>10. QED
    BY <1>1, <2>6, <2>7, <2>8, <2>9 DEF WholeInv
<1>7. CASE SettleOutput(r)
  <2>1. /\ Goto(r, IF profile[r] = "hybrid" THEN "lock" ELSE "report")
        /\ UNCHANGED <<parent, entered>> /\ kept' = {parent} /\ pc[r] = "settle"
    BY <1>7 DEF SettleOutput
  <2>2. parent.output # Nobody
    BY <2>1 DEF WholeInv, PublishInv, LateAnchored
  <2>3. pc'[r] \in {"lock", "report"} /\ \A q \in Runs \ {r} : pc'[q] = pc[q]
    BY <1>1, <2>1 DEF Goto
  <2>4. \A q \in Runs : pc'[q] \in Before \cup {"hash", "bundle", "reserve", "job", "direct"}
                          => pc'[q] = pc[q]
    BY <2>3 DEF Before
  <2>5. QED
    BY <1>1, <1>2, <2>1, <2>2, <2>4, StillWhole
<1>8. QED
  BY <1>4, <1>5, <1>6, <1>7

LEMMA DiscardWhole ==
  ASSUME MaxSourceChanges <= 1, WholeInv, Next, NEW r \in Runs, DiscardStaging(r)
  PROVE  WholeInv'
<1>1. /\ PublishInv' /\ SourceOnce' /\ TypeOK /\ Elsewhere
      /\ pc \in [Runs -> Live \cup Over]
  BY DiscardPublish, DiscardTyped, SourceStep DEF WholeInv, PublishInv, TypeOK
<1>2. /\ UNCHANGED <<profile, left, flushed, entered, source>> /\ pc[r] = "failing"
      /\ parent' = parent \/ parent' = [parent EXCEPT !.staging = Nobody]
      /\ kept' \subseteq kept \cup {parent'}
      /\ Goto(r, "excuse")
  BY DEF DiscardStaging, world
<1>3. parent'.output = parent.output /\ parent'.staging \in {Nobody, parent.staging}
  BY <1>1, <1>2 DEF TypeOK
<1>4. pc'[r] = "excuse" /\ \A q \in Runs \ {r} : pc'[q] = pc[q]
  BY <1>1, <1>2 DEF Goto
<1>5. OutputSafe'
  <2>1. parent.output \in Runs \cup {Nobody}
    BY <1>1 DEF TypeOK
  <2>2. QED
    BY <1>1, <1>2, <1>3, <2>1, Apart, SafeStays DEF WholeInv, OutputSafe, Elsewhere
<1>6. DirectPath'
  BY <1>2, <1>4 DEF WholeInv, DirectPath
<1>7. Fresh'
  <2>1. \A d \in Runs : pc'[d] \in Before \cup {"hash", "bundle"} => pc[d] = pc'[d]
    BY <1>4 DEF Before
  <2>2. \A k \in kept : \A d \in {k.staging, k.output} \ {Nobody} : d \in Runs
    BY <1>1 DEF TypeOK
  <2>3. parent \in kept
    BY <1>1 DEF TypeOK
  <2>4. QED
    BY <1>2, <1>3, <2>1, <2>2, <2>3 DEF WholeInv, Fresh
<1>8. StagedSafe'
  <2> SUFFICES ASSUME NEW q \in Runs, Working(q)', parent.output = Nobody PROVE FALSE
    BY <1>3 DEF StagedSafe
  <2>1. q # r /\ Working(q)
    BY <1>2, <1>4 DEF Working, Inside
  <2>2. Working(r)
    BY <1>2 DEF Working
  <2>3. QED
    BY <2>1, <2>2 DEF WholeInv, StagedSafe
<1>9. QED
  BY <1>1, <1>5, <1>6, <1>7, <1>8 DEF WholeInv

LEMMA OutsideWhole ==
  ASSUME MaxSourceChanges <= 1, WholeInv, Next,
         \/ \E r \in Runs : Kill(r)
         \/ RemoveStale \/ ChangeSource \/ VerifyArtifact
  PROVE  WholeInv'
<1>1. PublishInv' /\ SourceOnce' /\ TypeOK
  BY OutsidePublish, SourceStep DEF WholeInv, PublishInv
<1>2. UNCHANGED <<profile, left, dir, flushed, entered>>
  BY DEF Kill, RemoveStale, ChangeSource, VerifyArtifact, run, disk
<1>3. \A q \in Runs : pc'[q] = pc[q] \/ pc'[q] = "dead"
  BY <1>1 DEF Kill, Goto, TypeOK, RemoveStale, ChangeSource, VerifyArtifact, run
<1>4. \A q \in Runs : Working(q)' => Working(q) /\ pc'[q] = pc[q]
  BY <1>2, <1>3 DEF Working, Inside
<1>5. source' = "locked" => source = "locked"
  <2>1. CASE ChangeSource
    BY <1>1, <2>1 DEF ChangeSource, WholeInv, SourceOnce, TypeOK
  <2>2. QED
    BY <2>1 DEF Kill, RemoveStale, VerifyArtifact, world
<1>6. \A q \in Runs : pc'[q] \in Before \cup {"hash", "bundle", "reserve", "job", "direct"}
                        => pc'[q] = pc[q]
  BY <1>3 DEF Before
<1>7. CASE UNCHANGED <<parent, kept>>
  BY <1>1, <1>2, <1>4, <1>5, <1>6, <1>7, StillWhole
<1>8. CASE RemoveStale
  <2>1. /\ parent' = [parent EXCEPT !.staging = Nobody] /\ kept' = kept \cup {parent'}
        /\ \A r \in Runs : ~Working(r)
    BY <1>8 DEF RemoveStale, Working
  <2>2. parent'.output = parent.output /\ parent'.staging = Nobody
    BY <1>1, <2>1 DEF TypeOK
  <2>3. QED
    BY <1>1, <1>2, <1>4, <1>5, <1>6, <2>1, <2>2, StillWhole
<1>9. QED
  BY <1>7, <1>8 DEF Kill, ChangeSource, VerifyArtifact, disk

LEMMA LosePowerWhole ==
  ASSUME MaxSourceChanges <= 1, WholeInv, Next, LosePower
  PROVE  WholeInv'
<1>1. PublishInv' /\ SourceOnce' /\ TypeOK
  BY LosePowerPublish, SourceStep DEF WholeInv, PublishInv
<1>2. /\ UNCHANGED <<profile, left, flushed, entered, source>>
      /\ parent' \in kept /\ kept' = {parent'}
      /\ dir' = dir \/ dir' = [d \in Runs |-> Remains(d)]
  BY DEF LosePower
<1>3. \A q \in Runs : pc'[q] \in {"dead", "load"} \cup Over /\ pc'[q] \in {"dead", pc[q]}
  BY <1>1 DEF LosePower, TypeOK, Over
<1>4. StagedSafe' /\ DirectPath'
  <2>1. \A q \in Runs : ~Working(q)' /\ pc'[q] \notin {"reserve", "job", "direct"}
    BY <1>3 DEF Working, Inside, Over
  <2>2. QED
    BY <2>1 DEF StagedSafe, DirectPath
<1>5. Fresh'
  <2>1. \A d \in Runs : pc'[d] \in Before \cup {"hash", "bundle"} => pc[d] = pc'[d]
    BY <1>3 DEF Before
  <2>2. \A k \in kept : \A d \in {k.staging, k.output} \ {Nobody} : d \in Runs
    BY <1>1 DEF TypeOK
  <2>3. QED
    BY <1>2, <2>1, <2>2 DEF WholeInv, Fresh
<1>6. OutputSafe'
  <2> DEFINE d == parent.output
  <2> SUFFICES ASSUME parent'.output # Nobody PROVE OutputSafe'
    BY DEF OutputSafe
  <2>1. parent'.output = d /\ d # Nobody
    BY <1>2 DEF WholeInv, PublishInv, KeptLike
  <2>2. d \in Runs /\ Whole(d) /\ Files \subseteq flushed[d] /\ Files \subseteq entered[d]
    BY <1>1, <2>1 DEF WholeInv, OutputSafe, TypeOK
  <2>3. Remains(d) = dir[d]
    <3>1. \A n \in Names : Remains(d)[n] = dir[d][n]
      BY <2>2 DEF Remains, Whole
    <3>2. dir[d] \in [Names -> Content]
      BY <1>1, <2>2 DEF TypeOK
    <3>3. QED
      BY <3>1, <3>2 DEF Remains
  <2>4. dir'[d] = dir[d]
    BY <1>2, <2>2, <2>3
  <2>5. QED
    BY <1>2, <2>1, <2>2, <2>4, SafeStays DEF WholeInv
<1>7. QED
  BY <1>1, <1>4, <1>5, <1>6 DEF WholeInv

LEMMA WholeStep ==
  ASSUME MaxSourceChanges <= 1, WholeInv, [Next]_vars
  PROVE  WholeInv'
<1>1. CASE UNCHANGED vars
  <2>1. PublishInv' /\ SourceOnce'
    BY PublishStep, SourceStep DEF WholeInv, PublishInv
  <2>2. QED
    BY <1>1, <2>1, StillWhole DEF vars, Working
<1>2. CASE Next
  BY <1>2, NextGroups, WorkWhole, NamingWhole, WritingWhole, DiscardWhole, OutsideWhole,
     LosePowerWhole DEF Fine
<1>3. QED
  BY <1>1, <1>2

\* As long as the source changes at most once, what has the output name is a
\* complete artifact made of the locked source, whatever fails, is killed, loses
\* power or runs at the same time (compile_artifact, publish_staging).
THEOREM PublishedAlwaysWhole ==
  ASSUME MaxSourceChanges <= 1 PROVE Spec => []PublishedIsWhole
<1>1. WholeInv => PublishedIsWhole
  BY DEF WholeInv, OutputSafe, PublishedIsWhole
<1>2. WholeInv /\ [Next]_vars => WholeInv'
  BY WholeStep
<1>3. QED
  BY <1>1, <1>2, WholeInit, PTL DEF Spec

-----------------------------------------------------------------------------
(* A caught failure after publication.                                     *)

(* The artifact's run is flushing or locking it, or it is locked already.  *)
BoundOrBinding ==
  LET r == parent.output
  IN  \/ pc[r] \in {"settle", "lock"}
      \/ pc[r] \in {"report", "writing", "excuse", "excusing", "done", "failed"} /\ LockNames(r)

Unharmed == debris = {} /\ (parent.output # Nobody => BoundOrBinding)

\* Without a fault a raised error means that the step found something amiss, and
\* nothing is amiss between the rename and the lock.
LEMMA RaiseUnharmed ==
  ASSUME WholeInv, Unharmed, NEW r \in Runs, Raise(r), Fine, parent.output # Nobody
  PROVE  BoundOrBinding'
<1> DEFINE o == parent.output
<1>1. /\ o \in Runs /\ parent' = parent /\ profile' = profile
      /\ lock' = lock \/ lock' = o
      /\ pc \in [Runs -> Live \cup Over]
  BY DEF Raise, disk, WholeInv, PublishInv, TypeOK
<1>2. lock = o => lock' = o
  BY <1>1
<1>3. CASE r # o
  BY <1>1, <1>2, <1>3 DEF Unharmed, BoundOrBinding, LockNames, Raise, Goto
<1>4. CASE r = o
  <2>1. ~Allowed(r)
    BY DEF Raise, Fault, Fine, WholeInv, PublishInv, TypeOK
  <2>2. pc[r] # "settle"
    BY <2>1 DEF Allowed
  <2>3. pc[r] # "lock"
    BY <2>1 DEF Allowed, Unharmed
  <2>4. pc[r] \in {"report", "writing"} /\ LockNames(r)
    BY <1>4, <2>2, <2>3 DEF Unharmed, BoundOrBinding, Raise, Before, Inside, Published
  <2>5. pc'[r] = "excuse"
    BY <1>1, <2>4 DEF Raise, Goto, Inside
  <2> QED BY <1>1, <1>2, <1>4, <2>4, <2>5 DEF BoundOrBinding, LockNames
<1> QED BY <1>3, <1>4

LEMMA UnharmedStep ==
  ASSUME MaxSourceChanges <= 1, WholeInv, [Next]_vars, faults = 0 => Unharmed, faults' = 0
  PROVE  Unharmed'
<1>1. CASE UNCHANGED vars
  BY <1>1 DEF vars, Unharmed, BoundOrBinding, LockNames
<1>2. CASE Next
  <2>1. /\ ~Fault /\ TypeOK /\ pc \in [Runs -> Live \cup Over]
        /\ Nobody \notin Runs
    <3>1. TypeOK
      BY DEF WholeInv, PublishInv
    <3>2. ~Fault
      BY <3>1 DEF Fault, TypeOK
    <3> QED BY <3>1, <3>2, CompileAssumption DEF TypeOK
  <2>2. ASSUME NEW r \in Runs, WorkStep(r), Fine
        PROVE  Unharmed'
    <3>1. Moves(r) /\ Unharmed
      BY <2>1, <2>2, WorkMoves DEF Fine
    <3>2. ASSUME parent.output # Nobody PROVE BoundOrBinding'
      <4>1. UNCHANGED <<parent, lock, profile>>
        BY <3>1 DEF Moves, outside
      <4>2. CASE parent.output # r
        BY <2>1, <3>1, <3>2, <4>1, <4>2 DEF Moves, Unharmed, BoundOrBinding, LockNames, TypeOK
      <4>3. CASE parent.output = r
        <5>1. pc[r] = "report" /\ LockNames(r)
          BY <3>1, <3>2, <4>3 DEF Moves, Unharmed, BoundOrBinding, Before, Inside
        <5> QED BY <3>1, <4>1, <4>3, <5>1 DEF Moves, BoundOrBinding, LockNames
      <4> QED BY <4>2, <4>3
    <3> QED BY <3>1, <3>2 DEF Moves, outside, Unharmed
  <2>3. ASSUME NEW r \in Runs, Fine,
               MakeStaging(r) \/ SyncStaging(r) \/ SettleOutput(r) \/ WriteLock(r)
               \/ WriteReport(r) \/ LookBeforeExcuse(r) \/ WriteFailureReport(r)
        PROVE  Unharmed'
    <3> DEFINE o == parent.output
    <3>1. /\ Unharmed /\ debris' = debris /\ profile' = profile /\ parent'.output = o
          /\ lock' = lock \/ (lock' = o /\ pc[r] = "lock")
      BY <2>1, <2>3 DEF Fine, At, MakeStaging, SyncStaging, SettleOutput, WriteLock,
         WriteReport, LookBeforeExcuse, WriteFailureReport, outside, disk, TypeOK
    <3>2. PICK phase :
            /\ Goto(r, phase)
            /\ \/ pc[r] \in {"mkdir", "sync"}
               \/ pc[r] = "settle" /\ phase = IF profile[r] = "hybrid" THEN "lock" ELSE "report"
               \/ pc[r] = "lock" /\ phase = "report" /\ lock' = o
               \/ pc[r] = "writing" /\ phase = "done"
               \/ pc[r] = "excuse" /\ phase \in {"excusing", "failed"}
               \/ pc[r] = "excusing" /\ phase = "failed"
      BY <2>3 DEF At, MakeStaging, SyncStaging, SettleOutput, WriteLock, WriteReport,
         LookBeforeExcuse, WriteFailureReport
    <3>3. pc'[r] = phase /\ \A q \in Runs \ {r} : pc'[q] = pc[q]
      BY <2>1, <3>2 DEF Goto
    <3>4. ASSUME o # Nobody PROVE BoundOrBinding'
      <4>1. o \in Runs /\ BoundOrBinding /\ (LockNames(o) => LockNames(o)')
        BY <2>1, <3>1, <3>4 DEF TypeOK, LockNames, Unharmed
      <4>2. CASE o # r
        BY <3>1, <3>3, <4>1, <4>2 DEF BoundOrBinding, LockNames
      <4>3. CASE o = r
        BY <3>1, <3>2, <3>3, <4>1, <4>3 DEF BoundOrBinding, LockNames
      <4> QED BY <4>2, <4>3
    <3> QED BY <3>1, <3>4 DEF Unharmed
  <2>4. ASSUME NEW r \in Runs, Fine, RenameStaging(r)
        PROVE  Unharmed'
    <3>1. /\ pc[r] = "rename" /\ Here # Nobody /\ parent.output = Nobody /\ Goto(r, "settle")
          /\ parent' = [output |-> Here, staging |-> Nobody] /\ UNCHANGED outside
      BY <2>4 DEF RenameStaging, At, Allowed, OutputFree
    <3>2. Here = r
      BY <3>1, InsideWorks DEF Inside, WholeInv, StagedSafe, Here
    <3>3. parent'.output = r /\ pc'[r] = "settle"
      BY <2>1, <3>1, <3>2 DEF Goto
    <3> QED BY <2>4, <3>1, <3>3 DEF Unharmed, BoundOrBinding, outside, Fine
  <2>5. ASSUME NEW r \in Runs, Fine, Raise(r)
        PROVE  Unharmed'
    BY <2>5, RaiseUnharmed DEF Raise, disk, Unharmed, Fine
  <2>6. ASSUME NEW r \in Runs, DiscardStaging(r)
        PROVE  Unharmed'
    <3>1. /\ Unharmed /\ pc[r] = "failing" /\ Goto(r, "excuse")
          /\ UNCHANGED <<profile, outside>> /\ parent'.output = parent.output
      BY <2>1, <2>6 DEF DiscardStaging, Fine, TypeOK
    <3>2. ASSUME parent.output # Nobody PROVE BoundOrBinding'
      <4>1. parent.output # r
        BY <3>1, <3>2 DEF Unharmed, BoundOrBinding
      <4> QED BY <2>1, <3>1, <3>2, <4>1 DEF Unharmed, BoundOrBinding, LockNames, Goto, outside, TypeOK
    <3> QED BY <3>1, <3>2 DEF Unharmed, outside
  <2>7. ASSUME RemoveStale \/ ChangeSource \/ VerifyArtifact
        PROVE  Unharmed'
    <3>1. UNCHANGED <<pc, profile, outside, faults>> /\ parent'.output = parent.output
      BY <2>1, <2>7 DEF RemoveStale, ChangeSource, VerifyArtifact, run, disk, TypeOK
    <3> QED BY <3>1 DEF Unharmed, BoundOrBinding, LockNames, outside
  <2>8. ~LosePower /\ \A r \in Runs : ~Kill(r)
    BY <2>1 DEF LosePower, Kill
  <2> QED
    BY <1>2, NextGroups, <2>1, <2>2, <2>3, <2>4, <2>5, <2>6, <2>7, <2>8
<1> QED BY <1>1, <1>2

\* All that a caught failure can spoil after publication is its own report: unless
\* something went wrong besides, the artifact of a compilation that failed is as
\* whole, and as firmly bound by its lock, as one that succeeded
\* (compile_artifact, _write_report).
FailureSpoilsReportOnly ==
  faults = 0 => \A r \in Runs :
     pc[r] = "failed" /\ parent.output = r => Whole(r) /\ LockNames(r)

THEOREM FailureAlwaysSpoilsReportOnly ==
  ASSUME MaxSourceChanges <= 1 PROVE Spec => []FailureSpoilsReportOnly
<1> DEFINE Safe == faults = 0 => Unharmed
<1>1. Init => Safe
  BY DEF Init, Unharmed
<1>2. WholeInv /\ Safe /\ [Next]_vars => Safe'
  BY UnharmedStep
<1>3. WholeInv /\ Safe => FailureSpoilsReportOnly
  BY CompileAssumption DEF Unharmed, BoundOrBinding, FailureSpoilsReportOnly, WholeInv, OutputSafe
<1>4. WholeInv /\ [Next]_vars => WholeInv'
  BY WholeStep
<1> QED
  BY <1>1, <1>2, <1>3, <1>4, WholeInit, PTL DEF Spec
=============================================================================

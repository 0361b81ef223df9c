----------------------------- MODULE ModelFetch -----------------------------
(***************************************************************************)
(* tools/lock_hf_model.py writes an immutable lock of a remote revision;   *)
(* tools/fetch_model.py downloads the locked files into the shared cache   *)
(* and links a view of them.  Runs for several locks follow each other on  *)
(* one cache; each may be killed at any point, connections end early, and  *)
(* another downloader ("compose") leaves partial files of its own.         *)
(*                                                                         *)
(* The bytes of a file are abstracted to how many blocks it has and whose  *)
(* request they came from; "good" says they are the first blocks of the    *)
(* content its blob is named after.                                        *)
(***************************************************************************)
EXTENDS Naturals, FiniteSets

CONSTANTS Locks, Blobs,
          EntriesOf,         \* the blobs each lock needs
          Size,              \* blocks of a complete blob
          MaxFetchFaults     \* kills, early ends of connections, bad bytes

ASSUME FetchAssumption == /\ Locks # {} /\ Blobs # {} /\ EntriesOf \in [Locks -> SUBSET Blobs]
                          /\ Size \in Nat \ {0} /\ MaxFetchFaults \in Nat

VARIABLES stage,    \* where the running fetch is, or "idle"
          mode,     \* "download", "import" or "verify" (--verify-only)
          want,     \* the lock it works on
          todo,     \* entries it has not visited
          item,     \* the entry it is at
          failures, \* some entry has failed
          lockFile, \* each lock file: "none", "torn" or "whole"
          blob,     \* the file named after each blob, or None
          partial,  \* its .incomplete file, or None
          sidecar,  \* whose identity .incomplete.json states: a lock, "none" or "torn"
          view,     \* the linked view of each lock: content of each linked file, or None
          fetched,  \* the locks whose last fetch reported success
          faultsLeft

fetchVars == <<stage, mode, want, todo, item, failures, lockFile, blob, partial,
               sidecar, view, fetched, faultsLeft>>

None == [len |-> 0, good |-> FALSE, by |-> "nobody"]
Foreign == "compose"
File == [len : 0..(Size + 1), good : BOOLEAN, by : Locks \cup {Foreign, "nobody"}]
Complete(f) == f.len = Size /\ f.by # "nobody"

Stages == {"idle", "preflight", "next", "verify", "import", "identity", "open",
           "receive", "size", "digest", "forget", "reverify", "mark", "link"}

FetchTypeOK ==
    /\ stage \in Stages /\ mode \in {"download", "import", "verify"}
    /\ want \in Locks /\ todo \subseteq Blobs /\ item \in Blobs
    /\ failures \in BOOLEAN
    /\ lockFile \in [Locks -> {"none", "torn", "whole"}]
    /\ blob \in [Blobs -> File] /\ partial \in [Blobs -> File]
    /\ sidecar \in [Blobs -> Locks \cup {"none", "torn"}]
    /\ view \in [Locks -> [Blobs -> File]]
    /\ fetched \subseteq Locks /\ faultsLeft \in 0..MaxFetchFaults

\* What another downloader leaves of a blob; it may even be longer than the lock says.
LeftByOthers == {f \in [len : 1..(Size + 1), good : BOOLEAN, by : {Foreign}] :
                   f.good => f.len <= Size}

\* A cache that was never used, or in which another downloader was interrupted.
FetchInit ==
    /\ stage = "idle" /\ mode = "download" /\ todo = {} /\ failures = FALSE
    /\ want = (CHOOSE l \in Locks : TRUE) /\ item = (CHOOSE b \in Blobs : TRUE)
    /\ lockFile = [l \in Locks |-> "none"]
    /\ blob \in [Blobs -> {None} \cup [len : {Size - 1}, good : {FALSE}, by : {Foreign}]]
    /\ partial \in [Blobs -> {None} \cup LeftByOthers]
    /\ sidecar = [b \in Blobs |-> "none"]
    /\ view = [l \in Locks |-> [b \in Blobs |-> None]]
    /\ fetched = {} /\ faultsLeft = MaxFetchFaults

cache == <<blob, partial, sidecar>>
Exists(f) == f # None
FaultHits == faultsLeft > 0 /\ faultsLeft' = faultsLeft - 1

-----------------------------------------------------------------------------
\* lock_hf_model: build_lock asks for the revision and the identity of every
\* file; a resolved revision, size or Git OID that differs ends it unwritten.
\* The text is written in place, so a kill may leave half of it.
WriteLockFile(l) ==
    /\ stage = "idle" /\ lockFile[l] # "whole"
    /\ \/ lockFile' = [lockFile EXCEPT ![l] = "whole"] /\ UNCHANGED faultsLeft
       \/ lockFile' = [lockFile EXCEPT ![l] = "torn"] /\ FaultHits
    /\ UNCHANGED <<stage, mode, want, todo, item, failures, cache, view, fetched>>

-----------------------------------------------------------------------------
\* main: validate_lock raises on a torn or missing lock file.
StartFetch(l, m) ==
    /\ stage = "idle" /\ lockFile[l] = "whole"
    /\ stage' = "preflight" /\ mode' = m /\ want' = l
    /\ todo' = EntriesOf[l] /\ failures' = FALSE
    /\ fetched' = fetched \ {l}
    /\ UNCHANGED <<item, lockFile, cache, view, faultsLeft>>

\* missing_blob_bytes: what is not there at its full size, each blob once.
MissingBlobs == {b \in EntriesOf[want] : blob[b].len # Size}

\* The process is gone; what it worked on says nothing any more.
Stop == /\ stage' = "idle" /\ mode' = "download" /\ todo' = {} /\ failures' = FALSE
        /\ want' = (CHOOSE l \in Locks : TRUE) /\ item' = (CHOOSE b \in Blobs : TRUE)

\* capacity_preflight may refuse before anything is touched, but not --verify-only.
CapacityPreflight ==
    /\ stage = "preflight"
    /\ \/ /\ stage' = "next"
          /\ UNCHANGED <<mode, want, todo, item, failures, faultsLeft>>
       \/ mode # "verify" /\ MissingBlobs # {} /\ Stop /\ FaultHits
    /\ UNCHANGED <<lockFile, cache, view, fetched>>

NextEntry ==
    /\ stage = "next" /\ todo # {}
    /\ item' \in todo
    /\ todo' = todo \ {item'} /\ stage' = "verify"
    /\ UNCHANGED <<mode, want, failures, lockFile, cache, view, fetched, faultsLeft>>

FinishFetch ==
    /\ stage = "next" /\ todo = {} /\ Stop
    /\ fetched' = IF failures THEN fetched ELSE fetched \cup {want}
    /\ UNCHANGED <<lockFile, cache, view, faultsLeft>>

\* An entry fails: the loop goes on with the next one.
EntryFails == stage' = "next" /\ failures' = TRUE

\* verify: a missing file or another size is "not there"; the right size with
\* the wrong digest raises.
Verified(f) == Complete(f) /\ f.good

VerifyBlob ==
    /\ stage = "verify"
    /\ \/ Verified(blob[item]) /\ stage' = "mark" /\ UNCHANGED failures
       \/ Complete(blob[item]) /\ ~blob[item].good /\ EntryFails
       \/ ~Complete(blob[item]) /\ mode = "verify" /\ EntryFails
       \/ ~Complete(blob[item]) /\ mode = "import" /\ stage' = "import" /\ UNCHANGED failures
       \/ ~Complete(blob[item]) /\ mode = "download" /\ stage' = "identity" /\ UNCHANGED failures
    /\ UNCHANGED <<mode, want, todo, item, lockFile, cache, view, fetched, faultsLeft>>

\* --import-from: a verified file is linked in place of the blob, or is missing.
ImportEntry ==
    /\ stage = "import"
    /\ \/ /\ partial' = [partial EXCEPT ![item] = None]
          /\ blob' = [blob EXCEPT ![item] = [len |-> Size, good |-> TRUE, by |-> want]]
          /\ stage' = "reverify" /\ UNCHANGED <<failures, faultsLeft>>
       \/ EntryFails /\ FaultHits /\ UNCHANGED <<blob, partial>>
    /\ UNCHANGED <<mode, want, todo, item, lockFile, sidecar, view, fetched>>

\* download: a partial file whose sidecar states another identity is removed;
\* one without a sidecar is another downloader's and is resumed.
CheckIdentity ==
    /\ stage = "identity" /\ stage' = "open"
    /\ partial' = [partial EXCEPT ![item] = IF sidecar[item] \in {want, "none"} THEN @ ELSE None]
    /\ sidecar' = [sidecar EXCEPT ![item] = want]
    /\ UNCHANGED <<mode, want, todo, item, failures, lockFile, blob, view, fetched, faultsLeft>>

\* urlopen with a range from the end of the partial file, opened for appending once
\* the server has answered; it may be out of reach, or refuse the range (not a 206).
OpenPartial ==
    /\ stage = "open" /\ partial[item].len < Size
    /\ \/ /\ partial' = [partial EXCEPT ![item] =
                            IF @.len > 0 THEN @ ELSE [len |-> 0, good |-> TRUE, by |-> want]]
          /\ stage' = "receive" /\ UNCHANGED <<failures, faultsLeft>>
       \/ EntryFails /\ FaultHits /\ UNCHANGED partial
    /\ UNCHANGED <<mode, want, todo, item, lockFile, blob, sidecar, view, fetched>>

\* Nothing is left to ask for: a longer partial file is refused, and for a complete one
\* the range begins behind the end (416).  It stays, for the next run to fail on too.
RefuseResume ==
    /\ stage = "open" /\ partial[item].len >= Size
    /\ EntryFails
    /\ UNCHANGED <<mode, want, todo, item, lockFile, cache, view, fetched, faultsLeft>>

\* Appended blocks keep the start as good as it was; a fault damages one.
ReceiveBlock ==
    /\ stage = "receive" /\ partial[item].len < Size
    /\ \E sound \in BOOLEAN :
          /\ IF sound THEN UNCHANGED faultsLeft ELSE FaultHits
          /\ partial' = [partial EXCEPT ![item].len = @ + 1,
                                        ![item].good = @ /\ sound]
    /\ UNCHANGED <<stage, mode, want, todo, item, failures, lockFile, blob, sidecar, view, fetched>>

\* The server sends no more: everything it had, or the connection was lost.
EndOfStream ==
    /\ stage = "receive" /\ stage' = "size"
    /\ IF partial[item].len = Size THEN UNCHANGED faultsLeft ELSE FaultHits
    /\ UNCHANGED <<mode, want, todo, item, failures, lockFile, cache, view, fetched>>

CheckSize ==
    /\ stage = "size"
    /\ \/ partial[item].len = Size /\ stage' = "digest" /\ UNCHANGED failures
       \/ partial[item].len # Size /\ EntryFails
    /\ UNCHANGED <<mode, want, todo, item, lockFile, cache, view, fetched, faultsLeft>>

\* Mutated form: the partial file becomes the blob as soon as its size is right.
CheckDigestSkipped ==
    /\ stage = "digest"
    /\ blob' = [blob EXCEPT ![item] = partial[item]]
    /\ partial' = [partial EXCEPT ![item] = None]
    /\ stage' = "forget" /\ UNCHANGED <<failures, sidecar>>
    /\ UNCHANGED <<mode, want, todo, item, lockFile, view, fetched, faultsLeft>>

\* The digest decides: the file becomes the blob in one rename, or goes.
CheckDigest ==
    /\ stage = "digest"
    /\ \/ /\ partial[item].good
          /\ blob' = [blob EXCEPT ![item] = partial[item]]
          /\ partial' = [partial EXCEPT ![item] = None]
          /\ stage' = "forget" /\ UNCHANGED <<failures, sidecar>>
       \/ /\ ~partial[item].good
          /\ partial' = [partial EXCEPT ![item] = None]
          /\ sidecar' = [sidecar EXCEPT ![item] = "none"]
          /\ EntryFails /\ UNCHANGED blob
    /\ UNCHANGED <<mode, want, todo, item, lockFile, view, fetched, faultsLeft>>

ForgetIdentity ==
    /\ stage = "forget" /\ stage' = "reverify"
    /\ sidecar' = [sidecar EXCEPT ![item] = "none"]
    /\ UNCHANGED <<mode, want, todo, item, failures, lockFile, blob, partial, view,
                   fetched, faultsLeft>>

ReverifyBlob ==
    /\ stage = "reverify"
    /\ \/ Verified(blob[item]) /\ stage' = "mark" /\ UNCHANGED failures
       \/ ~Verified(blob[item]) /\ EntryFails
    /\ UNCHANGED <<mode, want, todo, item, lockFile, cache, view, fetched, faultsLeft>>

\* The marker, and link_file, which takes a stale name away before it links.
MarkVerified ==
    /\ stage = "mark" /\ stage' = "link"
    /\ view' = [view EXCEPT ![want][item] = IF @ = blob[item] THEN @ ELSE None]
    /\ UNCHANGED <<mode, want, todo, item, failures, lockFile, cache, fetched, faultsLeft>>

LinkEntry ==
    /\ stage = "link" /\ stage' = "next"
    /\ view' = [view EXCEPT ![want][item] = blob[item]]
    /\ UNCHANGED <<mode, want, todo, item, failures, lockFile, cache, fetched, faultsLeft>>

-----------------------------------------------------------------------------
\* A kill ends the run where it is; a sidecar being written may be torn.
KillFetch ==
    /\ stage # "idle" /\ Stop /\ FaultHits
    /\ sidecar' \in {sidecar} \cup (IF stage = "open" THEN {[sidecar EXCEPT ![item] = "torn"]}
                                                      ELSE {})
    /\ UNCHANGED <<lockFile, blob, partial, view, fetched>>

InstallEntry ==
    \/ VerifyBlob \/ ImportEntry \/ CheckIdentity \/ OpenPartial \/ RefuseResume
    \/ ReceiveBlock \/ EndOfStream \/ CheckSize \/ CheckDigest \/ ForgetIdentity \/ ReverifyBlob \/ MarkVerified \/ LinkEntry

FetchStep == CapacityPreflight \/ NextEntry \/ InstallEntry \/ FinishFetch

FetchNext ==
    \/ \E l \in Locks : WriteLockFile(l)
    \/ \E l \in Locks, m \in {"download", "import", "verify"} : StartFetch(l, m)
    \/ FetchStep \/ KillFetch

FetchSpec == FetchInit /\ [][FetchNext]_fetchVars

-----------------------------------------------------------------------------
\* Success means that every locked file is in the view, complete and right,
\* and stays so while other locks are fetched, killed and repeated
\* (install_entry, main).
FetchSound ==
    \A l \in fetched : \A b \in EntriesOf[l] : Verified(view[l][b])

\* No blob of full size in the cache has other bytes than its name says, whatever
\* partial file it was resumed from and whoever wrote that: such a blob would be
\* refused by every later run and replaced by none (download, verify).
BlobsNeverWedge == \A b \in Blobs : Complete(blob[b]) => blob[b].good

\* The shared cache keeps its promise to every lock and to every later run.
CacheSound == FetchSound /\ BlobsNeverWedge
=============================================================================

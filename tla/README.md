# A TLA+ model of gem16

gem16 serves Gemma models on one GPU over an OpenAI-compatible HTTP interface,
and comes with the Python tools that compile, package, download and qualify
those models. This directory holds TLA+ specifications of the concurrent core
of the server and of the tools, the TLC configurations that check them, and
TLAPS proofs. Paths below are relative to
the repository root; `PROJECT.json` maps every definition to its lines.

## The system

| Component | State | Operations | What is hard |
|---|---|---|---|
| Request admission queue (`src/server/request_queue.cpp`) | `waiters_`, `next_ticket_`, `active_`, `high_watermark_`, `draining_` | `Acquire`, `Release` through the moved `RequestAdmission`, `StartDraining`, `Snapshot` | FIFO order against withdrawals, deadlines, throwing callbacks; one release per admission |
| Session pool (`src/server/session_pool.cpp`, `session_wait.h`) | `sessions`, `pending_sessions`, `response_index`, `lru_clock`; per entry `active_requests`, `retired`, `last_used`, the reference count of its `shared_ptr` | create, acquire by name or by response, index, release, discard | slots are built outside the mutex; eviction depends on reference counts; waits are polled |
| Generation handlers (`src/cli/server_main.cpp`) | one stack frame per request, or a `ProviderState` when streamed | `HandleCompletion`, `HandleResponses`, `HandleCancelResponse`, signal monitor | order of destructors; work after the HTTP status was sent; cancel and shutdown flags |
| Responses chain (`PrepareResponsesRequest`, `CommitResponsesRequest`) | `responses_chain` of an entry | prepare, commit | must stay in step with what the KV cache holds |
| Chat session (`src/runtime/chat.cpp`) | `committed_messages`, cached prefix, `poisoned` | `Generate`, `ValidateContinuation`, `Restart`, `Reset` | rollback or poisoning on every failure |
| Streaming protocol (`src/server/http_streaming.cpp`) | UTF-8 carry, open output items, sequence number | token callback, tail check, final events | event order; bytes split between tokens |
| Inference session (`src/cuda/inference_session.cuh`) | cached token ids, slot lease, `poisoned` | prefill, decode, rollback | partial failure |
| Draft scheduler, tool call parser, memory plan | counters, parser state | sequential algorithms | boundaries |
| Codec, observability, tokenizer, model loading, kernels | none that the above depends on | conversions, numerics | not a matter of state |
| Checkpoint compiler (`tools/compile_gemma4_26b.py`, `tools/gem16_compile`) | `<output>.incomplete`, output, external lock, report; a `.tmp` file of each atomic write | compile, verify, dry run | what is on disk after a kill or a loss of power; a source that changes; two invocations at once |
| Compile plans (`plan.py`, `profiles.py`, the plan and manifest generators, `fp8_report.py`) | plan and manifest files | generate, edit, load, report | exact coverage of the source; files read twice |
| Tensor reports (`generate_gemma4_26b_m05_reports.py`) | two retained files, two lanes of inputs | generate, `--check` | inputs of different compiles |
| Trellis35 checkpoint (`generate_gemma4_26b_trellis35_*.py`, package, verify, device image) | candidate cache, layer directories, component directory, image | compile a layer, resume, package, verify, build | candidates and layers of earlier builds; kills between files |
| Packages (`build_…_device_image.py`, `package_…_hf.py`, vision module, `reorganize_gemma4_26b_hf.py`) | packages of hard links, marker files, a hub repository | build, package, bundle, commit | unfinished inputs; links into files that change; other committers |
| Model download (`fetch_model.py`, `lock_hf_model.py`) | shared cache of blobs and partial files, views | lock, resume, verify, link | partial files of others; redirected or short answers |
| Qualification (`qualify_gemma4_26b_m19/20/21.py`, `scripts/qualify_gemma4_26b_m23.py`, `run_gemma4_26b_nvfp4_diagnostic.py`) | raw directories, reports | measure, validate, accept | leftovers of a killed run; inputs exchanged meanwhile |
| Quality benchmarks (`benchmark_quality.py`, `compare_quality_benchmarks.py`, V19 capacity) | journal of rows, capacity file | attempt, resume, compare | concurrent attempts; resumption under another binary |
| Server trials (V19 quality, long conversation, workload, `benchmark_server.py`, `qualify_mtp.py`) | child process, port, counters, session | start, request, scrape, report | orphaned servers; other clients |
| nativeStudio | server process, downloads, chat database | supervise, install, store | process and download failures |

A request passes through them in this order: admission, parsing, acquisition of
a session (which may wait, evict, build or reset one), a lease on it, the index
entry of its response, the turn itself, the commit of the chain, the end of the
lease, the return of the admission. A streamed request leaves its handler after
the index entry: the rest runs in a content provider, and its clean-up in the
destructor of the provider's state. Handlers share the queue and the pool, each
under a mutex; entries carry bare atomics that are read and written inside and
outside of it. The cancel endpoint and the shutdown monitor reach into entries
without a lease.

The tools run offline and share nothing with the server, and with each other
only finished files: a plan is compiled, the compiled artifact is packaged,
packages are downloaded, and what was downloaded is qualified. Each of them is
sequential; what makes them hard is that they are killed and run again, that
two invocations meet on one path, and that files change between two readings.

## The modules

| Module | Models | Atomicity |
|---|---|---|
| `AdmissionPromise` | what `docs/SERVER.md` promises of admission, as an abstract specification | – |
| `RequestQueue` | the admission queue | one action per critical section of `mutex_` |
| `SessionPromise` | what `docs/SERVER.md` promises of sessions: one request at a time, continuations on the session that answered, nothing from a session that failed, a limit on their number | – |
| `SessionPool` | the pool under the handlers: acquisition loops, creation, eviction, leases, retirement, response index, reference counts | one action per critical section of `pool_mutex`, or per effect outside it |
| `ResponsesChain` | `HandleResponses` over chain, index and the conversation in the cache | one action per step of a handler; it assumes a pool that behaves as `SessionPromise` allows, which `SessionPool` implements |
| `GenerationCancel` | cancel flag, active response, cancel endpoint, shutdown monitor, for one session and its successive handlers | the flag's read and store are separate actions |
| `Publication` | what the compiler promises of its output path, as an abstract specification | – |
| `ArtifactCompile` | `compile_artifact` and `verify_artifact` down to the flushing of files and names | one action per file or directory operation that another process or a crash can come before |
| `CompilePlans`, `TensorReports`, `TrellisRelease`, `Packages`, `ModelFetch`, `Qualification`, `EvaluationRuns`, `ServerTrials` | the other tools, see below | one action per reading, file written, child or request |
| `OfflineTools` | their composition: one family of tools at a time | – |
| `RequestQueueProofs`, `SessionPoolProofs`, `ResponsesChainProofs`, `GenerationCancelProofs`, `ArtifactCompileProofs` | theorems about these five | – |
| `DistributionProofs` | theorems about `CompilePlans`, `TrellisRelease`, `Packages`, `ModelFetch` | – |
| `MeasurementProofs` | theorems about `ServerTrials`, `EvaluationRuns`, `TensorReports`, `Qualification` | – |
| `OfflineToolsProofs` | that all of these hold of `OfflineTools` | – |
| `MC…` | symmetry sets for TLC | – |

**RequestQueue.** `pc` is where a caller's `Acquire` stands, `gone` and `late` are
what `cancelled()` and the clock would answer. `startedLate` exists because
`Acquire` reads the clock before it takes the mutex and judges the deadline by
that reading. The wait loop re-examines the world on every wake-up, and wakes
up every 25 ms in any case, so notifications do not appear. `CallbackThrows` is
the `catch` block. `wait_microseconds` and the status codes are left out.

**SessionPool.** `ref[r]` is the entry that the `shared_ptr`s of request r keep
alive; `CanEvict` is `active_requests == 0` and nobody but the map holding the
entry. `Reserve`, `Recycle` and `Refused` are the first critical section of
`CreateSession`; `Build…` and `Reset…` the part without the mutex; `Publish` the
second. `Reclaim` is the destructor of `recycled` after a failed reset, which
runs after the reservation was returned. `moved` marks a session whose
`Restart` gave its slot back and got no new one. `Abort` is
`SessionWaitOptions::Check` failing. Waits poll, so their ends are actions
guarded by the predicate alone. `recency` is the order of `last_used`. Metrics
and the parsing that goes on between admission and acquisition are left out.

**ResponsesChain.** A turn is one user message with its answer, named by the
request that caused it, so `chain` and `committed` are sequences of requests.
`IsLatest` is `PrepareResponsesRequest`, `Extends` is `ValidateContinuation`.
`GenerateFails` stands for all failures that leave the cache as it was,
`GeneratePoisons` for those that do not, `StreamTailFails` for the checks that
`ResponsesStream::Generate` makes after the turn has been committed. Changed
tools are one more failure of validation and not told apart.

**GenerationCancel.** One session; `Recycle` takes it out of `sessions` while it
is reset. A plain handler checks flag and signal, a stream only the flag.

**ArtifactCompile.** A directory is identified by the run that made it, and
`parent` says which have the two names; every step looks the name up again, as
the code does. `dir` is what a reader sees, `flushed` and `entered` which bytes
and which names have reached the disk, `kept` the values of `parent` that a loss
of power may leave: `fsync_directory` empties `kept` of the others. `LosePower`
keeps everything or drops all that was not flushed; other mixtures are left
out. `noted` is what the manifest attributes to a tensor. The phases up to
`mkdir` lie before the `try` of `compile_artifact`, `Inside` in it, `Published`
after `published = True`: `Raise` goes to `discard_staging` only from `Inside`, as
the `except` does, and then to `write_failure_report`. `Allowed` says what a step
must find, so that a step which finds something else raises without a fault.
The profiles stand for the paths through the code: dry run (`plan`), encoders
in Python, native children, both with an external lock (`hybrid`). `reproduce`
(two compilations and a comparison) is left out.

**CompilePlans.** One tensor stands for each role; `checkpoint` and `reference`
are the schemas the generators find, `Edit` what somebody may do to a plan
before it is loaded. `TensorReports` takes over where a plan has been compiled.
**TrellisRelease.** Contents are nested sequences, so that a hash can be the
thing hashed and a stale candidate is told from a fresh one of the same size.
**Packages.** Only whether bytes are those of the lock matters.
**ModelFetch.** A blob is a number of blocks and whether all of them are the
right ones; `compose` is the other downloader that uses the same cache and may have
left a partial file of any size. `OpenPartial` goes on with what is there,
`RefuseResume` is what becomes of a partial file that is complete already, or longer:
no range is left to ask for, the entry fails, and the file stays.
**Qualification.** A hash is the version of what was hashed; `AcceptedIsMeasured`
compares the report with what really ran. M21 may be asked for any of the contexts
and is complete with the longest there is (`MaxContext`) or a near rejection. M20
gates on M21's report; M23 gets a summary of it (`Summaries`) that somebody wrote and
that may say anything, because it looks for the identities where that report does not
have them. **EvaluationRuns.** The answer to an
example is the version of the server that gave it. **ServerTrials.** The port
is that of the child, of an orphan of a killed script, or nobody's.
`OfflineTools` chooses a family of tools and its inputs in the initial state;
its runs are the runs of the single modules, in one state space.

## Runs

All specifications of handlers are one-shot (a request is handled once), so the
system may stop: deadlock is not checked. What deadlock would hide is asked
by the liveness properties instead.

| Run | Bounds | Question |
|---|---|---|
| `RequestQueue` | 5 callers, capacity 2, queue 2 | invariants, refinement of `AdmissionPromise`; whoever leaves the line and however, it moves on |
| `RequestQueueLive` | 3 callers, capacity 0 (raised to 1), queue 2 | every queued caller is answered |
| `SessionPool` | 4 requests, 1 client-chosen id, 2 slots, device faults | exclusivity, reservations, index, with device faults; handlers never block one another; refinement of `SessionPromise` |
| `SessionPoolLive` | 3 requests, 1 id, 2 slots | every request gets a session or an answer; no slot too many while the device does not fail |
| `ResponsesChain` | 4 requests | linearity, chain against cache, index |
| `GenerationCancel` | 3 requests | isolation and delivery of cancels, shutdown |
| `SessionPoolSlots` | 4 requests, 2 slots, device faults | expected violation, see below |
| `ResponsesChainTail`, `ResponsesChainStale` | 3 requests | expected violations |
| `GenerationCancelShutdown` | 2 requests | expected violation |
| `OfflineTools` | 2 invocations, 3 tensors, 1 fault, 1 change of the source; for the others see `OfflineTools.cfg` | 14 properties of the tools |
| `ArtifactCompileFailure` | 2 invocations, no fault, no change | expected violation |

Why the bounds suffice to be interesting: five callers over capacity two leave
three that queue, one more than the queue takes, so a refusal, a removal from
the middle and from the end, and an admission behind a withdrawn head all occur. In the pool,
two slots and four requests give two leases, which is also all that admission
allows, an entry still referenced by a third handler that is unwinding, and a
fourth request to evict, recreate or wait; one client-chosen id lets up to four
requests compete for the same session while roots and continuations supply
distinct ones. Four responses allow chains of four turns, forks from an older
turn, and an eviction in between. Three generations are a predecessor, the one
that is cancelled, and a successor. Two invocations of the compiler and three
tensors (one per encoder family and one that is excluded besides) let the loser
fail at any step of the winner; one fault is a kill, a torn write or a loss of
power at any of them, and the theorems below take over for more. The other
tools take the smallest numbers at which a repeated run meets the leftovers of
a killed one: one layer's files of two builds (mixtures of layers are left to
`ReleaseAlwaysExact`), two locks over two blobs of two
blocks, three contexts, two attempts over two examples, three trials of three
questions, three compiles in two lanes. Entry numbers are bounded by the number of
requests, which `EntriesAlwaysSuffice` proves to be enough.

## Fairness

`RequestQueue!Fairness`: a caller inside `Acquire` keeps running, its loop polls,
and an admitted handler finishes; disconnects, deadlines and arrivals are never
forced. `SessionPool!Fairness`: every handler keeps taking steps, which rests on
the 25 ms poll in `session_wait.h` (no wait depends on a notification) and on
the token limit that ends each generation; strong fairness is not assumed.
`GenerationCancel!Fairness`: handlers poll between tokens and the monitor every
50 ms; that a generation ends by itself is deliberately not assumed.

## What the runs show

The passing runs found the rules of the server and of the tools sufficient at
these bounds, with five exceptions recorded in `PROJECT.json`:

- `SessionPoolSlots`: a failed `Reset` returns the reservation before the slot
  of the recycled session is free (`session_pool.cpp:197`, destructors run in
  reverse order of declaration), so another creation can build one slot too
  many. Needs two slots and a device failure; without one, `SessionPoolLive`
  shows the bound to hold. With them, `SlotsAlwaysAccounted` proves the excess to be
  at most one slot for each handler whose recycled session waits for its destructor.
- `ResponsesChainTail`: a tail check that fails after the turn was committed
  (`http_streaming.cpp:915-932`, `server_main.cpp:932-935`) leaves a session
  whose cache is one turn ahead of its chain; no continuation of its latest
  response is accepted again. `ChainMatchesSession` shows this is the only way
  the two can differ, and by no more than one turn.
- `ResponsesChainStale`: a stale id in a streamed request is reported inside a
  200 stream, where `docs/SERVER.md:241` says 404. `StaleAlwaysAnswered` proves that
  this happens to every streamed one and to no plain one.
- `GenerationCancelShutdown`: the store at `server_main.cpp:880` can overwrite
  the shutdown monitor's flag (`server_main.cpp:1555`); the stream then runs to
  its own end. Plain handlers also check the signal and are not affected
  (`ShutdownStopsPlain`), and `OnlyEarlyReadersEscape` proves that a handler whose
  store already sees the signal is not either.
- `ArtifactCompileFailure`: `_write_report` (`compiler.py:488-493`) refuses a
  report path that exists, after the artifact has been published; the failure
  report of another invocation with the same arguments can be there by then, and
  the winner exits with a failure. `docs/CORRECTNESS.md:510` says that caught
  failures publish no artifact. `FailureAlwaysSpoilsReportOnly` proves that
  nothing but the report suffers: without a further fault the artifact is whole and locked.

Of the tools, the run shows what the single modules promise: what has the output
name is whole and stays so (`PublishedIsWhole`, `LockBindsOutput`, `PromiseKept`),
`verify_artifact` is not deceived by a directory being written (`VerdictSound`),
only plans that cover the source exactly are compiled (`CompiledPlanExact`),
reports name what they were made from (`EvidenceBound`, `DiagnosticBound`), a
checkpoint, a package and a cache hold what their manifests and locks say
(`ReleaseExact`, `PackagesSound`, `CacheSound`), and accepted qualifications,
quality reports and trials rest on measurements of what they name
(`AcceptedIsMeasured`, `EvaluationsExact`, `ReportsHonest`).

Met while modelling and not stated as properties, because the code promises
nothing about them: the `.tmp` file of a killed atomic write blocks every later
write of that file; a torn journal line and a torn layer refuse every later run until
somebody removes them, and so does a partial download that is complete or longer
(`fetch_model.py:333-356`), which a kill between the last block and the rename
leaves although `docs/PRODUCT_CONTRACT.md:63` wants models downloaded resumably. `qualify_m23` reads
`candidate.artifact_content_sha256` where `qualify_m21` writes it below
`candidate.model`, so that it accepts only a summary rewritten by hand, as
`artifacts/m21/acceptance.json` is.

## What is proved

Every invariant, refinement and action property that a passing run checks is
also a theorem, and some theorems say what no run asks. TLAPS has checked all of
them for all values of the constants, from nothing but the named assumption of
the module:

| Assumption | Asks for |
|---|---|
| `QueueAssumption` | finitely many callers, natural limits of queue and sessions (zero sessions included, because the constructor raises it) |
| `PoolAssumption` | finitely many requests, client-chosen ids disjoint from them, at least one slot, device faults or not |
| `ChainAssumption`, `CancelAssumption` | finitely many requests and a `None` outside of them |
| `CompileAssumption` | a `Nobody` outside the invocations, encoders for output tensors only, natural bounds |
| `PlanAssumption` | profiles among those of `profiles.py`, some shard size, a natural bound of edits |
| `TrellisAssumption`, `PackageAssumption`, `ReportAssumption`, `TrialAssumption`, `EvaluationAssumption` | at least one layer, question, cell; finitely many builds, attempts, examples; natural bounds |
| `FetchAssumption` | some lock and some blob, blobs of at least one block |
| `QualificationAssumption` | contexts up to a maximum, with the short, the long, the product's limit and the expected rejection among them, at least two fresh runs |

Some theorems state a hypothesis of their own: those about the contents of what
the compiler publishes or verifies, and what `OfflineToolsProofs` says of them, ask for `MaxSourceChanges <= 1` and
`SlotsAlwaysBounded` for `DeviceFaults = FALSE`; what happens otherwise is said
below and shown by `SessionPoolSlots`. Every component has an inductive
invariant (`IndInv`, for the tools `PlanInv`, `TrellisInv`, `PackageInv`,
`FetchInv`, `TrialInv`, `EvalInv`, `ReportInv`, `QualInv`), a lemma that the
initial states satisfy it, lemmas that every step keeps it, and theorems that
read the properties off it.

| Module | Theorem | Says |
|---|---|---|
| `RequestQueueProofs` | `TypeCorrect`, `AdmissionsAlwaysBounded`, `WaitersAlwaysExact`, `LineAlwaysMoves` | the four invariants of the `RequestQueue` run |
| | `QueueAlwaysBounded` | the queue keeps its limit |
| | `PromiseAlwaysKept` | `Spec` implements `AdmissionPromise!Spec` |
| `SessionPoolProofs` | `TypeCorrect`, `PoolAlwaysBounded`, `ReservationAlwaysKept`, `LeaseAlwaysExclusive`, `DiscardedNeverServes`, `IndexAlwaysSound` | the invariants of the `SessionPool` run, and `PoolBounded`: residents and reservations never exceed `max_sessions` |
| | `PromiseAlwaysKept` | `Spec` implements `SessionPromise!Spec` |
| | `SlotsAlwaysBounded` | no slot too many while the device does not fail |
| | `SlotsAlwaysAccounted` | with device faults, as many too many as there are recycled sessions waiting for their destructor |
| | `NobodyEverStuck`, `EntriesAlwaysSuffice` | handlers never block one another; as many entry numbers as requests suffice |
| `ResponsesChainProofs` | `TypeCorrect`, `ChainAlwaysMatches`, `HistoryAlwaysLinear`, `IndexedAlwaysTurns` | the invariants of the `ResponsesChain` run |
| | `LatestAloneExtends` | the action property |
| | `StaleAlwaysAnswered` | which status a stale id gets |
| | `PoolAlwaysAsPromised` | the pool of `ResponsesChain` behaves as `SessionPromise!Spec` |
| `GenerationCancelProofs` | `TypeCorrect`, `CancelAlwaysIsolated`, `CancelAlwaysPending`, `ActiveAlwaysCurrent` | the invariants of the `GenerationCancel` run |
| | `OnlyEarlyReadersEscape` | who may generate on after a shutdown |
| `ArtifactCompileProofs` | `TypeCorrect`, `LockAlwaysBinds` | type correctness and the lock |
| | `PromiseAlwaysKept` | `Spec` implements `Publication!Spec` |
| | `VerdictAlwaysSound`, `PublishedAlwaysWhole` | the two invariants about contents, with at most one change of the source |
| | `FailureAlwaysSpoilsReportOnly` | what a failure after publication leaves |
| `DistributionProofs` | `CompiledPlansAlwaysExact`, `PlanEvidenceAlwaysBound` | only plans that cover the source exactly are compiled; comparisons name what they compared |
| | `ReleaseAlwaysExact` | manifests, reports and image of a Trellis35 checkpoint agree |
| | `PackagesAlwaysSound`, `CacheAlwaysSound` | packages, the rearranging commit and the cache of downloads |
| `MeasurementProofs` | `TrialReportsAlwaysHonest`, `EvaluationsAlwaysExact` | reports about a server and about examples |
| | `RetainedAlwaysReconcile` | the retained tensor report, its summary and the lanes |
| | `AcceptedAlwaysMeasured`, `DiagnosticAlwaysBound` | M20, M21, M23 and M06 |
| `OfflineToolsProofs` | `ToolsTypeCorrect`, `ToolsPublishWhole`, `ToolsKeepPromise`, `ToolsPlansExact`, `ToolsEvidenceBound`, `ToolsReleaseExact`, `ToolsDeliverSound`, `ToolsMeasureHonestly` | the properties of the `OfflineTools` run, of `ToolsSpec` |

**RequestQueue.** `WaitersExact` is not inductive alone: that the queue is
strictly increasing after a new ticket is appended needs every ticket in it to
be below `next_ticket_` (`TicketsFresh`), and removing one ticket removes one
caller because tickets are unique (`TicketsUnique`). `QueueBounded`, which the promise
contains and no run checks besides, needs the length to be the number of
blocked callers (`LengthExact`). `LineMoves` follows from the same facts: a
ticket at the head has a caller who polls, and only as many admissions as the
capacity, all of them held by somebody, keep that caller waiting. The refinement
proof maps each action to the step of `AdmissionPromise` it is, and shows the
rest to stutter; the FIFO guard of the promise follows from `WaitersExact`, the
head of the queue being its oldest ticket.

**SessionPool.** That a discarded session is never served rests on a chain of
facts of which no single function shows more than one link, so `IndInv` has to
state them all. `RefsShared` and `RefsPrivate` split the references a handler
holds: outside creation they lead to an entry on the map, during creation to
one that neither the map nor any other handler knows. `NamesUnique`: an entry
has one id, so evicting it takes it off the map. `CountExact`: the count is one
exactly when one handler holds the lease. `Reserved`, `Creators`, `RootsFresh`:
a reservation has one owner, and a root's session is reached by its own request
only. `MovedRetired`: an entry that lost its slot in a failed `Restart` is
retired or about to be, and `Clean`: what is published, leased or running is
neither. With them, for instance, `Recycle` keeps `RefsPrivate` because
`CanEvict` excludes every other reference, keeps `IndexSound` because
`EraseSessionLocked` purges the index, and keeps `PoolBounded` because one
session leaves as one reservation comes. The twelve steps that only look, wait
or let go share one lemma (`OutsideStep`), those of a turn two (`TurnFrame`,
`Leased`), those that build, reset or destroy a session one (`ClearFrame`).

`SlotsAlwaysBounded` counts: every slot in use belongs to a resident session, a
reservation, or an entry that waits for its destructor. Without device faults
`Reset` fails only for a session that lost its slot in a failed `Restart`, so an
entry of the third kind has no slot any more (`ReclaimsMoved`). The others are
mapped one to one to resident sessions and reservations, and `PoolBounded` counts
those. The one fact that a device fault breaks is `ReclaimsMoved`, which is the finding
of `SessionPoolSlots`. Without it the same count still gives
`SlotsAlwaysAccounted`: entries of the third kind are mapped one to one to the
handlers that are about to destroy them (`Reclaiming`).

`NobodyStuck` asks what deadlock checking would ask if the specification did not
end. `GoesOn` says when a handler's next step is possible, in terms of the state, as
`ENABLED` cannot be proved about; TLC finds it equal to `ENABLED Handle(r)` for
three requests. The first half, that only the four waits of the code can hold a handler
up, needs a number for each new entry (`EntriesSuffice`: never more
entries are alive than requests have passed their build) and that a built session still has its reservation and its id is still
free (`Reserved`, `Creators`). The second, that not everybody waits for
others who wait, follows the chain of causes: who waits for a lease waits for a
handler that is in its turn; who waits for a retired session to be let go, for
whoever still references it; who waits for a creator, for the handler between its
two critical sections (`Created`: each pending id has one); and a full
pool in which nothing can be evicted has a leased session, a reservation or an
idle entry that somebody references (`PinnedBySomeone`). A waiter that pins an
idle session finds its own condition true, so each of these chains ends at a handler that
can go on.

`PromiseAlwaysKept` hides entries, slots, reservations and reference counts. What
is left is `SessionPromise`: `open` are the resident ids, `spoilt` those whose entry
is retired, `serving` the leases and `known` the index, all read through the map.
`Publish` opens a session, and the limit of the promise holds there because the
reservation it replaces was counted with the residents (`PoolBounded`). A
lease serves: on a continuation, where the code does not look at `retired`, the
session is not spoilt because an indexed entry never is (`IndexSound`), and it
is idle because the count is exact. `Fail`, `DiscardSession`, `ReleaseSession` and
`Recycle` withdraw, spoil, return and close; that `EraseSessionLocked` makes known
responses unknown and no others rests on `NamesUnique`. Everything else
stutters (`HiddenStep`). One fact had to be added to the invariant: a response is
indexed by its own handler alone and leads to the entry it leases (`Answering`).

`PoolBounded` itself is proved and, as the part of it that a client can see is in
the promise, checked no more by a run.

**ResponsesChain.** The invariant relates chain, cache and index through the
stage of the one handler that holds the lease. `SessionFacts`: a session has one
leaseholder, and an index entry leads to the resident session of its own
request. `TurnFacts`: the turns of a chain belong to handlers of this session
that have committed, so a request that has not committed is in no chain and
appending it repeats nothing; and a handler that has found its predecessor to be
the latest response still finds it so, because nobody else commits meanwhile.
`Linear` is `LinearHistory` for sessions that are gone as well, which makes it
inductive across evictions. `CacheFacts` says for each stage how far the cache is
ahead of the chain: by the turn just generated, between generation and commit, or
(`AheadBy`) by one turn of a stream whose tail check failed. Why it is never more
than one is `Extends`: from such a session no further turn is generated, as a
continuation of its latest response is not one of the cached conversation.

The handlers take a pool for granted that is far simpler than `SessionPool`.
`PoolAlwaysAsPromised` shows that it implements the same `SessionPromise`, with
no client-chosen ids and room for a session of each request: it relies on no
lease, eviction or index entry that the promise rules out. A discarded session
has left `resident` but stays open and spoilt in the promise (`Discarded`), where
it is never closed: no conversation comes back under its id, because the id of a root
is that of its own request. `DiscardsHeld`, that only who has a session can fail
on it, is the one addition to the invariant. The promise is a common
abstraction; that the two specifications, composed, share one pool step by step
is not stated. TLC agrees with three requests (`PROPERTY PoolAsPromised` added
to `ResponsesChain.cfg`, 90 thousand states); with the four of that run it would take
too long, so the theorem stands alone.

**GenerationCancel.** All handlers of the session share one flag, so the
invariant says whose it is. One handler uses the session at a time
(`OneHandler`); a response is acknowledged only after its handler has stored the
flag (`AckedLate`), so nobody lowers it again while that generation runs, which
is `CancelPending`. Between its own store and its end a handler sees the flag
raised for its own sake or a shutdown's (`FlagOwned`), which gives
`CancelIsolated`. `ActiveIsCurrent` needs that a stream stays indexed while its
handler is under way (`StreamIndexed`). What a handler read of the signal stays in the
flag while it generates (`ReadersFlagged`), because only the next handler of the
session lowers it: hence `OnlyEarlyReadersEscape`.

**ArtifactCompile.** Here the invariants come in three layers. `PublishInv` is
about names: what a loss of power may leave is the present output or none
(`KeptLike`), and whoever is past the last flush, a lock that is written and a
success that was reported all mean that only the present output may be left
(`LateAnchored`); lock and promise follow. `VerdictInv` needs that a source
which is as locked has never been changed (`SourceOnce`): a change and a change
back between two hashes would go unnoticed, which is why the two theorems about
contents assume at most one change. `WholeInv` rests on one observation: the
staging directory is only ever taken from a run by another that has found a
published output, so as long as nothing is published whatever has the staging
name belongs to the one run at work (`StagedSafe`), which may be followed as if
it were alone: what it has flushed (`Reached`), and that its directory is whole
from its own check on (`Progress`). Once something is published nobody can
rename, output and staging never name one directory (`Fresh`), and everything in
the output has reached the disk (`OutputSafe`), so a loss of power changes
nothing in it. With that `PublishedIsWhole` holds for any number of concurrent
invocations, faults, kills and losses of power, where TLC saw two and one.

`FailureAlwaysSpoilsReportOnly` follows the run whose directory is published. As long
as there was no fault it raises only where its step finds something amiss: flushing
finds nothing amiss, the lock only a stale temporary file, and such a file is left by
kills alone (`Unharmed`). So it gets as far as its report, with its lock written.

**CompilePlans.** A plan is loaded, edited and loaded again, so the invariant
(`Checked`) is about what has been compiled: its plan was well formed and covered a
checkpoint that is still there. The rest is about the operators: every source
of a plan that passes `WellFormed` and `Coverage` is excluded once or has the
outputs of its profile (`PartsOf`, `MadeOf`), a tensor of unknown name is covered by
none, and what a complete plan leaves out is exactly the two vision tensors,
which is an argument about the size of the exclusion list.

**TrellisRelease.** A document is `Vouched` when the build that wrote it made
the bytes it names. The invariant says of each step what the running tool holds: a
layer compiler that saves has written this payload itself (`LayerFacts`), a verifier
that has compared three documents of a layer holds three that agree, and the
image builder's copy states what it copied (`HeldFacts`). A kill tears one file, a
repair removes some, and a file that the component directory shares with the
checkpoint changes in both at once: all these leave the documents of a layer
vouched for, torn or absent, and each tool compares them before it goes on.

**Packages, ModelFetch.** `PackageFacts` orders the steps of a packager before
its marker: arena, then manifest, weights before vision before the manifest of
the bundle. `FetchFacts` says of a fetch that each entry it has gone through without a
failure is linked to right bytes, and that the blob it is about to link has
been verified; what another downloader has left is a partial file or a blob of
another size.

**ServerTrials.** An honest count must exclude strangers. The listener has served
at most what all trials so far have asked and the strangers besides; a running
quality trial has seen its own requests counted, and one more if somebody
intruded (`ServedFacts`). A conversation goes on only while the session holds all
its turns or none (`ResidentFacts`).

**EvaluationRuns.** Any number of attempts share one directory, so what an attempt
may rely on (`Holds`) must survive the steps of all the others: its server is the
running one, a resumed one shares its contract, its rows are its own or were
read from a journal of this contract (`JournalKept`). Most of the proof shows that a
step of one attempt keeps `Holds` of another (`Turns`, `Became`, `Gone`). The sweep
has the same kind of invariant over the cells of its own binary.

**TensorReports, Qualification.** `ReportDue`: between the two retained files the
first is the one that would be written now. `LoopFacts`: a raw directory of M20 holds
as many samples as the loop has counted, all from its own processes and of the
frozen model, so leftovers cannot be counted in. `VerdictFacts` and
`DiagnosticFacts` carry what M21 and M06 have found to the step that writes it.
M21 reports the largest context that passed, which needs the maximum of a
finite set to exist (`FiniteHasMax`, by the least set without one).

**OfflineTools.** A step of the composition is a step of the program that was
chosen and changes no variable of the others (`ToolsMove`), hence `ToolsSpec`
implies the specification of every component (`ToolsAsEach`) and every theorem
about a component holds of the tools together.

Attempts at these proofs changed the models in the following places, none of
which changes what the code's steps do. `LookForContract`, `Remains`,
`ContextStatus` and the status of M19 were `CASE`s with overlapping guards, of which
TLA+ may choose any where the code takes the first; they are ordered
conditionals now. `FetchAssumption` and `QualificationAssumption` did not exclude an
empty set of locks or blobs and contexts without a maximum, for which the
model picks an element or a maximum that does not exist. `Number`,
`Outputs` and `HybridTensors` of `CompilePlans` were rewritten into equal forms that the
prover can read.

## What is only model-checked

Liveness (`EveryoneAnswered`, `EveryoneServed`, `CancelStops`,
`ShutdownStopsPlain`) needs fairness and `ENABLED`, which the installed provers do
not handle; `LineAlwaysMoves` and `NobodyEverStuck` are the safety part of the first
two. That `GoesOn` is `ENABLED` is likewise TLC's finding. The five expected violations are counterexamples and need no proof. No
theorem needs induction over data: the models use sets, functions and sequences
of bounded depth, and nothing recursive.

## Not modelled

Parsing and formatting of requests, metrics and logs; the HTTP library and its
worker pool; sampling, kernels and the token mathematics; model files and the
tokenizer; the clients. The chat and inference sessions appear only through the
outcomes that the handlers see.

Of the tools: numerical code (quantisers, encoders, oracles, the WP8 and Trellis
searches, comparisons of tensors and states), the arithmetic over measurements
(rates, percentiles, McNemar), fixtures and golden files, and the single-pass
checks that keep nothing between two steps (`audit_gemma4_26b_sources.py`,
`compare_manifests.py`, `check_prefill_cancellation.py`, `validate_openai_sdk.py`
and the like). Two concurrent downloads that append to one partial file, and
a package input altered between its check and its link, are known hazards that the
models exclude by taking one such tool at a time.

## Plan

Done: 1 `RequestQueue` with its promise, 2 `SessionPool` with its own, 3 `ResponsesChain`,
4 `GenerationCancel`, and the tools: `ArtifactCompile` with its promise,
`CompilePlans`, `TensorReports`, `TrellisRelease`, `Packages`, `ModelFetch`,
`Qualification`, `EvaluationRuns`, `ServerTrials`, composed in `OfflineTools`; all
with proofs.

Next, the most important first:

5. `ChatSession` over an inference session: the cached token prefix against the
   committed conversation, rollback or poisoning on each failure of prefill and
   decode, `Restart` when a client's history diverges (`HandleCompletion`). An
   abstract conversation is the specification it has to implement; the outcomes
   that `ResponsesChain` assumes become its steps.
6. `ResponsesStream`: the order and nesting of events through channel switches,
   failures and an early end, and the UTF-8 carry
   (`CompleteUtf8Prefix`) against a reference definition over bounded byte
   strings.
7. The HTTP worker pool composed with `RequestQueue` and `SessionPool`: are
   the cancel and health endpoints served while handlers block?
8. The tool call parser as an incremental algorithm against a one-shot
   definition; the adaptive draft scheduler; the memory plan with
   `PlanServerSlots` at the width of its integers.
9. nativeStudio's server manager, model manager and chat store.
10. Proofs: the refinements of 5 and 6; the leases which `GenerationCancel` takes
    for granted against `SessionPromise`; `SessionPool` and `ResponsesChain`
    composed over one pool.

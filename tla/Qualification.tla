--------------------------- MODULE Qualification ---------------------------
(***************************************************************************)
(* The evidence chain of the 26B milestones: qualify_m21 runs contexts in  *)
(* fresh processes, qualify_m20 collects benchmark samples and gates on    *)
(* the M21 report, qualify_m19 reconciles the held-out evidence,           *)
(* qualify_m23 reconciles them into a target, and                          *)
(* run_nvfp4_diagnostic compares two locked checkpoints.  One tool runs at *)
(* a time; somebody may exchange the binary, the model or a checkpoint     *)
(* under it, children fail, and tools are killed and repeated.             *)
(*                                                                         *)
(* A hash is the version of what was hashed; the suite, the thresholds and *)
(* the locks are frozen at version 0.                                      *)
(***************************************************************************)
EXTENDS Naturals, Sequences, FiniteSets, SequencesExt

CONSTANTS MaxContext,    \* MAX_CONTEXT, the longest context there is
          Contexts,      \* the context lengths M21 may be asked to try
          Short, Long,   \* those the release needs a verdict on (32K and 64K)
          ProductLimit, FirstRejection,  \* the last pass and the first rejection M23 wants
          Gap,           \* largest gap between the last pass and the first rejection
          FreshRuns,     \* processes per context
          Warmups, Retained,
          MaxUpsets      \* exchanges, child failures and kills

ASSUME QualificationAssumption ==
    /\ MaxContext \in Nat /\ Contexts \subseteq 2..MaxContext
    /\ {Short, Long, ProductLimit, FirstRejection} \subseteq Contexts
    /\ FreshRuns \in Nat \ {0, 1} /\ {Warmups, Retained, Gap, MaxUpsets} \subseteq Nat

VARIABLES step,      \* where the running tool is, or "rest"
          checkout,  \* versions of the binary, the model and the checkpoints now
          seen,      \* what the running tool has hashed of them
          trials,    \* records of the running loop
          verdicts,  \* M21: what it found of each context, with the runs of the short one
          rawDir,    \* M20: samples lying in the raw directory
          m19, m20, m21, m23, m06,    \* the reports, or NoReport
          upsets

qualVars == <<step, checkout, seen, trials, verdicts, rawDir, m19, m20, m21, m23, m06, upsets>>
reports == <<m19, m20, m21, m23, m06>>

NoReport == [accepted |-> FALSE, model |-> 9, binary |-> 9, samples |-> <<>>, reach |-> 0]
Frozen == [binary |-> 0, model |-> 0, source |-> 0]
World == [binary : 0..1, model : 0..1, source : 0..1]

\* A record: the model that ran (hidden), the model it reports, its output,
\* and whether the process started for it wrote it.
Trial == [ran : 0..1, says : 0..1, out : {"a", "b", "tight", "bad"}, fresh : BOOLEAN]
Passed == {"a", "b"}

\* What a held-out report or a product test says: the artifact it measured,
\* whether its records are whole (each identity once, each file as hashed when
\* the report was written), and whether its figures pass.
Evidence == [about : 0..1, whole : BOOLEAN, passes : BOOLEAN]
NoEvidence == [about |-> 9, whole |-> FALSE, passes |-> FALSE]
NoVerdict == [status |-> "none", on |-> {}]

\* What the M21 file says that M23 is given: not the report of qualify_m21, which keeps
\* the identities one level deeper, but a summary somebody wrote of it by hand
\* (artifacts/m21/acceptance.json).  Nothing binds it to a report.
Summaries == [accepted : BOOLEAN, model : 0..1, binary : 0..1,
              long : {"passed", "capacity_rejected"}, reach : Contexts, above : Contexts]

Statuses == {"not_tested", "waiting", "passed", "capacity_rejected", "failed"}
Steps == {"rest", "contexts", "identify", "suite", "prompt", "run", "collect", "gate",
          "verify06", "hash06", "stage06", "native06", "decode06", "reverify06"}

QualTypeOK ==
    /\ step \in Steps /\ checkout \in World /\ seen \in World
    /\ trials \in Seq(Trial) /\ Len(trials) <= Warmups + Retained + FreshRuns
    /\ \A c \in Contexts : /\ verdicts[c].status \in Statuses
                           /\ verdicts[c].runs \in Seq(Trial)
    /\ rawDir \in Seq(Trial)
    /\ m06 \in [written : BOOLEAN, used : SUBSET (0..1)]
    /\ m19.status \in {"none", "blocked", "fail", "pass"}
    /\ m19.on \subseteq Evidence \cup {NoEvidence}
    /\ \A report \in {m20, m21, m23} : /\ report.accepted \in BOOLEAN
                                       /\ {report.model, report.binary} \subseteq {0, 1, 9}
                                       /\ report.reach \in Contexts \cup {0}
    /\ upsets \in 0..MaxUpsets

Untested == [c \in Contexts |-> [status |-> "not_tested", runs |-> <<>>]]

QualInit ==
    /\ step = "rest" /\ checkout = Frozen /\ seen = Frozen /\ trials = <<>>
    /\ verdicts = Untested /\ rawDir = <<>> /\ m19 = NoVerdict
    /\ m20 = NoReport /\ m21 = NoReport /\ m23 = NoReport
    /\ m06 = [written |-> FALSE, used |-> {}] /\ upsets = 0

Upset == upsets < MaxUpsets /\ upsets' = upsets + 1
Smooth == UNCHANGED upsets
Rest == step' = "rest" /\ trials' = <<>> /\ verdicts' = Untested /\ seen' = Frozen

-----------------------------------------------------------------------------
\* M21: the contexts it was asked for (--contexts) are tried one after the other, the
\* shortest first, each by FreshRuns drivers.
StartM21 ==
    /\ step = "rest" /\ step' = "contexts"
    /\ \E asked \in SUBSET Contexts \ {{}} :
          verdicts' = [c \in Contexts |-> [status |-> IF c \in asked THEN "waiting"
                                                      ELSE "not_tested", runs |-> <<>>]]
    /\ UNCHANGED <<checkout, seen, trials, rawDir, reports, upsets>>

ContextsThat(status) == {c \in Contexts : verdicts[c].status = status}
Trying == Min(ContextsThat("waiting"))

\* validate_run: the report of a driver states its context, extents, margins
\* and counters; only a missing safety margin counts as "tight".
ValidateRun(out) == out \in Passed

\* run_context, one driver: exit code 20 or a lone margin error is "tight";
\* any other failure, a timeout or a malformed report ends the context.
RunDriver ==
    /\ step = "contexts" /\ Len(trials) < FreshRuns
    /\ trials # <<>> => Last(trials).out # "bad"
    /\ \E out \in {"a", "b", "tight", "bad"} :
          /\ IF out \in {"b", "bad"} THEN Upset ELSE Smooth
          /\ trials' = Append(trials, [ran |-> checkout.model, says |-> checkout.model,
                                       out |-> out, fresh |-> TRUE])
    /\ UNCHANGED <<step, checkout, seen, verdicts, rawDir, reports>>

\* run_context: all runs passed and agree, or all were rejected for capacity.
ContextStatus ==
    LET outs == {trials[i].out : i \in DOMAIN trials}
    IN IF Len(trials) # FreshRuns THEN "failed"
       ELSE IF Cardinality(outs) = 1 /\ \A out \in outs : ValidateRun(out) THEN "passed"
       ELSE IF outs = {"tight"} THEN "capacity_rejected" ELSE "failed"

FinishContext ==
    /\ step = "contexts" /\ trials # <<>>
    /\ Len(trials) = FreshRuns \/ Last(trials).out = "bad"
    /\ verdicts' = [verdicts EXCEPT ![Trying] = [status |-> ContextStatus,
                                                      runs |-> IF Trying = Short THEN trials ELSE <<>>]]
    /\ trials' = <<>>
    /\ step' = IF ContextsThat("waiting") = {Trying} THEN "identify" ELSE "contexts"
    /\ UNCHANGED <<checkout, seen, rawDir, reports, upsets>>

BaseMaxContext == Max(ContextsThat("passed") \cup {0})
Above == {c \in ContextsThat("capacity_rejected") : c > BaseMaxContext}

\* The search is complete when nothing is unclassified and the last pass is the longest
\* context there is, or the first rejection above it is near.
MaximumSearchComplete ==
    /\ ContextsThat("failed") = {}
    /\ \/ BaseMaxContext = MaxContext
       \/ Above # {} /\ Min(Above) - BaseMaxContext <= Gap

ExitGatePass == /\ verdicts[Short].status = "passed"
                /\ verdicts[Long].status \in {"passed", "capacity_rejected"}
                /\ MaximumSearchComplete

\* The identities of model and binary are read after the runs; an earlier
\* report at the same path is overwritten.
ReportM21 ==
    /\ step = "identify" /\ Rest
    /\ m21' = [accepted |-> ExitGatePass, model |-> checkout.model, binary |-> checkout.binary,
               samples |-> IF ExitGatePass THEN verdicts[Short].runs ELSE <<>>,
               reach |-> BaseMaxContext]
    /\ UNCHANGED <<checkout, rawDir, m19, m20, m23, m06, upsets>>

-----------------------------------------------------------------------------
\* M20: an existing report is never overwritten, and the suite must be valid.
StartM20 ==
    /\ step = "rest" /\ m20 = NoReport /\ step' = "suite"
    /\ UNCHANGED <<checkout, seen, trials, verdicts, rawDir, reports, upsets>>

\* validate_instruction_evidence: the binary is the one the suite names.
ValidateInstructionEvidence ==
    /\ step = "suite"
    /\ IF checkout.binary = Frozen.binary
       THEN step' = "prompt" /\ seen' = [seen EXCEPT !.binary = checkout.binary] /\ UNCHANGED <<trials, verdicts>>
       ELSE Rest
    /\ UNCHANGED <<checkout, rawDir, reports, upsets>>

\* Mutated form: what an earlier collection left in the raw directory is no obstacle.
OpenRawDirectoryAnyway ==
    /\ step = "prompt" /\ step' = "run"
    /\ UNCHANGED <<checkout, seen, trials, verdicts, rawDir, reports, upsets>>

\* collect: a raw directory that is not empty is refused.
OpenRawDirectory ==
    /\ step = "prompt"
    /\ IF rawDir = <<>> THEN step' = "run" /\ UNCHANGED <<seen, trials, verdicts>> ELSE Rest
    /\ UNCHANGED <<checkout, rawDir, reports, upsets>>

\* The sample file of a run: what the child wrote, or what was there before.
SampleFile(i, written) ==
    IF written.out # "bad" THEN SubSeq(rawDir, 1, i - 1) \o <<written>>
                                \o SubSeq(rawDir, i + 1, Len(rawDir))
    ELSE rawDir

\* execute_run: the child runs under the sampler until it exits or its time is
\* up.  It may exit with success and write nothing.
ExecuteRun ==
    /\ step = "run" /\ Len(trials) < Warmups + Retained
    /\ LET i == Len(trials) + 1
       IN \E out \in {"a", "b", "bad"} :
            /\ IF out = "a" THEN Smooth ELSE Upset
            /\ rawDir' = SampleFile(i, [ran |-> checkout.model, says |-> checkout.model,
                                        out |-> out, fresh |-> TRUE])
            /\ IF Len(rawDir') < i THEN Rest ELSE step' = "collect" /\ UNCHANGED <<trials, verdicts, seen>>
    /\ UNCHANGED <<checkout, reports>>

\* The child fails, times out and is killed, or the sampler saw no process memory.
ExecuteRunFails ==
    /\ step = "run" /\ Len(trials) < Warmups + Retained /\ Upset /\ Rest
    /\ UNCHANGED <<checkout, rawDir, reports>>

\* validate_sample: the identities, counters, dispatch and timings of a sample.
ValidateSample(s) == s.says = Frozen.model /\ s.out \in Passed

\* collect: a sample that is invalid or differs from the first one is the end.
CollectSample ==
    /\ step = "collect"
    /\ LET s == rawDir[Len(trials) + 1]
       IN IF ValidateSample(s) /\ (trials # <<>> => s.out = Head(trials).out)
          THEN /\ trials' = Append(trials, s)
               /\ step' = IF Len(trials') = Warmups + Retained THEN "gate" ELSE "run"
               /\ UNCHANGED <<seen, verdicts>>
          ELSE Rest
    /\ UNCHANGED <<checkout, rawDir, reports, upsets>>

\* summarize_runs: the retained runs are what the summary is made of.
SummarizeRuns(some) == Len(some) = Warmups + Retained

\* m21_gate: accepted evidence about the same model and the same binary.
M21Gate == m21.accepted /\ m21.model = Frozen.model /\ m21.binary = seen.binary

\* The performance gates pass or not; the report is written either way.
ReportM20 ==
    /\ step = "gate" /\ Rest
    /\ \E fastEnough \in BOOLEAN :
          m20' = [accepted |-> M21Gate /\ SummarizeRuns(trials) /\ fastEnough,
                  model |-> Frozen.model, binary |-> seen.binary, samples |-> trials, reach |-> 0]
    /\ UNCHANGED <<checkout, rawDir, m19, m21, m23, m06, upsets>>

\* Somebody empties the raw directory after a collection that ended early.
ClearRawDirectory ==
    /\ step = "rest" /\ rawDir # <<>> /\ m20 = NoReport
    /\ rawDir' = <<>>
    /\ UNCHANGED <<step, checkout, seen, trials, verdicts, reports, upsets>>

-----------------------------------------------------------------------------
\* M19: the frozen locks and corpus must hold, and an earlier result is never
\* overwritten.
StaticIdentity == checkout.model = Frozen.model

\* The teacher-forced report: the frozen artifact, every held-out record once.
ValidateNumerical(report) == report.about = Frozen.model /\ report.whole

\* The paired results: the files are those the manifest hashed, the samples of
\* both sides are the same, and each sample is scored once.
ScoreMap(manifest) == manifest.whole
ValidateTasks(manifest) == manifest.about = Frozen.model /\ ScoreMap(manifest)

\* The blind review: the frozen artifact and corpus, every record once.
ValidateProse(report) == report.about = Frozen.model /\ report.whole

\* A report that is missing blocks the verdict whatever the others say; one that
\* is invalid raises, and then there is no verdict at all.
QualifyM19 ==
    /\ step = "rest" /\ m19 = NoVerdict /\ StaticIdentity
    /\ \E numerical, tasks, prose \in Evidence \cup {NoEvidence} :
          LET given == {numerical, tasks, prose}
          IN  /\ numerical # NoEvidence => ValidateNumerical(numerical)
              /\ tasks # NoEvidence => ValidateTasks(tasks)
              /\ prose # NoEvidence => ValidateProse(prose)
              /\ m19' = [on |-> given, status |-> IF NoEvidence \in given THEN "blocked"
                                                    ELSE IF \A r \in given : r.passes THEN "pass"
                                                    ELSE "fail"]
    /\ UNCHANGED <<step, checkout, seen, trials, verdicts, rawDir, m20, m21, m23, m06, upsets>>

\* M23: everything must be accepted, of one model, one binary, one output and the
\* whole protocol, the limits those the products report, and the products the ones
\* tested.  M19 stays deferred, and the target is overwritten.
AcceptedReports(summary, product) == m20.accepted /\ summary.accepted /\ product.passes
SameIdentity(summary, driver) ==
    m20.model = summary.model /\ m20.binary = summary.binary /\ driver = m20.model
FullProtocol == /\ SummarizeRuns(m20.samples)
                /\ \A i \in DOMAIN m20.samples : m20.samples[i].out = "a"
ProductLimits(summary, first, relaunch) ==
    /\ summary.long = "passed"
    /\ summary.reach = ProductLimit /\ summary.above = FirstRejection
    /\ first = relaunch
ProductBinaries(product) == product.about = checkout.binary /\ product.whole

QualifyM23 ==
    /\ step = "rest" /\ FullProtocol
    /\ \E summary \in Summaries, first, relaunch \in 0..1 :
          /\ SameIdentity(summary, first) /\ ProductLimits(summary, first, relaunch)
          /\ \E product \in Evidence :
                AcceptedReports(summary, product) /\ ProductBinaries(product)
          /\ m23' = [m20 EXCEPT !.reach = summary.reach]
    /\ UNCHANGED <<step, checkout, seen, trials, verdicts, rawDir, m19, m20, m21, m06, upsets>>

-----------------------------------------------------------------------------
\* M06: both checkpoints are verified against their locks, the parents hashed,
\* the encoder staged, run on the job, and its output compared with the source.
StartDiagnostic ==
    /\ step = "rest" /\ ~m06.written /\ step' = "verify06"
    /\ seen' = [seen EXCEPT !.binary = checkout.binary]
    /\ UNCHANGED <<checkout, trials, verdicts, rawDir, reports, upsets>>

LoadSource ==
    /\ step = "verify06"
    /\ IF checkout.source = Frozen.source THEN step' = "hash06" /\ UNCHANGED <<seen, trials, verdicts>>
                                        ELSE Rest
    /\ UNCHANGED <<checkout, rawDir, reports, upsets>>

BuildParentGeometries ==
    /\ step = "hash06" /\ step' = "stage06"
    /\ seen' = [seen EXCEPT !.source = checkout.source]
    /\ UNCHANGED <<checkout, trials, verdicts, rawDir, reports, upsets>>

\* The staged copy must be the executable that passed the preflight.
StageEncoder ==
    /\ step = "stage06"
    /\ IF checkout.binary = seen.binary THEN step' = "native06" /\ UNCHANGED <<seen, trials, verdicts>>
                                     ELSE Rest
    /\ UNCHANGED <<checkout, rawDir, reports, upsets>>

\* The child must report the source hashes its job states.
RunNative ==
    /\ step = "native06"
    /\ IF checkout.source = seen.source
       THEN /\ step' = "decode06" /\ UNCHANGED <<seen, trials, verdicts>>
            /\ m06' = [m06 EXCEPT !.used = {checkout.source}]
       ELSE Rest /\ m06' = [m06 EXCEPT !.used = {}]
    /\ UNCHANGED <<checkout, rawDir, m19, m20, m21, m23, upsets>>

\* The source is read once more, now against what the child made of it.
DecodeComponents ==
    /\ step = "decode06" /\ step' = "reverify06"
    /\ m06' = [m06 EXCEPT !.used = @ \cup {checkout.source}]
    /\ UNCHANGED <<checkout, seen, trials, verdicts, rawDir, m19, m20, m21, m23, upsets>>

\* Mutated form: the sources are not verified again before the report is written.
PublishDiagnosticAtOnce ==
    /\ step = "reverify06" /\ Rest
    /\ m06' = [m06 EXCEPT !.written = TRUE]
    /\ UNCHANGED <<checkout, rawDir, m19, m20, m21, m23, upsets>>

\* Both sources are verified again; then the report is created exclusively.
PublishDiagnostic ==
    /\ step = "reverify06" /\ Rest
    /\ m06' = IF checkout.source = Frozen.source THEN [m06 EXCEPT !.written = TRUE]
                                              ELSE [m06 EXCEPT !.used = {}]
    /\ UNCHANGED <<checkout, rawDir, m19, m20, m21, m23, upsets>>

-----------------------------------------------------------------------------
\* Somebody builds a new binary, replaces the model or touches a checkpoint.
Exchange ==
    /\ Upset
    /\ \E what \in {"binary", "model", "source"} : checkout' = [checkout EXCEPT ![what] = 1]
    /\ UNCHANGED <<step, seen, trials, verdicts, rawDir, reports>>

\* A killed tool leaves the samples of M20 behind and nothing else.
KillTool ==
    /\ step # "rest" /\ Upset /\ Rest
    /\ rawDir' = [i \in DOMAIN rawDir |-> [rawDir[i] EXCEPT !.fresh = FALSE]]
    /\ m06' = [m06 EXCEPT !.used = IF m06.written THEN @ ELSE {}]
    /\ UNCHANGED <<checkout, m19, m20, m21, m23>>

\* The evidence of a target, and the evidence that stands beside it.
TargetNext ==
    \/ StartM21 \/ RunDriver \/ FinishContext \/ ReportM21
    \/ StartM20 \/ ValidateInstructionEvidence \/ OpenRawDirectory \/ ExecuteRun
    \/ ExecuteRunFails \/ CollectSample \/ ReportM20 \/ ClearRawDirectory
    \/ QualifyM23 \/ Exchange \/ KillTool

BesideNext ==
    \/ QualifyM19
    \/ StartDiagnostic \/ LoadSource \/ BuildParentGeometries \/ StageEncoder
    \/ RunNative \/ DecodeComponents \/ PublishDiagnostic
    \/ Exchange \/ KillTool

QualNext == TargetNext \/ BesideNext

QualSpec == QualInit /\ [][QualNext]_qualVars

-----------------------------------------------------------------------------
\* Every sample an accepted M20 report or M23 target rests on was written by
\* the process started for it, which ran the model the report names, and all
\* of them agree - whatever was exchanged, killed or left over on the way
\* (execute_run, validate_sample, collect).  A context M21 accepts has passed
\* in every one of its fresh processes with the same output (run_context).
\* M19 passes only on three reports that are there, whole, passing and about
\* the frozen artifact (qualify).
Agree(samples, n) == /\ Len(samples) = n
                     /\ \A i \in DOMAIN samples : /\ samples[i].fresh /\ samples[i].out \in Passed
                                                 /\ samples[i].out = samples[1].out

AcceptedIsMeasured ==
    /\ \A report \in {m20, m23} : report.accepted =>
          /\ Agree(report.samples, Warmups + Retained)
          /\ \A i \in DOMAIN report.samples : report.samples[i].ran = report.model
    /\ m21.accepted => Agree(m21.samples, FreshRuns)
    /\ m19.status = "pass" => m19.on = {[about |-> Frozen.model, whole |-> TRUE, passes |-> TRUE]}

\* A published M06 comparison read only locked bytes, although it reads the
\* source three times (run_diagnostic, _reverify_source).
DiagnosticBound == m06.written => m06.used = {Frozen.source}
=============================================================================

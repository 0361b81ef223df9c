--------------------------- MODULE EvaluationRuns ---------------------------
(***************************************************************************)
(* Long measurements that are resumed over days.  benchmark_quality sends  *)
(* every example of a benchmark to a server, journals each answer and      *)
(* reports when all are there; several invocations may work on one output  *)
(* path at once.  qualify_..._v19_capacity measures one cell (scenario,    *)
(* context, run) after the other and rewrites its file after each.         *)
(* compare_quality_benchmarks pairs two finished reports.                  *)
(*                                                                         *)
(* The server and the binary have a version; they are exchanged between    *)
(* runs only.  The answers themselves and the arithmetic over them (rates, *)
(* times, McNemar) are left out.                                           *)
(***************************************************************************)
EXTENDS Naturals, Sequences, FiniteSets, SequencesExt

CONSTANTS Attempts,      \* invocations of benchmark_quality
          Examples,
          Cells,         \* cells of the capacity matrix, each a context of its own run
          MaxMishaps     \* kills, failed requests, exchanges of server and binary

ASSUME EvaluationAssumption ==
    IsFiniteSet(Attempts) /\ IsFiniteSet(Examples) /\ Cells \in Nat \ {0} /\ MaxMishaps \in Nat

VARIABLES attempt,     \* where each invocation is, and what it holds
          samples,     \* the .samples directory: "none", "empty", "fresh" or "resumable"
          contract,    \* the server named by resume-state.json, and its status
          journal,     \* output-rs0.jsonl
          result,      \* the report, or NoResult
          compared,    \* rows the comparison has paired
          server,      \* the server that answers now
          sweep,       \* the running capacity sweep
          sweepFile,   \* its file: [state: "none", "torn" or "whole", ...]
          mishaps

evalVars == <<attempt, samples, contract, journal, result, compared, server,
              sweep, sweepFile, mishaps>>
sweeping == <<sweep, sweepFile>>
files == <<samples, contract, journal, result, compared>>

Versions == 0..1
Row == [id : Examples, by : Versions, torn : BOOLEAN]
NoResult == [status |-> "none", rows |-> <<>>, server |-> 0]
NoSweep == [state |-> "none", binary |-> 0, runs |-> <<>>, completed |-> FALSE]
AtRest == [at |-> "rest", fresh |-> FALSE, server |-> 0, todo |-> {}, done |-> {}, rows |-> <<>>]
SweepAtRest == [at |-> "rest", binary |-> 0, previous |-> <<>>, runs |-> <<>>]
CellRun == [by : Versions, status : {"accepted", "rejected", "timeout"}]

Places == {"rest", "open", "contract", "bind", "load", "writer", "generate", "count", "report"}

EvalTypeOK ==
    /\ \A p \in Attempts : /\ attempt[p].at \in Places /\ attempt[p].fresh \in BOOLEAN
                           /\ attempt[p].server \in Versions
                           /\ attempt[p].todo \subseteq Examples /\ attempt[p].done \subseteq Examples
                           /\ attempt[p].rows \in Seq(Row)
    /\ samples \in {"none", "empty", "fresh", "resumable"}
    /\ contract \in [server : Versions, status : {"in_progress", "partial", "complete"}]
    /\ journal \in Seq(Row) /\ compared \in Seq(Row) /\ server \in Versions
    /\ result.status \in {"none", "partial", "complete"} /\ result.rows \in Seq(Row)
    /\ sweep.at \in {"rest", "measure", "write", "close"} /\ sweep.runs \in Seq(CellRun)
    /\ sweepFile.state \in {"none", "torn", "whole"} /\ sweepFile.runs \in Seq(CellRun)
    /\ Len(sweep.runs) <= Cells /\ mishaps \in 0..MaxMishaps

EvalInit ==
    /\ attempt = [p \in Attempts |-> AtRest] /\ samples = "none"
    /\ contract = [server |-> 0, status |-> "in_progress"] /\ journal = <<>>
    /\ result = NoResult /\ compared = <<>> /\ server = 0
    /\ sweep = SweepAtRest /\ sweepFile = NoSweep /\ mishaps = 0

Mishap == mishaps < MaxMishaps /\ mishaps' = mishaps + 1
Calm == UNCHANGED mishaps

Stands(p, place) == attempt[p].at = place
Move(p, place) == attempt' = [attempt EXCEPT ![p].at = place]
Quit(p) == attempt' = [attempt EXCEPT ![p] = AtRest]
Alone(p) == \A q \in Attempts \ {p} : Stands(q, "rest")

-----------------------------------------------------------------------------
\* The rows of a journal are readable when every line is whole JSON and no id
\* comes twice; ids and problems of other examples cannot get in.
LoadPredictionRows(rows) ==
    /\ \A i \in DOMAIN rows : ~rows[i].torn
    /\ \A i, j \in DOMAIN rows : rows[i].id = rows[j].id => i = j

Ids(rows) == {rows[i].id : i \in DOMAIN rows}
Status(rows) == IF Ids(rows) = Examples THEN "complete" ELSE "partial"

\* main and run: a report is overwritten by --resume only; the endpoint names
\* its model, and /health its sampling and its artifact.
StartEvaluation(p, fresh) ==
    /\ Stands(p, "rest") /\ fresh => result = NoResult
    /\ attempt' = [attempt EXCEPT ![p] = [AtRest EXCEPT !.at = "open", !.fresh = fresh,
                                                        !.server = server]]
    /\ UNCHANGED <<files, server, sweeping, mishaps>>

\* run without --resume: an existing sample directory is refused.
OpenFresh(p) ==
    /\ Stands(p, "open") /\ attempt[p].fresh
    /\ IF samples = "none"
       THEN /\ samples' = "fresh"
            /\ attempt' = [attempt EXCEPT ![p].at = "generate", ![p].todo = Examples]
       ELSE Quit(p) /\ UNCHANGED samples
    /\ UNCHANGED <<contract, journal, result, compared, server, sweeping, mishaps>>

\* run_resumable: a journal without its contract is refused.
OpenResumable(p) ==
    /\ Stands(p, "open") /\ ~attempt[p].fresh
    /\ IF samples = "fresh" THEN Quit(p) ELSE Move(p, "contract")
    /\ samples' = IF samples = "none" THEN "empty" ELSE samples
    /\ UNCHANGED <<contract, journal, result, compared, server, sweeping, mishaps>>

\* initialize_resume_state: an existing contract must be this run's.
LookForContract(p) ==
    /\ Stands(p, "contract")
    /\ IF samples # "resumable" THEN Move(p, "bind")
       ELSE IF contract.server = attempt[p].server THEN Move(p, "load") ELSE Quit(p)
    /\ UNCHANGED <<files, server, sweeping, mishaps>>

\* The contract is written beside its place and renamed.  Another invocation
\* uses the same temporary name, and may have renamed it away.
WriteContract(p) ==
    /\ Stands(p, "bind")
    /\ \/ /\ Move(p, "load") /\ samples' = "resumable"
          /\ contract' = [server |-> attempt[p].server, status |-> "in_progress"]
       \/ ~Alone(p) /\ Quit(p) /\ UNCHANGED <<samples, contract>>
    /\ UNCHANGED <<journal, result, compared, server, sweeping, mishaps>>

\* What the journal does not hold remains; with nothing left the report follows.
LoadJournal(p) ==
    /\ Stands(p, "load")
    /\ LET remaining == Examples \ Ids(journal)
       IN IF ~LoadPredictionRows(journal) THEN Quit(p)
          ELSE attempt' = [attempt EXCEPT ![p].todo = remaining,
                                          ![p].at = IF remaining = {} THEN "count" ELSE "writer"]
    /\ UNCHANGED <<files, server, sweeping, mishaps>>

\* ResumablePredictionsWriter reads the journal once more and opens it to append.
OpenWriter(p) ==
    /\ Stands(p, "writer")
    /\ IF ~LoadPredictionRows(journal) THEN Quit(p)
       ELSE attempt' = [attempt EXCEPT ![p].at = "generate", ![p].done = Ids(journal)]
    /\ UNCHANGED <<files, server, sweeping, mishaps>>

\* A sample: the request is tried four times, and the row is flushed and
\* synced.  The writer refuses an id it has seen when it was opened.
Generate(p) ==
    /\ Stands(p, "generate") /\ attempt[p].todo # {}
    /\ \E e \in attempt[p].todo :
         LET row == [id |-> e, by |-> server, torn |-> FALSE]
         IN IF e \in attempt[p].done THEN Quit(p) /\ UNCHANGED journal
            ELSE /\ attempt' = [attempt EXCEPT ![p].todo = @ \ {e}, ![p].rows = Append(@, row)]
                 /\ journal' = Append(journal, row)
    /\ UNCHANGED <<samples, contract, result, compared, server, sweeping, mishaps>>

\* A request that fails for good ends the run or leaves its example out.
GenerateFails(p) ==
    /\ Stands(p, "generate") /\ attempt[p].todo # {} /\ Mishap
    /\ \/ Quit(p)
       \/ \E e \in attempt[p].todo : attempt' = [attempt EXCEPT ![p].todo = @ \ {e}]
    /\ UNCHANGED <<files, server, sweeping>>

FinishGenerate(p) ==
    /\ Stands(p, "generate") /\ attempt[p].todo = {}
    /\ Move(p, IF attempt[p].fresh THEN "report" ELSE "count")
    /\ UNCHANGED <<files, server, sweeping, mishaps>>

\* Mutated form: the rows are counted, whoever wrote them twice.
CountRowsTrusting(p) ==
    /\ Stands(p, "count")
    /\ attempt' = [attempt EXCEPT ![p].at = "report", ![p].rows = journal]
    /\ contract' = [contract EXCEPT !.status = Status(journal)]
    /\ UNCHANGED <<samples, journal, result, compared, server, sweeping, mishaps>>

\* The journal is read a last time; the state tells whether it is complete.
CountRows(p) ==
    /\ Stands(p, "count")
    /\ IF ~LoadPredictionRows(journal) THEN Quit(p) /\ UNCHANGED contract
       ELSE /\ attempt' = [attempt EXCEPT ![p].at = "report", ![p].rows = journal]
            /\ contract' = [contract EXCEPT !.status = Status(journal)]
    /\ UNCHANGED <<samples, journal, result, compared, server, sweeping, mishaps>>

WriteResult(p) ==
    /\ Stands(p, "report") /\ Quit(p)
    /\ result' = [status |-> Status(attempt[p].rows), rows |-> attempt[p].rows,
                  server |-> attempt[p].server]
    /\ UNCHANGED <<samples, contract, journal, compared, server, sweeping, mishaps>>

\* A killed run may leave half a line at the end of the journal.
KillEvaluation(p) ==
    /\ ~Stands(p, "rest") /\ Mishap /\ Quit(p)
    /\ \/ UNCHANGED journal
       \/ /\ Stands(p, "generate")
          /\ \E e \in attempt[p].todo :
                journal' = Append(journal, [id |-> e, by |-> server, torn |-> TRUE])
    /\ UNCHANGED <<samples, contract, result, compared, server, sweeping>>

\* compare: complete results of the same samples, each sample once.  The
\* reference is a result over the whole benchmark.
CompareResults ==
    /\ compared = <<>> /\ result.status = "complete"
    /\ LoadPredictionRows(result.rows) /\ Ids(result.rows) = Examples
    /\ compared' = result.rows
    /\ UNCHANGED <<attempt, samples, contract, journal, result, server, sweeping, mishaps>>

\* A server or a binary of another build, between two runs.
ExchangeBuild ==
    /\ sweep = SweepAtRest /\ \A p \in Attempts : Stands(p, "rest")
    /\ Mishap /\ server' = 1 - server
    /\ UNCHANGED <<attempt, files, sweeping>>

-----------------------------------------------------------------------------
\* main of the sweep: --resume reads the whole file and compares the identity.
StartSweep ==
    /\ sweep.at = "rest" /\ sweepFile.state # "torn"
    /\ sweepFile.state = "whole" => sweepFile.binary = server
    /\ sweep' = [at |-> "measure", binary |-> server, previous |-> sweepFile.runs, runs |-> <<>>]
    /\ UNCHANGED <<attempt, files, server, sweepFile, mishaps>>

\* A cell measured before is taken over; measure runs the others in a child.
TakeCell ==
    /\ sweep.at = "measure" /\ Len(sweep.runs) < Len(sweep.previous)
    /\ sweep' = [sweep EXCEPT !.runs = Append(@, sweep.previous[Len(@) + 1])]
    /\ UNCHANGED <<attempt, files, server, sweepFile, mishaps>>

MeasureCell ==
    /\ sweep.at = "measure" /\ Len(sweep.previous) <= Len(sweep.runs) /\ Len(sweep.runs) < Cells
    /\ \E status \in {"accepted", "rejected", "timeout"} :
          /\ IF status = "timeout" THEN Mishap ELSE Calm
          /\ sweep' = [sweep EXCEPT !.at = "write",
                          !.runs = Append(@, [by |-> server, status |-> status])]
    /\ UNCHANGED <<attempt, files, server, sweepFile>>

\* The file is written in place, with what this invocation has gone through.
WriteSweep ==
    /\ sweep.at \in {"write", "close"}
    /\ sweepFile' = [state |-> "whole", binary |-> sweep.binary, runs |-> sweep.runs,
                     completed |-> sweep.at = "close"]
    /\ sweep' = IF sweep.at = "close" THEN SweepAtRest ELSE [sweep EXCEPT !.at = "measure"]
    /\ UNCHANGED <<attempt, files, server, mishaps>>

\* summarize wants an accepted context: without one it raises.
Summarize ==
    /\ sweep.at = "measure" /\ Len(sweep.runs) = Cells
    /\ sweep' = IF \E i \in 1..Cells : sweep.runs[i].status = "accepted"
                THEN [sweep EXCEPT !.at = "close"] ELSE SweepAtRest
    /\ UNCHANGED <<attempt, files, server, sweepFile, mishaps>>

KillSweep ==
    /\ sweep.at # "rest" /\ Mishap /\ sweep' = SweepAtRest
    /\ \/ UNCHANGED sweepFile
       \/ /\ sweep.at \in {"write", "close"}
          /\ sweepFile' = [NoSweep EXCEPT !.state = "torn"]
    /\ UNCHANGED <<attempt, files, server>>

-----------------------------------------------------------------------------
QualityNext ==
    \/ \E p \in Attempts :
          \/ \E fresh \in BOOLEAN : StartEvaluation(p, fresh)
          \/ OpenFresh(p) \/ OpenResumable(p) \/ LookForContract(p) \/ WriteContract(p)
          \/ LoadJournal(p) \/ OpenWriter(p) \/ Generate(p) \/ GenerateFails(p)
          \/ FinishGenerate(p) \/ CountRows(p) \/ WriteResult(p) \/ KillEvaluation(p)
    \/ CompareResults \/ ExchangeBuild

SweepNext ==
    \/ ExchangeBuild
    \/ StartSweep \/ TakeCell \/ MeasureCell \/ WriteSweep \/ Summarize \/ KillSweep

EvalNext == QualityNext \/ SweepNext

EvalSpec == EvalInit /\ [][EvalNext]_evalVars

-----------------------------------------------------------------------------
\* A report that says complete holds every planned example exactly once, and
\* each answer came from the server whose health the report states - however
\* many invocations were killed, repeated or ran at the same time on the path
\* (initialize_resume_state, load_prediction_rows, run_resumable).
ReportExact ==
    result.status = "complete" =>
       /\ LoadPredictionRows(result.rows) /\ Ids(result.rows) = Examples
       /\ \A i \in DOMAIN result.rows : result.rows[i].by = result.server

\* The file of a sweep holds measurements of the one binary it names, and a
\* resumed sweep completes only with every cell of the matrix (validate_identity,
\* main of the capacity qualification).
SweepExact ==
    sweepFile.state = "whole" =>
       /\ \A i \in DOMAIN sweepFile.runs : sweepFile.runs[i].by = sweepFile.binary
       /\ sweepFile.completed => Len(sweepFile.runs) = Cells

\* Both kinds of measurement that are resumed over many invocations.
EvaluationsExact == ReportExact /\ SweepExact
=============================================================================

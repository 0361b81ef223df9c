---------------------------- MODULE ServerTrials ----------------------------
(***************************************************************************)
(* The scripts that qualify and benchmark a running engine: the bounded    *)
(* vision quality trial, the long media conversation, the client of a      *)
(* server somebody else started, the workload against a llama.cpp server   *)
(* or a fresh engine process, and the paired runs with and without         *)
(* drafting.  Warm-up runs, whose answers nobody keeps, are left out.      *)
(*                                                                         *)
(* A server script starts a child on a fixed port, polls /health until     *)
(* somebody answers there, works through its requests and terminates the   *)
(* child.  A script that is killed leaves its child behind: it keeps the   *)
(* port, its counters and its session, and answers the next script.  Other *)
(* clients may use the same server.  One session slot, as both scripts     *)
(* that start the engine ask for.                                          *)
(***************************************************************************)
EXTENDS Naturals

CONSTANTS Asked,      \* requests, turns or runs of one trial
          MaxTrials,      \* scripts started
          MaxStrangers    \* requests of other clients

ASSUME TrialAssumption ==
    /\ Asked \in Nat \ {0} /\ MaxTrials \in Nat /\ MaxStrangers \in Nat

VARIABLES child,      \* the running script's own server
          port,       \* who listens: nobody, the child, or one left behind
          served,     \* vision requests the listener has counted
          resident,   \* how many turns of the trial's conversation its session holds
          trial,      \* the running script
          outcome,    \* the report of the last script that wrote one
          logLeft,    \* a server log of the conversation script lies there
          tried, strangers

trialVars == <<child, port, served, resident, trial, outcome, logLeft, tried, strangers>>

Tools == {"quality", "conversation", "client", "workload", "direct", "paired"}
StartsServer(tool) == tool \in {"quality", "conversation", "workload"}
Reads(tool) == tool \in {"quality", "conversation", "client"}   \* scrapes /metrics

Answers == {"usual", "odd"}
NoTrial == [tool |-> "none", step |-> "none", sent |-> 0, first |-> "none", uniform |-> TRUE,
            before |-> 0, intruded |-> FALSE]
NoOutcome == [tool |-> "none", accepted |-> FALSE, uniform |-> TRUE, intruded |-> FALSE, depth |-> 0]
MostServed == Asked * MaxTrials + MaxStrangers

TrialTypeOK ==
    /\ child \in {"absent", "loading", "serving", "gone"}
    /\ port \in {"nobody", "child", "orphan"}
    /\ served \in 0..MostServed /\ resident \in 0..(Asked + 1)
    /\ trial \in [tool : Tools \cup {"none"},
                  step : {"none", "waiting", "scrape", "requests", "continue", "judge"},
                  sent : 0..Asked, first : Answers \cup {"none"}, uniform : BOOLEAN,
                  before : 0..MostServed, intruded : BOOLEAN]
    /\ outcome \in [tool : Tools \cup {"none"}, accepted : BOOLEAN, uniform : BOOLEAN,
                    intruded : BOOLEAN, depth : 0..Asked]
    /\ logLeft \in BOOLEAN /\ tried \in 0..MaxTrials /\ strangers \in 0..MaxStrangers

TrialInit ==
    /\ child = "absent" /\ port = "nobody" /\ served = 0 /\ resident = 0
    /\ trial = NoTrial /\ outcome = NoOutcome /\ logLeft = FALSE
    /\ tried = 0 /\ strangers = 0

\* The finally block: the child is terminated, or killed when it does not end.
Terminate ==
    /\ trial' = NoTrial /\ child' = "absent"
    /\ IF port = "child"
       THEN port' = "nobody" /\ served' = 0 /\ resident' = 0
       ELSE UNCHANGED <<port, served, resident>>

GoOn(step) == trial' = [trial EXCEPT !.step = step]

StartTrial(tool) ==
    /\ trial = NoTrial /\ tried < MaxTrials /\ tried' = tried + 1
    /\ UNCHANGED <<port, served, resident, outcome, strangers>>

-----------------------------------------------------------------------------
\* A script that starts its server; the conversation script refuses a log an
\* earlier attempt has left.
StartWithServer(tool) ==
    /\ StartTrial(tool) /\ StartsServer(tool) /\ child' = "loading"
    /\ tool = "conversation" => ~logLeft
    /\ logLeft' = (logLeft \/ tool = "conversation")
    /\ trial' = [NoTrial EXCEPT !.tool = tool, !.step = "waiting"]

\* The client needs a server that answers.
StartClient ==
    /\ StartTrial("client") /\ port # "nobody"
    /\ trial' = [NoTrial EXCEPT !.tool = "client", !.step = "scrape"]
    /\ UNCHANGED <<child, logLeft>>

\* The engine in a process of its own, or in the script's, for each run.
StartDirect(tool) ==
    /\ StartTrial(tool) /\ tool \in {"direct", "paired"}
    /\ trial' = [NoTrial EXCEPT !.tool = tool, !.step = "requests"]
    /\ UNCHANGED <<child, logLeft>>

\* The child binds its port after loading, and exits if it is taken.
ChildBinds ==
    /\ child = "loading"
    /\ IF port = "nobody"
       THEN child' = "serving" /\ port' = "child" /\ served' = 0 /\ resident' = 0
       ELSE child' = "gone" /\ UNCHANGED <<port, served, resident>>
    /\ UNCHANGED <<trial, outcome, logLeft, tried, strangers>>

\* wait_for_server: a child that has exited is noticed before the next poll,
\* and any server that answers will do.
WaitForServer ==
    /\ trial.step = "waiting" /\ child # "gone" /\ port # "nobody"
    /\ GoOn(IF Reads(trial.tool) THEN "scrape" ELSE "requests")
    /\ UNCHANGED <<child, port, served, resident, outcome, logLeft, tried, strangers>>

ScrapeBefore ==
    /\ trial.step = "scrape" /\ port # "nobody"
    /\ trial' = [trial EXCEPT !.step = "requests", !.before = served, !.intruded = FALSE]
    /\ UNCHANGED <<child, port, served, resident, outcome, logLeft, tried, strangers>>

\* One answer: the paired script compares it with the very first, the others
\* keep whether all were the same.
Take(answer) ==
    LET first == IF trial.first = "none" THEN answer ELSE trial.first
    IN  trial' = [trial EXCEPT !.sent = @ + 1, !.first = first,
                      !.uniform = @ /\ answer = first,
                      !.step = IF trial.sent + 1 = Asked THEN "judge" ELSE "requests"]

Requesting(tool) == trial.tool = tool /\ trial.step = "requests"

\* The vision requests of the quality suite, each image at each budget.
AskImage(answer) ==
    /\ Requesting("quality") /\ port # "nobody" /\ Take(answer)
    /\ served' = served + 1 /\ resident' = 0
    /\ UNCHANGED <<child, port, outcome, logLeft, tried, strangers>>

\* The conversation begins with all the media and takes the slot from whoever
\* had it ...
RootTurn(answer) ==
    /\ Requesting("conversation") /\ port # "nobody" /\ trial.sent = 0 /\ Take(answer)
    /\ served' = served + 1 /\ resident' = 1
    /\ UNCHANGED <<child, port, outcome, logLeft, tried, strangers>>

\* ... every later turn names the response before it, which the server knows
\* only while its session is resident ...
Resumes == port # "nobody" /\ trial.sent > 0 /\ resident = trial.sent /\ resident' = resident + 1

\* ... a filler, of which only the growth of the context is kept ...
FillContext ==
    /\ Requesting("conversation") /\ Resumes /\ trial.sent + 1 < Asked
    /\ trial' = [trial EXCEPT !.sent = @ + 1]
    /\ UNCHANGED <<child, port, served, outcome, logLeft, tried, strangers>>

\* ... or a question, about the context or in the end about the media.
ProbeTurn(answer) ==
    /\ Requesting("conversation") /\ Resumes /\ Take(answer)
    /\ UNCHANGED <<child, port, served, outcome, logLeft, tried, strangers>>

\* The client: a request of its own, streamed or not ...
AskPlain(answer) ==
    /\ Requesting("client") /\ port # "nobody" /\ Take(answer) /\ resident' = 0
    /\ UNCHANGED <<child, port, served, outcome, logLeft, tried, strangers>>

\* ... or one short answer and its measured continuation.
AskRoot ==
    /\ Requesting("client") /\ port # "nobody" /\ GoOn("continue") /\ resident' = 1
    /\ UNCHANGED <<child, port, served, outcome, logLeft, tried, strangers>>

ContinueRoot(answer) ==
    /\ trial.step = "continue" /\ port # "nobody" /\ resident = 1
    /\ Take(answer) /\ resident' = 2
    /\ UNCHANGED <<child, port, served, outcome, logLeft, tried, strangers>>

\* The workload on a server that keeps no prompt, or in a process of its own.
AskLlama(answer) ==
    /\ Requesting("workload") /\ port # "nobody" /\ Take(answer) /\ resident' = 0
    /\ UNCHANGED <<child, port, served, outcome, logLeft, tried, strangers>>

RunEngine(answer) ==
    /\ Requesting("direct") /\ Take(answer)
    /\ UNCHANGED <<child, port, served, resident, outcome, logLeft, tried, strangers>>

\* qualification: ordinary and drafted runs in turn, each a process of its own.
RunPair(answer) ==
    /\ Requesting("paired")
    /\ trial.first \in {"none", answer}
    /\ Take(answer)
    /\ UNCHANGED <<child, port, served, resident, outcome, logLeft, tried, strangers>>

\* Everything that raises: a server that exits or never answers, an HTTP error,
\* an unknown previous response, an answer that differs.
TrialFails ==
    /\ trial # NoTrial /\ Terminate
    /\ UNCHANGED <<outcome, logLeft, tried, strangers>>

-----------------------------------------------------------------------------
\* Mutated form: the listener's total is compared with the requests sent.
AcceptedByTotal == trial.uniform /\ served >= Asked

\* Accepted: equal answers, and counters that moved by exactly the requests sent.
Accepted == trial.uniform /\ served - trial.before = Asked

\* The last scrape and the report, after or before the child is terminated.
Report(tool, accepted) ==
    /\ trial.step = "judge" /\ trial.tool = tool
    /\ Reads(tool) => port # "nobody"
    /\ outcome' = [tool |-> tool, accepted |-> accepted, uniform |-> trial.uniform,
                   intruded |-> trial.intruded,
                   depth |-> IF tool = "conversation" THEN resident ELSE 0]
    /\ Terminate
    /\ UNCHANGED <<logLeft, tried, strangers>>

ReportQuality == Report("quality", Accepted)

\* The retrieval checks come after the file: one that fails costs the exit code.
ReportConversation == \E retrieved \in BOOLEAN : Report("conversation", retrieved)

ReportClient == Report("client", TRUE)

\* "deterministic_outputs" compares all the runs of one engine.
OutputsAreDeterministic == trial.uniform

ReportWorkload == \E tool \in {"workload", "direct"} : Report(tool, OutputsAreDeterministic)

ReportPaired == Report("paired", TRUE)

-----------------------------------------------------------------------------
\* Another client's request; its session takes the only slot.
StrangerAsks(image) ==
    /\ port # "nobody" /\ strangers < MaxStrangers /\ strangers' = strangers + 1
    /\ served' = IF image THEN served + 1 ELSE served
    /\ resident' = 0
    /\ trial' = [trial EXCEPT !.intruded = @ \/ (image /\ trial.tool # "none")]
    /\ UNCHANGED <<child, port, outcome, logLeft, tried>>

\* The script is killed: nobody terminates its child, which goes on serving, or
\* binds the port as soon as it has loaded.
KillScript ==
    /\ trial # NoTrial /\ trial' = NoTrial /\ child' = "absent"
    /\ port' = IF child = "serving" \/ (child = "loading" /\ port = "nobody") THEN "orphan" ELSE port
    /\ UNCHANGED <<served, resident>>
    /\ UNCHANGED <<outcome, logLeft, tried, strangers>>

\* A server left behind is stopped between two scripts, not under one.
StopOrphan ==
    /\ trial = NoTrial /\ port = "orphan" /\ port' = "nobody" /\ served' = 0 /\ resident' = 0
    /\ UNCHANGED <<child, trial, outcome, logLeft, tried, strangers>>

TrialNext ==
    \/ \E tool \in Tools : StartWithServer(tool) \/ StartDirect(tool)
    \/ StartClient
    \/ ChildBinds \/ WaitForServer \/ ScrapeBefore
    \/ \E answer \in Answers :
           \/ AskImage(answer) \/ RootTurn(answer) \/ ProbeTurn(answer) \/ AskPlain(answer)
           \/ ContinueRoot(answer) \/ AskLlama(answer) \/ RunEngine(answer) \/ RunPair(answer)
    \/ FillContext \/ AskRoot
    \/ TrialFails \/ ReportQuality \/ ReportConversation \/ ReportClient \/ ReportWorkload
    \/ ReportPaired
    \/ \E image \in BOOLEAN : StrangerAsks(image)
    \/ KillScript \/ StopOrphan

TrialSpec == TrialInit /\ [][TrialNext]_trialVars

-----------------------------------------------------------------------------
\* What a report claims was so, although the server may be one left behind by a
\* killed script and other clients use it: accepted vision quality rests on
\* equal answers with no other vision request counted among them, drafted runs
\* that were reported equalled the ordinary ones, outputs called deterministic
\* were equal, and a reported conversation was one conversation, never resumed
\* on a session that had lost it (main of the V19 quality script,
\* qualification, summarize_runs, main of the conversation script).
ReportsHonest ==
    /\ outcome.tool = "quality" /\ outcome.accepted => outcome.uniform /\ ~outcome.intruded
    /\ outcome.tool = "paired" => outcome.uniform
    /\ outcome.tool \in {"workload", "direct"} /\ outcome.accepted => outcome.uniform
    /\ outcome.tool = "conversation" => outcome.depth \in {0, Asked}
=============================================================================

-------------------------- MODULE MeasurementProofs --------------------------
(***************************************************************************)
(* Proofs about what the tools measure and report, for any number of       *)
(* examples, contexts, lanes, invocations and mishaps: the scripts that    *)
(* speak to a server, the quality evaluation and the sweep, the retained   *)
(* tensor reports and the gates of the milestones.  Each component has an  *)
(* inductive invariant: what its type invariant says, what a tool that is  *)
(* under way may rely on, and the property itself.                         *)
(***************************************************************************)
EXTENDS ServerTrials, EvaluationRuns, TensorReports, Qualification, WellFoundedInduction,
        FiniteSetTheorems, TLAPS

-----------------------------------------------------------------------------
(* The scripts that start a server and speak to it (ServerTrials).         *)

(* Where a script is, and what it has counted: it has a listener once it   *)
(* has waited for one, the vision quality script has seen its own requests *)
(* counted and any other one beside, and a conversation goes on only with  *)
(* the session that holds all of it.                                       *)
Listens == {"quality", "conversation", "client", "workload"}

TrialFacts ==
  /\ trial.tool = "none" => trial = NoTrial
  /\ trial.step = "continue" => trial.tool = "client"
  /\ trial.step \in {"requests", "continue"} => trial.sent < Asked
  /\ trial.step = "judge" => trial.sent = Asked
  /\ trial.step \in {"waiting", "scrape"} => trial.sent = 0
  /\ trial.tool \in Listens /\ trial.step # "waiting" => port # "nobody"
  /\ trial.tool = "paired" => trial.uniform

ServedFacts ==
  /\ served <= Asked * tried + strangers
  /\ trial.tool # "none" => served + Asked <= Asked * tried + strangers + trial.sent
  /\ trial.tool = "quality" /\ trial.step \in {"requests", "judge"} =>
       /\ served >= trial.before + trial.sent
       /\ trial.intruded => served > trial.before + trial.sent

ResidentFacts ==
  trial.tool = "conversation" /\ trial.sent > 0 => resident \in {0, trial.sent}

TrialInv == TrialTypeOK /\ TrialFacts /\ ServedFacts /\ ResidentFacts /\ ReportsHonest

\* What the trials before this one may have asked, one trial at a time.
LEMMA Multiples ==
  /\ \A n \in Nat : Asked * n \in Nat /\ Asked * (n + 1) = Asked * n + Asked
  /\ \A n \in 0..MaxTrials : Asked * n <= Asked * MaxTrials
<1>1. \A n \in Nat : Asked * n \in Nat /\ Asked * (n + 1) = Asked * n + Asked
  BY TrialAssumption
<1>2. \A n \in 0..MaxTrials : Asked * n <= Asked * MaxTrials
  BY TrialAssumption
<1> QED BY <1>1, <1>2

\* The child has never served more than was asked of it, and the requests that
\* the vision quality script counts are its own unless a stranger came.
LEMMA ServedFactsStep ==
  ASSUME TrialInv, TrialNext PROVE ServedFacts'
<1> USE TrialAssumption DEF TrialInv, NoTrial, NoOutcome, TrialTypeOK, TrialFacts, ServedFacts,
      Listens, Tools
<1>1. ASSUME NEW tool \in Tools, StartWithServer(tool) PROVE ServedFacts'
  BY <1>1, Multiples DEF StartWithServer, StartTrial, StartsServer
<1>2. ASSUME NEW tool \in Tools, StartDirect(tool) PROVE ServedFacts'
  BY <1>2, Multiples DEF StartDirect, StartTrial
<1>3. CASE StartClient
  BY <1>3, Multiples DEF StartClient, StartTrial
<1>4. CASE ChildBinds
  BY <1>4 DEF ChildBinds
<1>5. CASE WaitForServer
  BY <1>5 DEF WaitForServer, GoOn, Reads
<1>6. CASE ScrapeBefore
  BY <1>6 DEF ScrapeBefore
<1>7. ASSUME NEW answer \in Answers, AskImage(answer) PROVE ServedFacts'
  BY <1>7 DEF AskImage, Take, Requesting, Answers
<1>8. ASSUME NEW answer \in Answers, RootTurn(answer) PROVE ServedFacts'
  <2>1. /\ trial'.tool = "conversation" /\ trial'.sent = trial.sent + 1
        /\ served' = served + 1 /\ UNCHANGED <<tried, strangers>>
        /\ trial.tool = "conversation" /\ trial.step = "requests"
    BY <1>8 DEF RootTurn, Take, Requesting, Answers
  <2> QED BY <2>1
<1>9. ASSUME NEW answer \in Answers, ProbeTurn(answer) PROVE ServedFacts'
  BY <1>9 DEF ProbeTurn, Take, Requesting, Answers, Resumes
<1>10. ASSUME NEW answer \in Answers, AskPlain(answer) PROVE ServedFacts'
  BY <1>10 DEF AskPlain, Take, Requesting, Answers
<1>11. ASSUME NEW answer \in Answers, ContinueRoot(answer) PROVE ServedFacts'
  BY <1>11 DEF ContinueRoot, Take, Requesting, Answers
<1>12. ASSUME NEW answer \in Answers, AskLlama(answer) PROVE ServedFacts'
  BY <1>12 DEF AskLlama, Take, Requesting, Answers
<1>13. ASSUME NEW answer \in Answers, RunEngine(answer) PROVE ServedFacts'
  BY <1>13 DEF RunEngine, Take, Requesting, Answers
<1>14. ASSUME NEW answer \in Answers, RunPair(answer) PROVE ServedFacts'
  BY <1>14 DEF RunPair, Take, Requesting, Answers
<1>15. CASE FillContext
  BY <1>15 DEF FillContext, Requesting, Resumes
<1>16. CASE AskRoot
  BY <1>16 DEF AskRoot, Requesting, GoOn
<1>17. CASE TrialFails
  BY <1>17 DEF TrialFails, Terminate
<1>18. CASE ReportQuality
  BY <1>18 DEF ReportQuality, Report, Reads, Terminate, Accepted
<1>19. CASE ReportConversation
  BY <1>19 DEF ReportConversation, Report, Reads, Terminate
<1>20. CASE ReportClient
  BY <1>20 DEF ReportClient, Report, Reads, Terminate
<1>21. CASE ReportWorkload
  BY <1>21 DEF ReportWorkload, Report, Reads, Terminate, OutputsAreDeterministic
<1>22. CASE ReportPaired
  BY <1>22 DEF ReportPaired, Report, Reads, Terminate
<1>23. ASSUME NEW image \in BOOLEAN, StrangerAsks(image) PROVE ServedFacts'
  BY <1>23 DEF StrangerAsks
<1>24. CASE KillScript
  BY <1>24 DEF KillScript
<1>25. CASE StopOrphan
  BY <1>25 DEF StopOrphan
<1> QED BY <1>1, <1>2, <1>3, <1>4, <1>5, <1>6, <1>7, <1>8, <1>9, <1>10, <1>11, <1>12, <1>13,
      <1>14, <1>15, <1>16, <1>17, <1>18, <1>19, <1>20, <1>21, <1>22, <1>23, <1>24, <1>25
      DEF TrialNext

(* A record of a running script stays one, whatever is put into its        *)
(* fields.                                                                 *)
TrialRecord ==
  [tool : Tools \cup {"none"},
   step : {"none", "waiting", "scrape", "requests", "continue", "judge"},
   sent : 0..Asked, first : Answers \cup {"none"}, uniform : BOOLEAN,
   before : 0..MostServed, intruded : BOOLEAN]

\* Counting starts at zero, within its bounds.
LEMMA Zeros == 0 \in 0..Asked /\ MostServed \in Nat /\ 0 \in 0..MostServed
BY TrialAssumption, Multiples DEF MostServed

\* A script that has not begun is of the kind.
LEMMA NoTrialTyped == NoTrial \in TrialRecord
BY Zeros DEF NoTrial, TrialRecord

\* A script begins as one of its kind ...
LEMMA BeginTyped ==
  ASSUME NEW tool \in Tools, NEW onto \in {"waiting", "scrape", "requests"}
  PROVE  [NoTrial EXCEPT !.tool = tool, !.step = onto] \in TrialRecord
BY NoTrialTyped DEF TrialRecord

\* ... goes on to its next step ...
LEMMA GoOnTyped ==
  ASSUME trial \in TrialRecord, NEW onto \in {"waiting", "scrape", "requests", "continue", "judge"},
         GoOn(onto)
  PROVE  trial' \in TrialRecord
BY DEF GoOn, TrialRecord

\* ... and takes an answer that was still asked for.
LEMMA TakeTyped ==
  ASSUME trial \in TrialRecord, trial.sent < Asked, NEW answer \in Answers, Take(answer)
  PROVE  trial' \in TrialRecord
<1> DEFINE first == IF trial.first = "none" THEN answer ELSE trial.first
           uniform == trial.uniform /\ answer = first
           onto == IF trial.sent + 1 = Asked THEN "judge" ELSE "requests"
<1>1. trial.sent + 1 \in 0..Asked
  BY TrialAssumption DEF TrialRecord
<1>2. first \in Answers \cup {"none"} /\ uniform \in BOOLEAN /\ onto \in {"requests", "judge"}
  BY DEF TrialRecord
<1>3. trial' = [trial EXCEPT !.sent = trial.sent + 1, !.first = first,
                                !.uniform = uniform, !.step = onto]
  BY DEF Take, TrialRecord
<1> HIDE DEF first, uniform, onto
<1> QED BY <1>1, <1>2, <1>3 DEF TrialRecord

(* What a step does to the running script, and to its report.              *)
LEMMA TrialRecordStep ==
  ASSUME TrialInv, TrialNext PROVE trial' \in TrialRecord
<1>0. trial \in TrialRecord /\ served \in 0..MostServed
  BY Zenon DEF TrialInv, TrialTypeOK, TrialRecord
<1> USE <1>0 DEF TrialInv, TrialFacts
<1>1. ASSUME NEW tool \in Tools, StartWithServer(tool) PROVE trial' \in TrialRecord
  BY <1>1, BeginTyped DEF StartWithServer, StartTrial
<1>2. ASSUME NEW tool \in Tools, StartDirect(tool) PROVE trial' \in TrialRecord
  BY <1>2, BeginTyped DEF StartDirect, StartTrial
<1>3. CASE StartClient
  BY <1>3, BeginTyped DEF StartClient, StartTrial, Tools
<1>4. CASE ChildBinds
  BY <1>4 DEF ChildBinds
<1>5. CASE WaitForServer
  BY <1>5, GoOnTyped DEF WaitForServer, Reads
<1>6. CASE ScrapeBefore
  BY <1>6 DEF ScrapeBefore, TrialRecord
<1>7. ASSUME NEW answer \in Answers, AskImage(answer) PROVE trial' \in TrialRecord
  BY <1>7, TakeTyped DEF AskImage, Requesting
<1>8. ASSUME NEW answer \in Answers, RootTurn(answer) PROVE trial' \in TrialRecord
  BY <1>8, TakeTyped DEF RootTurn, Requesting
<1>9. ASSUME NEW answer \in Answers, ProbeTurn(answer) PROVE trial' \in TrialRecord
  BY <1>9, TakeTyped DEF ProbeTurn, Requesting
<1>10. ASSUME NEW answer \in Answers, AskPlain(answer) PROVE trial' \in TrialRecord
  BY <1>10, TakeTyped DEF AskPlain, Requesting
<1>11. ASSUME NEW answer \in Answers, ContinueRoot(answer) PROVE trial' \in TrialRecord
  BY <1>11, TakeTyped DEF ContinueRoot, Requesting
<1>12. ASSUME NEW answer \in Answers, AskLlama(answer) PROVE trial' \in TrialRecord
  BY <1>12, TakeTyped DEF AskLlama, Requesting
<1>13. ASSUME NEW answer \in Answers, RunEngine(answer) PROVE trial' \in TrialRecord
  BY <1>13, TakeTyped DEF RunEngine, Requesting
<1>14. ASSUME NEW answer \in Answers, RunPair(answer) PROVE trial' \in TrialRecord
  BY <1>14, TakeTyped DEF RunPair, Requesting
<1>15. CASE FillContext
  BY <1>15, TrialAssumption DEF FillContext, Requesting, TrialRecord
<1>16. CASE AskRoot
  BY <1>16, GoOnTyped DEF AskRoot, Requesting
<1>17. CASE TrialFails
  BY <1>17, NoTrialTyped DEF TrialFails, Terminate
<1>18. CASE ReportQuality
  BY <1>18, NoTrialTyped DEF ReportQuality, Report, Terminate
<1>19. CASE ReportConversation
  BY <1>19, NoTrialTyped DEF ReportConversation, Report, Terminate
<1>20. CASE ReportClient
  BY <1>20, NoTrialTyped DEF ReportClient, Report, Terminate
<1>21. CASE ReportWorkload
  BY <1>21, NoTrialTyped DEF ReportWorkload, Report, Terminate
<1>22. CASE ReportPaired
  BY <1>22, NoTrialTyped DEF ReportPaired, Report, Terminate
<1>23. ASSUME NEW image \in BOOLEAN, StrangerAsks(image) PROVE trial' \in TrialRecord
  BY <1>23 DEF StrangerAsks, TrialRecord
<1>24. CASE KillScript
  BY <1>24, NoTrialTyped DEF KillScript
<1>25. CASE StopOrphan
  BY <1>25 DEF StopOrphan
<1> QED BY <1>1, <1>2, <1>3, <1>4, <1>5, <1>6, <1>7, <1>8, <1>9, <1>10, <1>11, <1>12, <1>13,
      <1>14, <1>15, <1>16, <1>17, <1>18, <1>19, <1>20, <1>21, <1>22, <1>23, <1>24, <1>25
      DEF TrialNext

\* The child, the port, the sessions and what is reported keep their kinds.
LEMMA TrialKindsStep ==
  ASSUME TrialInv, TrialNext
  PROVE  /\ child' \in {"absent", "loading", "serving", "gone"}
         /\ port' \in {"nobody", "child", "orphan"} /\ served' \in Nat
         /\ resident' \in 0..(Asked + 1)
         /\ outcome' \in [tool : Tools \cup {"none"}, accepted : BOOLEAN, uniform : BOOLEAN,
                          intruded : BOOLEAN, depth : 0..Asked]
         /\ logLeft' \in BOOLEAN /\ tried' \in 0..MaxTrials /\ strangers' \in 0..MaxStrangers
<1> DEFINE Goal ==
         /\ child' \in {"absent", "loading", "serving", "gone"}
         /\ port' \in {"nobody", "child", "orphan"} /\ served' \in Nat
         /\ resident' \in 0..(Asked + 1)
         /\ outcome' \in [tool : Tools \cup {"none"}, accepted : BOOLEAN, uniform : BOOLEAN,
                          intruded : BOOLEAN, depth : 0..Asked]
         /\ logLeft' \in BOOLEAN /\ tried' \in 0..MaxTrials /\ strangers' \in 0..MaxStrangers
<1> USE TrialAssumption DEF TrialInv, TrialTypeOK, TrialFacts, ResidentFacts, Tools
<1>1. ASSUME NEW tool \in Tools, StartWithServer(tool) PROVE Goal
  BY <1>1 DEF StartWithServer, StartTrial, StartsServer
<1>2. ASSUME NEW tool \in Tools, StartDirect(tool) PROVE Goal
  BY <1>2 DEF StartDirect, StartTrial
<1>3. CASE StartClient
  BY <1>3 DEF StartClient, StartTrial
<1>4. CASE ChildBinds
  BY <1>4 DEF ChildBinds
<1>5. CASE WaitForServer
  BY <1>5 DEF WaitForServer, GoOn, Reads
<1>6. CASE ScrapeBefore
  BY <1>6 DEF ScrapeBefore
<1>7. ASSUME NEW answer \in Answers, AskImage(answer) PROVE Goal
  BY <1>7 DEF AskImage, Take, Requesting
<1>8. ASSUME NEW answer \in Answers, RootTurn(answer) PROVE Goal
  BY <1>8 DEF RootTurn, Take, Requesting
<1>9. ASSUME NEW answer \in Answers, ProbeTurn(answer) PROVE Goal
  BY <1>9 DEF ProbeTurn, Take, Requesting, Resumes
<1>10. ASSUME NEW answer \in Answers, AskPlain(answer) PROVE Goal
  BY <1>10 DEF AskPlain, Take, Requesting
<1>11. ASSUME NEW answer \in Answers, ContinueRoot(answer) PROVE Goal
  BY <1>11 DEF ContinueRoot, Take, Requesting
<1>12. ASSUME NEW answer \in Answers, AskLlama(answer) PROVE Goal
  BY <1>12 DEF AskLlama, Take, Requesting
<1>13. ASSUME NEW answer \in Answers, RunEngine(answer) PROVE Goal
  BY <1>13 DEF RunEngine, Take, Requesting
<1>14. ASSUME NEW answer \in Answers, RunPair(answer) PROVE Goal
  BY <1>14 DEF RunPair, Take, Requesting
<1>15. CASE FillContext
  BY <1>15 DEF FillContext, Requesting, Resumes
<1>16. CASE AskRoot
  BY <1>16 DEF AskRoot, Requesting, GoOn
<1>17. CASE TrialFails
  BY <1>17 DEF TrialFails, Terminate
<1>18. CASE ReportQuality
  BY <1>18 DEF ReportQuality, Report, Reads, Terminate, Accepted
<1>19. CASE ReportConversation
  BY <1>19 DEF ReportConversation, Report, Reads, Terminate
<1>20. CASE ReportClient
  BY <1>20 DEF ReportClient, Report, Reads, Terminate
<1>21. CASE ReportWorkload
  BY <1>21 DEF ReportWorkload, Report, Reads, Terminate, OutputsAreDeterministic
<1>22. CASE ReportPaired
  BY <1>22 DEF ReportPaired, Report, Reads, Terminate
<1>23. ASSUME NEW image \in BOOLEAN, StrangerAsks(image) PROVE Goal
  BY <1>23 DEF StrangerAsks
<1>24. CASE KillScript
  BY <1>24 DEF KillScript
<1>25. CASE StopOrphan
  BY <1>25 DEF StopOrphan
<1> QED BY <1>1, <1>2, <1>3, <1>4, <1>5, <1>6, <1>7, <1>8, <1>9, <1>10, <1>11, <1>12, <1>13,
      <1>14, <1>15, <1>16, <1>17, <1>18, <1>19, <1>20, <1>21, <1>22, <1>23, <1>24, <1>25
      DEF TrialNext

\* Together: every step keeps the kinds.
LEMMA TrialTypeOKStep ==
  ASSUME TrialInv, TrialNext PROVE TrialTypeOK'
<1>1. trial' \in TrialRecord
  BY TrialRecordStep
<1>2. /\ tried' \in 0..MaxTrials /\ strangers' \in 0..MaxStrangers
      /\ served' \in Nat
  BY TrialKindsStep
<1>3. served' \in 0..MostServed
  <2>1. served' <= Asked * tried' + strangers'
    BY ServedFactsStep DEF ServedFacts
  <2>2. Asked * tried' \in Nat /\ Asked * tried' <= Asked * MaxTrials
    BY <1>2, Multiples
  <2>3. Asked * MaxTrials \in Nat /\ MaxStrangers \in Nat
    BY TrialAssumption, Multiples
  <2>4. \A a, b, c, m, n \in Nat : a <= b /\ m <= n /\ c <= a + m => c \in 0..(b + n)
    OBVIOUS
  <2>5. strangers' \in Nat /\ strangers' <= MaxStrangers
    BY <1>2, TrialAssumption
  <2> QED BY <1>2, <2>1, <2>2, <2>3, <2>4, <2>5, Zenon DEF MostServed
<1> QED BY <1>1, <1>3, TrialKindsStep DEF TrialTypeOK, TrialRecord

\* Every step keeps what a script has done and whom it may speak to.
LEMMA TrialFactsStep ==
  ASSUME TrialInv, TrialNext PROVE TrialFacts'
<1> USE TrialAssumption DEF TrialInv, NoTrial, NoOutcome, TrialTypeOK, TrialFacts, Listens, Tools
<1>1. ASSUME NEW tool \in Tools, StartWithServer(tool) PROVE TrialFacts'
  BY <1>1 DEF StartWithServer, StartTrial, StartsServer
<1>2. ASSUME NEW tool \in Tools, StartDirect(tool) PROVE TrialFacts'
  BY <1>2 DEF StartDirect, StartTrial
<1>3. CASE StartClient
  BY <1>3 DEF StartClient, StartTrial
<1>4. CASE ChildBinds
  BY <1>4 DEF ChildBinds
<1>5. CASE WaitForServer
  BY <1>5 DEF WaitForServer, GoOn, Reads
<1>6. CASE ScrapeBefore
  BY <1>6 DEF ScrapeBefore
<1>7. ASSUME NEW answer \in Answers, AskImage(answer) PROVE TrialFacts'
  BY <1>7 DEF AskImage, Take, Requesting, Answers
<1>8. ASSUME NEW answer \in Answers, RootTurn(answer) PROVE TrialFacts'
  BY <1>8 DEF RootTurn, Take, Requesting, Answers
<1>9. ASSUME NEW answer \in Answers, ProbeTurn(answer) PROVE TrialFacts'
  BY <1>9 DEF ProbeTurn, Take, Requesting, Answers, Resumes
<1>10. ASSUME NEW answer \in Answers, AskPlain(answer) PROVE TrialFacts'
  BY <1>10 DEF AskPlain, Take, Requesting, Answers
<1>11. ASSUME NEW answer \in Answers, ContinueRoot(answer) PROVE TrialFacts'
  BY <1>11 DEF ContinueRoot, Take, Requesting, Answers
<1>12. ASSUME NEW answer \in Answers, AskLlama(answer) PROVE TrialFacts'
  BY <1>12 DEF AskLlama, Take, Requesting, Answers
<1>13. ASSUME NEW answer \in Answers, RunEngine(answer) PROVE TrialFacts'
  BY <1>13 DEF RunEngine, Take, Requesting, Answers
<1>14. ASSUME NEW answer \in Answers, RunPair(answer) PROVE TrialFacts'
  BY <1>14 DEF RunPair, Take, Requesting, Answers
<1>15. CASE FillContext
  BY <1>15 DEF FillContext, Requesting, Resumes
<1>16. CASE AskRoot
  BY <1>16 DEF AskRoot, Requesting, GoOn
<1>17. CASE TrialFails
  BY <1>17 DEF TrialFails, Terminate
<1>18. CASE ReportQuality
  BY <1>18 DEF ReportQuality, Report, Reads, Terminate, Accepted
<1>19. CASE ReportConversation
  BY <1>19 DEF ReportConversation, Report, Reads, Terminate
<1>20. CASE ReportClient
  BY <1>20 DEF ReportClient, Report, Reads, Terminate
<1>21. CASE ReportWorkload
  BY <1>21 DEF ReportWorkload, Report, Reads, Terminate, OutputsAreDeterministic
<1>22. CASE ReportPaired
  BY <1>22 DEF ReportPaired, Report, Reads, Terminate
<1>23. ASSUME NEW image \in BOOLEAN, StrangerAsks(image) PROVE TrialFacts'
  BY <1>23 DEF StrangerAsks
<1>24. CASE KillScript
  BY <1>24 DEF KillScript
<1>25. CASE StopOrphan
  BY <1>25 DEF StopOrphan
<1> QED BY <1>1, <1>2, <1>3, <1>4, <1>5, <1>6, <1>7, <1>8, <1>9, <1>10, <1>11, <1>12, <1>13,
      <1>14, <1>15, <1>16, <1>17, <1>18, <1>19, <1>20, <1>21, <1>22, <1>23, <1>24, <1>25
      DEF TrialNext

\* The session of a conversation has all its turns, or was evicted.
LEMMA ResidentFactsStep ==
  ASSUME TrialInv, TrialNext PROVE ResidentFacts'
<1> USE TrialAssumption DEF TrialInv, NoTrial, NoOutcome, TrialTypeOK, TrialFacts,
      ResidentFacts, Listens, Tools
<1>1. ASSUME NEW tool \in Tools, StartWithServer(tool) PROVE ResidentFacts'
  BY <1>1 DEF StartWithServer, StartTrial, StartsServer
<1>2. ASSUME NEW tool \in Tools, StartDirect(tool) PROVE ResidentFacts'
  BY <1>2 DEF StartDirect, StartTrial
<1>3. CASE StartClient
  BY <1>3 DEF StartClient, StartTrial
<1>4. CASE ChildBinds
  BY <1>4 DEF ChildBinds
<1>5. CASE WaitForServer
  BY <1>5 DEF WaitForServer, GoOn, Reads
<1>6. CASE ScrapeBefore
  BY <1>6 DEF ScrapeBefore
<1>7. ASSUME NEW answer \in Answers, AskImage(answer) PROVE ResidentFacts'
  BY <1>7 DEF AskImage, Take, Requesting, Answers
<1>8. ASSUME NEW answer \in Answers, RootTurn(answer) PROVE ResidentFacts'
  BY <1>8 DEF RootTurn, Take, Requesting, Answers
<1>9. ASSUME NEW answer \in Answers, ProbeTurn(answer) PROVE ResidentFacts'
  BY <1>9 DEF ProbeTurn, Take, Requesting, Answers, Resumes
<1>10. ASSUME NEW answer \in Answers, AskPlain(answer) PROVE ResidentFacts'
  BY <1>10 DEF AskPlain, Take, Requesting, Answers
<1>11. ASSUME NEW answer \in Answers, ContinueRoot(answer) PROVE ResidentFacts'
  BY <1>11 DEF ContinueRoot, Take, Requesting, Answers
<1>12. ASSUME NEW answer \in Answers, AskLlama(answer) PROVE ResidentFacts'
  BY <1>12 DEF AskLlama, Take, Requesting, Answers
<1>13. ASSUME NEW answer \in Answers, RunEngine(answer) PROVE ResidentFacts'
  BY <1>13 DEF RunEngine, Take, Requesting, Answers
<1>14. ASSUME NEW answer \in Answers, RunPair(answer) PROVE ResidentFacts'
  BY <1>14 DEF RunPair, Take, Requesting, Answers
<1>15. CASE FillContext
  BY <1>15 DEF FillContext, Requesting, Resumes
<1>16. CASE AskRoot
  BY <1>16 DEF AskRoot, Requesting, GoOn
<1>17. CASE TrialFails
  BY <1>17 DEF TrialFails, Terminate
<1>18. CASE ReportQuality
  BY <1>18 DEF ReportQuality, Report, Reads, Terminate, Accepted
<1>19. CASE ReportConversation
  BY <1>19 DEF ReportConversation, Report, Reads, Terminate
<1>20. CASE ReportClient
  BY <1>20 DEF ReportClient, Report, Reads, Terminate
<1>21. CASE ReportWorkload
  BY <1>21 DEF ReportWorkload, Report, Reads, Terminate, OutputsAreDeterministic
<1>22. CASE ReportPaired
  BY <1>22 DEF ReportPaired, Report, Reads, Terminate
<1>23. ASSUME NEW image \in BOOLEAN, StrangerAsks(image) PROVE ResidentFacts'
  BY <1>23 DEF StrangerAsks
<1>24. CASE KillScript
  BY <1>24 DEF KillScript
<1>25. CASE StopOrphan
  BY <1>25 DEF StopOrphan
<1> HIDE DEF TrialInv, NoTrial, NoOutcome, TrialTypeOK, TrialFacts, ResidentFacts, Listens,
         Tools
<1> QED BY <1>1, <1>2, <1>3, <1>4, <1>5, <1>6, <1>7, <1>8, <1>9, <1>10, <1>11, <1>12, <1>13,
      <1>14, <1>15, <1>16, <1>17, <1>18, <1>19, <1>20, <1>21, <1>22, <1>23, <1>24, <1>25
      DEF TrialNext

\* What a script reports is what its requests were: the counters it compares
\* and the sessions it asks for are those of its own.
LEMMA ReportsHonestStep ==
  ASSUME TrialInv, TrialNext PROVE ReportsHonest'
<1> USE DEF TrialInv, ReportsHonest, Report
<1>1. CASE ReportQuality
  <2>1. trial.tool = "quality" /\ trial.step = "judge" /\ trial.sent = Asked
    BY <1>1 DEF ReportQuality, TrialFacts
  <2>2. /\ served \in Nat /\ trial.before \in Nat /\ Asked \in Nat
    BY TrialAssumption DEF TrialTypeOK, MostServed
  <2>3. served - trial.before = Asked => ~trial.intruded
    BY <2>1, <2>2 DEF ServedFacts
  <2> QED BY <1>1, <2>3 DEF ReportQuality, Accepted
<1>2. CASE ReportConversation
  BY <1>2, TrialAssumption DEF ReportConversation, TrialFacts, ResidentFacts
<1>3. CASE ReportClient
  BY <1>3 DEF ReportClient
<1>4. CASE ReportWorkload
  BY <1>4 DEF ReportWorkload, OutputsAreDeterministic
<1>5. CASE ReportPaired
  BY <1>5 DEF ReportPaired, TrialFacts
<1>6. CASE UNCHANGED outcome
  BY <1>6
<1> QED BY <1>1, <1>2, <1>3, <1>4, <1>5, <1>6 DEF TrialNext, StartWithServer, StartDirect,
      StartClient, StartTrial, ChildBinds, WaitForServer, ScrapeBefore, AskImage, RootTurn,
      ProbeTurn, AskPlain, ContinueRoot, AskLlama, RunEngine, RunPair, FillContext, AskRoot,
      TrialFails, StrangerAsks, KillScript, StopOrphan

\* The inductive invariant of the scripts that start a server and speak to it.
LEMMA TrialInvAlways == TrialSpec => []TrialInv
<1>1. TrialInit => TrialInv
  <2> SUFFICES ASSUME TrialInit PROVE TrialInv OBVIOUS
  <2>1. TrialTypeOK
    <3>1. NoOutcome \in [tool : Tools \cup {"none"}, accepted : BOOLEAN, uniform : BOOLEAN,
                         intruded : BOOLEAN, depth : 0..Asked]
      BY Zeros DEF NoOutcome
    <3>2. 0 \in 0..MostServed /\ 0 \in 0..(Asked + 1) /\ 0 \in 0..MaxTrials /\ 0 \in 0..MaxStrangers
      BY Zeros, TrialAssumption
    <3>3. trial \in TrialRecord /\ outcome = NoOutcome
      BY NoTrialTyped DEF TrialInit
    <3>4. /\ child = "absent" /\ port = "nobody" /\ logLeft = FALSE
          /\ served \in 0..MostServed /\ resident \in 0..(Asked + 1)
          /\ tried \in 0..MaxTrials /\ strangers \in 0..MaxStrangers
      BY <3>2 DEF TrialInit
    <3> HIDE DEF TrialInit
    <3> QED BY <3>1, <3>3, <3>4 DEF TrialTypeOK, TrialRecord
  <2>2. TrialFacts /\ ResidentFacts
    BY DEF TrialInit, TrialFacts, ResidentFacts, NoTrial, Listens
  <2>3. ServedFacts
    BY TrialAssumption, Multiples DEF TrialInit, ServedFacts, NoTrial
  <2>4. ReportsHonest
    BY DEF TrialInit, ReportsHonest, NoOutcome
  <2> QED BY <2>1, <2>2, <2>3, <2>4 DEF TrialInv
<1>2. TrialInv /\ [TrialNext]_trialVars => TrialInv'
  <2> SUFFICES ASSUME TrialInv, [TrialNext]_trialVars PROVE TrialInv' OBVIOUS
  <2>1. CASE TrialNext
    BY <2>1, TrialTypeOKStep, TrialFactsStep, ServedFactsStep, ResidentFactsStep,
       ReportsHonestStep DEF TrialInv
  <2>2. CASE UNCHANGED trialVars
    BY <2>2 DEF TrialInv, TrialTypeOK, TrialFacts, ServedFacts, ResidentFacts,
       ReportsHonest, MostServed, trialVars
  <2> QED BY <2>1, <2>2
<1> QED BY <1>1, <1>2, PTL DEF TrialSpec

\* What a script around a server reports was so, although the server may be one left
\* behind by a killed script and other clients use it (main of the V19 quality script,
\* qualification, summarize_runs, main of the conversation script).
THEOREM TrialReportsAlwaysHonest == TrialSpec => []ReportsHonest
<1>1. TrialInv => ReportsHonest
  BY DEF TrialInv
<1> QED BY <1>1, TrialInvAlways, PTL

-----------------------------------------------------------------------------
(* The quality evaluation and the context sweep (EvaluationRuns).          *)

(* An invocation of benchmark_quality does one of these.                   *)
Evaluating(p) ==
  \/ \E fresh \in BOOLEAN : StartEvaluation(p, fresh)
  \/ OpenFresh(p) \/ OpenResumable(p) \/ LookForContract(p) \/ WriteContract(p)
  \/ LoadJournal(p) \/ OpenWriter(p) \/ Generate(p) \/ GenerateFails(p)
  \/ FinishGenerate(p) \/ CountRows(p) \/ WriteResult(p) \/ KillEvaluation(p)

Sweeping == StartSweep \/ TakeCell \/ MeasureCell \/ WriteSweep \/ Summarize \/ KillSweep

(* What an invocation and a sweep hold, and what they write.               *)
Holding == [at : Places, fresh : BOOLEAN, server : Versions, todo : SUBSET Examples,
            done : SUBSET Examples, rows : Seq(Row)]

EvalKinds ==
  /\ attempt \in [Attempts -> Holding]
  /\ samples \in {"none", "empty", "fresh", "resumable"}
  /\ contract \in [server : Versions, status : {"in_progress", "partial", "complete"}]
  /\ journal \in Seq(Row) /\ compared \in Seq(Row) /\ server \in Versions
  /\ result \in [status : {"none", "partial", "complete"}, rows : Seq(Row), server : Versions]
  /\ mishaps \in 0..MaxMishaps

(* What an invocation may rely on: the server is the one it asked for its  *)
(* identity, a resumed one shares its contract, and its rows are its own   *)
(* or those of a journal it has just read.                                 *)
Resumed == {"load", "writer", "generate", "count", "report"}

Holds(a) ==
  /\ a.at # "rest" => a.server = server
  /\ ~a.fresh /\ a.at \in {"contract", "bind"} => samples \in {"empty", "resumable"}
  /\ ~a.fresh /\ a.at \in Resumed => samples = "resumable"
  /\ ~a.fresh /\ a.at \in Resumed \cup {"bind"} /\ samples = "resumable" =>
       contract.server = server
  /\ a.fresh => a.at \in {"open", "generate", "report"}
  /\ a.fresh /\ a.at # "open" => samples = "fresh"
  /\ a.at \in {"open", "contract", "bind", "load", "writer"} => a.rows = <<>>
  /\ a.at \in {"generate", "report"} =>
       LoadPredictionRows(a.rows) /\ \A i \in DOMAIN a.rows : a.rows[i].by = server
  /\ a.at = "generate" => \A i \in DOMAIN a.rows : a.rows[i].id \notin a.todo

(* The journal is that of the contract beside it.                          *)
JournalKept ==
  /\ samples \in {"none", "empty"} => journal = <<>>
  /\ samples = "resumable" => \A i \in DOMAIN journal : journal[i].by = contract.server

SweepKinds ==
  /\ sweep \in [at : {"rest", "measure", "write", "close"}, binary : Versions,
                previous : Seq(CellRun), runs : Seq(CellRun)]
  /\ sweepFile \in [state : {"none", "torn", "whole"}, binary : Versions,
                    runs : Seq(CellRun), completed : BOOLEAN]

SweepFacts ==
  /\ Len(sweep.runs) <= Cells /\ Len(sweep.previous) <= Cells /\ Len(sweepFile.runs) <= Cells
  /\ sweep.at # "rest" =>
       /\ sweep.binary = server
       /\ \A i \in DOMAIN sweep.runs : sweep.runs[i].by = server
       /\ \A i \in DOMAIN sweep.previous : sweep.previous[i].by = server
  /\ sweep.at = "close" => Len(sweep.runs) = Cells
  /\ sweepFile.state # "whole" => sweepFile.runs = <<>>

EvalInv ==
  /\ EvalKinds /\ (\A p \in Attempts : Holds(attempt[p])) /\ JournalKept /\ ReportExact
  /\ SweepKinds /\ SweepFacts /\ SweepExact

-----------------------------------------------------------------------------
(* An invocation changes what it holds itself, and nothing a sweep has.    *)
Turns(p) ==
  /\ attempt' \in [Attempts -> Holding]
  /\ \A q \in Attempts \ {p} : attempt'[q] = attempt[q]
  /\ UNCHANGED <<server, sweep, sweepFile>>

(* An invocation goes on, with this, or is over.                           *)
Became(p, at, todo, done, rows) ==
  /\ attempt' \in [Attempts -> Holding]
  /\ \A q \in Attempts \ {p} : attempt'[q] = attempt[q]
  /\ attempt'[p].at = at /\ attempt'[p].todo = todo /\ attempt'[p].done = done
  /\ attempt'[p].rows = rows
  /\ attempt'[p].fresh = attempt[p].fresh /\ attempt'[p].server = attempt[p].server

Gone(p) ==
  /\ attempt' \in [Attempts -> Holding]
  /\ \A q \in Attempts \ {p} : attempt'[q] = attempt[q]
  /\ attempt'[p] = AtRest

\* What is at rest, and the rows that are written, are of their kinds.
LEMMA RowsTyped ==
  /\ AtRest \in Holding
  /\ \A e \in Examples, v \in Versions, torn \in BOOLEAN :
       [id |-> e, by |-> v, torn |-> torn] \in Row
<1>1. <<>> \in Seq(Row) /\ 0 \in Versions
  BY DEF Versions
<1> QED BY <1>1 DEF AtRest, Holding, Row, Places

\* Who quits is at rest.
LEMMA QuitGone ==
  ASSUME EvalKinds, NEW p \in Attempts, Quit(p) PROVE Gone(p)
BY RowsTyped DEF EvalKinds, Quit, Gone

\* Who moves holds what he held.
LEMMA MoveBecomes ==
  ASSUME EvalKinds, NEW p \in Attempts, NEW at \in Places, Move(p, at)
  PROVE  Became(p, at, attempt[p].todo, attempt[p].done, attempt[p].rows)
BY DEF EvalKinds, Became, Holding, Move

\* Who moves with a new list of examples holds that ...
LEMMA TodoBecomes ==
  ASSUME EvalKinds, NEW p \in Attempts, NEW at \in Places, NEW todo \in SUBSET Examples,
         attempt' = [attempt EXCEPT ![p].at = at, ![p].todo = todo]
  PROVE  Became(p, at, todo, attempt[p].done, attempt[p].rows)
BY DEF EvalKinds, Became, Holding

\* ... in whichever order the fields are assigned.
LEMMA TodoBecomesFirst ==
  ASSUME EvalKinds, NEW p \in Attempts, NEW at \in Places, NEW todo \in SUBSET Examples,
         attempt' = [attempt EXCEPT ![p].todo = todo, ![p].at = at]
  PROVE  Became(p, at, todo, attempt[p].done, attempt[p].rows)
BY DEF EvalKinds, Became, Holding

\* The same with the examples that were found done ...
LEMMA DoneBecomes ==
  ASSUME EvalKinds, NEW p \in Attempts, NEW at \in Places, NEW done \in SUBSET Examples,
         attempt' = [attempt EXCEPT ![p].at = at, ![p].done = done]
  PROVE  Became(p, at, attempt[p].todo, done, attempt[p].rows)
BY DEF EvalKinds, Became, Holding

\* ... with the rows read ...
LEMMA RowsBecome ==
  ASSUME EvalKinds, NEW p \in Attempts, NEW at \in Places, NEW rows \in Seq(Row),
         attempt' = [attempt EXCEPT ![p].at = at, ![p].rows = rows]
  PROVE  Became(p, at, attempt[p].todo, attempt[p].done, rows)
BY DEF EvalKinds, Became, Holding

\* ... with an answer more and an example less ...
LEMMA AnswersBecome ==
  ASSUME EvalKinds, NEW p \in Attempts, NEW todo \in SUBSET Examples, NEW rows \in Seq(Row),
         attempt' = [attempt EXCEPT ![p].todo = todo, ![p].rows = rows]
  PROVE  Became(p, attempt[p].at, todo, attempt[p].done, rows)
BY DEF EvalKinds, Became, Holding

\* ... or with an example less.
LEMMA TodoAlone ==
  ASSUME EvalKinds, NEW p \in Attempts, NEW todo \in SUBSET Examples,
         attempt' = [attempt EXCEPT ![p].todo = todo]
  PROVE  Became(p, attempt[p].at, todo, attempt[p].done, attempt[p].rows)
BY DEF EvalKinds, Became, Holding

\* Rows are about examples.
LEMMA IdsTyped == ASSUME NEW rows \in Seq(Row) PROVE Ids(rows) \subseteq Examples
<1>1. ASSUME NEW i \in DOMAIN rows PROVE rows[i].id \in Examples
  <2>1. rows[i] \in Row
    OBVIOUS
  <2> QED BY <2>1 DEF Row
<1> QED BY <1>1 DEF Ids

(* A row more, of the same server, and of an example that was not there.   *)
LEMMA AppendOfServer ==
  ASSUME NEW S, NEW rows \in Seq(S), NEW row \in S, NEW v,
         \A i \in DOMAIN rows : rows[i].by = v, row.by = v
  PROVE  /\ Append(rows, row) \in Seq(S)
         /\ \A i \in DOMAIN Append(rows, row) : Append(rows, row)[i].by = v
<1>1. /\ Append(rows, row) \in Seq(S)
      /\ DOMAIN rows = 1..Len(rows) /\ DOMAIN Append(rows, row) = 1..(Len(rows) + 1)
      /\ Len(rows) \in Nat /\ Append(rows, row)[Len(rows) + 1] = row
      /\ \A i \in 1..Len(rows) : Append(rows, row)[i] = rows[i]
  OBVIOUS
<1>2. ASSUME NEW i \in 1..(Len(rows) + 1) PROVE i \in 1..Len(rows) \/ i = Len(rows) + 1
  BY <1>1
<1> QED BY <1>1, <1>2

\* A whole row for an example that had none leaves the rows readable.
LEMMA AppendReadable ==
  ASSUME NEW rows \in Seq(Row), NEW row \in Row, ~row.torn, LoadPredictionRows(rows),
         \A i \in DOMAIN rows : rows[i].id # row.id
  PROVE  /\ LoadPredictionRows(Append(rows, row))
         /\ \A i \in DOMAIN Append(rows, row) :
              Append(rows, row)[i] = row \/ \E j \in DOMAIN rows : Append(rows, row)[i] = rows[j]
<1>1. /\ DOMAIN rows = 1..Len(rows) /\ DOMAIN Append(rows, row) = 1..(Len(rows) + 1)
      /\ Len(rows) \in Nat /\ Append(rows, row)[Len(rows) + 1] = row
      /\ \A i \in 1..Len(rows) : Append(rows, row)[i] = rows[i]
  OBVIOUS
<1>2. ASSUME NEW i \in 1..(Len(rows) + 1) PROVE i \in 1..Len(rows) \/ i = Len(rows) + 1
  BY <1>1
<1> DEFINE more == Append(rows, row)
<1>3. ASSUME NEW i \in DOMAIN more PROVE ~more[i].torn
  BY <1>1, <1>2 DEF LoadPredictionRows
<1>4. ASSUME NEW i \in DOMAIN more, NEW j \in DOMAIN more, more[i].id = more[j].id
      PROVE  i = j
  BY <1>1, <1>2, <1>4 DEF LoadPredictionRows
<1> QED BY <1>1, <1>2, <1>3, <1>4 DEF LoadPredictionRows

\* No rows are readable rows.
LEMMA NothingRead == LoadPredictionRows(<<>>) /\ \A i \in DOMAIN <<>> : FALSE
BY DEF LoadPredictionRows

\* A status is one that may be reported, and one a contract may have.
LEMMA StatusTyped == ASSUME NEW rows PROVE Status(rows) \in {"none", "partial", "complete"}
                                           /\ Status(rows) \in {"in_progress", "partial", "complete"}
BY DEF Status

(* The steps of an invocation, one by one, in these terms.                 *)
LEMMA OpenFreshEffect ==
  ASSUME EvalKinds, NEW p \in Attempts, OpenFresh(p)
  PROVE  /\ attempt[p].at = "open" /\ attempt[p].fresh
         /\ \/ /\ samples = "none" /\ samples' = "fresh"
               /\ Became(p, "generate", Examples, attempt[p].done, attempt[p].rows)
            \/ UNCHANGED samples /\ Gone(p)
         /\ UNCHANGED <<contract, journal>>
         /\ UNCHANGED <<result, compared, server, sweep, sweepFile, mishaps>>
BY QuitGone, TodoBecomes DEF OpenFresh, Stands, Places, sweeping

\* A resumed run takes the directory that another of its kind has left.
LEMMA OpenResumableEffect ==
  ASSUME EvalKinds, NEW p \in Attempts, OpenResumable(p)
  PROVE  /\ attempt[p].at = "open" /\ ~attempt[p].fresh
         /\ \/ samples = "fresh" /\ Gone(p) /\ UNCHANGED samples
            \/ /\ samples # "fresh" /\ samples' = IF samples = "none" THEN "empty" ELSE samples
               /\ Became(p, "contract", attempt[p].todo, attempt[p].done, attempt[p].rows)
         /\ UNCHANGED <<contract, journal>>
         /\ UNCHANGED <<result, compared, server, sweep, sweepFile, mishaps>>
BY QuitGone, MoveBecomes DEF OpenResumable, Stands, Places, sweeping

\* It goes on to read the journal only under a contract of its own server.
LEMMA LookForContractEffect ==
  ASSUME EvalKinds, NEW p \in Attempts, LookForContract(p)
  PROVE  /\ attempt[p].at = "contract"
         /\ \/ /\ samples # "resumable"
               /\ Became(p, "bind", attempt[p].todo, attempt[p].done, attempt[p].rows)
            \/ /\ samples = "resumable" /\ contract.server = attempt[p].server
               /\ Became(p, "load", attempt[p].todo, attempt[p].done, attempt[p].rows)
            \/ Gone(p)
         /\ UNCHANGED <<samples, contract, journal>>
         /\ UNCHANGED <<result, compared, server, sweep, sweepFile, mishaps>>
<1>1. /\ attempt[p].at = "contract"
      /\ UNCHANGED <<samples, contract, journal>>
      /\ UNCHANGED <<result, compared, server, sweep, sweepFile, mishaps>>
  BY DEF LookForContract, Stands, sweeping, files
<1>2. \/ samples # "resumable" /\ Move(p, "bind")
      \/ samples = "resumable" /\ contract.server = attempt[p].server /\ Move(p, "load")
      \/ Quit(p)
  BY DEF LookForContract
<1>3. "bind" \in Places /\ "load" \in Places
  BY DEF Places
<1> QED BY <1>1, <1>2, <1>3, QuitGone, MoveBecomes

\* The contract is for the server it was bound to.
LEMMA WriteContractEffect ==
  ASSUME EvalKinds, NEW p \in Attempts, WriteContract(p)
  PROVE  /\ attempt[p].at = "bind"
         /\ \/ /\ samples' = "resumable" /\ contract'.server = attempt[p].server
               /\ contract' = [server |-> attempt[p].server, status |-> "in_progress"]
               /\ Became(p, "load", attempt[p].todo, attempt[p].done, attempt[p].rows)
            \/ Gone(p) /\ UNCHANGED <<samples, contract>>
         /\ UNCHANGED journal /\ UNCHANGED <<result, compared, server, sweep, sweepFile, mishaps>>
BY QuitGone, MoveBecomes DEF WriteContract, Stands, Places, sweeping

\* What the journal has is left out of what remains to be asked.
LEMMA LoadJournalEffect ==
  ASSUME EvalKinds, NEW p \in Attempts, LoadJournal(p)
  PROVE  /\ attempt[p].at = "load"
         /\ \/ Gone(p)
            \/ \E at \in {"count", "writer"}, todo \in SUBSET Examples :
                 Became(p, at, todo, attempt[p].done, attempt[p].rows)
         /\ UNCHANGED <<samples, contract, journal>>
         /\ UNCHANGED <<result, compared, server, sweep, sweepFile, mishaps>>
<1> DEFINE remaining == Examples \ Ids(journal)
           at == IF remaining = {} THEN "count" ELSE "writer"
<1>1. remaining \in SUBSET Examples /\ at \in {"count", "writer"} /\ at \in Places
  BY DEF Places
<1>2. \/ Quit(p) \/ attempt' = [attempt EXCEPT ![p].todo = remaining, ![p].at = at]
  BY DEF LoadJournal
<1>3. /\ attempt[p].at = "load"
      /\ UNCHANGED <<samples, contract, journal>>
      /\ UNCHANGED <<result, compared, server, sweep, sweepFile, mishaps>>
  BY DEF LoadJournal, Stands, files, sweeping
<1> HIDE DEF remaining, at
<1> QED BY <1>1, <1>2, <1>3, QuitGone, TodoBecomesFirst

\* The journal is read once more when it is opened for writing.
LEMMA OpenWriterEffect ==
  ASSUME EvalKinds, NEW p \in Attempts, OpenWriter(p)
  PROVE  /\ attempt[p].at = "writer"
         /\ \/ Gone(p)
            \/ Became(p, "generate", attempt[p].todo, Ids(journal), attempt[p].rows)
         /\ UNCHANGED <<samples, contract, journal>>
         /\ UNCHANGED <<result, compared, server, sweep, sweepFile, mishaps>>
<1>1. Ids(journal) \in SUBSET Examples
  BY IdsTyped DEF EvalKinds
<1> QED BY <1>1, QuitGone, DoneBecomes DEF OpenWriter, Stands, Places, files, sweeping

\* An answer is written by the server that is there, with one line.
LEMMA GenerateEffect ==
  ASSUME EvalKinds, NEW p \in Attempts, Generate(p)
  PROVE  /\ attempt[p].at = "generate"
         /\ \/ Gone(p) /\ UNCHANGED journal
            \/ \E e \in attempt[p].todo :
                 LET row == [id |-> e, by |-> server, torn |-> FALSE]
                 IN  /\ Became(p, attempt[p].at, attempt[p].todo \ {e}, attempt[p].done,
                                Append(attempt[p].rows, row))
                     /\ journal' = Append(journal, row) /\ row \in Row
         /\ UNCHANGED <<samples, contract>>
         /\ UNCHANGED <<result, compared, server, sweep, sweepFile, mishaps>>
<1>1. /\ attempt[p].at = "generate"
      /\ UNCHANGED <<samples, contract>>
      /\ UNCHANGED <<result, compared, server, sweep, sweepFile, mishaps>>
  BY DEF Generate, Stands, sweeping
<1>2. CASE Quit(p) /\ UNCHANGED journal
  BY <1>1, <1>2, QuitGone
<1>3. ASSUME NEW e \in attempt[p].todo,
             LET row == [id |-> e, by |-> server, torn |-> FALSE]
             IN  /\ attempt' = [attempt EXCEPT ![p].todo = @ \ {e}, ![p].rows = Append(@, row)]
                 /\ journal' = Append(journal, row)
      PROVE  LET row == [id |-> e, by |-> server, torn |-> FALSE]
             IN  /\ Became(p, attempt[p].at, attempt[p].todo \ {e}, attempt[p].done,
                            Append(attempt[p].rows, row))
                 /\ journal' = Append(journal, row) /\ row \in Row
  <2> DEFINE row == [id |-> e, by |-> server, torn |-> FALSE]
  <2>1. attempt[p] \in Holding
    BY DEF EvalKinds
  <2>2. row \in Row
    BY <2>1, RowsTyped DEF EvalKinds, Holding
  <2>3. /\ attempt' = [attempt EXCEPT ![p].todo = attempt[p].todo \ {e},
                                      ![p].rows = Append(attempt[p].rows, row)]
        /\ journal' = Append(journal, row)
    BY <1>3 DEF EvalKinds
  <2> HIDE DEF row
  <2>4. attempt[p].todo \ {e} \in SUBSET Examples /\ Append(attempt[p].rows, row) \in Seq(Row)
    BY <2>1, <2>2 DEF Holding
  <2>5. Became(p, attempt[p].at, attempt[p].todo \ {e}, attempt[p].done, Append(attempt[p].rows, row))
    BY <2>3, <2>4, AnswersBecome
  <2> QED BY <2>2, <2>3, <2>5 DEF row
<1> QED BY <1>1, <1>2, <1>3 DEF Generate

\* A failed request leaves its example out.
LEMMA GenerateFailsEffect ==
  ASSUME EvalKinds, NEW p \in Attempts, GenerateFails(p)
  PROVE  /\ attempt[p].at = "generate" /\ Mishap
         /\ \/ Gone(p)
            \/ \E e \in attempt[p].todo :
                 Became(p, attempt[p].at, attempt[p].todo \ {e}, attempt[p].done, attempt[p].rows)
         /\ UNCHANGED <<samples, contract, journal, result, compared, server, sweep, sweepFile>>
<1>1. ASSUME NEW e \in attempt[p].todo, attempt' = [attempt EXCEPT ![p].todo = @ \ {e}]
      PROVE  Became(p, attempt[p].at, attempt[p].todo \ {e}, attempt[p].done, attempt[p].rows)
  <2>1. /\ attempt[p].todo \ {e} \in SUBSET Examples
        /\ attempt' = [attempt EXCEPT ![p].todo = attempt[p].todo \ {e}]
    BY <1>1 DEF EvalKinds, Holding
  <2> QED BY <2>1, TodoAlone
<1> QED BY <1>1, QuitGone DEF GenerateFails, Stands, files, sweeping

\* At the end a fresh run reports what it holds, a resumed one counts.
LEMMA FinishGenerateEffect ==
  ASSUME EvalKinds, NEW p \in Attempts, FinishGenerate(p)
  PROVE  /\ attempt[p].at = "generate"
         /\ Became(p, IF attempt[p].fresh THEN "report" ELSE "count", attempt[p].todo,
                   attempt[p].done, attempt[p].rows)
         /\ UNCHANGED <<samples, contract, journal>>
         /\ UNCHANGED <<result, compared, server, sweep, sweepFile, mishaps>>
BY MoveBecomes DEF FinishGenerate, Stands, Places, files, sweeping

\* What is counted is read from the journal, whole.
LEMMA CountRowsEffect ==
  ASSUME EvalKinds, NEW p \in Attempts, CountRows(p)
  PROVE  /\ attempt[p].at = "count"
         /\ \/ Gone(p) /\ UNCHANGED contract
            \/ /\ LoadPredictionRows(journal)
               /\ Became(p, "report", attempt[p].todo, attempt[p].done, journal)
               /\ contract' = [contract EXCEPT !.status = Status(journal)]
               /\ contract'.server = contract.server
               /\ contract' \in [server : Versions, status : {"in_progress", "partial", "complete"}]
         /\ UNCHANGED <<samples, journal>>
         /\ UNCHANGED <<result, compared, server, sweep, sweepFile, mishaps>>
<1>1. journal \in Seq(Row) /\ "report" \in Places
  BY DEF EvalKinds, Places
<1>2. CASE ~LoadPredictionRows(journal)
  BY <1>2, QuitGone DEF CountRows, Stands, sweeping
<1>3. CASE LoadPredictionRows(journal)
  <2>1. /\ attempt' = [attempt EXCEPT ![p].at = "report", ![p].rows = journal]
        /\ contract' = [contract EXCEPT !.status = Status(journal)]
    BY <1>3 DEF CountRows
  <2>2. /\ contract'.server = contract.server
        /\ contract' \in [server : Versions, status : {"in_progress", "partial", "complete"}]
    BY <2>1, StatusTyped DEF EvalKinds
  <2>3. Became(p, "report", attempt[p].todo, attempt[p].done, journal)
    BY <1>1, <2>1, RowsBecome
  <2> QED BY <1>3, <2>1, <2>2, <2>3 DEF CountRows, Stands, sweeping
<1> QED BY <1>2, <1>3

\* The result states the rows and the server it was asked of.
LEMMA WriteResultEffect ==
  ASSUME EvalKinds, NEW p \in Attempts, WriteResult(p)
  PROVE  /\ attempt[p].at = "report" /\ Gone(p)
         /\ result' = [status |-> Status(attempt[p].rows), rows |-> attempt[p].rows,
                       server |-> attempt[p].server]
         /\ UNCHANGED <<samples, contract, journal, compared, server, sweep, sweepFile, mishaps>>
BY QuitGone DEF WriteResult, Stands, sweeping

\* A kill may leave half of the line that was being written.
LEMMA KillEvaluationEffect ==
  ASSUME EvalKinds, NEW p \in Attempts, KillEvaluation(p)
  PROVE  /\ attempt[p].at # "rest" /\ Mishap /\ Gone(p)
         /\ \/ UNCHANGED journal
            \/ /\ attempt[p].at = "generate"
               /\ \E row \in Row : row.by = server /\ journal' = Append(journal, row)
         /\ UNCHANGED <<samples, contract, result, compared, server, sweep, sweepFile>>
<1>1. ASSUME NEW e \in attempt[p].todo
      PROVE  [id |-> e, by |-> server, torn |-> TRUE] \in Row
  BY RowsTyped DEF EvalKinds, Holding
<1> QED BY <1>1, QuitGone DEF KillEvaluation, Stands, sweeping

\* A step of an invocation changes nothing that another one or the sweep holds.
LEMMA EvaluationTurns ==
  ASSUME EvalKinds, NEW p \in Attempts, Evaluating(p)
  PROVE  Turns(p)
<1> USE DEF Turns, Became, Gone
<1>1. ASSUME NEW fresh \in BOOLEAN, StartEvaluation(p, fresh) PROVE Turns(p)
  BY <1>1, RowsTyped DEF StartEvaluation, EvalKinds, Holding, Places, AtRest, sweeping, files
<1>2. CASE OpenFresh(p)
  BY <1>2, OpenFreshEffect
<1>3. CASE OpenResumable(p)
  BY <1>3, OpenResumableEffect
<1>4. CASE LookForContract(p)
  BY <1>4, LookForContractEffect
<1>5. CASE WriteContract(p)
  BY <1>5, WriteContractEffect
<1>6. CASE LoadJournal(p)
  BY <1>6, LoadJournalEffect
<1>7. CASE OpenWriter(p)
  BY <1>7, OpenWriterEffect
<1>8. CASE Generate(p)
  BY <1>8, GenerateEffect
<1>9. CASE GenerateFails(p)
  BY <1>9, GenerateFailsEffect
<1>10. CASE FinishGenerate(p)
  BY <1>10, FinishGenerateEffect
<1>11. CASE CountRows(p)
  BY <1>11, CountRowsEffect
<1>12. CASE WriteResult(p)
  BY <1>12, WriteResultEffect
<1>13. CASE KillEvaluation(p)
  BY <1>13, KillEvaluationEffect
<1> QED BY <1>1, <1>2, <1>3, <1>4, <1>5, <1>6, <1>7, <1>8, <1>9, <1>10, <1>11, <1>12, <1>13
      DEF Evaluating

\* Mishaps are counted.
LEMMA MishapTyped == ASSUME mishaps \in 0..MaxMishaps, Mishap PROVE mishaps' \in 0..MaxMishaps
BY EvaluationAssumption DEF Mishap

\* Every step of an invocation keeps the kinds.
LEMMA EvaluationKinds ==
  ASSUME EvalKinds, NEW p \in Attempts, Evaluating(p)
  PROVE  EvalKinds'
<1>0. Turns(p) /\ attempt[p] \in Holding
  BY EvaluationTurns DEF EvalKinds
<1>a. attempt[p].rows \in Seq(Row) /\ attempt[p].server \in Versions
  BY <1>0 DEF Holding
<1> USE <1>0, <1>a, MishapTyped, StatusTyped DEF EvalKinds, Turns
<1>1. ASSUME NEW fresh \in BOOLEAN, StartEvaluation(p, fresh) PROVE EvalKinds'
  BY <1>1 DEF StartEvaluation, files
<1>2. CASE OpenFresh(p)
  BY <1>2, OpenFreshEffect
<1>3. CASE OpenResumable(p)
  BY <1>3, OpenResumableEffect
<1>4. CASE LookForContract(p)
  BY <1>4, LookForContractEffect
<1>5. CASE WriteContract(p)
  BY <1>5, WriteContractEffect
<1>6. CASE LoadJournal(p)
  BY <1>6, LoadJournalEffect
<1>7. CASE OpenWriter(p)
  BY <1>7, OpenWriterEffect
<1>8. CASE Generate(p)
  <2>1. \A row \in Row : Append(journal, row) \in Seq(Row)
    OBVIOUS
  <2>2. UNCHANGED journal \/ \E row \in Row : journal' = Append(journal, row)
    BY <1>8, GenerateEffect, Zenon
  <2>3. journal' \in Seq(Row)
    BY <2>1, <2>2
  <2> QED BY <1>8, <2>3, GenerateEffect
<1>9. CASE GenerateFails(p)
  BY <1>9, GenerateFailsEffect
<1>10. CASE FinishGenerate(p)
  BY <1>10, FinishGenerateEffect
<1>11. CASE CountRows(p)
  BY <1>11, CountRowsEffect
<1>12. CASE WriteResult(p)
  BY <1>12, WriteResultEffect
<1>13. CASE KillEvaluation(p)
  <2>1. \A row \in Row : Append(journal, row) \in Seq(Row)
    OBVIOUS
  <2>2. journal' \in Seq(Row)
    BY <1>13, <2>1, KillEvaluationEffect
  <2> QED BY <1>13, <2>2, KillEvaluationEffect
<1> QED BY <1>1, <1>2, <1>3, <1>4, <1>5, <1>6, <1>7, <1>8, <1>9, <1>10, <1>11, <1>12, <1>13
      DEF Evaluating

(* What the others rely on stands as long as a contract names the server   *)
(* that runs.                                                              *)
LEMMA OthersHold ==
  ASSUME EvalInv, NEW p \in Attempts, Turns(p),
         \/ UNCHANGED samples /\ contract'.server = contract.server
         \/ samples = "none" /\ samples' \in {"fresh", "empty"} /\ UNCHANGED contract
         \/ samples \in {"empty", "resumable"} /\ samples' = "resumable"
              /\ contract'.server = server,
         Holds(attempt[p])'
  PROVE  \A q \in Attempts : Holds(attempt[q])'
<1>1. ASSUME NEW q \in Attempts \ {p} PROVE Holds(attempt[q])'
  <2>1. attempt'[q] = attempt[q] /\ server' = server
    BY DEF Turns
  <2>2. Holds(attempt[q])
    BY DEF EvalInv
  <2> QED BY <2>1, <2>2 DEF Holds, Resumed, EvalInv, EvalKinds, Holding
<1> QED BY <1>1

\* Every step of an invocation keeps what it and the others rely on.
LEMMA HoldsStep ==
  ASSUME EvalInv, NEW p \in Attempts, Evaluating(p)
  PROVE  \A q \in Attempts : Holds(attempt[q])'
<1> DEFINE Goal == \A q \in Attempts : Holds(attempt[q])'
<1>0. /\ Turns(p) /\ Holds(attempt[p]) /\ EvalKinds /\ JournalKept
      /\ attempt[p].fresh \in BOOLEAN /\ attempt[p].at \in Places
      /\ AtRest.at = "rest" /\ AtRest.fresh = FALSE
  BY EvaluationTurns DEF EvalInv, EvalKinds, Holding, AtRest
<1> USE <1>0
<1>1. ASSUME NEW fresh \in BOOLEAN, StartEvaluation(p, fresh) PROVE Goal
  <2>1. Holds(attempt[p])'
    BY <1>1 DEF StartEvaluation, Stands, files, AtRest, sweeping, EvalKinds, Became, Gone,
       Holds, Resumed, JournalKept, Places
  <2> QED BY <1>1, <2>1, OthersHold
        DEF StartEvaluation, Stands, files, AtRest, sweeping, Holds, Resumed
<1>2. CASE OpenFresh(p)
  <2>1. Holds(attempt[p])'
    BY <1>2, OpenFreshEffect, NothingRead
       DEF EvalKinds, Became, Gone, Holds, Resumed, JournalKept, Places
  <2> QED BY <1>2, <2>1, OthersHold, OpenFreshEffect DEF Holds, Resumed
<1>3. CASE OpenResumable(p)
  <2>1. Holds(attempt[p])'
    BY <1>3, OpenResumableEffect DEF EvalKinds, Became, Gone, Holds, Resumed, JournalKept, Places
  <2> QED BY <1>3, <2>1, OthersHold, OpenResumableEffect DEF Holds, Resumed
<1>4. CASE LookForContract(p)
  <2>1. Holds(attempt[p])'
    BY <1>4, LookForContractEffect
       DEF EvalKinds, Became, Gone, Holds, Resumed, JournalKept, Places
  <2> QED BY <1>4, <2>1, OthersHold, LookForContractEffect DEF Holds, Resumed
<1>5. CASE WriteContract(p)
  <2>1. Holds(attempt[p])'
    BY <1>5, WriteContractEffect DEF EvalKinds, Became, Gone, Holds, Resumed, JournalKept, Places
  <2> QED BY <1>5, <2>1, OthersHold, WriteContractEffect DEF Holds, Resumed
<1>6. CASE LoadJournal(p)
  <2>1. Holds(attempt[p])'
    BY <1>6, LoadJournalEffect DEF EvalKinds, Became, Gone, Holds, Resumed, JournalKept, Places
  <2> QED BY <1>6, <2>1, OthersHold, LoadJournalEffect DEF Holds, Resumed
<1>7. CASE OpenWriter(p)
  <2>1. Holds(attempt[p])'
    BY <1>7, OpenWriterEffect, NothingRead
       DEF EvalKinds, Became, Gone, Holds, Resumed, JournalKept, Places
  <2> QED BY <1>7, <2>1, OthersHold, OpenWriterEffect DEF Holds, Resumed
<1>8. CASE Generate(p)
  <2>1. Holds(attempt[p])'
    <3>1. /\ attempt[p].at = "generate" /\ UNCHANGED <<samples, contract, server>>
          /\ \/ Gone(p)
             \/ \E e \in attempt[p].todo :
                  LET row == [id |-> e, by |-> server, torn |-> FALSE]
                  IN  /\ Became(p, attempt[p].at, attempt[p].todo \ {e}, attempt[p].done,
                                Append(attempt[p].rows, row))
                      /\ row \in Row
      BY <1>8, GenerateEffect
    <3>2. CASE Gone(p)
      BY <3>1, <3>2 DEF Gone, Holds, Resumed
    <3>3. ASSUME NEW e \in attempt[p].todo, NEW row \in Row,
                 row.id = e, row.by = server, ~row.torn,
                 Became(p, attempt[p].at, attempt[p].todo \ {e}, attempt[p].done,
                        Append(attempt[p].rows, row))
          PROVE  Holds(attempt[p])'
      <4> DEFINE rows == attempt[p].rows
                 more == Append(rows, row)
      <4>1. /\ rows \in Seq(Row) /\ LoadPredictionRows(rows)
            /\ \A i \in DOMAIN rows : rows[i].by = server
            /\ \A i \in DOMAIN rows : rows[i].id \notin attempt[p].todo
        BY <3>1 DEF Holds, EvalKinds, Holding
      <4>2. /\ LoadPredictionRows(more)
            /\ \A i \in DOMAIN more : more[i] = row \/ \E j \in DOMAIN rows : more[i] = rows[j]
        <5>1. \A i \in DOMAIN rows : rows[i].id # row.id
          BY <3>3, <4>1
        <5> HIDE DEF rows
        <5> QED BY <3>3, <4>1, <5>1, AppendReadable
      <4> HIDE DEF rows, more
      <4>3. /\ \A i \in DOMAIN more : more[i].by = server
            /\ \A i \in DOMAIN more : more[i].id \notin attempt[p].todo \ {e}
        BY <3>3, <4>1, <4>2
      <4>4. /\ attempt'[p].at = "generate" /\ attempt'[p].rows = more
            /\ attempt'[p].todo = attempt[p].todo \ {e} /\ attempt'[p].fresh = attempt[p].fresh
            /\ attempt'[p].server = attempt[p].server
        BY <3>1, <3>3 DEF Became, rows, more
      <4> QED BY <3>1, <4>2, <4>3, <4>4 DEF Holds, Resumed
    <3> QED BY <3>1, <3>2, <3>3
  <2> QED BY <1>8, <2>1, OthersHold, GenerateEffect DEF Holds, Resumed
<1>9. CASE GenerateFails(p)
  <2>1. Holds(attempt[p])'
    BY <1>9, GenerateFailsEffect DEF EvalKinds, Became, Gone, Holds, Resumed, JournalKept, Places
  <2> QED BY <1>9, <2>1, OthersHold, GenerateFailsEffect DEF Holds, Resumed
<1>10. CASE FinishGenerate(p)
  <2>1. Holds(attempt[p])'
    BY <1>10, FinishGenerateEffect
       DEF EvalKinds, Became, Gone, Holds, Resumed, JournalKept, Places
  <2> QED BY <1>10, <2>1, OthersHold, FinishGenerateEffect DEF Holds, Resumed
<1>11. CASE CountRows(p)
  <2>1. Holds(attempt[p])'
    BY <1>11, CountRowsEffect DEF EvalKinds, Became, Gone, Holds, Resumed, JournalKept, Places
  <2> QED BY <1>11, <2>1, OthersHold, CountRowsEffect DEF Holds, Resumed
<1>12. CASE WriteResult(p)
  <2>1. Holds(attempt[p])'
    BY <1>12, WriteResultEffect DEF EvalKinds, Became, Gone, Holds, Resumed, JournalKept, Places
  <2> QED BY <1>12, <2>1, OthersHold, WriteResultEffect DEF Holds, Resumed
<1>13. CASE KillEvaluation(p)
  <2>1. Holds(attempt[p])'
    BY <1>13, KillEvaluationEffect
       DEF EvalKinds, Became, Gone, Holds, Resumed, JournalKept, Places
  <2> QED BY <1>13, <2>1, OthersHold, KillEvaluationEffect DEF Holds, Resumed
<1> QED BY <1>1, <1>2, <1>3, <1>4, <1>5, <1>6, <1>7, <1>8, <1>9, <1>10, <1>11, <1>12, <1>13
      DEF Evaluating

\* The journal stays that of its contract.
LEMMA JournalStep ==
  ASSUME EvalInv, NEW p \in Attempts, Evaluating(p)
  PROVE  JournalKept'
<1>0. /\ Holds(attempt[p]) /\ journal \in Seq(Row) /\ attempt[p].fresh \in BOOLEAN
        /\ EvalKinds /\ JournalKept
  BY DEF EvalInv, EvalKinds, Holding
<1> USE <1>0 DEF JournalKept, Holds, Resumed
<1>1. ASSUME NEW fresh \in BOOLEAN, StartEvaluation(p, fresh) PROVE JournalKept'
  BY <1>1 DEF StartEvaluation, files
<1>2. CASE OpenFresh(p)
  BY <1>2, OpenFreshEffect
<1>3. CASE OpenResumable(p)
  BY <1>3, OpenResumableEffect
<1>4. CASE LookForContract(p)
  BY <1>4, LookForContractEffect
<1>5. CASE WriteContract(p)
  BY <1>5, WriteContractEffect
<1>6. CASE LoadJournal(p)
  BY <1>6, LoadJournalEffect
<1>7. CASE OpenWriter(p)
  BY <1>7, OpenWriterEffect
<1>8. CASE Generate(p)
  <2>1. CASE UNCHANGED <<journal, samples, contract>>
    BY <2>1
  <2>2. ASSUME NEW row \in Row, row.by = server, journal' = Append(journal, row)
        PROVE  JournalKept'
    <3>1. attempt[p].at = "generate" /\ UNCHANGED <<samples, contract>>
      BY <1>8, GenerateEffect
    <3>2. samples = "fresh" \/ (samples = "resumable" /\ contract.server = server)
      <4>1. CASE attempt[p].fresh
        BY <3>1, <4>1
      <4>2. CASE ~attempt[p].fresh
        BY <3>1, <4>2
      <4> QED BY <4>1, <4>2
    <3>3. CASE samples = "fresh"
      BY <3>1, <3>3
    <3>4. CASE samples = "resumable" /\ contract.server = server
      <4>1. \A i \in DOMAIN journal : journal[i].by = server
        BY <3>4
      <4>2. \A i \in DOMAIN Append(journal, row) : Append(journal, row)[i].by = server
        BY <2>2, <4>1, AppendOfServer
      <4> QED BY <2>2, <3>1, <3>4, <4>2
    <3> QED BY <3>2, <3>3, <3>4
  <2> QED BY <1>8, <2>1, <2>2, GenerateEffect
<1>9. CASE GenerateFails(p)
  BY <1>9, GenerateFailsEffect
<1>10. CASE FinishGenerate(p)
  BY <1>10, FinishGenerateEffect
<1>11. CASE CountRows(p)
  BY <1>11, CountRowsEffect
<1>12. CASE WriteResult(p)
  BY <1>12, WriteResultEffect
<1>13. CASE KillEvaluation(p)
  BY <1>13, KillEvaluationEffect
<1> QED BY <1>1, <1>2, <1>3, <1>4, <1>5, <1>6, <1>7, <1>8, <1>9, <1>10, <1>11, <1>12, <1>13
      DEF Evaluating

\* A result is of one server, and of examples that were answered once.
LEMMA EvalReportStep ==
  ASSUME EvalInv, NEW p \in Attempts, Evaluating(p)
  PROVE  ReportExact'
<1>0. Holds(attempt[p])
  BY DEF EvalInv
<1>1. CASE WriteResult(p)
  <2>1. /\ LoadPredictionRows(attempt[p].rows)
        /\ \A i \in DOMAIN attempt[p].rows : attempt[p].rows[i].by = attempt[p].server
    BY <1>0, <1>1 DEF WriteResult, Stands, Holds
  <2>2. result' = [status |-> Status(attempt[p].rows), rows |-> attempt[p].rows,
                   server |-> attempt[p].server]
    BY <1>1 DEF WriteResult
  <2>3. Status(attempt[p].rows) = "complete" => Ids(attempt[p].rows) = Examples
    BY DEF Status
  <2> QED BY <2>1, <2>2, <2>3 DEF ReportExact
<1>2. CASE UNCHANGED result
  BY <1>2 DEF EvalInv, ReportExact
<1> QED BY <1>1, <1>2 DEF Evaluating, StartEvaluation, OpenFresh, OpenResumable, LookForContract,
      WriteContract, LoadJournal, OpenWriter, Generate, GenerateFails, FinishGenerate, CountRows,
      KillEvaluation, files

-----------------------------------------------------------------------------
(* The sweep.                                                              *)
(* A sweep changes one or the other, in typed ways.                        *)
LEMMA CellTyped ==
  ASSUME SweepKinds, SweepFacts, NEW cell \in CellRun, NEW at \in {"measure", "write"},
         \A i \in DOMAIN sweep.runs : sweep.runs[i].by = server, cell.by = server,
         Len(sweep.runs) < Cells,
         sweep' = [sweep EXCEPT !.at = at, !.runs = Append(sweep.runs, cell)]
  PROVE  /\ sweep' \in [at : {"rest", "measure", "write", "close"}, binary : Versions,
                        previous : Seq(CellRun), runs : Seq(CellRun)]
         /\ sweep'.at = at /\ sweep'.binary = sweep.binary /\ sweep'.previous = sweep.previous
         /\ \A i \in DOMAIN sweep'.runs : sweep'.runs[i].by = server
         /\ Len(sweep'.runs) <= Cells
<1>1. sweep.runs \in Seq(CellRun)
  BY DEF SweepKinds
<1>2. /\ Append(sweep.runs, cell) \in Seq(CellRun)
      /\ \A i \in DOMAIN Append(sweep.runs, cell) : Append(sweep.runs, cell)[i].by = server
  BY <1>1, AppendOfServer
<1>3. Len(Append(sweep.runs, cell)) <= Cells
  BY <1>1, EvaluationAssumption
<1>4. /\ sweep'.at = at /\ sweep'.binary = sweep.binary /\ sweep'.previous = sweep.previous
      /\ sweep'.runs = Append(sweep.runs, cell)
      /\ sweep' = [at |-> at, binary |-> sweep.binary, previous |-> sweep.previous,
                   runs |-> Append(sweep.runs, cell)]
  BY DEF SweepKinds
<1>5. sweep.binary \in Versions /\ sweep.previous \in Seq(CellRun)
  BY DEF SweepKinds
<1> HIDE DEF SweepKinds
<1> QED BY <1>2, <1>3, <1>4, <1>5

\* The sweep resumes cells of its own binary only, and writes them in their order.
LEMMA SweepStep ==
  ASSUME EvalInv, Sweeping
  PROVE  (SweepKinds /\ SweepFacts /\ SweepExact)'
<1> DEFINE Goal == (SweepKinds /\ SweepFacts /\ SweepExact)'
<1>a. /\ SweepKinds /\ SweepFacts /\ SweepExact /\ server \in Versions
      /\ sweep.runs \in Seq(CellRun) /\ sweep.previous \in Seq(CellRun)
      /\ sweepFile.runs \in Seq(CellRun) /\ sweep.binary \in Versions
      /\ 0 \in Versions /\ Cells \in Nat /\ <<>> \in Seq(CellRun)
  BY EvaluationAssumption DEF EvalInv, EvalKinds, SweepKinds, Versions
<1> USE <1>a
<1>b. ASSUME sweep' = SweepAtRest,
             \/ UNCHANGED sweepFile
             \/ sweepFile' = [state |-> "torn", binary |-> 0, runs |-> <<>>, completed |-> FALSE]
      PROVE  Goal
  <2>1. /\ sweep'.at = "rest" /\ sweep'.binary = 0 /\ sweep'.previous = <<>>
        /\ sweep'.runs = <<>>
        /\ sweep' \in [at : {"rest", "measure", "write", "close"}, binary : Versions,
                        previous : Seq(CellRun), runs : Seq(CellRun)]
    BY <1>b DEF SweepAtRest
  <2>2. CASE UNCHANGED sweepFile
    BY <2>1, <2>2 DEF SweepKinds, SweepFacts, SweepExact
  <2>3. CASE sweepFile' = [state |-> "torn", binary |-> 0, runs |-> <<>>, completed |-> FALSE]
    <3>1. /\ sweepFile'.state = "torn" /\ sweepFile'.runs = <<>>
          /\ sweepFile' \in [state : {"none", "torn", "whole"}, binary : Versions,
                              runs : Seq(CellRun), completed : BOOLEAN]
      BY <2>3
    <3> QED BY <2>1, <3>1 DEF SweepKinds, SweepFacts, SweepExact
  <2> QED BY <1>b, <2>2, <2>3
<1>1. CASE StartSweep
  <2>1. /\ UNCHANGED <<sweepFile, server>>
        /\ sweep' = [at |-> "measure", binary |-> server, previous |-> sweepFile.runs, runs |-> <<>>]
        /\ \A i \in DOMAIN sweepFile.runs : sweepFile.runs[i].by = server
    BY <1>1 DEF StartSweep, SweepExact, SweepFacts, SweepKinds
  <2> QED BY <2>1 DEF SweepKinds, SweepFacts, SweepExact
<1>2. CASE TakeCell
  <2> DEFINE cell == sweep.previous[Len(sweep.runs) + 1]
  <2>1. /\ sweep.at = "measure" /\ Len(sweep.runs) < Len(sweep.previous)
        /\ UNCHANGED <<sweepFile, server>>
        /\ sweep' = [sweep EXCEPT !.runs = Append(sweep.runs, cell)]
    BY <1>2 DEF TakeCell, SweepKinds
  <2>2. Len(sweep.runs) + 1 \in DOMAIN sweep.previous /\ Len(sweep.runs) < Cells
    BY <2>1 DEF SweepFacts
  <2>3. cell \in CellRun /\ cell.by = server /\ sweep.binary = server
    BY <2>1, <2>2 DEF SweepFacts
  <2> HIDE DEF cell
  <2>4. sweep' = [sweep EXCEPT !.at = "measure", !.runs = Append(sweep.runs, cell)]
    BY <2>1 DEF SweepKinds
  <2>5. \A i \in DOMAIN sweep.runs : sweep.runs[i].by = server
    BY <2>1 DEF SweepFacts
  <2>6. /\ sweep' \in [at : {"rest", "measure", "write", "close"}, binary : Versions,
                        previous : Seq(CellRun), runs : Seq(CellRun)]
        /\ sweep'.at = "measure" /\ sweep'.binary = sweep.binary
        /\ sweep'.previous = sweep.previous
        /\ \A i \in DOMAIN sweep'.runs : sweep'.runs[i].by = server
        /\ Len(sweep'.runs) <= Cells
    <3> HIDE <1>a DEF Goal
    <3>1. SweepKinds /\ SweepFacts
      BY <1>a
    <3> QED BY ONLY <2>2, <2>3, <2>4, <2>5, <3>1, CellTyped
  <2> QED BY <2>1, <2>3, <2>6 DEF SweepKinds, SweepFacts, SweepExact
<1>3. CASE MeasureCell
  <2>1. PICK status \in {"accepted", "rejected", "timeout"} :
           sweep' = [sweep EXCEPT !.at = "write",
                       !.runs = Append(@, [by |-> server, status |-> status])]
    BY <1>3 DEF MeasureCell
  <2> DEFINE cell == [by |-> server, status |-> status]
  <2>2. sweep.at = "measure" /\ Len(sweep.runs) < Cells /\ UNCHANGED <<sweepFile, server>>
    BY <1>3 DEF MeasureCell
  <2>3. cell \in CellRun /\ cell.by = server /\ sweep.binary = server
    BY <2>2 DEF SweepFacts, CellRun
  <2>4. sweep' = [sweep EXCEPT !.at = "write", !.runs = Append(sweep.runs, cell)]
    BY <2>1 DEF SweepKinds
  <2> HIDE DEF cell
  <2>5. \A i \in DOMAIN sweep.runs : sweep.runs[i].by = server
    BY <2>2 DEF SweepFacts
  <2>6. /\ sweep' \in [at : {"rest", "measure", "write", "close"}, binary : Versions,
                        previous : Seq(CellRun), runs : Seq(CellRun)]
        /\ sweep'.at = "write" /\ sweep'.binary = sweep.binary
        /\ sweep'.previous = sweep.previous
        /\ \A i \in DOMAIN sweep'.runs : sweep'.runs[i].by = server
        /\ Len(sweep'.runs) <= Cells
    <3> HIDE <1>a DEF Goal
    <3>1. SweepKinds /\ SweepFacts
      BY <1>a
    <3> QED BY ONLY <2>2, <2>3, <2>4, <2>5, <3>1, CellTyped
  <2> QED BY <2>2, <2>3, <2>6 DEF SweepKinds, SweepFacts, SweepExact
<1>4. CASE WriteSweep
  <2>1. /\ sweep.at \in {"write", "close"} /\ UNCHANGED server
        /\ sweepFile' = [state |-> "whole", binary |-> sweep.binary, runs |-> sweep.runs,
                         completed |-> sweep.at = "close"]
        /\ sweep' = IF sweep.at = "close" THEN SweepAtRest ELSE [sweep EXCEPT !.at = "measure"]
    BY <1>4 DEF WriteSweep
  <2>2. /\ sweep.binary = server /\ \A i \in DOMAIN sweep.runs : sweep.runs[i].by = server
        /\ \A i \in DOMAIN sweep.previous : sweep.previous[i].by = server
        /\ Len(sweep.runs) <= Cells /\ Len(sweep.previous) <= Cells
        /\ sweep.at = "close" => Len(sweep.runs) = Cells
    BY <2>1 DEF SweepFacts
  <2>3. sweepFile' \in [state : {"none", "torn", "whole"}, binary : Versions,
                        runs : Seq(CellRun), completed : BOOLEAN]
    BY <2>1
  <2>4. /\ sweepFile'.state = "whole" /\ sweepFile'.binary = server
        /\ sweepFile'.runs = sweep.runs /\ (sweepFile'.completed => sweep.at = "close")
    BY <2>1, <2>2
  <2>5. SweepExact'
    BY <2>2, <2>4 DEF SweepExact
  <2>6. CASE sweep.at = "close"
    BY <2>1, <2>2, <2>3, <2>4, <2>5, <2>6 DEF SweepAtRest, SweepKinds, SweepFacts
  <2>7. CASE sweep.at # "close"
    <3>1. /\ sweep' \in [at : {"rest", "measure", "write", "close"}, binary : Versions,
                          previous : Seq(CellRun), runs : Seq(CellRun)]
          /\ sweep'.at = "measure" /\ sweep'.binary = sweep.binary
          /\ sweep'.runs = sweep.runs /\ sweep'.previous = sweep.previous
      BY <2>1, <2>7 DEF SweepKinds
    <3> QED BY <2>1, <2>2, <2>3, <2>4, <2>5, <3>1 DEF SweepKinds, SweepFacts
  <2> QED BY <2>6, <2>7
<1>5. CASE Summarize
  <2>1. /\ sweep.at = "measure" /\ Len(sweep.runs) = Cells /\ UNCHANGED <<sweepFile, server>>
        /\ sweep' = [sweep EXCEPT !.at = "close"] \/ sweep' = SweepAtRest
    BY <1>5 DEF Summarize
  <2>2. CASE sweep' = [sweep EXCEPT !.at = "close"]
    <3>1. /\ sweep' \in [at : {"rest", "measure", "write", "close"}, binary : Versions,
                          previous : Seq(CellRun), runs : Seq(CellRun)]
          /\ sweep'.at = "close" /\ sweep'.binary = sweep.binary
          /\ sweep'.runs = sweep.runs /\ sweep'.previous = sweep.previous
      BY <2>2 DEF SweepKinds
    <3> QED BY <2>1, <3>1 DEF SweepKinds, SweepFacts, SweepExact
  <2> QED BY <2>1, <2>2, <1>b
<1>6. CASE KillSweep
  BY <1>6, <1>b DEF KillSweep, NoSweep
<1> QED BY <1>1, <1>2, <1>3, <1>4, <1>5, <1>6 DEF Sweeping

\* Together: every step keeps the inductive invariant.
LEMMA EvalInvStep == EvalInv /\ [EvalNext]_evalVars => EvalInv'
<1> SUFFICES ASSUME EvalInv, [EvalNext]_evalVars PROVE EvalInv' OBVIOUS
<1>1. ASSUME NEW p \in Attempts, Evaluating(p) PROVE EvalInv'
  <2>1. (SweepKinds /\ SweepFacts /\ SweepExact)'
    BY <1>1, EvaluationTurns DEF EvalInv, Turns, SweepKinds, SweepFacts, SweepExact
  <2> QED BY <1>1, <2>1, EvaluationKinds, HoldsStep, JournalStep, EvalReportStep DEF EvalInv
<1>2. CASE Sweeping
  <2>1. UNCHANGED <<attempt, files, server>> /\ mishaps' \in 0..MaxMishaps
    BY <1>2, EvaluationAssumption
       DEF Sweeping, StartSweep, TakeCell, MeasureCell, WriteSweep, Summarize, KillSweep,
       Mishap, Calm,
       EvalInv, EvalKinds
  <2>2. EvalKinds' /\ (\A p \in Attempts : Holds(attempt[p])') /\ JournalKept' /\ ReportExact'
    BY <2>1 DEF EvalInv, EvalKinds, Holds, JournalKept, ReportExact, files
  <2> QED BY <1>2, <2>2, SweepStep DEF EvalInv
<1>3. CASE CompareResults
  BY <1>3 DEF CompareResults, EvalInv, EvalKinds, Holds, JournalKept, ReportExact, SweepKinds,
     SweepFacts, SweepExact, sweeping
<1>4. CASE ExchangeBuild
  <2>1. /\ UNCHANGED <<attempt, files, sweep, sweepFile>> /\ sweep.at = "rest"
        /\ \A p \in Attempts : attempt[p].at = "rest" /\ ~attempt[p].fresh
    BY <1>4 DEF ExchangeBuild, sweeping, SweepAtRest, Stands, EvalInv, Holds, EvalKinds, Holding
  <2>2. server' \in Versions /\ mishaps' \in 0..MaxMishaps
    BY <1>4, EvaluationAssumption DEF ExchangeBuild, EvalInv, EvalKinds, Versions, Mishap
  <2>3. EvalKinds' /\ JournalKept' /\ ReportExact'
    BY <2>1, <2>2 DEF EvalInv, EvalKinds, JournalKept, ReportExact, files
  <2>4. \A p \in Attempts : Holds(attempt[p])'
    BY <2>1 DEF Holds, Resumed
  <2>5. (SweepKinds /\ SweepFacts /\ SweepExact)'
    BY <2>1 DEF EvalInv, SweepKinds, SweepFacts, SweepExact
  <2> QED BY <2>3, <2>4, <2>5 DEF EvalInv
<1>5. CASE UNCHANGED evalVars
  BY <1>5 DEF evalVars, sweeping, EvalInv, EvalKinds, Holds, JournalKept, ReportExact, SweepKinds,
     SweepFacts, SweepExact
<1> QED BY <1>1, <1>2, <1>3, <1>4, <1>5 DEF EvalNext, QualityNext, SweepNext, Evaluating, Sweeping

\* The inductive invariant of the quality evaluation and the sweep.
LEMMA EvalInvAlways == EvalSpec => []EvalInv
<1>1. EvalInit => EvalInv
  <2> SUFFICES ASSUME EvalInit PROVE EvalInv OBVIOUS
  <2>1. EvalKinds
    BY RowsTyped, EvaluationAssumption DEF EvalInit, EvalKinds, NoResult, Versions
  <2>2. (\A p \in Attempts : Holds(attempt[p])) /\ JournalKept /\ ReportExact
    BY DEF EvalInit, Holds, Resumed, AtRest, JournalKept, ReportExact, NoResult
  <2>3. SweepKinds /\ SweepFacts /\ SweepExact
    BY EvaluationAssumption DEF EvalInit, SweepKinds, SweepFacts, SweepExact, SweepAtRest,
       NoSweep, Versions
  <2> QED BY <2>1, <2>2, <2>3 DEF EvalInv
<1> QED BY <1>1, EvalInvStep, PTL DEF EvalSpec

\* A reported evaluation, resumed as often as it may be, has each example once and
\* every answer from the server it names; the file of a sweep has cells of its own
\* binary only, and is complete with all of them (benchmark_quality, validate_identity,
\* main of the capacity qualification).
THEOREM EvaluationsAlwaysExact == EvalSpec => []EvaluationsExact
<1>1. EvalInv => EvaluationsExact
  BY DEF EvalInv, EvaluationsExact
<1> QED BY <1>1, EvalInvAlways, PTL

-----------------------------------------------------------------------------
(* The retained tensor reports (TensorReports).                            *)

(* What the generator has established once it writes: the lanes it parsed  *)
(* may be compared, and while the summary is due the tensor report in      *)
(* place is the one it would write.                                        *)
LanesAgree ==
  working \in {"tensor", "summary"} => SameNativeIdentity /\ Classifiable

ReportDue ==
  working = "summary" => tensorReport = BuildTensorReport

ReportInv == ReportTypeOK /\ LanesAgree /\ ReportDue /\ RetainedReconcile

\* What a compile of a lane leaves is of its kind.
LEMMA CompilesTyped ==
  /\ NoCompile \in Compiles /\ Nothing \in [Lanes -> Compiles]
  /\ \A w \in Worktree, n \in 0..MaxCompiles :
       [commit |-> w.commit, dirty |-> w.dirty, encoder |-> w.encoder, run |-> n] \in Compiles
<1>1. 0 \in 0..MaxRevisions /\ 0 \in 0..MaxCompiles
  BY ReportAssumption
<1> QED BY <1>1 DEF NoCompile, Compiles, Nothing, Worktree

\* Every step keeps the kinds.
LEMMA ReportTypeStep ==
  ASSUME ReportInv, [ReportNext]_reportVars PROVE ReportTypeOK'
<1> USE ReportAssumption, CompilesTyped DEF ReportInv, ReportTypeOK
<1>1. CASE Revise
  <2>1. worktree' \in Worktree
    BY <1>1 DEF Revise, Worktree
  <2> QED BY <1>1, <2>1 DEF Revise, retained, parsedLanes, written
<1>2. ASSUME NEW l \in Lanes, CompileLane(l) PROVE ReportTypeOK'
  <2>1. compile' \in [Lanes -> Compiles]
    BY <1>2 DEF CompileLane
  <2> QED BY <1>2, <2>1 DEF CompileLane, retained, parsedLanes, written
<1>3. ASSUME NEW l \in Lanes, RetainReport(l) \/ RetainManifest(l) PROVE ReportTypeOK'
  <2>1. laneReport' \in [Lanes -> Compiles] /\ laneManifest' \in [Lanes -> Compiles]
    BY <1>3 DEF RetainReport, RetainManifest
  <2> QED BY <1>3, <2>1 DEF RetainReport, RetainManifest, parsedLanes, written
<1>4. CASE StartReport
  BY <1>4 DEF StartReport, World05, retained, written
<1>5. ASSUME NEW l \in Lanes, LoadLane(l) PROVE ReportTypeOK'
  <2>1. loaded' \in [Lanes -> Compiles] /\ named' \in [Lanes -> Compiles]
    BY <1>5 DEF LoadLane, Leave
  <2> QED BY <1>5, <2>1 DEF LoadLane, Leave, World05, retained, written
<1>6. ASSUME NEW l \in Lanes, ValidateLane(l) PROVE ReportTypeOK'
  <2>1. loaded' \in [Lanes -> Compiles] /\ named' \in [Lanes -> Compiles]
    BY <1>6 DEF ValidateLane, Leave
  <2> QED BY <1>6, <2>1 DEF ValidateLane, Leave, World05, retained, written
<1>7. CASE WriteTensorReport
  <2>1. tensorReport' \in {tensorReport, BuildTensorReport}
    BY <1>7 DEF WriteTensorReport, Leave
  <2>2. /\ tensorReport'.of \in [Lanes -> Compiles] /\ tensorReport'.names \in [Lanes -> Compiles]
        /\ tensorReport'.class \in {"none", "clean", "diagnostic"}
    BY <2>1 DEF BuildTensorReport, EvidenceClass
  <2> QED BY <1>7, <2>2 DEF WriteTensorReport, Leave, World05, retained, parsedLanes
<1>8. CASE WriteQatSummary
  <2>1. qatSummary' \in {qatSummary, BuildQatSummary}
    BY <1>8 DEF WriteQatSummary, Leave
  <2>2. "qat" \in Lanes
    BY DEF Lanes
  <2>3. /\ BuildQatSummary.of \in Compiles /\ BuildQatSummary.names \in Compiles
        /\ BuildQatSummary.class \in {"none", "clean", "diagnostic"}
    BY <2>2 DEF BuildQatSummary, EvidenceClass
  <2>4. /\ {qatSummary'.of, qatSummary'.names} \subseteq Compiles
        /\ qatSummary'.class \in {"none", "clean", "diagnostic"}
    BY <2>1, <2>3
  <2> QED BY <1>8, <2>4 DEF WriteQatSummary, Leave, World05, retained
<1>9. CASE KillReport
  BY <1>9 DEF KillReport, Leave, World05, retained, written
<1>10. CASE UNCHANGED reportVars
  BY <1>10 DEF reportVars
<1> QED BY <1>1, <1>2, <1>3, <1>4, <1>5, <1>6, <1>7, <1>8, <1>9, <1>10 DEF ReportNext

(* Steps that neither write a document nor reach the writing.              *)
LEMMA ReportFrame ==
  ASSUME ReportInv, UNCHANGED written,
         working' \in {"rest", "load", "validate"} \/ UNCHANGED <<working, parsedLanes>>
  PROVE  (LanesAgree /\ ReportDue /\ RetainedReconcile)'
BY DEF ReportInv, LanesAgree, ReportDue, RetainedReconcile, written, parsedLanes,
       SameNativeIdentity, Classifiable, BuildTensorReport, EvidenceClass

\* Every step keeps what the generator has established.
LEMMA RetainedStep ==
  ASSUME ReportInv, [ReportNext]_reportVars PROVE (LanesAgree /\ ReportDue /\ RetainedReconcile)'
<1>1. CASE Revise \/ (\E l \in Lanes : CompileLane(l) \/ RetainReport(l) \/ RetainManifest(l))
           \/ StartReport \/ (\E l \in Lanes : LoadLane(l)) \/ KillReport \/ UNCHANGED reportVars
  BY <1>1, ReportFrame DEF Revise, CompileLane, RetainReport, RetainManifest, StartReport,
       LoadLane, KillReport, Leave, parsedLanes, reportVars, written
<1>2. ASSUME NEW l \in Lanes, ValidateLane(l)
      PROVE  (LanesAgree /\ ReportDue /\ RetainedReconcile)'
  <2>1. CASE working' = "tensor"
    <3>1. SameNativeIdentity /\ Classifiable /\ UNCHANGED loaded
      BY <1>2, <2>1 DEF ValidateLane, Leave
    <3> QED BY <1>2, <2>1, <3>1 DEF ReportInv, LanesAgree, ReportDue, RetainedReconcile,
              SameNativeIdentity, Classifiable, ValidateLane, written
  <2>2. CASE working' # "tensor"
    BY <1>2, <2>2, ReportFrame DEF ValidateLane, Leave
  <2> QED BY <2>1, <2>2
<1>3. CASE WriteTensorReport
  <2>1. CASE tensorReport' = BuildTensorReport /\ working' = "summary" /\ UNCHANGED parsedLanes
    <3>1. LanesAgree' /\ ReportDue'
      BY <1>3, <2>1 DEF ReportInv, WriteTensorReport, LanesAgree, ReportDue, parsedLanes,
         SameNativeIdentity, Classifiable, BuildTensorReport, EvidenceClass
    <3>2. SameNativeIdentity /\ Classifiable
      BY <1>3 DEF ReportInv, LanesAgree, WriteTensorReport
    <3>3. /\ tensorReport'.of = loaded
          /\ tensorReport'.class = EvidenceClass
      BY <2>1 DEF BuildTensorReport
    <3>4. verdict' = "current" => tensorReport' = tensorReport /\ UNCHANGED <<qatSummary, verdict>>
      BY <1>3, <2>1 DEF WriteTensorReport
    <3>5. \A l \in Lanes : l \in {"ordinary", "qat"}
      BY DEF Lanes
    <3>6. \A l \in Lanes : loaded[l].dirty \in BOOLEAN
      BY DEF ReportInv, ReportTypeOK, Compiles
    <3> QED BY <3>1, <3>2, <3>3, <3>4, <3>5, <3>6 DEF ReportInv, RetainedReconcile,
           SameNativeIdentity, Classifiable, EvidenceClass, Lanes
  <2>2. CASE working' = "rest" /\ verdict' = "stale" /\ UNCHANGED tensorReport
    BY <1>3, <2>2 DEF ReportInv, LanesAgree, ReportDue, RetainedReconcile
  <2> QED BY <1>3, <2>1, <2>2 DEF WriteTensorReport, Leave, parsedLanes
<1>4. CASE WriteQatSummary
  <2>1. working' = "rest" /\ UNCHANGED tensorReport /\ tensorReport = BuildTensorReport
    BY <1>4 DEF ReportInv, ReportDue, WriteQatSummary, Leave
  <2>2. verdict' = "current" => qatSummary' = BuildQatSummary
    BY <1>4 DEF WriteQatSummary
  <2> QED BY <2>1, <2>2 DEF ReportInv, LanesAgree, ReportDue, RetainedReconcile,
        BuildTensorReport, BuildQatSummary
<1> QED BY <1>1, <1>2, <1>3, <1>4 DEF ReportNext

\* The inductive invariant of the retained tensor reports.
LEMMA ReportInvAlways == ReportSpec => []ReportInv
<1>1. ReportInit => ReportInv
  <2> SUFFICES ASSUME ReportInit PROVE ReportInv OBVIOUS
  <2>1. ReportTypeOK
    <3>1. worktree \in Worktree /\ compiles \in 0..MaxCompiles /\ revisions \in 0..MaxRevisions
          /\ generated \in 0..MaxReports
      BY ReportAssumption DEF ReportInit, Worktree
    <3>2. /\ tensorReport.of = Nothing /\ tensorReport.names = Nothing
          /\ tensorReport.class = "none"
          /\ qatSummary.of = NoCompile /\ qatSummary.names = NoCompile /\ qatSummary.class = "none"
      BY DEF ReportInit, NoDocument05
    <3> QED BY <3>1, <3>2, CompilesTyped DEF ReportInit, ReportTypeOK
  <2>2. RetainedReconcile
    BY DEF ReportInit, RetainedReconcile, NoDocument05, Nothing, NoCompile, Lanes
  <2> QED BY <2>1, <2>2 DEF ReportInit, ReportInv, LanesAgree, ReportDue
<1>2. ReportInv /\ [ReportNext]_reportVars => ReportInv'
  BY ReportTypeStep, RetainedStep DEF ReportInv
<1> QED BY <1>1, <1>2, PTL DEF ReportSpec

\* Whatever is compiled and retained while the generator runs, a tensor report compares
\* lanes of one encoder, clean evidence comes from one clean commit, and a pair that is
\* called current describes one compile (_validate_lane, _evidence_class,
\* _write_or_check).
THEOREM RetainedAlwaysReconcile == ReportSpec => []RetainedReconcile
<1>1. ReportInv => RetainedReconcile
  BY DEF ReportInv
<1> QED BY <1>1, ReportInvAlways, PTL

-----------------------------------------------------------------------------
(* The gates of the milestones (Qualification).                            *)

(* What the tools hold, with the records they write.                       *)
Reports == [accepted : BOOLEAN, model : {0, 1, 9}, binary : {0, 1, 9},
            samples : Seq(Trial), reach : Contexts \cup {0}]
Verdicts == [Contexts -> [status : Statuses, runs : Seq(Trial)]]
Verdict19 == [status : {"none", "blocked", "fail", "pass"}, on : SUBSET (Evidence \cup {NoEvidence})]
Outcome06 == [written : BOOLEAN, used : SUBSET (0..1)]

QualKinds ==
  /\ step \in Steps /\ checkout \in World /\ seen \in World
  /\ trials \in Seq(Trial) /\ rawDir \in Seq(Trial) /\ verdicts \in Verdicts
  /\ m06 \in Outcome06 /\ m19 \in Verdict19
  /\ m20 \in Reports /\ m21 \in Reports /\ m23 \in Reports /\ upsets \in 0..MaxUpsets

(* The records of a loop: M21 starts every process itself; M20 goes on     *)
(* only with samples of its own processes, of the frozen model, that agree *)
(* with the first.  The raw directory holds what this collection wrote.    *)
Collecting == {"run", "collect", "gate"}

Gathered(some) ==
  \A i \in DOMAIN some : /\ some[i].fresh /\ some[i].out \in Passed
                         /\ some[i].ran = Frozen.model /\ some[i].out = some[1].out

LoopFacts ==
  /\ step \notin Collecting \cup {"contexts"} => trials = <<>>
  /\ step = "contexts" =>
       Len(trials) <= FreshRuns /\ \A i \in DOMAIN trials : trials[i].fresh
  /\ step \in Collecting => Gathered(trials) /\ Len(trials) <= Warmups + Retained
  /\ step = "run" => Len(rawDir) = Len(trials)
  /\ step = "collect" => /\ Len(rawDir) = Len(trials) + 1 /\ rawDir[Len(rawDir)].fresh
                         /\ Len(trials) < Warmups + Retained
  /\ \A i \in DOMAIN rawDir : rawDir[i].says = rawDir[i].ran

(* A context passes on the word of all its processes.                      *)
VerdictFacts ==
  verdicts[Short].status = "passed" => Agree(verdicts[Short].runs, FreshRuns)

(* Until the source has changed, M06 has read nothing else.                *)
Steps06 == {"verify06", "hash06", "stage06", "native06", "decode06", "reverify06"}

DiagnosticFacts ==
  /\ step \in Steps06 => ~m06.written
  /\ step \in {"decode06", "reverify06"} /\ checkout.source = Frozen.source =>
       m06.used = {Frozen.source}

QualInv ==
  /\ QualKinds /\ LoopFacts /\ VerdictFacts /\ DiagnosticFacts
  /\ AcceptedIsMeasured /\ DiagnosticBound

-----------------------------------------------------------------------------
(* A finite set of numbers has a maximum: a smallest set without one would *)
(* have one after all.                                                     *)
HasMax(S) == \E m \in S : \A n \in S : m >= n

\* The least counterexample of the order by strict inclusion has an element more
\* than a set that is not one.
LEMMA FiniteHasMax ==
  ASSUME NEW S \in SUBSET Nat, IsFiniteSet(S), S # {}
  PROVE  HasMax(S)
<1> SUFFICES ASSUME ~HasMax(S) PROVE FALSE
  OBVIOUS
<1> DEFINE Without == {U \in SUBSET S : U # {} /\ ~HasMax(U)}
<1>1. IsWellFoundedOn(StrictSubsetOrdering(S), SUBSET S)
  BY FS_StrictSubsetOrderingWellFounded, FS_FiniteSubsetsOfFinite
<1>2. Without \subseteq SUBSET S /\ Without # {}
  OBVIOUS
<1>3. PICK U \in Without : \A V \in Without : <<V, U>> \notin StrictSubsetOrdering(S)
  <2> HIDE DEF Without
  <2> QED BY <1>1, <1>2, WFMin
<1>4. PICK x \in U : TRUE
  BY <1>3
<1>5. CASE U \ {x} = {}
  BY <1>3, <1>4, <1>5 DEF HasMax
<1>6. CASE U \ {x} # {}
  <2>1. <<U \ {x}, U>> \in StrictSubsetOrdering(S)
    BY <1>3, <1>4 DEF StrictSubsetOrdering
  <2>2. HasMax(U \ {x})
    BY <1>3, <1>6, <2>1
  <2>3. PICK m \in U \ {x} : \A n \in U \ {x} : m >= n
    BY <2>2 DEF HasMax
  <2>4. \A n \in U : n \in Nat
    BY <1>3
  <2>5. CASE x >= m
    BY <1>3, <1>4, <2>3, <2>4, <2>5 DEF HasMax
  <2>6. CASE ~(x >= m)
    BY <1>3, <1>4, <2>3, <2>4, <2>6 DEF HasMax
  <2> QED BY <2>5, <2>6
<1> QED BY <1>5, <1>6

\* Max chooses it.
LEMMA MaxIn ==
  ASSUME NEW S \in SUBSET Nat, IsFiniteSet(S), S # {}
  PROVE  Max(S) \in S /\ \A n \in S : Max(S) >= n
BY FiniteHasMax DEF HasMax, Max

(* The report of M21 states the largest context that passed, or 0.         *)
LEMMA BaseMaxTyped == BaseMaxContext \in Contexts \cup {0}
<1> DEFINE some == ContextsThat("passed") \cup {0}
<1>1. some \in SUBSET (Contexts \cup {0}) /\ Contexts \cup {0} \in SUBSET Nat
  BY QualificationAssumption DEF ContextsThat
<1>2. IsFiniteSet(Contexts \cup {0})
  <2>1. IsFiniteSet(2..MaxContext)
    BY QualificationAssumption, FS_Interval
  <2>2. IsFiniteSet(Contexts)
    BY <2>1, QualificationAssumption, FS_Subset
  <2> QED BY <2>2, FS_AddElement
<1>3. IsFiniteSet(some) /\ some # {} /\ some \in SUBSET Nat
  BY <1>1, <1>2, FS_Subset
<1>4. Max(some) \in some
  <2> HIDE DEF some
  <2> QED BY <1>3, MaxIn
<1> QED BY <1>1, <1>4 DEF BaseMaxContext

\* The bounds are numbers.
LEMMA Numbers ==
  /\ FreshRuns \in Nat /\ FreshRuns > 1 /\ Warmups \in Nat /\ Retained \in Nat
  /\ Warmups + Retained \in Nat /\ MaxUpsets \in Nat
BY QualificationAssumption

\* The reports and trials begin as records of their kinds.
LEMMA Records ==
  /\ <<>> \in Seq(Trial) /\ NoReport \in Reports /\ Frozen \in World
  /\ Frozen.model = 0 /\ Frozen.binary = 0 /\ Frozen.source = 0
  /\ Untested \in Verdicts /\ NoVerdict \in Verdict19
  /\ NoEvidence.passes = FALSE
BY DEF NoReport, Reports, Frozen, World, Untested, Verdicts, Statuses, NoVerdict, Verdict19,
   NoEvidence

\* Changes from outside are counted.
LEMMA UpsetTyped == ASSUME upsets \in 0..MaxUpsets, Upset PROVE upsets' \in 0..MaxUpsets
BY Numbers DEF Upset

\* The short context is one of the contexts.
LEMMA ShortIn == Short \in Contexts
BY QualificationAssumption

(* A record more.                                                          *)
LEMMA AppendTrial ==
  ASSUME NEW some \in Seq(Trial), NEW t \in Trial
  PROVE  /\ Append(some, t) \in Seq(Trial) /\ Len(Append(some, t)) = Len(some) + 1
         /\ DOMAIN Append(some, t) = 1..(Len(some) + 1) /\ DOMAIN some = 1..Len(some)
         /\ Len(some) \in Nat /\ Append(some, t)[Len(some) + 1] = t
         /\ \A i \in 1..Len(some) : Append(some, t)[i] = some[i]
         /\ \A i \in 1..(Len(some) + 1) : i \in 1..Len(some) \/ i = Len(some) + 1
<1>1. Len(some) \in Nat
  OBVIOUS
<1>2. \A i \in 1..(Len(some) + 1) : i \in 1..Len(some) \/ i = Len(some) + 1
  BY <1>1
<1> QED BY <1>1, <1>2

\* A sample whose run passed is written after those before it.
LEMMA SampleWritten ==
  ASSUME NEW t \in Trial, rawDir \in Seq(Trial)
  PROVE  SampleFile(Len(rawDir) + 1, t) = IF t.out # "bad" THEN Append(rawDir, t) ELSE rawDir
<1>1. Len(rawDir) \in Nat
  OBVIOUS
<1>2. SubSeq(rawDir, 1, Len(rawDir) + 1 - 1) = rawDir
  BY <1>1
<1>3. SubSeq(rawDir, Len(rawDir) + 1 + 1, Len(rawDir)) = <<>>
  BY <1>1
<1>4. rawDir \o <<t>> \o <<>> = Append(rawDir, t)
  <2>1. rawDir \o <<t>> = Append(rawDir, t) /\ Append(rawDir, t) \in Seq(Trial)
    OBVIOUS
  <2>2. \A some \in Seq(Trial) : some \o <<>> = some
    OBVIOUS
  <2> QED BY <2>1, <2>2
<1>5. SampleFile(Len(rawDir) + 1, t) =
        IF t.out # "bad" THEN SubSeq(rawDir, 1, Len(rawDir) + 1 - 1) \o <<t>>
                              \o SubSeq(rawDir, Len(rawDir) + 1 + 1, Len(rawDir))
        ELSE rawDir
  BY DEF SampleFile
<1> QED BY <1>2, <1>3, <1>4, <1>5, Zenon

\* What a context driver starts is a trial of a fresh process.
LEMMA DriverTrial ==
  ASSUME checkout \in World, NEW out \in {"a", "b", "tight", "bad"}
  PROVE  [ran |-> checkout.model, says |-> checkout.model, out |-> out, fresh |-> TRUE] \in Trial
BY DEF World, Trial

\* Every step keeps the kinds.
LEMMA QualKindsStep ==
  ASSUME QualInv, [QualNext]_qualVars PROVE QualKinds'
<1> USE Numbers, Records, UpsetTyped DEF QualInv, QualKinds, Steps, Rest, Smooth, reports
<1>1. CASE StartM21
  <2>1. PICK asked \in SUBSET Contexts \ {{}} :
           verdicts' = [c \in Contexts |-> [status |-> IF c \in asked THEN "waiting"
                                                       ELSE "not_tested", runs |-> <<>>]]
    BY <1>1 DEF StartM21
  <2>2. verdicts' \in Verdicts
    BY <2>1 DEF Verdicts, Statuses
  <2> QED BY <1>1, <2>2 DEF StartM21
<1>2. CASE RunDriver
  <2>1. \A t \in Trial : Append(trials, t) \in Seq(Trial)
    BY AppendTrial
  <2>2. trials' \in Seq(Trial)
    BY <1>2, <2>1, DriverTrial DEF RunDriver
  <2> QED BY <1>2, <2>2 DEF RunDriver
<1>3. CASE FinishContext
  <2>1. ContextStatus \in Statuses
    BY DEF ContextStatus, Statuses
  <2>2. (IF Trying = Short THEN trials ELSE <<>>) \in Seq(Trial)
    OBVIOUS
  <2>3. verdicts' \in Verdicts
    <3> DEFINE now == [status |-> ContextStatus, runs |-> IF Trying = Short THEN trials ELSE <<>>]
    <3>1. now \in [status : Statuses, runs : Seq(Trial)]
      BY <2>1, <2>2
    <3>2. verdicts' = [verdicts EXCEPT ![Trying] = now]
      BY <1>3 DEF FinishContext
    <3> HIDE DEF now
    <3> QED BY <3>1, <3>2 DEF Verdicts
  <2> QED BY <1>3, <2>3 DEF FinishContext
<1>4. CASE ReportM21
  <2>1. ExitGatePass \in BOOLEAN
    BY DEF ExitGatePass, MaximumSearchComplete
  <2>2. verdicts[Short].runs \in Seq(Trial) /\ checkout.model \in 0..1 /\ checkout.binary \in 0..1
    BY ShortIn DEF Verdicts, World
  <2>3. m21' \in Reports
    BY <1>4, <2>1, <2>2, BaseMaxTyped DEF ReportM21, Reports
  <2> QED BY <1>4, <2>3 DEF ReportM21
<1>5. CASE StartM20
  BY <1>5 DEF StartM20
<1>6. CASE ValidateInstructionEvidence
  <2>1. [seen EXCEPT !.binary = checkout.binary] \in World
    BY DEF World
  <2> QED BY <1>6, <2>1 DEF ValidateInstructionEvidence
<1>7. CASE OpenRawDirectory
  BY <1>7 DEF OpenRawDirectory
<1>8. CASE ExecuteRun
  <2>1. rawDir' \in Seq(Trial)
    <3>1. PICK t \in Trial : rawDir' = SampleFile(Len(trials) + 1, t)
      BY <1>8, DriverTrial DEF ExecuteRun
    <3>2. Len(rawDir) = Len(trials)
      BY <1>8 DEF ExecuteRun, LoopFacts
    <3>3. rawDir' = IF t.out # "bad" THEN Append(rawDir, t) ELSE rawDir
      BY <3>1, <3>2, SampleWritten
    <3> QED BY <3>3, AppendTrial
  <2>2. step' \in Steps /\ trials' \in Seq(Trial) /\ verdicts' \in Verdicts /\ seen' \in World
    BY <1>8 DEF ExecuteRun
  <2>3. upsets' \in 0..MaxUpsets
    BY <1>8 DEF ExecuteRun
  <2> QED BY <1>8, <2>1, <2>2, <2>3 DEF ExecuteRun
<1>9. CASE ExecuteRunFails
  BY <1>9 DEF ExecuteRunFails
<1>10. CASE CollectSample
  <2>1. Len(trials) + 1 \in DOMAIN rawDir
    BY <1>10 DEF CollectSample, LoopFacts
  <2>2. Append(trials, rawDir[Len(trials) + 1]) \in Seq(Trial)
    BY <2>1, AppendTrial
  <2>3. trials' \in Seq(Trial) /\ step' \in Steps /\ seen' \in World /\ verdicts' \in Verdicts
    BY <1>10, <2>2 DEF CollectSample
  <2> QED BY <1>10, <2>3 DEF CollectSample
<1>11. CASE ReportM20
  <2>1. PICK fast \in BOOLEAN :
           m20' = [accepted |-> M21Gate /\ SummarizeRuns(trials) /\ fast,
                   model |-> Frozen.model, binary |-> seen.binary, samples |-> trials, reach |-> 0]
    BY <1>11 DEF ReportM20
  <2>2. (M21Gate /\ SummarizeRuns(trials) /\ fast) \in BOOLEAN /\ seen.binary \in 0..1
    BY DEF M21Gate, SummarizeRuns, World
  <2>3. m20' \in Reports
    BY <2>1, <2>2 DEF Reports
  <2> QED BY <1>11, <2>3 DEF ReportM20
<1>12. CASE ClearRawDirectory
  BY <1>12 DEF ClearRawDirectory
<1>13. CASE QualifyM23
  <2>1. PICK summary \in Summaries : m23' = [m20 EXCEPT !.reach = summary.reach]
    BY <1>13 DEF QualifyM23
  <2>2. summary.reach \in Contexts
    BY DEF Summaries
  <2>3. m23' \in Reports
    BY <2>1, <2>2 DEF Reports
  <2> QED BY <1>13, <2>3 DEF QualifyM23
<1>14. CASE Exchange
  <2>1. \A what \in {"binary", "model", "source"} : [checkout EXCEPT ![what] = 1] \in World
    BY DEF World
  <2> QED BY <1>14, <2>1 DEF Exchange
<1>15. CASE KillTool
  <2>1. \A t \in Trial : [t EXCEPT !.fresh = FALSE] \in Trial
    BY DEF Trial
  <2>2. rawDir' \in Seq(Trial)
    <3>1. \A i \in DOMAIN rawDir : [rawDir[i] EXCEPT !.fresh = FALSE] \in Trial
      BY <2>1
    <3>2. DOMAIN rawDir = 1..Len(rawDir) /\ Len(rawDir) \in Nat
      OBVIOUS
    <3>3. rawDir' = [i \in 1..Len(rawDir) |-> [rawDir[i] EXCEPT !.fresh = FALSE]]
      BY <1>15, <3>2 DEF KillTool
    <3> DEFINE old(i) == [rawDir[i] EXCEPT !.fresh = FALSE]
    <3>4. \A i \in 1..Len(rawDir) : old(i) \in Trial
      BY <3>1, <3>2
    <3>5. rawDir' = [i \in 1..Len(rawDir) |-> old(i)]
      BY <3>3
    <3> HIDE DEF old
    <3> QED BY <3>2, <3>4, <3>5
  <2>3. m06' \in Outcome06
    <3>1. m06' = [m06 EXCEPT !.used = IF m06.written THEN m06.used ELSE {}]
      BY <1>15 DEF KillTool, Outcome06
    <3>2. (IF m06.written THEN m06.used ELSE {}) \in SUBSET (0..1)
      BY DEF Outcome06
    <3> QED BY <3>1, <3>2 DEF Outcome06
  <2> QED BY <1>15, <2>2, <2>3 DEF KillTool
<1>16. CASE QualifyM19
  <2>1. m19' \in Verdict19
    BY <1>16 DEF QualifyM19, Verdict19
  <2> QED BY <1>16, <2>1 DEF QualifyM19
<1>17. CASE StartDiagnostic
  <2>1. [seen EXCEPT !.binary = checkout.binary] \in World
    BY DEF World
  <2> QED BY <1>17, <2>1 DEF StartDiagnostic
<1>18. CASE LoadSource
  BY <1>18 DEF LoadSource
<1>19. CASE BuildParentGeometries
  <2>1. [seen EXCEPT !.source = checkout.source] \in World
    BY DEF World
  <2> QED BY <1>19, <2>1 DEF BuildParentGeometries
<1>20. CASE StageEncoder
  BY <1>20 DEF StageEncoder
<1>21. CASE RunNative
  <2>1. m06' \in Outcome06
    BY <1>21 DEF RunNative, Outcome06, World
  <2>2. step' \in Steps /\ trials' \in Seq(Trial) /\ verdicts' \in Verdicts /\ seen' \in World
    BY <1>21 DEF RunNative
  <2> QED BY <1>21, <2>1, <2>2 DEF RunNative
<1>22. CASE DecodeComponents
  <2>1. m06' \in Outcome06
    <3>1. m06' = [m06 EXCEPT !.used = m06.used \cup {checkout.source}]
      BY <1>22 DEF DecodeComponents, Outcome06
    <3>2. m06.used \cup {checkout.source} \in SUBSET (0..1)
      BY DEF Outcome06, World
    <3> QED BY <3>1, <3>2 DEF Outcome06
  <2> QED BY <1>22, <2>1 DEF DecodeComponents
<1>23. CASE PublishDiagnostic
  <2>1. m06' \in Outcome06
    BY <1>23 DEF PublishDiagnostic, Outcome06
  <2> QED BY <1>23, <2>1 DEF PublishDiagnostic
<1>24. CASE UNCHANGED qualVars
  BY <1>24 DEF qualVars
<1> QED BY <1>1, <1>2, <1>3, <1>4, <1>5, <1>6, <1>7, <1>8, <1>9, <1>10, <1>11, <1>12,
      <1>13, <1>14, <1>15, <1>16, <1>17, <1>18, <1>19, <1>20, <1>21, <1>22, <1>23, <1>24
      DEF QualNext, TargetNext, BesideNext

\* Every step keeps what a measuring loop has gathered.
LEMMA LoopStep ==
  ASSUME QualInv, [QualNext]_qualVars PROVE LoopFacts'
<1> USE Numbers, Records DEF QualInv, QualKinds, LoopFacts, Collecting, Steps, Rest, reports
<1>1. CASE StartM21
  BY <1>1 DEF StartM21
<1>2. CASE RunDriver
  <2>1. /\ step = "contexts" /\ step' = step /\ Len(trials) < FreshRuns /\ UNCHANGED rawDir
    BY <1>2 DEF RunDriver
  <2>2. PICK t \in Trial : t.fresh /\ trials' = Append(trials, t)
    BY <1>2, DriverTrial DEF RunDriver
  <2>3. \A i \in DOMAIN trials' : trials'[i].fresh
    BY <2>1, <2>2, AppendTrial
  <2>4. Len(trials') <= FreshRuns
    BY <2>1, <2>2, AppendTrial
  <2> QED BY <2>1, <2>3, <2>4
<1>3. CASE FinishContext
  BY <1>3 DEF FinishContext
<1>4. CASE ReportM21
  BY <1>4 DEF ReportM21
<1>5. CASE StartM20
  BY <1>5 DEF StartM20
<1>6. CASE ValidateInstructionEvidence
  BY <1>6 DEF ValidateInstructionEvidence
<1>7. CASE OpenRawDirectory
  BY <1>7 DEF OpenRawDirectory, Gathered
<1>8. CASE ExecuteRun
  <2>1. /\ step = "run" /\ Len(trials) < Warmups + Retained /\ Len(rawDir) = Len(trials)
    BY <1>8 DEF ExecuteRun
  <2>2. PICK t \in Trial : /\ t.fresh /\ t.says = t.ran
                          /\ rawDir' = SampleFile(Len(trials) + 1, t)
    BY <1>8, DriverTrial DEF ExecuteRun
  <2>3. rawDir' = IF t.out # "bad" THEN Append(rawDir, t) ELSE rawDir
    BY <2>1, <2>2, SampleWritten
  <2>4. \A i \in DOMAIN rawDir' : rawDir'[i].says = rawDir'[i].ran
    <3>1. CASE rawDir' = rawDir
      BY <3>1
    <3>2. CASE rawDir' = Append(rawDir, t)
      <4>1. ASSUME NEW i \in DOMAIN rawDir' PROVE rawDir'[i].says = rawDir'[i].ran
        <5>1. i \in 1..Len(rawDir) \/ i = Len(rawDir) + 1
          BY <3>2, <4>1, AppendTrial
        <5>2. CASE i \in 1..Len(rawDir)
          <6>1. i \in DOMAIN rawDir /\ rawDir'[i] = rawDir[i]
            BY <3>2, <5>2, AppendTrial
          <6> QED BY <6>1
        <5>3. CASE i = Len(rawDir) + 1
          <6>1. rawDir'[i] = t
            BY <3>2, <5>3, AppendTrial
          <6> QED BY <2>2, <6>1
        <5> QED BY <5>1, <5>2, <5>3
      <4> QED BY <4>1
    <3> QED BY <2>3, <3>1, <3>2
  <2>5. CASE Rest
    BY <2>4, <2>5
  <2>6. CASE ~(Len(rawDir') < Len(trials) + 1) /\ step' = "collect" /\ UNCHANGED trials
    <3>1. rawDir' = Append(rawDir, t)
      BY <2>1, <2>3, <2>6
    <3>2. Len(rawDir') = Len(trials) + 1 /\ rawDir'[Len(rawDir')].fresh
      BY <2>1, <2>2, <3>1, AppendTrial
    <3> QED BY <2>1, <2>4, <2>6, <3>2
  <2>7. Rest \/ (~(Len(rawDir') < Len(trials) + 1) /\ step' = "collect" /\ UNCHANGED trials)
    BY <1>8 DEF ExecuteRun
  <2> QED BY <2>5, <2>6, <2>7
<1>9. CASE ExecuteRunFails
  BY <1>9 DEF ExecuteRunFails
<1>10. CASE CollectSample
  <2> DEFINE s == rawDir[Len(trials) + 1]
  <2>1. /\ step = "collect" /\ Len(rawDir) = Len(trials) + 1 /\ Len(trials) < Warmups + Retained
        /\ Len(trials) + 1 \in DOMAIN rawDir /\ UNCHANGED rawDir /\ Gathered(trials)
    BY <1>10 DEF CollectSample
  <2>2. s.fresh /\ s.says = s.ran /\ s \in Trial
    BY <2>1
  <2>3. CASE Rest
    BY <2>1, <2>3
  <2>4. ASSUME ValidateSample(s), trials # <<>> => s.out = Head(trials).out,
               trials' = Append(trials, s),
               step' = IF Len(trials') = Warmups + Retained THEN "gate" ELSE "run"
        PROVE  LoopFacts'
    <3>1. s.ran = Frozen.model /\ s.out \in Passed
      BY <2>2, <2>4 DEF ValidateSample
    <3> HIDE DEF s
    <3>2. /\ Len(trials') = Len(trials) + 1 /\ Len(trials') <= Warmups + Retained
      BY <2>1, <2>2, <2>4, AppendTrial
    <3>3. Len(trials) > 0 => trials # <<>> /\ Head(trials) = trials[1] /\ 1 \in DOMAIN trials
      OBVIOUS
    <3>4. Len(trials) = 0 => trials'[1] = s
      BY <2>2, <2>4, AppendTrial
    <3>5. Len(trials) > 0 => trials'[1] = trials[1]
      BY <2>2, <2>4, AppendTrial
    <3>6. Gathered(trials')
      <4>1. Len(trials) \in Nat
        BY <2>2, AppendTrial
      <4>2. s.out = trials'[1].out
        BY <2>4, <3>3, <3>4, <3>5, <4>1
      <4>3. ASSUME NEW i \in DOMAIN trials'
            PROVE  /\ trials'[i].fresh /\ trials'[i].out \in Passed
                   /\ trials'[i].ran = Frozen.model /\ trials'[i].out = trials'[1].out
        <5>1. i \in 1..Len(trials) \/ i = Len(trials) + 1
          BY <2>2, <2>4, <4>3, AppendTrial
        <5>2. CASE i \in 1..Len(trials)
          <6>1. Len(trials) > 0 /\ i \in DOMAIN trials /\ trials'[i] = trials[i]
            BY <2>2, <2>4, <4>1, <5>2, AppendTrial
          <6> QED BY <2>1, <3>5, <6>1 DEF Gathered
        <5>3. CASE i = Len(trials) + 1
          <6>1. trials'[i] = s
            BY <2>2, <2>4, <5>3, AppendTrial
          <6> QED BY <2>2, <3>1, <4>2, <6>1
        <5> QED BY <5>1, <5>2, <5>3
      <4> QED BY <4>3 DEF Gathered
    <3> QED BY <2>1, <2>4, <3>2, <3>6
  <2>5. Rest \/ (/\ ValidateSample(s) /\ (trials # <<>> => s.out = Head(trials).out)
                /\ trials' = Append(trials, s)
                /\ step' = IF Len(trials') = Warmups + Retained THEN "gate" ELSE "run")
    BY <1>10 DEF CollectSample
  <2> QED BY <2>3, <2>4, <2>5
<1>11. CASE ReportM20
  BY <1>11 DEF ReportM20
<1>12. CASE ClearRawDirectory
  BY <1>12 DEF ClearRawDirectory
<1>13. CASE QualifyM23
  BY <1>13 DEF QualifyM23
<1>14. CASE Exchange
  BY <1>14 DEF Exchange
<1>15. CASE KillTool
  <2>1. /\ step' = "rest" /\ trials' = <<>>
        /\ rawDir' = [i \in DOMAIN rawDir |-> [rawDir[i] EXCEPT !.fresh = FALSE]]
    BY <1>15 DEF KillTool
  <2>2. \A t \in Trial : /\ [t EXCEPT !.fresh = FALSE].says = t.says
                         /\ [t EXCEPT !.fresh = FALSE].ran = t.ran
    BY DEF Trial
  <2>3. \A i \in DOMAIN rawDir : rawDir[i] \in Trial
    OBVIOUS
  <2>4. \A i \in DOMAIN rawDir' : rawDir'[i].says = rawDir'[i].ran
    BY <2>1, <2>2, <2>3
  <2> QED BY <2>1, <2>4
<1>16. CASE QualifyM19
  BY <1>16 DEF QualifyM19
<1>17. CASE StartDiagnostic
  BY <1>17 DEF StartDiagnostic
<1>18. CASE LoadSource
  BY <1>18 DEF LoadSource
<1>19. CASE BuildParentGeometries
  BY <1>19 DEF BuildParentGeometries
<1>20. CASE StageEncoder
  BY <1>20 DEF StageEncoder
<1>21. CASE RunNative
  BY <1>21 DEF RunNative
<1>22. CASE DecodeComponents
  BY <1>22 DEF DecodeComponents
<1>23. CASE PublishDiagnostic
  BY <1>23 DEF PublishDiagnostic
<1>24. CASE UNCHANGED qualVars
  BY <1>24 DEF qualVars
<1> QED BY <1>1, <1>2, <1>3, <1>4, <1>5, <1>6, <1>7, <1>8, <1>9, <1>10, <1>11, <1>12,
      <1>13, <1>14, <1>15, <1>16, <1>17, <1>18, <1>19, <1>20, <1>21, <1>22, <1>23, <1>24
      DEF QualNext, TargetNext, BesideNext

(* All processes passed and their outputs are one.                         *)
LEMMA PassedAgrees ==
  ASSUME trials \in Seq(Trial), \A i \in DOMAIN trials : trials[i].fresh, ContextStatus = "passed"
  PROVE  Agree(trials, FreshRuns)
<1> DEFINE outs == {trials[i].out : i \in DOMAIN trials}
<1>1. Len(trials) = FreshRuns /\ Cardinality(outs) = 1 /\ \A out \in outs : ValidateRun(out)
  BY DEF ContextStatus
<1>2. \A i \in DOMAIN trials : trials[i] \in Trial
  OBVIOUS
<1>3. outs \in SUBSET {"a", "b", "tight", "bad"}
  BY <1>2 DEF Trial
<1>4. IsFiniteSet({"a", "b", "tight", "bad"})
  <2>1. IsFiniteSet({"a"})
    BY FS_Singleton
  <2>2. IsFiniteSet({"a"} \cup {"b"})
    BY <2>1, FS_AddElement
  <2>3. IsFiniteSet(({"a"} \cup {"b"}) \cup {"tight"})
    BY <2>2, FS_AddElement
  <2>4. IsFiniteSet((({"a"} \cup {"b"}) \cup {"tight"}) \cup {"bad"})
    BY <2>3, FS_AddElement
  <2>5. (({"a"} \cup {"b"}) \cup {"tight"}) \cup {"bad"} = {"a", "b", "tight", "bad"}
    OBVIOUS
  <2> QED BY <2>4, <2>5
<1>5. IsFiniteSet(outs)
  BY <1>3, <1>4, FS_Subset
<1>6. \E out : outs = {out}
  <2> HIDE DEF outs
  <2> QED BY <1>1, <1>5, FS_Singleton
<1>7. 1 \in DOMAIN trials
  BY <1>1, Numbers
<1>8. \A i \in DOMAIN trials : trials[i].out \in outs
  OBVIOUS
<1>9. \A i \in DOMAIN trials : trials[i].out = trials[1].out /\ ValidateRun(trials[i].out)
  BY <1>1, <1>6, <1>7, <1>8
<1> QED BY <1>1, <1>9 DEF Agree, ValidateRun

\* Every step keeps the word of all processes behind a passed context.
LEMMA VerdictsStep ==
  ASSUME QualInv, [QualNext]_qualVars PROVE VerdictFacts'
<1> USE Numbers, Records, ShortIn DEF QualInv, VerdictFacts, Rest, reports
<1>1. CASE StartM21
  BY <1>1 DEF StartM21
<1>2. CASE RunDriver
  BY <1>2 DEF RunDriver, Untested
<1>3. CASE FinishContext
  <2> DEFINE now == [status |-> ContextStatus, runs |-> IF Trying = Short THEN trials ELSE <<>>]
  <2>1. verdicts' = [verdicts EXCEPT ![Trying] = now] /\ verdicts \in Verdicts
    BY <1>3 DEF FinishContext, QualKinds
  <2>2. CASE Trying = Short
    <3>1. verdicts'[Short].status = ContextStatus /\ verdicts'[Short].runs = trials
      BY <2>1, <2>2 DEF Verdicts
    <3>2. trials \in Seq(Trial) /\ \A i \in DOMAIN trials : trials[i].fresh
      BY <1>3 DEF FinishContext, LoopFacts, QualKinds
    <3>3. ContextStatus = "passed" => Agree(trials, FreshRuns)
      BY <3>2, PassedAgrees
    <3> QED BY <3>1, <3>3
  <2>3. CASE Trying # Short
    <3>1. verdicts'[Short] = verdicts[Short]
      BY <2>1, <2>3 DEF Verdicts
    <3> QED BY <3>1
  <2> QED BY <2>2, <2>3
<1>4. CASE ReportM21
  BY <1>4 DEF ReportM21, Untested
<1>5. CASE StartM20
  BY <1>5 DEF StartM20, Untested
<1>6. CASE ValidateInstructionEvidence
  BY <1>6 DEF ValidateInstructionEvidence, Untested
<1>7. CASE OpenRawDirectory
  BY <1>7 DEF OpenRawDirectory, Untested
<1>8. CASE ExecuteRun
  BY <1>8 DEF ExecuteRun, Untested
<1>9. CASE ExecuteRunFails
  BY <1>9 DEF ExecuteRunFails, Untested
<1>10. CASE CollectSample
  BY <1>10 DEF CollectSample, Untested
<1>11. CASE ReportM20
  BY <1>11 DEF ReportM20, Untested
<1>12. CASE ClearRawDirectory
  BY <1>12 DEF ClearRawDirectory, Untested
<1>13. CASE QualifyM23
  BY <1>13 DEF QualifyM23, Untested
<1>14. CASE Exchange
  BY <1>14 DEF Exchange, Untested
<1>15. CASE KillTool
  BY <1>15 DEF KillTool, Untested
<1>16. CASE QualifyM19
  BY <1>16 DEF QualifyM19, Untested
<1>17. CASE StartDiagnostic
  BY <1>17 DEF StartDiagnostic, Untested
<1>18. CASE LoadSource
  BY <1>18 DEF LoadSource, Untested
<1>19. CASE BuildParentGeometries
  BY <1>19 DEF BuildParentGeometries, Untested
<1>20. CASE StageEncoder
  BY <1>20 DEF StageEncoder, Untested
<1>21. CASE RunNative
  BY <1>21 DEF RunNative, Untested
<1>22. CASE DecodeComponents
  BY <1>22 DEF DecodeComponents, Untested
<1>23. CASE PublishDiagnostic
  BY <1>23 DEF PublishDiagnostic, Untested
<1>24. CASE UNCHANGED qualVars
  BY <1>24 DEF qualVars
<1> QED BY <1>1, <1>2, <1>3, <1>4, <1>5, <1>6, <1>7, <1>8, <1>9, <1>10, <1>11, <1>12,
      <1>13, <1>14, <1>15, <1>16, <1>17, <1>18, <1>19, <1>20, <1>21, <1>22, <1>23, <1>24
      DEF QualNext, TargetNext, BesideNext

\* M06 writes what it has read of the frozen source.
LEMMA DiagnosticStep ==
  ASSUME QualInv, [QualNext]_qualVars PROVE (DiagnosticFacts /\ DiagnosticBound)'
<1> USE Numbers, Records DEF QualInv, DiagnosticFacts, DiagnosticBound, Steps06, Collecting,
      Rest, reports
<1>1. CASE StartM21
  BY <1>1 DEF StartM21
<1>2. CASE RunDriver
  BY <1>2 DEF RunDriver
<1>3. CASE FinishContext
  BY <1>3 DEF FinishContext
<1>4. CASE ReportM21
  BY <1>4 DEF ReportM21
<1>5. CASE StartM20
  BY <1>5 DEF StartM20
<1>6. CASE ValidateInstructionEvidence
  BY <1>6 DEF ValidateInstructionEvidence
<1>7. CASE OpenRawDirectory
  BY <1>7 DEF OpenRawDirectory
<1>8. CASE ExecuteRun
  BY <1>8 DEF ExecuteRun
<1>9. CASE ExecuteRunFails
  BY <1>9 DEF ExecuteRunFails
<1>10. CASE CollectSample
  BY <1>10 DEF CollectSample
<1>11. CASE ReportM20
  BY <1>11 DEF ReportM20
<1>12. CASE ClearRawDirectory
  BY <1>12 DEF ClearRawDirectory
<1>13. CASE QualifyM23
  BY <1>13 DEF QualifyM23
<1>14. CASE Exchange
  <2>1. checkout'.source = 1 \/ checkout'.source = checkout.source
    BY <1>14 DEF Exchange, QualKinds, World
  <2> QED BY <1>14, <2>1 DEF Exchange
<1>15. CASE KillTool
  <2>1. /\ m06'.written = m06.written /\ (m06.written => m06'.used = m06.used)
        /\ step' = "rest" /\ UNCHANGED checkout
    BY <1>15 DEF KillTool, QualKinds, Outcome06
  <2> QED BY <2>1
<1>16. CASE QualifyM19
  BY <1>16 DEF QualifyM19
<1>17. CASE StartDiagnostic
  BY <1>17 DEF StartDiagnostic
<1>18. CASE LoadSource
  BY <1>18 DEF LoadSource
<1>19. CASE BuildParentGeometries
  BY <1>19 DEF BuildParentGeometries
<1>20. CASE StageEncoder
  BY <1>20 DEF StageEncoder
<1>21. CASE RunNative
  <2>1. m06.written = FALSE /\ UNCHANGED checkout
    BY <1>21 DEF RunNative, QualKinds, Outcome06
  <2>2. CASE m06' = [m06 EXCEPT !.used = {checkout.source}] /\ step' = "decode06"
    <3>1. m06'.used = {checkout.source} /\ m06'.written = FALSE
      BY <2>1, <2>2 DEF QualKinds, Outcome06
    <3> QED BY <2>1, <2>2, <3>1
  <2>3. CASE m06' = [m06 EXCEPT !.used = {}] /\ Rest
    <3>1. m06'.written = FALSE
      BY <2>1, <2>3 DEF QualKinds, Outcome06
    <3> QED BY <2>3, <3>1
  <2> QED BY <1>21, <2>2, <2>3 DEF RunNative
<1>22. CASE DecodeComponents
  <2>1. /\ m06'.used = m06.used \cup {checkout.source} /\ m06'.written = m06.written
        /\ UNCHANGED checkout /\ step = "decode06" /\ step' = "reverify06"
    BY <1>22 DEF DecodeComponents, QualKinds, Outcome06
  <2> QED BY <2>1
<1>23. CASE PublishDiagnostic
  <2>1. m06.written = FALSE /\ UNCHANGED checkout /\ step = "reverify06" /\ step' = "rest"
    BY <1>23 DEF PublishDiagnostic, QualKinds, Outcome06
  <2>2. CASE checkout.source = Frozen.source
    <3>1. m06'.used = m06.used
      BY <1>23, <2>2 DEF PublishDiagnostic, QualKinds, Outcome06
    <3> QED BY <2>1, <2>2, <3>1
  <2>3. CASE checkout.source # Frozen.source
    <3>1. m06'.written = FALSE
      BY <1>23, <2>1, <2>3 DEF PublishDiagnostic, QualKinds, Outcome06
    <3> QED BY <2>1, <3>1
  <2> QED BY <2>2, <2>3
<1>24. CASE UNCHANGED qualVars
  BY <1>24 DEF qualVars
<1> QED BY <1>1, <1>2, <1>3, <1>4, <1>5, <1>6, <1>7, <1>8, <1>9, <1>10, <1>11, <1>12,
      <1>13, <1>14, <1>15, <1>16, <1>17, <1>18, <1>19, <1>20, <1>21, <1>22, <1>23, <1>24
      DEF QualNext, TargetNext, BesideNext

\* A report that accepts was written from measurements that stand.
LEMMA AcceptedStep ==
  ASSUME QualInv, [QualNext]_qualVars PROVE AcceptedIsMeasured'
<1> USE Numbers, Records DEF QualInv, AcceptedIsMeasured, Rest, reports
<1>1. CASE StartM21
  BY <1>1 DEF StartM21
<1>2. CASE RunDriver
  BY <1>2 DEF RunDriver
<1>3. CASE FinishContext
  BY <1>3 DEF FinishContext
<1>4. CASE ReportM21
  <2>1. /\ m21'.accepted = ExitGatePass
        /\ m21'.samples = IF ExitGatePass THEN verdicts[Short].runs ELSE <<>>
    BY <1>4 DEF ReportM21
  <2>2. m21'.accepted => Agree(m21'.samples, FreshRuns)
    BY <2>1 DEF ExitGatePass, VerdictFacts
  <2> QED BY <1>4, <2>2 DEF ReportM21
<1>5. CASE StartM20
  BY <1>5 DEF StartM20
<1>6. CASE ValidateInstructionEvidence
  BY <1>6 DEF ValidateInstructionEvidence
<1>7. CASE OpenRawDirectory
  BY <1>7 DEF OpenRawDirectory
<1>8. CASE ExecuteRun
  BY <1>8 DEF ExecuteRun
<1>9. CASE ExecuteRunFails
  BY <1>9 DEF ExecuteRunFails
<1>10. CASE CollectSample
  BY <1>10 DEF CollectSample
<1>11. CASE ReportM20
  <2>1. /\ m20'.samples = trials /\ m20'.model = Frozen.model
        /\ (m20'.accepted => Len(trials) = Warmups + Retained)
    <3>1. PICK fast \in BOOLEAN :
             m20' = [accepted |-> M21Gate /\ SummarizeRuns(trials) /\ fast,
                     model |-> Frozen.model, binary |-> seen.binary, samples |-> trials, reach |-> 0]
      BY <1>11 DEF ReportM20
    <3>2. m20'.accepted = (M21Gate /\ SummarizeRuns(trials) /\ fast)
      BY <3>1
    <3>3. m20'.samples = trials /\ m20'.model = Frozen.model
      BY <3>1
    <3> QED BY <3>2, <3>3 DEF SummarizeRuns
  <2>2. Gathered(trials)
    BY <1>11 DEF ReportM20, LoopFacts, Collecting
  <2> QED BY <1>11, <2>1, <2>2 DEF ReportM20, Agree, Gathered
<1>12. CASE ClearRawDirectory
  BY <1>12 DEF ClearRawDirectory
<1>13. CASE QualifyM23
  <2>1. /\ m23'.accepted = m20.accepted /\ m23'.samples = m20.samples /\ m23'.model = m20.model
        /\ UNCHANGED <<m19, m20, m21>>
    BY <1>13 DEF QualifyM23, QualKinds, Reports
  <2> QED BY <2>1
<1>14. CASE Exchange
  BY <1>14 DEF Exchange
<1>15. CASE KillTool
  BY <1>15 DEF KillTool
<1>16. CASE QualifyM19
  <2>1. PICK numerical, tasks, prose \in Evidence \cup {NoEvidence} :
           LET given == {numerical, tasks, prose}
           IN  /\ numerical # NoEvidence => ValidateNumerical(numerical)
               /\ tasks # NoEvidence => ValidateTasks(tasks)
               /\ prose # NoEvidence => ValidateProse(prose)
               /\ m19' = [on |-> given, status |-> IF NoEvidence \in given THEN "blocked"
                                                   ELSE IF \A r \in given : r.passes THEN "pass"
                                                   ELSE "fail"]
    BY <1>16 DEF QualifyM19
  <2> DEFINE given == {numerical, tasks, prose}
  <2>2. m19'.status = "pass" => /\ NoEvidence \notin given /\ (\A r \in given : r.passes)
                                /\ m19'.on = given
    BY <2>1
  <2>3. ASSUME m19'.status = "pass"
        PROVE  m19'.on = {[about |-> Frozen.model, whole |-> TRUE, passes |-> TRUE]}
    <3>1. \A r \in given : r \in Evidence /\ r.passes /\ r.about = Frozen.model /\ r.whole
      BY <2>1, <2>2, <2>3 DEF ValidateNumerical, ValidateTasks, ValidateProse, ScoreMap
    <3>2. \A r \in given : r = [about |-> Frozen.model, whole |-> TRUE, passes |-> TRUE]
      BY <3>1 DEF Evidence
    <3> QED BY <2>2, <2>3, <3>2
  <2> QED BY <1>16, <2>3 DEF QualifyM19
<1>17. CASE StartDiagnostic
  BY <1>17 DEF StartDiagnostic
<1>18. CASE LoadSource
  BY <1>18 DEF LoadSource
<1>19. CASE BuildParentGeometries
  BY <1>19 DEF BuildParentGeometries
<1>20. CASE StageEncoder
  BY <1>20 DEF StageEncoder
<1>21. CASE RunNative
  BY <1>21 DEF RunNative
<1>22. CASE DecodeComponents
  BY <1>22 DEF DecodeComponents
<1>23. CASE PublishDiagnostic
  BY <1>23 DEF PublishDiagnostic
<1>24. CASE UNCHANGED qualVars
  BY <1>24 DEF qualVars
<1> QED BY <1>1, <1>2, <1>3, <1>4, <1>5, <1>6, <1>7, <1>8, <1>9, <1>10, <1>11, <1>12,
      <1>13, <1>14, <1>15, <1>16, <1>17, <1>18, <1>19, <1>20, <1>21, <1>22, <1>23, <1>24
      DEF QualNext, TargetNext, BesideNext

\* The inductive invariant of the milestone gates.
LEMMA QualInvAlways == QualSpec => []QualInv
<1>1. QualInit => QualInv
  <2> SUFFICES ASSUME QualInit PROVE QualInv OBVIOUS
  <2>1. QualKinds
    BY Numbers, Records DEF QualInit, QualKinds, Steps, Outcome06
  <2>2. LoopFacts /\ DiagnosticFacts /\ DiagnosticBound
    BY DEF QualInit, LoopFacts, Collecting, DiagnosticFacts, DiagnosticBound, Steps06
  <2>3. VerdictFacts /\ AcceptedIsMeasured
    BY ShortIn DEF QualInit, VerdictFacts, AcceptedIsMeasured, Untested, NoReport, NoVerdict
  <2> QED BY <2>1, <2>2, <2>3 DEF QualInv
<1>2. QualInv /\ [QualNext]_qualVars => QualInv'
  BY QualKindsStep, LoopStep, VerdictsStep, DiagnosticStep, AcceptedStep DEF QualInv
<1> QED BY <1>1, <1>2, PTL DEF QualSpec

\* An accepted M20 or M23 report rests on samples of processes started for it, of the
\* model it names, that agree; a context M21 accepts passed in all its fresh processes;
\* M19 passes on reports about the frozen artifact alone (execute_run, validate_sample,
\* collect, run_context, qualify).
THEOREM AcceptedAlwaysMeasured == QualSpec => []AcceptedIsMeasured
<1>1. QualInv => AcceptedIsMeasured
  BY DEF QualInv
<1> QED BY <1>1, QualInvAlways, PTL

\* A published M06 comparison read only locked bytes, although it reads the source
\* three times (run_diagnostic, _reverify_source).
THEOREM DiagnosticAlwaysBound == QualSpec => []DiagnosticBound
<1>1. QualInv => DiagnosticBound
  BY DEF QualInv
<1> QED BY <1>1, QualInvAlways, PTL

\* The inductive invariant keeps the variables in their kinds.
LEMMA QualTypes == QualInv => QualTypeOK
<1> SUFFICES ASSUME QualInv PROVE QualTypeOK OBVIOUS
<1>1. Len(trials) \in Nat /\ Len(trials) <= Warmups + Retained + FreshRuns
  <2>1. Len(trials) \in Nat
    BY DEF QualInv, QualKinds
  <2>2. trials = <<>> \/ Len(trials) <= FreshRuns \/ Len(trials) <= Warmups + Retained
    BY DEF QualInv, LoopFacts
  <2> QED BY <2>1, <2>2, Numbers
<1>2. \A c \in Contexts : verdicts[c].status \in Statuses /\ verdicts[c].runs \in Seq(Trial)
  BY DEF QualInv, QualKinds, Verdicts
<1>3. m19.status \in {"none", "blocked", "fail", "pass"} /\ m19.on \subseteq Evidence \cup {NoEvidence}
  BY DEF QualInv, QualKinds, Verdict19
<1>4. \A report \in {m20, m21, m23} :
         /\ report.accepted \in BOOLEAN /\ {report.model, report.binary} \subseteq {0, 1, 9}
         /\ report.reach \in Contexts \cup {0}
  BY DEF QualInv, QualKinds, Reports
<1> QED BY <1>1, <1>2, <1>3, <1>4 DEF QualInv, QualKinds, QualTypeOK, Outcome06

==============================================================================

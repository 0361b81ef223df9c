-------------------------- MODULE AdmissionPromise --------------------------
(***************************************************************************)
(* What the server promises about generation admission, whatever the data  *)
(* structure behind it: at most Capacity requests hold an admission, at    *)
(* most MaxLine wait, the one that arrived first is served first, nobody   *)
(* overtakes a waiting request, and nothing is admitted once admission is  *)
(* closed (docs/SERVER.md:102-106).  RequestQueue implements it.           *)
(***************************************************************************)
EXTENDS Naturals, FiniteSets

CONSTANTS
  Requests,   \* every request that may ever ask for admission
  Capacity,   \* how many may hold an admission at once
  MaxLine     \* how many may wait

VARIABLES
  line,       \* the set of waiting requests
  arrival,    \* arrival[r]: when r joined the line (meaningful while it waits)
  holding,    \* the requests that hold an admission
  closed      \* admission is over for good

vars == <<line, arrival, holding, closed>>

Init ==
  /\ line = {}
  /\ arrival \in [Requests -> Nat]
  /\ holding = {}
  /\ closed = FALSE

(* With nobody in line and room to spare a newcomer is admitted at once. *)
Enter(r) ==
  /\ ~closed /\ line = {} /\ r \notin holding
  /\ Cardinality(holding) < Capacity
  /\ holding' = holding \cup {r}
  /\ UNCHANGED <<line, arrival, closed>>

(* A newcomer joins behind everybody who already waits. *)
Join(r) ==
  /\ ~closed /\ r \notin line \cup holding
  /\ Cardinality(line) < MaxLine
  /\ \A q \in line : arrival[q] < arrival'[r]
  /\ arrival' = [arrival EXCEPT ![r] = arrival'[r]]
  /\ line' = line \cup {r}
  /\ UNCHANGED <<holding, closed>>

(* Only the earliest arrival in the line is ever served. *)
Serve(r) ==
  /\ ~closed /\ r \in line
  /\ \A q \in line : arrival[r] <= arrival[q]
  /\ Cardinality(holding) < Capacity
  /\ line' = line \ {r}
  /\ holding' = holding \cup {r}
  /\ UNCHANGED <<arrival, closed>>

(* A waiting request may give up. *)
Leave(r) ==
  /\ r \in line
  /\ line' = line \ {r}
  /\ UNCHANGED <<arrival, holding, closed>>

Finish(r) ==
  /\ r \in holding
  /\ holding' = holding \ {r}
  /\ UNCHANGED <<line, arrival, closed>>

Close ==
  /\ closed' = TRUE
  /\ UNCHANGED <<line, arrival, holding>>

Next ==
  \/ \E r \in Requests :
       Enter(r) \/ Join(r) \/ Serve(r) \/ Leave(r) \/ Finish(r)
  \/ Close

Spec == Init /\ [][Next]_vars
=============================================================================

-------------------------- MODULE SessionPromise ---------------------------
(***************************************************************************)
(* What the server promises about its sessions, whatever becomes of slots, *)
(* entries and reference counts behind them: at most Limit sessions are    *)
(* open, a session serves one request at a time and is never closed while  *)
(* it does, a continuation is served by the very session that answered     *)
(* the response it names, a session that failed serves nobody any more,    *)
(* and closing or failing makes a session's responses unknown              *)
(* (docs/SERVER.md:95-109, 238-250, 309-325).  SessionPool implements it,  *)
(* and ResponsesChain relies on no other pool.                             *)
(***************************************************************************)
EXTENDS Naturals, FiniteSets

CONSTANTS
  Requests,   \* the generation requests; the first of a conversation names it
  ChatIds,    \* the session ids that clients choose
  Limit       \* how many sessions may be open

VARIABLES
  want,       \* what each request asks for: a session id or a response
  open,       \* the sessions there are
  spoilt,     \* those of them that have failed
  serving,    \* pairs: this request is served by this session
  known       \* pairs: this response may be continued on this session

vars == <<want, open, spoilt, serving, known>>

Names == ChatIds \cup Requests

Init ==
  /\ want \in [Requests -> Names]
  /\ open = {} /\ spoilt = {} /\ serving = {} /\ known = {}

Continues(r) == want[r] \in Requests \ {r}
Served(r) == \E n \in Names : <<r, n>> \in serving
Idle(n) == \A r \in Requests : <<r, n>> \notin serving
Forgotten(n) == {k \in known : k[2] # n}

(* A request arrives, and asks for a session or for a response. *)
Ask(r) ==
  /\ ~Served(r)
  /\ \E w \in Names : want' = [want EXCEPT ![r] = w]
  /\ UNCHANGED <<open, spoilt, serving, known>>

(* A new conversation, under the name that was asked for. *)
Open(r, n) ==
  /\ ~Served(r) /\ ~Continues(r) /\ n = want[r]
  /\ n \notin open /\ Cardinality(open) < Limit
  /\ open' = open \cup {n}
  /\ serving' = serving \cup {<<r, n>>}
  /\ UNCHANGED <<want, spoilt, known>>

(* The next turn of one: the session of that name, or that of the response *)
(* which is continued.                                                     *)
Serve(r, n) ==
  /\ ~Served(r) /\ n \in open \ spoilt /\ Idle(n)
  /\ IF Continues(r) THEN <<want[r], n>> \in known ELSE n = want[r]
  /\ serving' = serving \cup {<<r, n>>}
  /\ UNCHANGED <<want, open, spoilt, known>>

(* The response may be continued from now on, or not after all. *)
Answer(r, n) ==
  /\ <<r, n>> \in serving /\ n \notin spoilt
  /\ known' = known \cup {<<r, n>>}
  /\ UNCHANGED <<want, open, spoilt, serving>>

Withdraw(r, n) ==
  /\ <<r, n>> \in serving
  /\ known' = known \ {<<r, n>>}
  /\ UNCHANGED <<want, open, spoilt, serving>>

(* What the request did to the session cannot be undone. *)
Spoil(r, n) ==
  /\ <<r, n>> \in serving
  /\ spoilt' = spoilt \cup {n}
  /\ known' = Forgotten(n)
  /\ UNCHANGED <<want, open, serving>>

Return(r, n) ==
  /\ <<r, n>> \in serving
  /\ serving' = serving \ {<<r, n>>}
  /\ UNCHANGED <<want, open, spoilt, known>>

(* An idle session makes room. *)
Close(n) ==
  /\ n \in open /\ Idle(n)
  /\ open' = open \ {n} /\ spoilt' = spoilt \ {n}
  /\ known' = Forgotten(n)
  /\ UNCHANGED <<want, serving>>

Next ==
  \/ \E r \in Requests : Ask(r)
  \/ \E r \in Requests, n \in Names :
       \/ Open(r, n) \/ Serve(r, n) \/ Answer(r, n)
       \/ Withdraw(r, n) \/ Spoil(r, n) \/ Return(r, n)
  \/ \E n \in Names : Close(n)

Spec == Init /\ [][Next]_vars
=============================================================================

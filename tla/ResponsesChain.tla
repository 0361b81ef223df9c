--------------------------- MODULE ResponsesChain ---------------------------
(***************************************************************************)
(* POST /v1/responses (HandleResponses in cli/server_main.cpp) over the    *)
(* response chain of a session (session_pool.cpp) and the conversation its *)
(* ChatSession has committed to the KV cache (runtime/chat.cpp).           *)
(*                                                                         *)
(* Request r publishes response r; a session is named by the root request  *)
(* that created it.  A turn is one user message and the answer to it, so a *)
(* conversation is the sequence of the requests whose turns it holds.      *)
(* Leases are exclusive (module SessionPool): what a handler does between  *)
(* acquiring and releasing its session is not interleaved on that session. *)
(***************************************************************************)
EXTENDS Naturals, Sequences, FiniteSets, SequencesExt

CONSTANTS
  Requests,    \* the POST /v1/responses requests
  None         \* no previous_response_id; no session

ASSUME ChainAssumption == IsFiniteSet(Requests) /\ None \notin Requests

VARIABLES
  stage,       \* where each handler stands
  previous,    \* previous_response_id
  streamed,    \* "stream": true
  sess,        \* the session a handler leased
  status,      \* the HTTP status sent: "none", "200", "404", "error"
  stale,       \* requests PrepareResponsesRequest found not to be the latest
  keepIndex,   \* ResponseIndexGuard::keep or keep_response_index
  discard,     \* SessionLease::discard_ at the end
  resident,    \* the sessions in the pool, discarded ones excluded
  index,       \* response_index
  chain,       \* responses_chain: latest_response_id is the last turn
  committed,   \* committed_messages, the conversation in the KV cache
  poisoned     \* ChatSession::is_poisoned

handlerVars == <<stage, previous, streamed, sess, status, stale, keepIndex,
                 discard>>
sessionVars == <<resident, index, chain, committed, poisoned>>
vars == <<handlerVars, sessionVars>>

Leasing == {"leased", "indexed", "prepared", "generated", "committed",
            "closing", "discarding", "releasing"}
Stages == {"new", "done"} \cup Leasing

Busy(s) == \E r \in Requests : stage[r] \in Leasing /\ sess[r] = s

Latest(s) == IF chain[s] = <<>> THEN None ELSE Last(chain[s])

Init ==
  /\ stage = [r \in Requests |-> "new"]
  /\ previous \in [Requests -> Requests \cup {None}]
  /\ \A r \in Requests : previous[r] # r
  /\ streamed \in [Requests -> BOOLEAN]
  /\ sess = [r \in Requests |-> None]
  /\ status = [r \in Requests |-> "none"]
  /\ stale = {} /\ keepIndex = {} /\ discard = {}
  /\ resident = {}
  /\ index = [r \in Requests |-> None]
  /\ chain = [s \in Requests |-> <<>>]
  /\ committed = [s \in Requests |-> <<>>]
  /\ poisoned = {}

Go(r, from, to) == stage[r] = from /\ stage' = [stage EXCEPT ![r] = to]

(* A plain handler sends its status at the end, a stream sent 200 before   *)
(* its provider ran.                                                       *)
Send(r, code) ==
  status' = [status EXCEPT ![r] = IF status[r] = "none" THEN code ELSE @]

-----------------------------------------------------------------------------
(* Acquiring a session.                                                    *)

CreateSession(r) ==
  /\ Go(r, "new", "leased")
  /\ previous[r] = None
  /\ sess' = [sess EXCEPT ![r] = r]
  /\ resident' = resident \cup {r}
  /\ UNCHANGED <<previous, streamed, status, stale, keepIndex, discard, index,
                 chain, committed, poisoned>>

Continue(r) ==
  /\ Go(r, "new", "leased")
  /\ previous[r] # None
  /\ index[previous[r]] # None /\ ~Busy(index[previous[r]])
  /\ sess' = [sess EXCEPT ![r] = index[previous[r]]]
  /\ UNCHANGED <<previous, streamed, status, stale, keepIndex, discard,
                 sessionVars>>

(* AcquireResponseSession knows no such response. *)
Unknown(r) ==
  /\ Go(r, "new", "done")
  /\ previous[r] # None /\ index[previous[r]] = None
  /\ Send(r, "404")
  /\ UNCHANGED <<previous, streamed, sess, stale, keepIndex, discard,
                 sessionVars>>

Purged(s) == [p \in Requests |-> IF index[p] = s THEN None ELSE index[p]]

(* The pool recycles an idle session for another conversation. *)
Evict(s) ==
  /\ s \in resident /\ ~Busy(s)
  /\ resident' = resident \ {s}
  /\ index' = Purged(s)
  /\ UNCHANGED <<handlerVars, chain, committed, poisoned>>

-----------------------------------------------------------------------------
(* The handler under its lease.  A streamed request leaves HandleResponses *)
(* with its 200 once indexed; the rest runs in the content provider.       *)

IndexResponse(r) ==
  /\ Go(r, "leased", "indexed")
  /\ index' = [index EXCEPT ![r] = sess[r]]
  /\ IF streamed[r] THEN Send(r, "200") ELSE UNCHANGED status
  /\ UNCHANGED <<previous, streamed, sess, stale, keepIndex, discard, resident,
                 chain, committed, poisoned>>

(* Mutant of IsLatest: any turn of the chain may be continued. *)
IsLatestOrOlder(r) ==
  IF previous[r] = None THEN chain[sess[r]] = <<>>
  ELSE previous[r] \in Range(chain[sess[r]])

(* A root needs a session without a chain, a continuation the latest id.   *)
IsLatest(r) == previous[r] = Latest(sess[r])

PrepareResponsesRequest(r) ==
  /\ Go(r, "indexed", "prepared")
  /\ IsLatest(r)
  /\ UNCHANGED <<previous, streamed, sess, status, stale, keepIndex, discard,
                 sessionVars>>

RejectStale(r) ==
  /\ Go(r, "indexed", "closing")
  /\ ~IsLatest(r)
  /\ stale' = stale \cup {r}
  /\ Send(r, "404")
  /\ UNCHANGED <<previous, streamed, sess, keepIndex, discard, sessionVars>>

(* Mutant of Extends: the committed conversation is not compared. *)
ExtendsUnchecked(r) == TRUE

(* ValidateContinuation: the request, which is the chain and one more user *)
(* turn, must extend what the session has committed by that turn.          *)
Extends(r) == chain[sess[r]] = committed[sess[r]]

Generate(r) ==
  /\ Go(r, "prepared", "generated")
  /\ Extends(r)
  /\ committed' = [committed EXCEPT ![sess[r]] = Append(chain[sess[r]], r)]
  /\ UNCHANGED <<previous, streamed, sess, status, stale, keepIndex, discard,
                 resident, index, chain, poisoned>>

(* Every failure that leaves the committed state alone: a continuation the *)
(* session refuses, other validation, a cancellation that was rolled back. *)
GenerateFails(r) ==
  /\ Go(r, "prepared", "closing")
  /\ Send(r, "error")
  /\ UNCHANGED <<previous, streamed, sess, stale, keepIndex, discard,
                 sessionVars>>

(* Mutant of GeneratePoisons: is_poisoned is not asked. *)
GeneratePoisonsKept(r) ==
  /\ Go(r, "prepared", "closing")
  /\ Extends(r)
  /\ poisoned' = poisoned \cup {sess[r]}
  /\ Send(r, "error")
  /\ UNCHANGED <<previous, streamed, sess, stale, keepIndex, discard, resident,
                 index, chain, committed>>

(* A failure after the cache was changed: a cancelled prefill, an output   *)
(* that does not decode or parse.                                          *)
GeneratePoisons(r) ==
  /\ Go(r, "prepared", "closing")
  /\ Extends(r)
  /\ poisoned' = poisoned \cup {sess[r]}
  /\ discard' = discard \cup {r}
  /\ Send(r, "error")
  /\ UNCHANGED <<previous, streamed, sess, stale, keepIndex, resident, index,
                 chain, committed>>

(* ResponsesStream::Generate turns a successful ChatSession::Generate into *)
(* an error: bytes of an incomplete character are left, or the reasoning   *)
(* differs.  The session is not poisoned, so the lease keeps it.           *)
StreamTailFails(r) ==
  /\ Go(r, "generated", "closing")
  /\ streamed[r]
  /\ UNCHANGED <<previous, streamed, sess, status, stale, keepIndex, discard,
                 sessionVars>>

(* Mutant of CommitResponsesRequest: the chain keeps the id it was given. *)
CommitPrevious(r) ==
  /\ Go(r, "generated", "committed")
  /\ chain' = [chain EXCEPT ![sess[r]] = Append(@, previous[r])]
  /\ UNCHANGED <<previous, streamed, sess, status, stale, keepIndex, discard,
                 resident, index, committed, poisoned>>

CommitResponsesRequest(r) ==
  /\ Go(r, "generated", "committed")
  /\ chain' = [chain EXCEPT ![sess[r]] = Append(@, r)]
  /\ UNCHANGED <<previous, streamed, sess, status, stale, keepIndex, discard,
                 resident, index, committed, poisoned>>

(* The final write may fail: a committed turn is kept all the same. *)
Respond(r) ==
  /\ Go(r, "committed", "closing")
  /\ keepIndex' = keepIndex \cup {r}
  /\ Send(r, "200")
  /\ UNCHANGED <<previous, streamed, sess, stale, discard, sessionVars>>

(* An exception: RunStreamCallback's handler, or unwinding past the lease. *)
Throw(r) ==
  /\ stage[r] \in {"leased", "indexed", "prepared", "generated", "committed"}
  /\ stage' = [stage EXCEPT ![r] = "closing"]
  /\ discard' = discard \cup {r}
  /\ Send(r, "error")
  /\ UNCHANGED <<previous, streamed, sess, stale, keepIndex, sessionVars>>

(* The client leaves before the content provider has run, or before its    *)
(* first event is written: nothing was generated.                          *)
Desert(r) ==
  /\ stage[r] \in {"indexed", "prepared"} /\ streamed[r]
  /\ stage' = [stage EXCEPT ![r] = "closing"]
  /\ UNCHANGED <<previous, streamed, sess, status, stale, keepIndex, discard,
                 sessionVars>>

-----------------------------------------------------------------------------
(* The destructors: ~ProviderState or ~ResponseIndexGuard, ~SessionLease.  *)

(* Mutant of CloseIndex: no guard takes a failed response out of the index. *)
CloseIndexNever(r) ==
  /\ Go(r, "closing", IF r \in discard THEN "discarding" ELSE "releasing")
  /\ UNCHANGED <<previous, streamed, sess, status, stale, keepIndex, discard,
                 sessionVars>>

CloseIndex(r) ==
  /\ Go(r, "closing", IF r \in discard THEN "discarding" ELSE "releasing")
  /\ index' = IF r \in keepIndex THEN index ELSE [index EXCEPT ![r] = None]
  /\ UNCHANGED <<previous, streamed, sess, status, stale, keepIndex, discard,
                 resident, chain, committed, poisoned>>

DiscardSession(r) ==
  /\ Go(r, "discarding", "releasing")
  /\ resident' = resident \ {sess[r]}
  /\ index' = Purged(sess[r])
  /\ UNCHANGED <<previous, streamed, sess, status, stale, keepIndex, discard,
                 chain, committed, poisoned>>

ReleaseSession(r) ==
  /\ Go(r, "releasing", "done")
  /\ UNCHANGED <<previous, streamed, sess, status, stale, keepIndex, discard,
                 sessionVars>>

-----------------------------------------------------------------------------
Handle(r) ==
  \/ CreateSession(r) \/ Continue(r) \/ Unknown(r)
  \/ IndexResponse(r) \/ PrepareResponsesRequest(r) \/ RejectStale(r)
  \/ Generate(r) \/ GenerateFails(r) \/ GeneratePoisons(r)
  \/ StreamTailFails(r) \/ CommitResponsesRequest(r) \/ Respond(r)
  \/ Throw(r) \/ Desert(r)
  \/ CloseIndex(r) \/ DiscardSession(r) \/ ReleaseSession(r)

Next == \E r \in Requests : Handle(r) \/ Evict(r)

Spec == Init /\ [][Next]_vars

-----------------------------------------------------------------------------
(* Properties.                                                             *)

(* Type correctness of the handlers and of the sessions. *)
TypeOK ==
  /\ stage \in [Requests -> Stages]
  /\ previous \in [Requests -> Requests \cup {None}]
  /\ streamed \in [Requests -> BOOLEAN]
  /\ sess \in [Requests -> Requests \cup {None}]
  /\ status \in [Requests -> {"none", "200", "404", "error"}]
  /\ stale \subseteq Requests /\ keepIndex \subseteq Requests
  /\ discard \subseteq Requests /\ resident \subseteq Requests
  /\ index \in [Requests -> Requests \cup {None}]
  /\ chain \in [Requests -> Seq(Requests)]
  /\ committed \in [Requests -> Seq(Requests)]
  /\ poisoned \subseteq Requests

(* Between turns a session of the pool is clean and holds, in its KV       *)
(* cache, exactly the conversation of its chain.  The one exception is a   *)
(* stream that failed after its turn had been generated: then the cache is *)
(* ahead by that turn, and by no more than that whatever is asked next.    *)
ChainMatchesSession ==
  \A s \in resident : ~Busy(s) =>
    /\ s \notin poisoned
    /\ \/ committed[s] = chain[s]
       \/ \E r \in Requests :
            /\ streamed[r] /\ stage[r] = "done" /\ r \notin keepIndex
            /\ committed[s] = Append(chain[s], r)

(* One exact linear chain: at every moment a resident conversation starts  *)
(* with its root and each turn continues the one before it, so that no     *)
(* response is ever answered by two turns of a kept conversation.          *)
LinearHistory ==
  \A s \in resident : \A i \in DOMAIN chain[s] :
    /\ previous[chain[s][i]] = IF i = 1 THEN None ELSE chain[s][i - 1]
    /\ i = 1 => chain[s][i] = s
    /\ \A j \in DOMAIN chain[s] : chain[s][i] = chain[s][j] => i = j

(* After a handler has ended its id is indexed only if its turn is in the  *)
(* chain of the resident session it leads to: a failed, deserted or thrown *)
(* request leaves no id behind, a kept one none of a discarded session.    *)
IndexedTurns ==
  \A p \in Requests : stage[p] = "done" /\ index[p] # None =>
    /\ index[p] \in resident
    /\ p \in Range(chain[index[p]])
    /\ status[p] = "200"

(* A conversation in the KV cache only ever grows by the turn of a request *)
(* that names its latest turn, whatever became of the requests in between. *)
OnlyLatestExtends ==
  [][\A s \in Requests : committed'[s] # committed[s] =>
       \E r \in Requests :
         /\ committed'[s] = Append(committed[s], r)
         /\ previous[r] = IF committed[s] = <<>> THEN None
                          ELSE Last(committed[s])]_vars

(* What a handler sees of the pool.  A discarded session has left          *)
(* "resident", and nobody asks for it again.                               *)
Wanted == [r \in Requests |-> IF previous[r] = None THEN r ELSE previous[r]]
Discarded == {sess[r] : r \in {q \in discard : stage[q] \in {"releasing", "done"}}}
Serving == {p \in Requests \X Requests : stage[p[1]] \in Leasing /\ sess[p[1]] = p[2]}
Known == {p \in Requests \X Requests : index[p[1]] = p[2]}

(* The pool the handlers rely on here behaves as the promise allows that   *)
(* SessionPool implements.                                                 *)
Pool == INSTANCE SessionPromise WITH
  ChatIds <- {},
  Limit   <- Cardinality(Requests),
  want    <- Wanted,
  open    <- resident \cup Discarded,
  spoilt  <- Discarded,
  serving <- Serving,
  known   <- Known

PoolAsPromised == Pool!Spec

(* docs/SERVER.md:238-240: a session is one exact linear chain, and its     *)
(* latest returned id is what a continuation must name.  So the session    *)
(* must be able to continue there: its cache holds that conversation.      *)
LatestContinuable ==
  \A p \in Requests :
    LET s == index[p] IN
      s # None /\ stage[p] = "done" /\ ~Busy(s) /\ p = Latest(s) =>
        chain[s] = committed[s]

(* docs/SERVER.md:241: a stale or branched previous_response_id gets 404,  *)
(* streamed or not.                                                        *)
StaleIs404 == \A r \in stale : stage[r] = "done" => status[r] = "404"
=============================================================================

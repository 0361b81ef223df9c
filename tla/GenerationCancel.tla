-------------------------- MODULE GenerationCancel --------------------------
(***************************************************************************)
(* Cancelling a generation: SessionEntry::cancel_requested and             *)
(* active_response_id of one session, the handlers that generate on it one *)
(* after another (cli/server_main.cpp, http_streaming.cpp), the endpoint   *)
(* POST /v1/responses/{id}/cancel, and the thread that turns a SIGINT or   *)
(* SIGTERM into flags.  The lease is exclusive (module SessionPool) and is *)
(* all that orders the handlers; the flag is a bare atomic.                *)
(***************************************************************************)
EXTENDS Naturals, FiniteSets

CONSTANTS
  Requests,   \* the generation requests that use the session
  None        \* no active response

ASSUME CancelAssumption == IsFiniteSet(Requests) /\ None \notin Requests

VARIABLES
  phase,      \* where each handler stands
  kind,       \* "plain", "chat" (a chat stream), "responses" (a stream)
  sawSignal,  \* g_shutdown_signal != 0, as the handler read it
  outcome,    \* "none", "cancelled", "ended"
  acked,      \* requests whose cancellation the endpoint accepted
  flag,       \* cancel_requested
  activeId,   \* active_response_id
  indexed,    \* responses in response_index
  listed,     \* the entry is in `sessions`
  signalled,  \* g_shutdown_signal # 0
  monitor     \* "watching", "flagged" once it went through `sessions`

handlerVars == <<phase, kind, sawSignal, outcome>>
entryVars == <<flag, activeId, indexed, listed>>
shutdownVars == <<signalled, monitor>>
vars == <<handlerVars, acked, entryVars, shutdownVars>>

Kinds == {"plain", "chat", "responses"}
Phases == {"idle", "building", "leased", "read", "stored", "generating",
           "returned", "closing", "done"}
InUse == \E r \in Requests : phase[r] \notin {"idle", "done"}

Init ==
  /\ phase = [r \in Requests |-> "idle"]
  /\ kind \in [Requests -> Kinds]
  /\ sawSignal = [r \in Requests |-> FALSE]
  /\ outcome = [r \in Requests |-> "none"]
  /\ acked = {}
  /\ flag = FALSE
  /\ activeId = None
  /\ indexed = {}
  /\ listed = TRUE
  /\ signalled = FALSE
  /\ monitor = "watching"

Go(r, from, to) == phase[r] = from /\ phase' = [phase EXCEPT ![r] = to]

-----------------------------------------------------------------------------
(* Getting the session: as it is, or recycled for another conversation, in *)
(* which case it is out of `sessions` while it is reset.                   *)

Lease(r) ==
  /\ Go(r, "idle", "leased")
  /\ ~InUse
  /\ indexed' = IF kind[r] = "responses" THEN indexed \cup {r} ELSE indexed
  /\ UNCHANGED <<kind, sawSignal, outcome, acked, flag, activeId, listed,
                 shutdownVars>>

Recycle(r) ==
  /\ Go(r, "idle", "building")
  /\ ~InUse
  /\ listed' = FALSE
  /\ indexed' = {}
  /\ UNCHANGED <<kind, sawSignal, outcome, acked, flag, activeId,
                 shutdownVars>>

Publish(r) ==
  /\ Go(r, "building", "leased")
  /\ listed' = TRUE
  /\ flag' = FALSE
  /\ activeId' = None
  /\ indexed' = IF kind[r] = "responses" THEN indexed \cup {r} ELSE indexed
  /\ UNCHANGED <<kind, sawSignal, outcome, acked, shutdownVars>>

-----------------------------------------------------------------------------
(* The handler: cancel_requested.store(g_shutdown_signal != 0) reads the   *)
(* signal first and stores later; a Responses stream then makes itself     *)
(* known to the cancel endpoint.                                           *)

(* Mutant of ReadSignal: the response is made known before the flag is set. *)
ReadSignalKnown(r) ==
  /\ Go(r, "leased", "read")
  /\ sawSignal' = [sawSignal EXCEPT ![r] = signalled]
  /\ activeId' = IF kind[r] = "responses" THEN r ELSE activeId
  /\ UNCHANGED <<kind, outcome, acked, flag, indexed, listed, shutdownVars>>

ReadSignal(r) ==
  /\ Go(r, "leased", "read")
  /\ sawSignal' = [sawSignal EXCEPT ![r] = signalled]
  /\ UNCHANGED <<kind, outcome, acked, entryVars, shutdownVars>>

(* Mutant of StoreFlag: the flag is raised but never lowered. *)
StoreFlagNoReset(r) ==
  /\ Go(r, "read", IF kind[r] = "responses" THEN "stored" ELSE "generating")
  /\ flag' = (flag \/ sawSignal[r])
  /\ UNCHANGED <<kind, sawSignal, outcome, acked, activeId, indexed, listed,
                 shutdownVars>>

StoreFlag(r) ==
  /\ Go(r, "read", IF kind[r] = "responses" THEN "stored" ELSE "generating")
  /\ flag' = sawSignal[r]
  /\ UNCHANGED <<kind, sawSignal, outcome, acked, activeId, indexed, listed,
                 shutdownVars>>

SetActiveResponse(r) ==
  /\ Go(r, "stored", "generating")
  /\ activeId' = r
  /\ UNCHANGED <<kind, sawSignal, outcome, acked, flag, indexed, listed,
                 shutdownVars>>

(* Mutants of MustStop: only the flag, or only the signal, is looked at. *)
MustStopFlagOnly(r) == flag
MustStopSignalOnly(r) == signalled

(* CheckStreamCancellation looks at the flag only,                         *)
(* CheckGenerationCancellation of a plain handler at the signal as well.   *)
MustStop(r) == flag \/ (kind[r] = "plain" /\ signalled)

Observe(r) ==
  /\ Go(r, "generating", "returned")
  /\ MustStop(r)
  /\ outcome' = [outcome EXCEPT ![r] = "cancelled"]
  /\ UNCHANGED <<kind, sawSignal, acked, entryVars, shutdownVars>>

(* The turn ends by itself: last token, an error, a lost client. *)
End(r) ==
  /\ Go(r, "generating", "returned")
  /\ outcome' = [outcome EXCEPT ![r] = "ended"]
  /\ UNCHANGED <<kind, sawSignal, acked, entryVars, shutdownVars>>

(* Mutant of ClearActiveResponse: the id is left behind. *)
ClearActiveForgotten(r) ==
  /\ Go(r, "returned", "closing")
  /\ UNCHANGED <<kind, sawSignal, outcome, acked, entryVars, shutdownVars>>

ClearActiveResponse(r) ==
  /\ Go(r, "returned", "closing")
  /\ activeId' = IF activeId = r THEN None ELSE activeId
  /\ UNCHANGED <<kind, sawSignal, outcome, acked, flag, indexed, listed,
                 shutdownVars>>

(* A stream whose client left before the provider ran, or whose request is *)
(* refused by PrepareResponsesRequest: nothing is generated.               *)
Desert(r) ==
  /\ Go(r, "leased", "closing")
  /\ UNCHANGED <<kind, sawSignal, outcome, acked, entryVars, shutdownVars>>

(* Mutant of Close: the index is updated with the active id, cleared above. *)
CloseActive(r) ==
  /\ Go(r, "closing", "done")
  /\ indexed' = IF outcome[r] = "ended" THEN indexed \cup {activeId}
                ELSE indexed \ {r}
  /\ UNCHANGED <<kind, sawSignal, outcome, acked, flag, activeId, listed,
                 shutdownVars>>

(* The response stays indexed when its turn was kept; the lease ends. *)
Close(r) ==
  /\ Go(r, "closing", "done")
  /\ indexed' \in {indexed, indexed \ {r}}
  /\ outcome[r] # "ended" => r \notin indexed'
  /\ UNCHANGED <<kind, sawSignal, outcome, acked, flag, activeId, listed,
                 shutdownVars>>

-----------------------------------------------------------------------------
(* HandleCancelResponse, one critical section of pool_mutex.               *)
HandleCancelResponse(r) ==
  /\ r \in indexed /\ activeId = r /\ InUse
  /\ r \notin acked
  /\ acked' = acked \cup {r}
  /\ flag' = TRUE
  /\ UNCHANGED <<handlerVars, activeId, indexed, listed, shutdownVars>>

-----------------------------------------------------------------------------
(* The signal handler, and the monitor thread that polls for it.           *)

Signal ==
  /\ ~signalled
  /\ signalled' = TRUE
  /\ UNCHANGED <<handlerVars, acked, entryVars, monitor>>

FlagSessions ==
  /\ signalled /\ monitor = "watching"
  /\ monitor' = "flagged"
  /\ flag' = IF listed THEN TRUE ELSE flag
  /\ UNCHANGED <<handlerVars, acked, activeId, indexed, listed, signalled>>

-----------------------------------------------------------------------------
Handle(r) ==
  \/ Publish(r) \/ ReadSignal(r) \/ StoreFlag(r) \/ SetActiveResponse(r)
  \/ Observe(r) \/ ClearActiveResponse(r) \/ Close(r)

Next ==
  \/ \E r \in Requests :
       \/ Lease(r) \/ Recycle(r) \/ Handle(r) \/ End(r) \/ Desert(r)
       \/ HandleCancelResponse(r)
  \/ Signal
  \/ FlagSessions

Spec == Init /\ [][Next]_vars

(* Handlers keep running and poll between tokens, the monitor every 50 ms. *)
(* Generations need not end: a model may go on to the context limit.       *)
Fairness == WF_vars(FlagSessions) /\ \A r \in Requests : WF_vars(Handle(r))

FairSpec == Spec /\ Fairness

-----------------------------------------------------------------------------
(* Properties.                                                             *)

(* Type correctness of the handlers, the entry and the monitor. *)
TypeOK ==
  /\ phase \in [Requests -> Phases]
  /\ kind \in [Requests -> Kinds]
  /\ sawSignal \in [Requests -> BOOLEAN]
  /\ outcome \in [Requests -> {"none", "cancelled", "ended"}]
  /\ acked \subseteq Requests /\ indexed \subseteq Requests
  /\ activeId \in Requests \cup {None}
  /\ flag \in BOOLEAN /\ listed \in BOOLEAN /\ signalled \in BOOLEAN
  /\ monitor \in {"watching", "flagged"}

(* A generation is only ever cancelled for its own sake: a cancel accepted *)
(* for an earlier response of the session, even at the last moment, never  *)
(* stops a later one, although all of them share one flag.                 *)
CancelIsolated ==
  \A r \in Requests : outcome[r] = "cancelled" => r \in acked \/ signalled

(* An accepted cancel is not lost: while that generation runs the flag     *)
(* stays set, whatever the other threads do.                               *)
CancelPending ==
  \A r \in Requests : r \in acked /\ phase[r] = "generating" => flag

(* The endpoint only accepts the response that is generating: activeId     *)
(* never survives its handler, in particular not into a recycled session.  *)
ActiveIsCurrent ==
  activeId # None => /\ phase[activeId] \in {"generating", "returned"}
                     /\ activeId \in indexed

(* An accepted cancel ends the generation, however long it would have run. *)
CancelStops ==
  \A r \in Requests : r \in acked ~> phase[r] = "done"

(* A shutdown ends every plain generation, flagged in time or not, however *)
(* it races with the handler's own store of the flag.                      *)
ShutdownStopsPlain ==
  \A r \in Requests :
    signalled /\ kind[r] = "plain" /\ phase[r] = "generating" ~>
      phase[r] = "done"

(* docs/SERVER.md:116: "shutdown flags active sessions for cancellation":  *)
(* once the monitor went through the sessions, a stream, which looks at    *)
(* nothing but the flag, does not generate unflagged.                      *)
ShutdownFlagged ==
  \A r \in Requests :
    monitor = "flagged" /\ kind[r] # "plain" /\ phase[r] = "generating" => flag
=============================================================================

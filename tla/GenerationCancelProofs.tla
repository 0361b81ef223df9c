----------------------- MODULE GenerationCancelProofs -----------------------
(***************************************************************************)
(* Proofs about GenerationCancel for any finite set of requests: however   *)
(* many generations a session serves one after another, a cancel reaches   *)
(* the one it names and no other.                                          *)
(***************************************************************************)
EXTENDS GenerationCancel, TLAPS

InUseBy(r) == phase[r] \notin {"idle", "done"}

(* The lease: one handler at a time. *)
OneHandler == \A q, r \in Requests : InUseBy(q) /\ InUseBy(r) => q = r

(* What a handler read of the signal is still so. *)
SignalSeen == \A r \in Requests : sawSignal[r] => signalled

(* From its own store of the flag to the end of its generation the flag is *)
(* only raised for the handler's own sake.                                 *)
FlagOwned ==
  \A r \in Requests :
    phase[r] \in {"stored", "generating"} /\ flag => r \in acked \/ signalled

(* A cancel is accepted once the generation has begun. *)
AckedLate ==
  \A r \in Requests : r \in acked =>
    phase[r] \in {"generating", "returned", "closing", "done"}

(* A Responses stream is indexed for as long as its handler is under way,  *)
(* and nothing else passes through SetActiveResponse.                      *)
Serving == {"leased", "read", "stored", "generating", "returned", "closing"}
StreamIndexed ==
  \A r \in Requests :
    /\ phase[r] = "stored" => kind[r] = "responses"
    /\ phase[r] \in Serving /\ kind[r] = "responses" => r \in indexed

IndInv ==
  /\ TypeOK /\ OneHandler /\ SignalSeen /\ FlagOwned /\ AckedLate
  /\ StreamIndexed
  /\ CancelIsolated /\ CancelPending /\ ActiveIsCurrent

-----------------------------------------------------------------------------
LEMMA InitIndInv == Init => IndInv
<1> SUFFICES ASSUME Init PROVE IndInv
  OBVIOUS
<1> USE DEF Init
<1>1. TypeOK
  BY DEF TypeOK, Phases, Kinds
<1>2. OneHandler /\ SignalSeen /\ FlagOwned /\ AckedLate /\ StreamIndexed
  BY DEF OneHandler, InUseBy, SignalSeen, FlagOwned, AckedLate, StreamIndexed,
     Serving
<1>3. CancelIsolated /\ CancelPending /\ ActiveIsCurrent
  BY DEF CancelIsolated, CancelPending, ActiveIsCurrent
<1>4. QED
  BY <1>1, <1>2, <1>3 DEF IndInv

(* Moving one handler along, as every action of a handler does. *)
LEMMA Moved ==
  ASSUME phase \in [Requests -> Phases], NEW r \in Requests,
         NEW from \in Phases, NEW to \in Phases, Go(r, from, to)
  PROVE  /\ phase' \in [Requests -> Phases]
         /\ phase[r] = from /\ phase'[r] = to
         /\ \A q \in Requests \ {r} : phase'[q] = phase[q]
  BY DEF Go

(* A handler that is free to take the session finds nobody's response      *)
(* active, and no other handler under way.                                 *)
LEMMA FreeSession ==
  ASSUME IndInv, ~InUse
  PROVE  activeId = None /\ \A q \in Requests : ~InUseBy(q)
  BY DEF IndInv, InUse, InUseBy, ActiveIsCurrent, TypeOK

LEMMA TakeStep ==
  ASSUME IndInv, NEW r \in Requests, Lease(r) \/ Recycle(r)
  PROVE  IndInv'
<1>1. TypeOK /\ activeId = None /\ \A q \in Requests : ~InUseBy(q)
  BY FreeSession DEF IndInv, Lease, Recycle
<1>2. PICK to \in {"leased", "building"} : Go(r, "idle", to)
  BY DEF Lease, Recycle
<1>3. /\ phase' \in [Requests -> Phases]
      /\ phase[r] = "idle" /\ phase'[r] = to
      /\ \A q \in Requests \ {r} : phase'[q] = phase[q]
  BY <1>1, <1>2, Moved DEF TypeOK, Phases
<1>4. /\ UNCHANGED <<kind, sawSignal, outcome, acked, flag, activeId>>
      /\ UNCHANGED shutdownVars
  BY DEF Lease, Recycle
<1>5. TypeOK'
  <2>1. indexed' \subseteq Requests /\ listed' \in BOOLEAN
    BY <1>1 DEF Lease, Recycle, TypeOK
  <2>2. QED
    BY <1>1, <1>3, <1>4, <2>1 DEF TypeOK, shutdownVars
<1>6. OneHandler'
  BY <1>1, <1>3 DEF OneHandler, InUseBy
<1>7. SignalSeen' /\ CancelIsolated'
  BY <1>4 DEF IndInv, SignalSeen, CancelIsolated, shutdownVars
<1>8. FlagOwned' /\ AckedLate' /\ CancelPending'
  BY <1>2, <1>3, <1>4
     DEF IndInv, FlagOwned, AckedLate, CancelPending, shutdownVars
<1>9. ActiveIsCurrent'
  BY <1>1, <1>4 DEF ActiveIsCurrent
<1>10. StreamIndexed'
  <2>1. /\ \A q \in Requests \ {r} : phase'[q] \notin Serving
        /\ phase'[r] = "building" \/ (Lease(r) /\ phase'[r] = "leased")
    BY <1>1, <1>2, <1>3, Moved DEF InUseBy, Serving, Lease, Recycle, TypeOK,
       Phases
  <2>2. Lease(r) /\ kind[r] = "responses" => r \in indexed'
    BY DEF Lease
  <2>3. QED
    BY <1>4, <2>1, <2>2 DEF StreamIndexed, Serving
<1>11. QED
  BY <1>5, <1>6, <1>7, <1>8, <1>9, <1>10 DEF IndInv

(* A handler that is under way owns the session: nobody else is, and an    *)
(* active response is its own.                                             *)
LEMMA Owner ==
  ASSUME IndInv, NEW r \in Requests, InUseBy(r)
  PROVE  /\ \A q \in Requests \ {r} : ~InUseBy(q)
         /\ activeId \in {None, r}
         /\ activeId = r => phase[r] \in {"generating", "returned"}
<1>1. \A q \in Requests \ {r} : ~InUseBy(q)
  BY DEF IndInv, OneHandler
<1>2. activeId # None =>
        activeId \in Requests /\ phase[activeId] \in {"generating", "returned"}
  BY DEF IndInv, ActiveIsCurrent, TypeOK
<1>3. activeId # None => InUseBy(activeId)
  BY <1>2 DEF InUseBy
<1>4. r # None
  BY CancelAssumption
<1>5. QED
  BY <1>1, <1>2, <1>3, <1>4

LEMMA PrepareStep ==
  ASSUME IndInv, NEW r \in Requests,
         Publish(r) \/ ReadSignal(r) \/ StoreFlag(r) \/ SetActiveResponse(r)
  PROVE  IndInv'
<1>1. TypeOK
  BY DEF IndInv
<1>2. PICK from \in {"building", "leased", "read", "stored"},
           to \in {"leased", "read", "stored", "generating"} : Go(r, from, to)
  BY DEF Publish, ReadSignal, StoreFlag, SetActiveResponse
<1>3. /\ phase' \in [Requests -> Phases]
      /\ phase[r] = from /\ phase'[r] = to
      /\ \A q \in Requests \ {r} : phase'[q] = phase[q]
  BY <1>1, <1>2, Moved DEF TypeOK, Phases
<1>4. /\ InUseBy(r) /\ activeId = None /\ r \notin acked
      /\ \A q \in Requests \ {r} : ~InUseBy(q) /\ ~InUseBy(q)'
  <2>1. InUseBy(r)
    BY <1>3 DEF InUseBy
  <2>2. activeId = None /\ \A q \in Requests \ {r} : ~InUseBy(q)
    BY <1>3, <2>1, Owner
  <2>3. r \notin acked
    BY <1>3 DEF IndInv, AckedLate
  <2>4. QED
    BY <1>3, <2>1, <2>2, <2>3 DEF InUseBy
<1>5. UNCHANGED <<kind, outcome, acked, shutdownVars>>
  BY DEF Publish, ReadSignal, StoreFlag, SetActiveResponse
<1>6. TypeOK'
  <2>1. CASE Publish(r)
    BY <1>1, <1>3, <2>1 DEF Publish, TypeOK, shutdownVars
  <2>2. CASE ReadSignal(r)
    BY <1>1, <1>3, <2>2 DEF ReadSignal, TypeOK, shutdownVars, entryVars
  <2>3. CASE StoreFlag(r)
    BY <1>1, <1>3, <2>3 DEF StoreFlag, TypeOK, shutdownVars
  <2>4. CASE SetActiveResponse(r)
    BY <1>1, <1>3, <2>4 DEF SetActiveResponse, TypeOK, shutdownVars
  <2>5. QED
    BY <2>1, <2>2, <2>3, <2>4
<1>7. OneHandler'
  BY <1>4 DEF OneHandler
<1>8. SignalSeen'
  BY <1>1, <1>5 DEF IndInv, SignalSeen, TypeOK, Publish, ReadSignal, StoreFlag,
     SetActiveResponse, shutdownVars
<1>9. FlagOwned'
  <2> SUFFICES ASSUME NEW q \in Requests,
                      phase'[q] \in {"stored", "generating"}, flag'
               PROVE  q \in acked' \/ signalled'
    BY DEF FlagOwned
  <2>1. q = r
    BY <1>4 DEF InUseBy
  <2>2. CASE StoreFlag(r)
    <3>1. flag' = sawSignal[r] /\ (sawSignal[r] => signalled)
      BY <2>2 DEF StoreFlag, IndInv, SignalSeen
    <3>2. signalled
      BY <3>1, ZenonT(20)
    <3>3. QED
      BY <1>5, <3>2 DEF shutdownVars
  <2>3. CASE SetActiveResponse(r)
    BY <1>5, <2>1, <2>3 DEF SetActiveResponse, Go, IndInv, FlagOwned,
       shutdownVars
  <2>4. CASE Publish(r) \/ ReadSignal(r)
    <3>1. phase'[r] \in {"leased", "read"}
      BY <1>1, <2>4, Moved DEF Publish, ReadSignal, TypeOK, Phases
    <3>2. QED
      BY <2>1, <3>1
  <2>5. QED
    BY <2>2, <2>3, <2>4
<1>10. AckedLate' /\ CancelPending'
  BY <1>3, <1>4, <1>5 DEF IndInv, AckedLate, CancelPending, InUseBy
<1>11. CancelIsolated'
  BY <1>5 DEF IndInv, CancelIsolated, shutdownVars
<1>12. ActiveIsCurrent'
  <2>1. CASE SetActiveResponse(r)
    <3>1. phase[r] = "stored" /\ activeId' = r /\ phase'[r] = "generating"
          /\ indexed' = indexed
      BY <1>1, <2>1, Moved DEF SetActiveResponse, TypeOK, Phases
    <3>2. r \in indexed
      BY <3>1 DEF IndInv, StreamIndexed, Serving
    <3>3. QED
      BY <3>1, <3>2 DEF ActiveIsCurrent
  <2>2. CASE Publish(r) \/ ReadSignal(r) \/ StoreFlag(r)
    BY <1>4, <2>2 DEF Publish, ReadSignal, StoreFlag, entryVars,
       ActiveIsCurrent
  <2>3. QED
    BY <2>1, <2>2
<1>13. StreamIndexed'
  <2>1. \A q \in Requests \ {r} : phase'[q] \notin Serving
    BY <1>4 DEF InUseBy, Serving
  <2>2. phase'[r] = "stored" => kind[r] = "responses"
    BY <1>1, Moved DEF Publish, ReadSignal, StoreFlag, SetActiveResponse,
       TypeOK, Phases
  <2>3. kind[r] = "responses" => r \in indexed'
    <3>1. CASE Publish(r)
      BY <3>1 DEF Publish
    <3>2. CASE ~Publish(r)
      <4>1. indexed' = indexed /\ phase[r] \in Serving
        BY <1>3, <3>2 DEF Publish, ReadSignal, StoreFlag, SetActiveResponse,
           entryVars, Serving, Go
      <4>2. QED
        BY <4>1 DEF IndInv, StreamIndexed
    <3>3. QED
      BY <3>1, <3>2
  <2>4. QED
    BY <1>5, <2>1, <2>2, <2>3 DEF StreamIndexed, Serving
<1>14. QED
  BY <1>6, <1>7, <1>8, <1>9, <1>10, <1>11, <1>12, <1>13 DEF IndInv

LEMMA FinishStep ==
  ASSUME IndInv, NEW r \in Requests,
         \/ Observe(r) \/ End(r) \/ ClearActiveResponse(r) \/ Desert(r)
         \/ Close(r)
  PROVE  IndInv'
<1>1. TypeOK
  BY DEF IndInv
<1>2. PICK from \in {"leased", "generating", "returned", "closing"},
           to \in {"returned", "closing", "done"} : Go(r, from, to)
  BY DEF Observe, End, ClearActiveResponse, Desert, Close
<1>3. /\ phase' \in [Requests -> Phases]
      /\ phase[r] = from /\ phase'[r] = to
      /\ \A q \in Requests \ {r} : phase'[q] = phase[q]
  BY <1>1, <1>2, Moved DEF TypeOK, Phases
<1>4. /\ InUseBy(r) /\ activeId \in {None, r}
      /\ activeId = r => phase[r] \in {"generating", "returned"}
      /\ \A q \in Requests \ {r} : ~InUseBy(q) /\ ~InUseBy(q)'
  <2>1. InUseBy(r)
    BY <1>3 DEF InUseBy
  <2>2. /\ \A q \in Requests \ {r} : ~InUseBy(q)
        /\ activeId \in {None, r}
        /\ activeId = r => phase[r] \in {"generating", "returned"}
    BY <2>1, Owner
  <2>3. QED
    BY <1>3, <2>1, <2>2 DEF InUseBy
<1>5. UNCHANGED <<kind, sawSignal, acked, flag, shutdownVars>>
  BY DEF Observe, End, ClearActiveResponse, Desert, Close, entryVars
<1>6. TypeOK'
  <2>1. CASE Observe(r) \/ End(r)
    BY <1>1, <1>3, <2>1 DEF Observe, End, TypeOK, shutdownVars, entryVars
  <2>2. CASE ClearActiveResponse(r) \/ Desert(r)
    BY <1>1, <1>3, <2>2 DEF ClearActiveResponse, Desert, TypeOK, shutdownVars,
       entryVars
  <2>3. CASE Close(r)
    BY <1>1, <1>3, <2>3 DEF Close, TypeOK, shutdownVars
  <2>4. QED
    BY <2>1, <2>2, <2>3
<1>7. OneHandler'
  BY <1>4 DEF OneHandler
<1>8. SignalSeen' /\ FlagOwned' /\ CancelPending'
  <2>1. \A q \in Requests : phase'[q] \notin {"stored", "generating"}
    BY <1>3, <1>4 DEF InUseBy
  <2>2. QED
    BY <1>5, <2>1
       DEF IndInv, SignalSeen, FlagOwned, CancelPending, shutdownVars
<1>9. AckedLate'
  <2>1. r \in acked => phase[r] # "leased"
    BY DEF IndInv, AckedLate
  <2>2. phase'[r] \in {"returned", "closing", "done"}
    BY <1>3
  <2>3. QED
    BY <1>3, <1>5, <2>2 DEF IndInv, AckedLate
<1>10. CancelIsolated'
  <2>1. CASE Observe(r)
    <3>1. flag \/ signalled
      BY <2>1 DEF Observe, MustStop
    <3>2. phase[r] = "generating"
      BY <2>1 DEF Observe, Go
    <3>3. r \in acked \/ signalled
      BY <3>1, <3>2 DEF IndInv, FlagOwned
    <3>4. \A q \in Requests \ {r} : outcome'[q] = outcome[q]
      BY <1>1, <2>1 DEF Observe, TypeOK
    <3>5. QED
      BY <1>5, <3>3, <3>4 DEF IndInv, CancelIsolated, shutdownVars
  <2>2. CASE ~Observe(r)
    <3>1. \A q \in Requests : outcome'[q] = "cancelled" =>
                               outcome[q] = "cancelled"
      BY <1>1, <2>2 DEF Observe, End, ClearActiveResponse, Desert, Close, TypeOK
    <3>2. QED
      BY <1>5, <3>1 DEF IndInv, CancelIsolated, shutdownVars
  <2>3. QED
    BY <2>1, <2>2
<1>11. ActiveIsCurrent'
  <2>1. CASE Observe(r) \/ End(r)
    <3>1. phase'[r] = "returned" /\ activeId' = activeId /\ indexed' = indexed
      BY <1>1, <2>1, Moved DEF Observe, End, TypeOK, Phases, entryVars
    <3>2. QED
      BY <1>4, <3>1 DEF IndInv, ActiveIsCurrent
  <2>2. CASE ClearActiveResponse(r)
    BY <1>4, <2>2 DEF ClearActiveResponse, ActiveIsCurrent
  <2>3. CASE Desert(r) \/ Close(r)
    <3>1. phase[r] \in {"leased", "closing"} /\ activeId' = activeId
      BY <2>3 DEF Desert, Close, Go, entryVars
    <3>2. QED
      BY <1>4, <3>1 DEF ActiveIsCurrent
  <2>4. QED
    BY <2>1, <2>2, <2>3
<1>12. StreamIndexed'
  <2>1. \A q \in Requests \ {r} : phase'[q] \notin Serving
    BY <1>4 DEF InUseBy, Serving
  <2>2. phase'[r] # "stored"
    BY <1>3
  <2>3. CASE Close(r)
    <3>1. phase'[r] = "done"
      BY <1>1, <2>3, Moved DEF Close, TypeOK, Phases
    <3>2. QED
      BY <2>1, <3>1 DEF StreamIndexed, Serving
  <2>4. CASE ~Close(r)
    <3>1. indexed' = indexed /\ phase[r] \in Serving
      BY <1>3, <2>4 DEF Observe, End, ClearActiveResponse, Desert, Close,
         entryVars, Serving
    <3>2. QED
      BY <1>5, <2>1, <2>2, <3>1 DEF IndInv, StreamIndexed, Serving
  <2>5. QED
    BY <2>3, <2>4
<1>13. QED
  BY <1>6, <1>7, <1>8, <1>9, <1>10, <1>11, <1>12 DEF IndInv

(* The cancel endpoint and the shutdown only raise the flag, and only for  *)
(* the response that generates or for a signal that has come.              *)
LEMMA OutsideStep ==
  ASSUME IndInv,
         \/ \E r \in Requests : HandleCancelResponse(r)
         \/ Signal \/ FlagSessions
  PROVE  IndInv'
<1>1. TypeOK
  BY DEF IndInv
<1>2. UNCHANGED <<handlerVars, activeId, indexed, listed>>
  BY DEF HandleCancelResponse, Signal, FlagSessions, entryVars
<1>3. acked \subseteq acked' /\ (signalled => signalled')
  <2>1. CASE \E r \in Requests : HandleCancelResponse(r)
    BY <2>1 DEF HandleCancelResponse, shutdownVars
  <2>2. CASE Signal
    BY <2>2 DEF Signal
  <2>3. CASE FlagSessions
    BY <2>3 DEF FlagSessions
  <2>4. QED
    BY <2>1, <2>2, <2>3
<1>4. flag' => flag \/ signalled \/
               \E r \in acked' : HandleCancelResponse(r) /\ r = activeId
  BY DEF HandleCancelResponse, Signal, FlagSessions, entryVars
<1>5. TypeOK'
  <2>1. CASE \E r \in Requests : HandleCancelResponse(r)
    BY <1>1, <2>1 DEF HandleCancelResponse, TypeOK, handlerVars, shutdownVars
  <2>2. CASE Signal \/ FlagSessions
    BY <1>1, <2>2 DEF Signal, FlagSessions, TypeOK, handlerVars, entryVars
  <2>3. QED
    BY <2>1, <2>2
<1>6. OneHandler' /\ StreamIndexed' /\ ActiveIsCurrent'
  BY <1>2 DEF IndInv, OneHandler, InUseBy, StreamIndexed, ActiveIsCurrent,
     handlerVars
<1>7. SignalSeen' /\ CancelIsolated'
  BY <1>2, <1>3 DEF IndInv, SignalSeen, CancelIsolated, handlerVars
<1>8. FlagOwned'
  <2> SUFFICES ASSUME NEW q \in Requests,
                      phase[q] \in {"stored", "generating"}, flag'
               PROVE  q \in acked' \/ signalled'
    BY <1>2 DEF FlagOwned, handlerVars
  <2>1. CASE flag \/ signalled
    BY <1>3, <2>1 DEF IndInv, FlagOwned
  <2>2. CASE \E r \in acked' : HandleCancelResponse(r) /\ r = activeId
    <3>1. activeId \in acked' /\ activeId # None
      BY <1>5, <2>2, CancelAssumption DEF TypeOK
    <3>2. InUseBy(q)
      BY DEF InUseBy
    <3>3. activeId = q
      BY <3>1, <3>2, Owner
    <3>4. QED
      BY <3>1, <3>3
  <2>3. QED
    BY <1>4, <2>1, <2>2
<1>9. AckedLate' /\ CancelPending'
  <2>1. CASE \E r \in Requests : HandleCancelResponse(r)
    <3>1. PICK r \in Requests : HandleCancelResponse(r)
      BY <2>1
    <3>2. r = activeId /\ acked' = acked \cup {r} /\ flag' /\ r # None
      BY <3>1, CancelAssumption DEF HandleCancelResponse
    <3>3. phase[r] \in {"generating", "returned"}
      BY <3>2 DEF IndInv, ActiveIsCurrent
    <3>4. QED
      BY <1>2, <3>2, <3>3 DEF IndInv, AckedLate, CancelPending, handlerVars
  <2>2. CASE Signal \/ FlagSessions
    <3>1. acked' = acked /\ (flag => flag')
      BY <2>2 DEF Signal, FlagSessions, entryVars
    <3>2. QED
      BY <1>2, <3>1 DEF IndInv, AckedLate, CancelPending, handlerVars
  <2>3. QED
    BY <2>1, <2>2
<1>10. QED
  BY <1>5, <1>6, <1>7, <1>8, <1>9 DEF IndInv

LEMMA IndInvStep == IndInv /\ [Next]_vars => IndInv'
<1> SUFFICES ASSUME IndInv, [Next]_vars PROVE IndInv'
  OBVIOUS
<1>1. ASSUME NEW r \in Requests,
             Lease(r) \/ Recycle(r) \/ Handle(r) \/ End(r) \/ Desert(r)
      PROVE  IndInv'
  BY <1>1, TakeStep, PrepareStep, FinishStep DEF Handle
<1>2. CASE (\E r \in Requests : HandleCancelResponse(r)) \/ Signal
           \/ FlagSessions
  BY <1>2, OutsideStep
<1>3. CASE UNCHANGED vars
  <2>1. TypeOK' /\ OneHandler' /\ SignalSeen' /\ FlagOwned' /\ AckedLate'
    BY <1>3 DEF IndInv, vars, handlerVars, entryVars, shutdownVars, TypeOK,
       OneHandler, InUseBy, SignalSeen, FlagOwned, AckedLate
  <2>2. /\ StreamIndexed' /\ CancelIsolated' /\ CancelPending'
        /\ ActiveIsCurrent'
    BY <1>3 DEF IndInv, vars, handlerVars, entryVars, shutdownVars,
       StreamIndexed, CancelIsolated, CancelPending, ActiveIsCurrent
  <2>3. QED
    BY <2>1, <2>2 DEF IndInv
<1>4. QED
  BY <1>1, <1>2, <1>3 DEF Next

LEMMA IndInvAlways == Spec => []IndInv
  BY InitIndInv, IndInvStep, PTL DEF Spec

-----------------------------------------------------------------------------
(* The state of the session's cancellation stays in its types for any set  *)
(* of requests.                                                            *)
THEOREM TypeCorrect == Spec => []TypeOK
<1>1. IndInv => TypeOK
  BY DEF IndInv
<1>2. QED
  BY <1>1, IndInvAlways, PTL

(* CheckGenerationCancellation and CheckStreamCancellation only ever stop  *)
(* a generation whose own cancel was accepted, or for a shutdown.          *)
THEOREM CancelAlwaysIsolated == Spec => []CancelIsolated
<1>1. IndInv => CancelIsolated
  BY DEF IndInv
<1>2. QED
  BY <1>1, IndInvAlways, PTL

(* A cancel that HandleCancelResponse accepted is not overwritten.         *)
THEOREM CancelAlwaysPending == Spec => []CancelPending
<1>1. IndInv => CancelPending
  BY DEF IndInv
<1>2. QED
  BY <1>1, IndInvAlways, PTL

(* active_response_id is empty or the response that is generating now.     *)
THEOREM ActiveAlwaysCurrent == Spec => []ActiveIsCurrent
<1>1. IndInv => ActiveIsCurrent
  BY DEF IndInv
<1>2. QED
  BY <1>1, IndInvAlways, PTL

-----------------------------------------------------------------------------
(* A generation whose handler read the signal as set is flagged for as     *)
(* long as it runs.                                                        *)
ReadersFlagged ==
  \A r \in Requests :
    phase[r] \in {"stored", "generating"} /\ sawSignal[r] => flag

(* Nobody lowers the flag of a generation that has stored it: only a       *)
(* handler under way does, and no other one is.                            *)
LEMMA ReadersFlaggedStep ==
  ASSUME IndInv, ReadersFlagged, [Next]_vars PROVE ReadersFlagged'
<1> SUFFICES ASSUME NEW q \in Requests,
                    phase'[q] \in {"stored", "generating"}, sawSignal'[q]
             PROVE  flag'
  BY DEF ReadersFlagged
<1> USE DEF IndInv, TypeOK, Go
<1>1. CASE UNCHANGED vars
  BY <1>1 DEF vars, handlerVars, entryVars, ReadersFlagged
<1>2. ASSUME NEW r \in Requests, Lease(r) \/ Recycle(r) \/ Publish(r) \/ ReadSignal(r)
      PROVE  flag'
  <2>1. q # r /\ phase'[q] = phase[q]
    BY <1>2 DEF Lease, Recycle, Publish, ReadSignal
  <2>2. InUseBy(q)
    BY <2>1 DEF InUseBy
  <2>3. ~Lease(r) /\ ~Recycle(r)
    BY <2>2 DEF Lease, Recycle, InUse, InUseBy
  <2>4. InUseBy(r)
    BY <1>2, <2>3 DEF Publish, ReadSignal, InUseBy
  <2> QED BY <2>1, <2>2, <2>4 DEF OneHandler
<1>3. ASSUME NEW r \in Requests, StoreFlag(r) PROVE flag'
  <2>1. q = r
    <3>1. InUseBy(q) /\ InUseBy(r)
      BY <1>3 DEF StoreFlag, InUseBy
    <3> QED BY <3>1 DEF OneHandler
  <2> QED BY <1>3, <2>1 DEF StoreFlag
<1>4. ASSUME NEW r \in Requests,
             \/ SetActiveResponse(r) \/ Observe(r) \/ ClearActiveResponse(r)
             \/ Close(r) \/ End(r) \/ Desert(r) \/ HandleCancelResponse(r)
      PROVE  flag'
  <2>1. phase[q] \in {"stored", "generating"} /\ sawSignal' = sawSignal
    BY <1>4 DEF SetActiveResponse, Observe, ClearActiveResponse, Close, End, Desert,
       HandleCancelResponse, handlerVars
  <2>2. flag
    BY <2>1 DEF ReadersFlagged
  <2> QED
    BY <1>4, <2>2 DEF SetActiveResponse, Observe, ClearActiveResponse, Close, End, Desert,
       HandleCancelResponse, entryVars
<1>5. CASE Signal \/ FlagSessions
  <2>1. flag
    BY <1>5 DEF Signal, FlagSessions, handlerVars, ReadersFlagged
  <2> QED BY <1>5, <2>1 DEF Signal, FlagSessions, entryVars
<1> QED BY <1>1, <1>2, <1>3, <1>4, <1>5 DEF Next, Handle

(* What escapes a shutdown, and nothing else does: a generation goes on    *)
(* unflagged only if its handler read g_shutdown_signal before the signal  *)
(* came (HandleCompletion, HandleResponses).                               *)
EscapeesReadEarly ==
  \A r \in Requests : phase[r] = "generating" /\ ~flag => ~sawSignal[r]

THEOREM OnlyEarlyReadersEscape == Spec => []EscapeesReadEarly
<1>1. Init => ReadersFlagged
  BY DEF Init, ReadersFlagged
<1>2. IndInv /\ ReadersFlagged /\ [Next]_vars => ReadersFlagged'
  BY ReadersFlaggedStep
<1>3. IndInv /\ ReadersFlagged => EscapeesReadEarly
  BY DEF IndInv, TypeOK, ReadersFlagged, EscapeesReadEarly
<1> QED BY <1>1, <1>2, <1>3, IndInvAlways, PTL DEF Spec
=============================================================================

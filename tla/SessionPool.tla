---------------------------- MODULE SessionPool ----------------------------
(***************************************************************************)
(* The pool of resident sessions (server/session_pool.cpp) under the       *)
(* handlers that use it (cli/server_main.cpp).  One action is one critical *)
(* section of pool_mutex, or one effect outside it.  A request is one HTTP *)
(* generation request; an entry is a SessionEntry object, and the numbers  *)
(* naming them are reused once an object is destroyed.                     *)
(*                                                                         *)
(* Session ids and response ids are the identities that create them: a     *)
(* chat session is named by its client (ChatIds), the session of a root    *)
(* response is "responses:" and the fresh id of the request, and request r *)
(* publishes response r.                                                   *)
(***************************************************************************)
EXTENDS Naturals, FiniteSets

CONSTANTS
  Requests,      \* the generation requests
  ChatIds,       \* session ids that clients choose
  MaxSessions,   \* max_sessions
  DeviceFaults   \* whether building or resetting a slot may fail on the device

ASSUME PoolAssumption ==
  /\ IsFiniteSet(Requests) /\ IsFiniteSet(ChatIds)
  /\ ChatIds \cap Requests = {}
  /\ MaxSessions \in Nat \ {0}
  /\ DeviceFaults \in BOOLEAN

VARIABLES
  stage,      \* where each request's handler stands
  want,       \* a chat id, the request itself (a root), or a previous response
  admitted,   \* requests that hold an admission of the RequestQueue
  ref,        \* the entry a handler's shared_ptrs keep alive, or NoEntry
  onRefusal,  \* where AcquireNamedSession goes when CreateSession is refused
  resident,   \* sessions
  pending,    \* pending_sessions
  index,      \* response_index
  active,     \* SessionEntry::active_requests
  retired,    \* SessionEntry::retired
  moved,      \* the session lost its slot in a Restart that failed
  recency,    \* the order of last_used: pairs <<e, f>>, e not after f
  served      \* responses indexed under the entry's present contents (history)

handlerVars == <<stage, want, admitted, ref, onRefusal>>
poolVars == <<resident, pending, index>>
entryVars == <<active, retired, moved, recency, served>>
vars == <<handlerVars, poolVars, entryVars>>

Entries == 1 .. Cardinality(Requests)
NoEntry == 0
SessionIds == ChatIds \cup Requests

Creating == {"build", "publish"}
Leasing == {"leased", "running", "discarding", "releasing", "dropping"}
Waiting == {"waitIdle", "waitRetired", "waitPending", "waitRoom"}
Stages == {"new", "acquire", "create", "reclaim", "unwinding"}
            \cup Creating \cup Leasing \cup Waiting

IsChat(r) == want[r] \in ChatIds
IsRoot(r) == want[r] = r
IsNext(r) == ~IsChat(r) /\ ~IsRoot(r)

(* What the request's lookup finds: the chat session, or the session that  *)
(* response_index gives for previous_response_id (its weak_ptr locks).     *)
Target(r) == IF IsNext(r) THEN index[want[r]] ELSE resident[want[r]]

Resident == {i \in SessionIds : resident[i] # NoEntry}
(* Mutants of HasRoom: reservations are not counted; off by one. *)
HasRoomForgetsPending == Cardinality(Resident) < MaxSessions
HasRoomOneMore ==
  Cardinality(Resident) + Cardinality(pending) <= MaxSessions

HasRoom == Cardinality(Resident) + Cardinality(pending) < MaxSessions

(* CanEvictSession of a resident entry: use_count() is one when only the   *)
(* map holds it.                                                           *)
CanEvict(e) == active[e] = 0 /\ \A r \in Requests : ref[r] # e

Evictable == {i \in Resident : CanEvict(resident[i])}

(* The entry has just drawn the next value of lru_clock. *)
Without(e) == {p \in recency : p[1] # e /\ p[2] # e}
Touched(e) == Without(e) \cup {<<f, e>> : f \in {p[1] : p \in recency} \cup {e}}

UsedBefore(e, f) == <<e, f>> \in recency

Init ==
  /\ stage = [r \in Requests |-> "new"]
  /\ want = [r \in Requests |-> r]
  /\ admitted = {}
  /\ ref = [r \in Requests |-> NoEntry]
  /\ onRefusal = [r \in Requests |-> "waitRoom"]
  /\ resident = [i \in SessionIds |-> NoEntry]
  /\ pending = {}
  /\ index = [r \in Requests |-> NoEntry]
  /\ active = [e \in Entries |-> 0]
  /\ retired = [e \in Entries |-> FALSE]
  /\ moved = [e \in Entries |-> FALSE]
  /\ recency = {}
  /\ served = [e \in Entries |-> {}]

-----------------------------------------------------------------------------
(* Helpers of the actions.                                                 *)

Go(r, from, to) == stage[r] = from /\ stage' = [stage EXCEPT ![r] = to]

Hold(r, e) == ref' = [ref EXCEPT ![r] = e]

-----------------------------------------------------------------------------
(* Admission.  AcquireRequestAdmission hands out at most max_sessions      *)
(* admissions (module RequestQueue); what the request asks for is parsed   *)
(* and validated only afterwards.                                          *)

Admit(r) ==
  /\ Go(r, "new", "acquire")
  /\ Cardinality(admitted) < MaxSessions
  /\ admitted' = admitted \cup {r}
  /\ \E w \in SessionIds : want' = [want EXCEPT ![r] = w]
  /\ UNCHANGED <<ref, onRefusal, poolVars, entryVars>>

-----------------------------------------------------------------------------
(* AcquireNamedSession, AcquireResponseSession and CreateSessionQueued: one *)
(* turn of the loop.  Waits are polled every 25 ms: they end as soon as    *)
(* their predicate is seen to hold, notified or not.                       *)

Usable(r) == Target(r) # NoEntry /\ (IsChat(r) => ~retired[Target(r)])

(* Mutant of Lease: the session is taken whoever uses it. *)
LeaseBusy(r) ==
  /\ Go(r, "acquire", IF IsChat(r) THEN "running" ELSE "leased")
  /\ Usable(r)
  /\ Hold(r, Target(r))
  /\ active' = [active EXCEPT ![Target(r)] = @ + 1]
  /\ recency' = Touched(Target(r))
  /\ UNCHANGED <<want, admitted, onRefusal, poolVars, retired, moved, served>>

Lease(r) ==
  /\ Go(r, "acquire", IF IsChat(r) THEN "running" ELSE "leased")
  /\ Usable(r) /\ active[Target(r)] = 0
  /\ Hold(r, Target(r))
  /\ active' = [active EXCEPT ![Target(r)] = @ + 1]
  /\ recency' = Touched(Target(r))
  /\ UNCHANGED <<want, admitted, onRefusal, poolVars, retired, moved, served>>

(* busy_entry: the waiter keeps the entry alive, and so from eviction. *)
WaitForIdle(r) ==
  /\ Go(r, "acquire", "waitIdle")
  /\ Usable(r) /\ active[Target(r)] # 0
  /\ Hold(r, Target(r))
  /\ UNCHANGED <<want, admitted, onRefusal, poolVars, entryVars>>

(* Mutant of SeeIdle: busy_entry outlives the turn of the loop. *)
SeeIdleKeepsEntry(r) ==
  /\ Go(r, "waitIdle", "acquire")
  /\ active[ref[r]] = 0
  /\ UNCHANGED <<want, admitted, ref, onRefusal, poolVars, entryVars>>

SeeIdle(r) ==
  /\ Go(r, "waitIdle", "acquire")
  /\ active[ref[r]] = 0
  /\ Hold(r, NoEntry)
  /\ UNCHANGED <<want, admitted, onRefusal, poolVars, entryVars>>

NotFound(r) ==
  /\ Go(r, "acquire", "unwinding")
  /\ IsNext(r) /\ Target(r) = NoEntry
  /\ UNCHANGED <<want, admitted, ref, onRefusal, poolVars, entryVars>>

Retired(r) == Target(r) # NoEntry /\ retired[Target(r)]

StillHeld(r) == Retired(r) /\ ~CanEvict(Target(r))

FindRetired(r) ==
  /\ Go(r, "acquire", IF StillHeld(r) THEN "waitRetired" ELSE "create")
  /\ IsChat(r) /\ Retired(r)
  /\ onRefusal' = [onRefusal EXCEPT ![r] = "acquire"]
  /\ UNCHANGED <<want, admitted, ref, poolVars, entryVars>>

SeeRetirable(r) ==
  /\ Go(r, "waitRetired", "create")
  /\ ~StillHeld(r)
  /\ UNCHANGED <<want, admitted, ref, onRefusal, poolVars, entryVars>>

WaitForPending(r) ==
  /\ Go(r, "acquire", "waitPending")
  /\ IsChat(r) /\ Target(r) = NoEntry /\ want[r] \in pending
  /\ UNCHANGED <<want, admitted, ref, onRefusal, poolVars, entryVars>>

SeeCreated(r) ==
  /\ Go(r, "waitPending", "acquire")
  /\ want[r] \notin pending
  /\ UNCHANGED <<want, admitted, ref, onRefusal, poolVars, entryVars>>

StartCreate(r) ==
  /\ Go(r, "acquire", "create")
  /\ ~IsNext(r) /\ Target(r) = NoEntry /\ want[r] \notin pending
  /\ onRefusal' = [onRefusal EXCEPT ![r] = "waitRoom"]
  /\ UNCHANGED <<want, admitted, ref, poolVars, entryVars>>

(* The predicate of the wait after a refused CreateSession.  A root's id   *)
(* is fresh, so for it only the last disjunct of the code's applies.       *)
RoomFor(r) ==
  IF Target(r) # NoEntry
  THEN active[Target(r)] = 0
  ELSE want[r] \notin pending /\ (HasRoom \/ Evictable # {})

SeeRoom(r) ==
  /\ Go(r, "waitRoom", "acquire")
  /\ RoomFor(r)
  /\ UNCHANGED <<want, admitted, ref, onRefusal, poolVars, entryVars>>

(* The 30 s budget, a disconnect or draining ends any wait and any turn;   *)
(* the shared_ptr of a waiter goes with it, under the mutex.               *)
Abort(r) ==
  /\ stage[r] \in {"acquire"} \cup Waiting
  /\ stage' = [stage EXCEPT ![r] = "unwinding"]
  /\ Hold(r, NoEntry)
  /\ UNCHANGED <<want, admitted, onRefusal, poolVars, entryVars>>

-----------------------------------------------------------------------------
(* CreateSession.  First the reservation, under pool_mutex.                *)

(* The session the reservation recycles: the retired one of the same id,   *)
(* none when there is room, else the least recently used idle one.         *)
Victims(i) ==
  IF i \in Resident
  THEN IF retired[resident[i]] THEN {i} \cap Evictable ELSE {}
  ELSE {v \in Evictable : \A u \in Evictable \ {v} :
                            UsedBefore(resident[v], resident[u])}

(* Mutant of TakesRoom: pending_sessions.contains(id) is not asked. *)
TakesRoomTwice(i) == i \notin Resident /\ HasRoom

TakesRoom(i) == i \notin Resident /\ i \notin pending /\ HasRoom

Reserve(r) ==
  /\ Go(r, "create", "build")
  /\ TakesRoom(want[r])
  /\ pending' = pending \cup {want[r]}
  /\ UNCHANGED <<want, admitted, ref, onRefusal, resident, index, entryVars>>

(* EraseSessionLocked also takes the victim's responses out of the index.  *)
Unindexed(e) == [p \in Requests |-> IF index[p] = e THEN NoEntry ELSE index[p]]

(* Mutant of Recycle: the victim's responses stay indexed. *)
RecycleKeepsIndex(r) ==
  /\ Go(r, "create", "build")
  /\ want[r] \notin pending /\ ~TakesRoom(want[r])
  /\ \E v \in Victims(want[r]) :
       /\ Hold(r, resident[v])
       /\ resident' = [resident EXCEPT ![v] = NoEntry]
  /\ pending' = pending \cup {want[r]}
  /\ UNCHANGED <<want, admitted, onRefusal, index, entryVars>>

Recycle(r) ==
  /\ Go(r, "create", "build")
  /\ want[r] \notin pending /\ ~TakesRoom(want[r])
  /\ \E v \in Victims(want[r]) :
       /\ Hold(r, resident[v])
       /\ resident' = [resident EXCEPT ![v] = NoEntry]
       /\ index' = Unindexed(resident[v])
  /\ pending' = pending \cup {want[r]}
  /\ UNCHANGED <<want, admitted, onRefusal, entryVars>>

Refused(r) ==
  /\ Go(r, "create", onRefusal[r])
  /\ ~TakesRoom(want[r])
  /\ want[r] \in pending \/ Victims(want[r]) = {}
  /\ UNCHANGED <<want, admitted, ref, onRefusal, poolVars, entryVars>>

-----------------------------------------------------------------------------
(* Then, without the mutex, the slot; on failure the reservation is        *)
(* dropped before `recycled`, which is declared first and destroyed last.  *)

Unreserve(r) == pending' = pending \ {want[r]}

Alive(e) == \/ \E i \in SessionIds : resident[i] = e
            \/ \E r \in Requests : ref[r] = e

Fresh(e) == ~Alive(e) /\ \A f \in Entries : f < e => Alive(f)

(* A session in its initial state, old contents gone. *)
Cleared(e) ==
  /\ retired' = [retired EXCEPT ![e] = FALSE]
  /\ moved' = [moved EXCEPT ![e] = FALSE]
  /\ served' = [served EXCEPT ![e] = {}]

BuildNew(r) ==
  /\ Go(r, "build", "publish")
  /\ ref[r] = NoEntry
  /\ \E e \in Entries : Fresh(e) /\ Hold(r, e) /\ Cleared(e)
  /\ UNCHANGED <<want, admitted, onRefusal, poolVars, active, recency>>

BuildReset(r) ==
  /\ Go(r, "build", "publish")
  /\ ref[r] # NoEntry /\ ~moved[ref[r]]
  /\ Cleared(ref[r])
  /\ UNCHANGED <<want, admitted, ref, onRefusal, poolVars, active, recency>>

(* No slot (kResourceExhausted: the caller tries again) or another error.  *)
BuildFails(r) ==
  /\ \E next \in {onRefusal[r], "unwinding"} : Go(r, "build", next)
  /\ DeviceFaults /\ ref[r] = NoEntry
  /\ Unreserve(r)
  /\ UNCHANGED <<want, admitted, ref, onRefusal, resident, index, entryVars>>

ResetFails(r) ==
  /\ Go(r, "build", "reclaim")
  /\ ref[r] # NoEntry /\ (moved[ref[r]] \/ DeviceFaults)
  /\ Unreserve(r)
  /\ UNCHANGED <<want, admitted, ref, onRefusal, resident, index, entryVars>>

(* The destructor of `recycled` frees the session and its slot. *)
Reclaim(r) ==
  /\ Go(r, "reclaim", "unwinding")
  /\ Hold(r, NoEntry)
  /\ Cleared(ref[r])
  /\ recency' = Without(ref[r])
  /\ UNCHANGED <<want, admitted, onRefusal, poolVars, active>>

(* active_requests and last_used are stored just before the mutex, while   *)
(* nobody else can see the entry.                                          *)
Publish(r) ==
  /\ Go(r, "publish", IF IsChat(r) THEN "running" ELSE "leased")
  /\ want[r] \in pending /\ want[r] \notin Resident
  /\ active' = [active EXCEPT ![ref[r]] = 1]
  /\ recency' = Touched(ref[r])
  /\ resident' = [resident EXCEPT ![want[r]] = ref[r]]
  /\ Unreserve(r)
  /\ UNCHANGED <<want, admitted, ref, onRefusal, index, retired, moved, served>>

-----------------------------------------------------------------------------
(* The lease in the handler.                                               *)

IndexResponse(r) ==
  /\ Go(r, "leased", "running")
  /\ index' = [index EXCEPT ![r] = ref[r]]
  /\ served' = [served EXCEPT ![ref[r]] = @ \cup {r}]
  /\ UNCHANGED <<want, admitted, ref, onRefusal, resident, pending, active,
                 retired, moved, recency>>

(* The turn succeeded: session and, for a response, index entry are kept. *)
Complete(r) ==
  /\ Go(r, "running", "releasing")
  /\ UNCHANGED <<want, admitted, ref, onRefusal, poolVars, entryVars>>

(* The turn failed and the session is still clean: ResponseIndexGuard or   *)
(* ~ProviderState unindexes the response; a poisoned session is discarded. *)
Fail(r) ==
  /\ \E next \in {"releasing", "discarding"} : Go(r, "running", next)
  /\ index' = [index EXCEPT ![r] = NoEntry]
  /\ UNCHANGED <<want, admitted, ref, onRefusal, resident, pending, entryVars>>

(* HandleCompletion could not rebuild the session of a diverged history:   *)
(* Restart gave the old slot back before it failed to get a new one.       *)
RestartFails(r) ==
  /\ Go(r, "running", "discarding")
  /\ IsChat(r)
  /\ moved' = [moved EXCEPT ![ref[r]] = TRUE]
  /\ UNCHANGED <<want, admitted, ref, onRefusal, poolVars, active, retired,
                 recency, served>>

(* Mutant of DiscardSession: the session is retired but stays indexed. *)
DiscardKeepsIndex(r) ==
  /\ Go(r, "discarding", "releasing")
  /\ retired' = [retired EXCEPT ![ref[r]] = TRUE]
  /\ UNCHANGED <<want, admitted, ref, onRefusal, poolVars, active, moved,
                 recency, served>>

DiscardSession(r) ==
  /\ Go(r, "discarding", "releasing")
  /\ retired' = [retired EXCEPT ![ref[r]] = TRUE]
  /\ index' = Unindexed(ref[r])
  /\ UNCHANGED <<want, admitted, ref, onRefusal, resident, pending, active,
                 moved, recency, served>>

(* Mutant of StampRelease: the count is dropped here as well. *)
StampReleaseTwice(r) ==
  /\ Go(r, "releasing", "dropping")
  /\ recency' = Touched(ref[r])
  /\ active' = [active EXCEPT ![ref[r]] = @ - 1]
  /\ UNCHANGED <<want, admitted, ref, onRefusal, poolVars, retired, moved,
                 served>>

(* ReleaseSession runs without pool_mutex: two separate atomic updates. *)
StampRelease(r) ==
  /\ Go(r, "releasing", "dropping")
  /\ recency' = Touched(ref[r])
  /\ UNCHANGED <<want, admitted, ref, onRefusal, poolVars, active, retired,
                 moved, served>>

ReleaseSession(r) ==
  /\ Go(r, "dropping", "unwinding")
  /\ active' = [active EXCEPT ![ref[r]] = @ - 1]
  /\ UNCHANGED <<want, admitted, ref, onRefusal, poolVars, retired, moved,
                 recency, served>>

(* What is left of the handler: a streamed provider returns the admission  *)
(* and then drops the entry, a plain handler the other way round.  Nobody  *)
(* is notified when the entry is dropped.                                  *)
ReturnAdmission(r) ==
  /\ stage[r] = "unwinding" /\ r \in admitted
  /\ admitted' = admitted \ {r}
  /\ UNCHANGED <<stage, want, ref, onRefusal, poolVars, entryVars>>

DropEntry(r) ==
  /\ stage[r] = "unwinding" /\ ref[r] # NoEntry
  /\ Hold(r, NoEntry)
  /\ UNCHANGED <<stage, want, admitted, onRefusal, poolVars, entryVars>>

-----------------------------------------------------------------------------
Acquire(r) ==
  \/ Lease(r) \/ WaitForIdle(r) \/ SeeIdle(r) \/ NotFound(r)
  \/ FindRetired(r) \/ SeeRetirable(r) \/ WaitForPending(r) \/ SeeCreated(r)
  \/ StartCreate(r) \/ SeeRoom(r)

Create(r) ==
  \/ Reserve(r) \/ Recycle(r) \/ Refused(r)
  \/ BuildNew(r) \/ BuildReset(r) \/ BuildFails(r) \/ ResetFails(r)
  \/ Reclaim(r) \/ Publish(r)

Use(r) ==
  \/ IndexResponse(r) \/ Complete(r) \/ Fail(r) \/ RestartFails(r)
  \/ DiscardSession(r) \/ StampRelease(r) \/ ReleaseSession(r)

Unwind(r) == ReturnAdmission(r) \/ DropEntry(r)

Handle(r) == Acquire(r) \/ Create(r) \/ Use(r) \/ Unwind(r)

Next == \E r \in Requests : Admit(r) \/ Abort(r) \/ Handle(r)

Spec == Init /\ [][Next]_vars

(* Every handler keeps running: its waits poll, its generation ends (the   *)
(* token limit), its destructors run.  Nothing makes a client arrive,      *)
(* disconnect or time out.                                                 *)
Fairness == \A r \in Requests : WF_vars(Handle(r))

FairSpec == Spec /\ Fairness

-----------------------------------------------------------------------------
(* Properties.                                                             *)

Holders(e) == {r \in Requests : stage[r] \in Leasing /\ ref[r] = e}

(* Type correctness of the pool, its entries and the handlers. *)
TypeOK ==
  /\ stage \in [Requests -> Stages]
  /\ want \in [Requests -> SessionIds]
  /\ admitted \subseteq Requests
  /\ ref \in [Requests -> Entries \cup {NoEntry}]
  /\ onRefusal \in [Requests -> {"acquire", "waitRoom"}]
  /\ resident \in [SessionIds -> Entries \cup {NoEntry}]
  /\ pending \subseteq SessionIds
  /\ index \in [Requests -> Entries \cup {NoEntry}]
  /\ active \in [Entries -> Nat]
  /\ retired \in [Entries -> BOOLEAN]
  /\ moved \in [Entries -> BOOLEAN]
  /\ recency \subseteq Entries \X Entries
  /\ served \in [Entries -> SUBSET Requests]

(* Resident sessions and reservations together never exceed max_sessions,  *)
(* and no id is both, although the slot is built outside the mutex between *)
(* the reservation and the publication.                                    *)
PoolBounded ==
  /\ Cardinality(Resident) + Cardinality(pending) <= MaxSessions
  /\ Resident \cap pending = {}

(* A reservation is one creator's until it is published: the check before  *)
(* publication ("session reservation was lost") never fails.               *)
ReservationKept ==
  /\ \A r \in Requests :
       stage[r] \in Creating => want[r] \in pending /\ want[r] \notin Resident
  /\ \A r, q \in Requests :
       r # q /\ stage[r] \in Creating /\ stage[q] \in Creating =>
         want[r] # want[q]

(* A session serves one request at a time; while it does it stays resident *)
(* under one id and is never evicted, and active_requests says so.         *)
LeaseExclusive ==
  \A e \in Entries :
    /\ active[e] = Cardinality(Holders(e))
    /\ active[e] <= 1
    /\ active[e] = 1 => \E i \in Resident : resident[i] = e

(* A session that was discarded, or lost its slot, is never leased again:  *)
(* AcquireResponseSession does not look at `retired`, so this rests on the *)
(* index being purged whenever a session is retired, evicted or recycled.  *)
NeverServesDiscarded ==
  \A r \in Requests : stage[r] \in {"leased", "running"} =>
                        ~retired[ref[r]] /\ ~moved[ref[r]]

(* An indexed response leads to the resident session whose contents hold   *)
(* its turn, never to one that was recycled for another conversation.      *)
IndexSound ==
  \A p \in Requests : index[p] # NoEntry =>
    /\ p \in served[index[p]]
    /\ ~retired[index[p]]
    /\ \E i \in Resident : resident[i] = index[p]

(* The device never holds more session slots than max_sessions: a replaced *)
(* session's slot is reused or free before the next one is built.          *)
SlotHolders == {e \in Entries : Alive(e) /\ ~moved[e]}
SlotBound == Cardinality(SlotHolders) <= MaxSessions

(* What a request sees of the pool: the sessions by their ids, those that  *)
(* were discarded, who is served by which, and where a response leads.     *)
Spoilt == {i \in Resident : retired[resident[i]]}
Serving == {p \in Requests \X Resident :
              stage[p[1]] \in Leasing /\ ref[p[1]] = resident[p[2]]}
Known == {p \in Requests \X Resident : index[p[1]] = resident[p[2]]}

(* The pool implements the promise, although entries are reused, reference *)
(* counts and bare atomics decide who may have them, and slots are built   *)
(* and reset where nobody looks: a session serves one request at a time, a *)
(* response leads to the session that answered it, and no session outlives *)
(* its failure or is closed while it serves.                               *)
Promise == INSTANCE SessionPromise WITH
  Limit   <- MaxSessions,
  open    <- Resident,
  spoilt  <- Spoilt,
  serving <- Serving,
  known   <- Known

PromiseKept == Promise!Spec

(* A handler that has begun and has something left to do, and one whose    *)
(* next step is possible: what its stage waits for, or takes for granted,  *)
(* is so.                                                                  *)
Underway(r) ==
  /\ stage[r] # "new"
  /\ stage[r] = "unwinding" => r \in admitted \/ ref[r] # NoEntry

GoesOn(r) ==
  /\ stage[r] = "waitIdle" => active[ref[r]] = 0
  /\ stage[r] = "waitRetired" => ~StillHeld(r)
  /\ stage[r] = "waitPending" => want[r] \notin pending
  /\ stage[r] = "waitRoom" => RoomFor(r)
  /\ stage[r] = "acquire" /\ IsRoot(r) =>
       Target(r) # NoEntry \/ want[r] \notin pending
  /\ stage[r] = "build" /\ ref[r] = NoEntry => \E e \in Entries : Fresh(e)
  /\ stage[r] = "publish" => want[r] \in pending /\ want[r] \notin Resident

(* The handlers never block each other.  A handler that does not wait can  *)
(* take its next step, and the handlers that wait (for a lease to end, for *)
(* a retired session to be let go, for a creator, for room) never wait for *)
(* one another only, although a waiter pins an entry that others want gone *)
(* and a creator holds a place that others want.                           *)
NobodyStuck ==
  /\ \A r \in Requests : Underway(r) /\ stage[r] \notin Waiting => GoesOn(r)
  /\ \A r \in Requests :
       Underway(r) => \E q \in Requests : Underway(q) /\ GoesOn(q)

(* No request waits for a session for ever while the others finish, though *)
(* waiters pin the entries they wait for, an idle entry only becomes       *)
(* evictable when a destructor that notifies nobody has run, and a retired *)
(* session may be recreated by several requests at once.                   *)
EveryoneServed ==
  \A r \in Requests :
    stage[r] = "acquire" ~> stage[r] \in Leasing \cup {"unwinding"}
=============================================================================

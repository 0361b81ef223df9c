---------------------------- MODULE RequestQueue ----------------------------
(***************************************************************************)
(* The bounded FIFO admission queue (server/request_queue.cpp).  Every     *)
(* critical section of RequestQueue::mutex_ is one action.  A request is   *)
(* an HTTP worker that calls Acquire once; `gone` and `late` are what the  *)
(* cancelled() callback and the steady clock would tell it.                *)
(***************************************************************************)
EXTENDS Naturals, Sequences, FiniteSets

CONSTANTS
  Requests,      \* the HTTP workers that ask for admission
  SessionLimit,  \* `capacity` as passed to the constructor
  MaxQueued      \* max_queued_

ASSUME QueueAssumption ==
  /\ IsFiniteSet(Requests)
  /\ SessionLimit \in Nat
  /\ MaxQueued \in Nat

(* The constructor raises a zero capacity to one. *)
Capacity == IF SessionLimit = 0 THEN 1 ELSE SessionLimit

VARIABLES
  pc,            \* "new", "called", "queued", "admitted", "refused", "released"
  ticket,        \* the ticket Acquire drew (meaningful while queued)
  startedLate,   \* Acquire's `started >= deadline`, read before the lock
  gone,          \* requests whose client has disconnected
  late,          \* requests whose deadline has passed
  waiters,       \* waiters_, oldest first
  nextTicket,    \* next_ticket_
  active,        \* active_
  highWatermark, \* high_watermark_
  draining       \* draining_

world == <<gone, late>>
queueVars == <<waiters, nextTicket, active, highWatermark, draining>>
vars == <<pc, ticket, startedLate, world, queueVars>>

Stages == {"new", "called", "queued", "admitted", "refused", "released"}

Queued == {r \in Requests : pc[r] = "queued"}
Holders == {r \in Requests : pc[r] = "admitted"}

Init ==
  /\ pc = [r \in Requests |-> "new"]
  /\ ticket = [r \in Requests |-> 0]
  /\ startedLate = [r \in Requests |-> FALSE]
  /\ gone = {} /\ late = {}
  /\ waiters = <<>>
  /\ nextTicket = 1
  /\ active = 0
  /\ highWatermark = 0
  /\ draining = FALSE

-----------------------------------------------------------------------------
(* The environment.                                                        *)

Disconnect(r) ==
  /\ pc[r] \in {"new", "called", "queued"} /\ r \notin gone
  /\ gone' = gone \cup {r}
  /\ UNCHANGED <<pc, ticket, startedLate, late, queueVars>>

Expire(r) ==
  /\ pc[r] \in {"new", "called", "queued"} /\ r \notin late
  /\ late' = late \cup {r}
  /\ UNCHANGED <<pc, ticket, startedLate, gone, queueVars>>

-----------------------------------------------------------------------------
(* RequestQueue::Acquire, up to the wait loop.                             *)

Move(r, stage) == pc' = [pc EXCEPT ![r] = stage]

(* `started` is taken before the mutex: what the clock says later in this  *)
(* first critical section does not matter.                                 *)
Call(r) ==
  /\ pc[r] = "new"
  /\ Move(r, "called")
  /\ startedLate' = [startedLate EXCEPT ![r] = r \in late]
  /\ UNCHANGED <<ticket, world, queueVars>>

RefusedAtOnce(r) == draining \/ r \in gone \/ startedLate[r]

(* Mutants of FastPath: one admission too many; barging past the waiters. *)
FastPathOneMore == waiters = <<>> /\ active <= Capacity
FastPathBarging == active < Capacity

FastPath == waiters = <<>> /\ active < Capacity

AdmitAtOnce(r) ==
  /\ pc[r] = "called" /\ ~RefusedAtOnce(r) /\ FastPath
  /\ Move(r, "admitted")
  /\ active' = active + 1
  /\ UNCHANGED <<ticket, startedLate, world, waiters, nextTicket,
                 highWatermark, draining>>

Refuse(r) ==
  /\ pc[r] = "called"
  /\ RefusedAtOnce(r) \/ (~FastPath /\ Len(waiters) >= MaxQueued)
  /\ Move(r, "refused")
  /\ UNCHANGED <<ticket, startedLate, world, queueVars>>

Enqueue(r) ==
  /\ pc[r] = "called" /\ ~RefusedAtOnce(r) /\ ~FastPath
  /\ Len(waiters) < MaxQueued
  /\ Move(r, "queued")
  /\ ticket' = [ticket EXCEPT ![r] = nextTicket]
  /\ nextTicket' = nextTicket + 1
  /\ waiters' = Append(waiters, nextTicket)
  /\ highWatermark' = IF Len(waiters') > highWatermark
                      THEN Len(waiters') ELSE highWatermark
  /\ UNCHANGED <<startedLate, world, active, draining>>

-----------------------------------------------------------------------------
(* One turn of the wait loop, run on a notification or every 25 ms.        *)

MustLeave(r) == draining \/ r \in gone \/ r \in late

(* remove_ticket: std::find, and erase when found. *)
Without(s, t) ==
  IF \E i \in DOMAIN s : s[i] = t
  THEN LET at == CHOOSE i \in DOMAIN s :
                   s[i] = t /\ \A j \in 1 .. i - 1 : s[j] # t
       IN  [i \in 1 .. Len(s) - 1 |-> IF i < at THEN s[i] ELSE s[i + 1]]
  ELSE s

(* Mutant of Withdraw, and of CallbackThrows alone (the catch that rethrows *)
(* without removing): remove_ticket is forgotten on the way out.           *)
WithdrawKeepsTicket(r) ==
  /\ pc[r] = "queued"
  /\ Move(r, "refused")
  /\ UNCHANGED <<ticket, startedLate, world, queueVars>>

(* The deadline, a disconnect or draining takes the waiter out; so does an *)
(* exception of the cancelled() callback, which is rethrown (the catch).   *)
Withdraw(r) ==
  /\ pc[r] = "queued"
  /\ waiters' = Without(waiters, ticket[r])
  /\ Move(r, "refused")
  /\ UNCHANGED <<ticket, startedLate, world, nextTicket, active,
                 highWatermark, draining>>

LeaveQueue(r) == MustLeave(r) /\ Withdraw(r)

CallbackThrows(r) == Withdraw(r)

AdmitWaiter(r) ==
  /\ pc[r] = "queued" /\ ~MustLeave(r)
  /\ waiters # <<>> /\ Head(waiters) = ticket[r]
  /\ active < Capacity
  /\ waiters' = Tail(waiters)
  /\ active' = active + 1
  /\ Move(r, "admitted")
  /\ UNCHANGED <<ticket, startedLate, world, nextTicket, highWatermark,
                 draining>>

-----------------------------------------------------------------------------
(* Mutants of Release: a moved-from admission releases too; the admission  *)
(* of a finished request is lost.                                          *)
ReleaseByBothMoves(r) ==
  /\ pc[r] = "admitted"
  /\ Move(r, "released")
  /\ active' = active - 2
  /\ UNCHANGED <<ticket, startedLate, world, waiters, nextTicket,
                 highWatermark, draining>>

ReleaseLost(r) ==
  /\ pc[r] = "admitted"
  /\ Move(r, "released")
  /\ UNCHANGED <<ticket, startedLate, world, queueVars>>

(* RequestAdmission::Release runs once per admission: the move operations  *)
(* null the source's queue_.                                               *)

Release(r) ==
  /\ pc[r] = "admitted"
  /\ Move(r, "released")
  /\ active' = IF active # 0 THEN active - 1 ELSE active
  /\ UNCHANGED <<ticket, startedLate, world, waiters, nextTicket,
                 highWatermark, draining>>

StartDraining ==
  /\ ~draining
  /\ draining' = TRUE
  /\ UNCHANGED <<pc, ticket, startedLate, world, waiters, nextTicket, active,
                 highWatermark>>

-----------------------------------------------------------------------------
Next ==
  \/ \E r \in Requests :
       \/ Disconnect(r) \/ Expire(r)
       \/ Call(r) \/ AdmitAtOnce(r) \/ Refuse(r) \/ Enqueue(r)
       \/ LeaveQueue(r) \/ CallbackThrows(r) \/ AdmitWaiter(r)
       \/ Release(r)
  \/ StartDraining

(* A worker that called Acquire keeps running, its wait loop polls every   *)
(* 25 ms whether or not it is notified, and an admitted handler finishes.  *)
(* Nothing makes a client arrive, disconnect or time out.                  *)
Fairness ==
  \A r \in Requests :
    /\ WF_vars(AdmitAtOnce(r) \/ Refuse(r) \/ Enqueue(r))
    /\ WF_vars(LeaveQueue(r) \/ AdmitWaiter(r))
    /\ WF_vars(Release(r))

Spec == Init /\ [][Next]_vars
FairSpec == Spec /\ Fairness

-----------------------------------------------------------------------------
(* Properties.                                                             *)

(* Type correctness of the queue and of its callers. *)
TypeOK ==
  /\ pc \in [Requests -> Stages]
  /\ ticket \in [Requests -> Nat]
  /\ startedLate \in [Requests -> BOOLEAN]
  /\ gone \subseteq Requests /\ late \subseteq Requests
  /\ waiters \in Seq(Nat)
  /\ nextTicket \in Nat /\ active \in Nat /\ highWatermark \in Nat
  /\ draining \in BOOLEAN

(* active_ counts exactly the admissions that have been handed out and not *)
(* returned, and never exceeds the capacity: no admission leaks or is      *)
(* returned twice on any path through Acquire, moves and Release.          *)
AdmissionsBounded ==
  /\ active = Cardinality(Holders)
  /\ active <= Capacity

(* waiters_ holds the ticket of every blocked Acquire and of nobody else,  *)
(* in the order they were drawn: no path out of the wait loop leaves a     *)
(* ticket behind (it would block the queue for ever) or takes another's.   *)
WaitersExact ==
  /\ \A i, j \in DOMAIN waiters : i < j => waiters[i] < waiters[j]
  /\ \A i \in DOMAIN waiters : \E r \in Queued : ticket[r] = waiters[i]
  /\ \A r \in Queued : \E i \in DOMAIN waiters : waiters[i] = ticket[r]

(* The queue never grows past max_queued_, and the high watermark reported *)
(* by Snapshot is an upper bound of it that is never itself out of range.  *)
QueueBounded ==
  /\ Len(waiters) <= highWatermark
  /\ highWatermark <= MaxQueued

(* The queue implements the promise: capacity, bounded line, first come    *)
(* first served without overtaking, nothing admitted while draining.       *)
Promise == INSTANCE AdmissionPromise WITH
  MaxLine <- MaxQueued,
  line    <- Queued,
  arrival <- ticket,
  holding <- Holders,
  closed  <- draining

PromiseKept == Promise!Spec

First(r) == waiters # <<>> /\ Head(waiters) = ticket[r]

(* Whichever of the deadline, the disconnect, the callback's exception and *)
(* the admission takes a caller out of the line, the line moves on: its    *)
(* first ticket belongs to a caller still in its wait loop, which is held  *)
(* up only by as many handlers as the capacity, each of which will release *)
(* (Acquire's exits, remove_ticket and Release).                           *)
LineMoves ==
  Queued # {} =>
    \E r \in Queued :
      First(r) /\ (active < Capacity \/ Cardinality(Holders) = Capacity)

(* Nobody waits for ever: as admitted handlers finish, every blocked       *)
(* Acquire returns, although only the head of the queue may be admitted    *)
(* and any waiter, the head included, may withdraw at any moment.          *)
EveryoneAnswered == \A r \in Requests : pc[r] = "queued" ~> pc[r] # "queued"
=============================================================================

------------------------- MODULE RequestQueueProofs -------------------------
(***************************************************************************)
(* Proofs about RequestQueue for any finite set of workers, any capacity   *)
(* and any queue bound: the counter and the deque are exact, the bounds    *)
(* hold, and every step is a step of AdmissionPromise.                     *)
(***************************************************************************)
EXTENDS RequestQueue, FiniteSetTheorems, TLAPS

(* What WaitersExact needs to be inductive: tickets are drawn in order, no *)
(* two waiters share one, and the deque is as long as there are waiters.   *)
TicketsFresh == \A i \in DOMAIN waiters : waiters[i] < nextTicket
TicketsUnique == \A q, r \in Queued : ticket[q] = ticket[r] => q = r
LengthExact == Len(waiters) = Cardinality(Queued)

LineInv == WaitersExact /\ TicketsFresh /\ TicketsUnique /\ LengthExact

IndInv == TypeOK /\ LineInv /\ AdmissionsBounded /\ QueueBounded

-----------------------------------------------------------------------------
(* What remove_ticket leaves: everything but the ticket, in order. *)
LEMMA WithoutLeavesOrder ==
  ASSUME NEW s \in Seq(Nat), NEW k \in DOMAIN s,
         \A i, j \in DOMAIN s : i < j => s[i] < s[j],
         NEW w, w = Without(s, s[k])
  PROVE  /\ w \in Seq(Nat)
         /\ Len(w) = Len(s) - 1
         /\ \A i, j \in DOMAIN w : i < j => w[i] < w[j]
         /\ \A i \in DOMAIN w : \E j \in DOMAIN s \ {k} : w[i] = s[j]
         /\ \A j \in DOMAIN s \ {k} : \E i \in DOMAIN w : w[i] = s[j]
<1> DEFINE n == Len(s)
<1>1. n \in Nat \ {0} /\ DOMAIN s = 1 .. n /\ k \in 1 .. n
  OBVIOUS
<1>2. \A i \in DOMAIN s : s[i] \in Nat
  OBVIOUS
<1>3. (CHOOSE i \in DOMAIN s :
         s[i] = s[k] /\ \A j \in 1 .. i - 1 : s[j] # s[k]) = k
  <2>1. ASSUME NEW j \in 1 .. k - 1 PROVE s[j] # s[k]
    <3>1. j \in DOMAIN s /\ j < k
      BY <1>1, <2>1
    <3>2. s[j] < s[k] /\ s[j] \in Nat /\ s[k] \in Nat
      BY <1>2, <3>1
    <3>3. QED
      BY <3>2
  <2>2. ASSUME NEW i \in DOMAIN s, s[i] = s[k] PROVE i = k
    <3>1. i \in Nat /\ k \in Nat /\ s[i] \in Nat /\ s[k] \in Nat
      BY <1>1, <1>2
    <3>2. ~(i < k) /\ ~(k < i)
      BY <2>2, <3>1
    <3>3. QED
      BY <3>1, <3>2
  <2>3. QED
    BY <2>1, <2>2
<1>4. w = [i \in 1 .. n - 1 |-> IF i < k THEN s[i] ELSE s[i + 1]]
  BY <1>3 DEF Without
<1>5. DOMAIN w = 1 .. n - 1
  BY <1>4
<1>6. \A i \in 1 .. n - 1 : w[i] = IF i < k THEN s[i] ELSE s[i + 1]
  BY <1>4
<1> HIDE DEF n
<1>7. w \in Seq(Nat) /\ Len(w) = n - 1
  <2>1. \A i \in 1 .. n - 1 : i \in DOMAIN s /\ i + 1 \in DOMAIN s
    BY <1>1
  <2>2. w \in [1 .. n - 1 -> Nat]
    BY <1>2, <1>4, <2>1
  <2>3. n - 1 \in Nat
    BY <1>1
  <2>4. QED
    BY <2>2, <2>3
<1>8. ASSUME NEW i \in DOMAIN w, NEW j \in DOMAIN w, i < j
      PROVE  w[i] < w[j]
  <2>1. i \in 1 .. n /\ i + 1 \in 1 .. n /\ j \in 1 .. n /\ j + 1 \in 1 .. n
    BY <1>1, <1>5
  <2>2. w[i] = (IF i < k THEN s[i] ELSE s[i + 1])
        /\ w[j] = (IF j < k THEN s[j] ELSE s[j + 1])
    BY <1>5, <1>6
  <2>3. s[i] < s[j] /\ s[i + 1] < s[j + 1] /\ s[i] < s[j + 1]
    BY <1>1, <1>8, <2>1
  <2>4. ~(~(i < k) /\ j < k)
    BY <1>1, <1>8, <2>1
  <2>5. QED
    BY <2>2, <2>3, <2>4
<1>9. ASSUME NEW i \in DOMAIN w
      PROVE  \E j \in DOMAIN s \ {k} : w[i] = s[j]
  <2>1. CASE i < k
    BY <1>1, <1>5, <1>6, <2>1
  <2>2. CASE ~(i < k)
    <3>1. i + 1 \in DOMAIN s \ {k} /\ w[i] = s[i + 1]
      BY <1>1, <1>5, <1>6, <2>2
    <3>2. QED
      BY <3>1
  <2>3. QED
    BY <2>1, <2>2
<1>10. ASSUME NEW j \in DOMAIN s \ {k}
       PROVE  \E i \in DOMAIN w : w[i] = s[j]
  <2>1. CASE j < k
    BY <1>1, <1>5, <1>6, <2>1
  <2>2. CASE ~(j < k)
    <3>1. j - 1 \in DOMAIN w /\ ~(j - 1 < k) /\ (j - 1) + 1 = j
      BY <1>1, <1>5, <2>2
    <3>2. w[j - 1] = s[j]
      BY <1>5, <1>6, <3>1
    <3>3. QED
      BY <3>1, <3>2
  <2>3. QED
    BY <2>1, <2>2
<1>11. QED
  BY <1>7, <1>8, <1>9, <1>10 DEF n

(* The two sets read off pc, and how one Move changes them. *)
LEMMA StageSets ==
  ASSUME TypeOK
  PROVE  /\ IsFiniteSet(Queued) /\ IsFiniteSet(Holders)
         /\ Cardinality(Queued) \in Nat /\ Cardinality(Holders) \in Nat
<1>1. Queued \in SUBSET Requests /\ Holders \in SUBSET Requests
  BY DEF Queued, Holders
<1>2. IsFiniteSet(Queued) /\ IsFiniteSet(Holders)
  BY <1>1, QueueAssumption, FS_Subset
<1>3. QED
  BY <1>2, FS_CardinalityType

LEMMA MoveSets ==
  ASSUME TypeOK, NEW r \in Requests, NEW stage \in Stages, Move(r, stage)
  PROVE  /\ pc' \in [Requests -> Stages]
         /\ pc'[r] = stage
         /\ \A q \in Requests \ {r} : pc'[q] = pc[q]
         /\ stage = "queued" => Queued' = Queued \cup {r}
         /\ stage # "queued" => Queued' = Queued \ {r}
         /\ stage # "queued" /\ r \notin Queued => Queued' = Queued
         /\ stage = "admitted" => Holders' = Holders \cup {r}
         /\ stage # "admitted" => Holders' = Holders \ {r}
         /\ stage # "admitted" /\ r \notin Holders => Holders' = Holders
<1>1. /\ pc' \in [Requests -> Stages] /\ pc'[r] = stage
      /\ \A q \in Requests \ {r} : pc'[q] = pc[q]
  BY DEF TypeOK, Move
<1>2. /\ stage = "queued" => Queued' = Queued \cup {r}
      /\ stage # "queued" => Queued' = Queued \ {r}
  BY <1>1 DEF Queued
<1>3. /\ stage = "admitted" => Holders' = Holders \cup {r}
      /\ stage # "admitted" => Holders' = Holders \ {r}
  BY <1>1 DEF Holders
<1>4. QED
  BY <1>1, <1>2, <1>3

LEMMA CapacityPositive == Capacity \in Nat \ {0}
  BY QueueAssumption DEF Capacity

-----------------------------------------------------------------------------
LEMMA InitIndInv == Init => IndInv
<1> SUFFICES ASSUME Init PROVE IndInv
  OBVIOUS
<1>1. Queued = {} /\ Holders = {}
  BY DEF Init, Queued, Holders
<1>2. TypeOK
  <2>1. waiters \in Seq(Nat)
    BY DEF Init
  <2>2. gone \subseteq Requests /\ late \subseteq Requests
    BY DEF Init
  <2>3. pc \in [Requests -> Stages]
    BY DEF Init, Stages
  <2>4. startedLate \in [Requests -> BOOLEAN] /\ draining \in BOOLEAN
    BY DEF Init
  <2>5. QED
    BY <2>1, <2>2, <2>3, <2>4 DEF Init, TypeOK
<1>3. LineInv
  BY <1>1, FS_EmptySet DEF Init, LineInv, WaitersExact, TicketsFresh,
     TicketsUnique, LengthExact
<1>4. AdmissionsBounded
  BY <1>1, FS_EmptySet, CapacityPositive DEF Init, AdmissionsBounded
<1>5. QueueBounded
  BY QueueAssumption DEF Init, QueueBounded
<1>6. QED
  BY <1>2, <1>3, <1>4, <1>5 DEF IndInv

(* A step that moves no worker into or out of the queue or an admission    *)
(* and leaves the queue's own variables alone keeps every part but typing. *)
LEMMA QuietStep ==
  ASSUME IndInv, UNCHANGED queueVars, UNCHANGED ticket, Queued' = Queued,
         Holders' = Holders
  PROVE  LineInv' /\ AdmissionsBounded' /\ QueueBounded'
<1> USE DEF IndInv, queueVars
<1>1. LineInv'
  BY DEF LineInv, WaitersExact, TicketsFresh, TicketsUnique, LengthExact
<1>2. AdmissionsBounded'
  BY DEF AdmissionsBounded, Capacity
<1>3. QueueBounded'
  BY DEF QueueBounded
<1>4. QED
  BY <1>1, <1>2, <1>3

LEMMA AdmitAtOnceStep ==
  ASSUME IndInv, NEW r \in Requests, AdmitAtOnce(r)
  PROVE  IndInv'
<1>1. "admitted" \in Stages /\ Move(r, "admitted") /\ TypeOK
  BY DEF AdmitAtOnce, Stages, IndInv
<1>2. r \notin Queued /\ r \notin Holders
  BY DEF AdmitAtOnce, Queued, Holders
<1>3. Queued' = Queued /\ Holders' = Holders \cup {r}
  BY <1>1, <1>2, MoveSets
<1>4. TypeOK'
  BY <1>1, MoveSets DEF AdmitAtOnce, TypeOK, world
<1>5. LineInv'
  BY <1>3 DEF IndInv, AdmitAtOnce, LineInv, WaitersExact, TicketsFresh,
     TicketsUnique, LengthExact
<1>6. AdmissionsBounded'
  <2>1. Cardinality(Holders') = Cardinality(Holders) + 1
    BY <1>1, <1>2, <1>3, StageSets, FS_AddElement
  <2>2. active' = active + 1 /\ active < Capacity /\ active \in Nat
    BY <1>1 DEF AdmitAtOnce, FastPath, TypeOK
  <2>3. QED
    BY <2>1, <2>2, CapacityPositive DEF IndInv, AdmissionsBounded, Capacity
<1>7. QueueBounded'
  BY DEF IndInv, AdmitAtOnce, QueueBounded
<1>8. QED
  BY <1>4, <1>5, <1>6, <1>7 DEF IndInv

LEMMA EnqueueStep ==
  ASSUME IndInv, NEW r \in Requests, Enqueue(r)
  PROVE  IndInv'
<1>1. "queued" \in Stages /\ Move(r, "queued") /\ TypeOK
  BY DEF Enqueue, Stages, IndInv
<1>2. r \notin Queued /\ r \notin Holders
  BY DEF Enqueue, Queued, Holders
<1>3. Queued' = Queued \cup {r} /\ Holders' = Holders
  BY <1>1, <1>2, MoveSets
<1>4. /\ waiters \in Seq(Nat) /\ nextTicket \in Nat
      /\ waiters' = Append(waiters, nextTicket)
      /\ nextTicket' = nextTicket + 1
      /\ ticket \in [Requests -> Nat]
      /\ ticket' = [ticket EXCEPT ![r] = nextTicket]
  BY <1>1 DEF Enqueue, TypeOK
<1>5. /\ waiters' \in Seq(Nat) /\ Len(waiters') = Len(waiters) + 1
      /\ DOMAIN waiters = 1 .. Len(waiters)
      /\ DOMAIN waiters' = 1 .. Len(waiters) + 1
      /\ Len(waiters) \in Nat
      /\ \A i \in DOMAIN waiters : waiters'[i] = waiters[i]
      /\ waiters'[Len(waiters) + 1] = nextTicket
      /\ \A i \in DOMAIN waiters : waiters[i] \in Nat
  BY <1>4
<1>6. /\ ticket' \in [Requests -> Nat]
      /\ ticket'[r] = nextTicket
      /\ \A q \in Queued : ticket'[q] = ticket[q]
  BY <1>2, <1>4 DEF Queued
<1>7. TypeOK'
  BY <1>1, <1>4, <1>5, <1>6, MoveSets DEF Enqueue, TypeOK, world
<1>8. LineInv'
  <2>1. /\ \A i, j \in DOMAIN waiters : i < j => waiters[i] < waiters[j]
        /\ \A i \in DOMAIN waiters : \E q \in Queued : ticket[q] = waiters[i]
        /\ \A q \in Queued : \E i \in DOMAIN waiters : waiters[i] = ticket[q]
        /\ \A i \in DOMAIN waiters : waiters[i] < nextTicket
        /\ \A p, q \in Queued : ticket[p] = ticket[q] => p = q
        /\ Len(waiters) = Cardinality(Queued)
    BY DEF IndInv, LineInv, WaitersExact, TicketsFresh, TicketsUnique,
       LengthExact
  <2>2. ASSUME NEW i \in DOMAIN waiters', NEW j \in DOMAIN waiters', i < j
        PROVE  waiters'[i] < waiters'[j]
    <3>1. i \in DOMAIN waiters /\ waiters'[i] = waiters[i]
      BY <1>5, <2>2
    <3>2. CASE j \in DOMAIN waiters
      <4>1. waiters[i] < waiters[j]
        BY <2>1, <2>2, <3>1, <3>2
      <4>2. QED
        BY <1>5, <3>1, <3>2, <4>1
    <3>3. CASE j = Len(waiters) + 1
      <4>1. waiters[i] < nextTicket
        BY <2>1, <3>1
      <4>2. QED
        BY <1>5, <3>1, <3>3, <4>1
    <3>4. QED
      BY <1>5, <3>2, <3>3
  <2>3. \A i \in DOMAIN waiters' : \E q \in Queued' : ticket'[q] = waiters'[i]
    <3> SUFFICES ASSUME NEW i \in DOMAIN waiters'
                 PROVE  \E q \in Queued' : ticket'[q] = waiters'[i]
      OBVIOUS
    <3>1. CASE i \in DOMAIN waiters
      <4>1. PICK q \in Queued : ticket[q] = waiters[i]
        BY <2>1, <3>1
      <4>2. q \in Queued' /\ ticket'[q] = ticket[q]
        BY <1>3, <1>6
      <4>3. waiters'[i] = waiters[i]
        BY <1>5, <3>1
      <4>4. QED
        BY <4>1, <4>2, <4>3
    <3>2. CASE i = Len(waiters) + 1
      <4>1. r \in Queued' /\ ticket'[r] = nextTicket
        BY <1>3, <1>6
      <4>2. QED
        BY <1>5, <3>2, <4>1
    <3>3. QED
      BY <1>5, <3>1, <3>2
  <2>4. \A q \in Queued' : \E i \in DOMAIN waiters' : waiters'[i] = ticket'[q]
    <3> SUFFICES ASSUME NEW q \in Queued'
                 PROVE  \E i \in DOMAIN waiters' : waiters'[i] = ticket'[q]
      OBVIOUS
    <3>1. CASE q \in Queued
      <4>1. PICK i \in DOMAIN waiters : waiters[i] = ticket[q]
        BY <2>1, <3>1
      <4>2. i \in DOMAIN waiters' /\ waiters'[i] = ticket'[q]
        BY <1>5, <1>6, <3>1, <4>1
      <4>3. QED
        BY <4>2
    <3>2. CASE q = r
      BY <1>5, <1>6, <3>2
    <3>3. QED
      BY <1>3, <3>1, <3>2
  <2>5. \A i \in DOMAIN waiters' : waiters'[i] < nextTicket'
    BY <1>4, <1>5, <2>1
  <2>6. \A q \in Queued : ticket[q] < nextTicket
    BY <2>1
  <2>7. \A p, q \in Queued' : ticket'[p] = ticket'[q] => p = q
    BY <1>3, <1>4, <1>6, <2>1, <2>6 DEF Queued
  <2>8. Len(waiters') = Cardinality(Queued')
    BY <1>1, <1>2, <1>3, <1>5, <2>1, StageSets, FS_AddElement
  <2>9. QED
    BY <2>2, <2>3, <2>4, <2>5, <2>7, <2>8
       DEF LineInv, WaitersExact, TicketsFresh, TicketsUnique, LengthExact
<1>9. AdmissionsBounded'
  BY <1>3 DEF IndInv, Enqueue, AdmissionsBounded, Capacity
<1>10. QueueBounded'
  BY <1>1, <1>5, QueueAssumption DEF IndInv, Enqueue, QueueBounded, TypeOK
<1>11. QED
  BY <1>7, <1>8, <1>9, <1>10 DEF IndInv

(* Taking one waiter out of the line, by withdrawing or by being served,   *)
(* leaves the line of the others as it was.                                *)
LEMMA LineLosesOne ==
  ASSUME IndInv, NEW r \in Queued, NEW k \in DOMAIN waiters,
         waiters[k] = ticket[r],
         waiters' \in Seq(Nat), Len(waiters') = Len(waiters) - 1,
         \A i, j \in DOMAIN waiters' : i < j => waiters'[i] < waiters'[j],
         \A i \in DOMAIN waiters' :
           \E j \in DOMAIN waiters \ {k} : waiters'[i] = waiters[j],
         \A j \in DOMAIN waiters \ {k} :
           \E i \in DOMAIN waiters' : waiters'[i] = waiters[j],
         Queued' = Queued \ {r}, UNCHANGED <<ticket, nextTicket>>
  PROVE  LineInv'
<1>1. /\ \A i, j \in DOMAIN waiters : i < j => waiters[i] < waiters[j]
      /\ \A i \in DOMAIN waiters : \E q \in Queued : ticket[q] = waiters[i]
      /\ \A q \in Queued : \E i \in DOMAIN waiters : waiters[i] = ticket[q]
      /\ \A i \in DOMAIN waiters : waiters[i] < nextTicket
      /\ \A p, q \in Queued : ticket[p] = ticket[q] => p = q
      /\ Len(waiters) = Cardinality(Queued)
  BY DEF IndInv, LineInv, WaitersExact, TicketsFresh, TicketsUnique,
     LengthExact
<1>2. /\ DOMAIN waiters = 1 .. Len(waiters)
      /\ \A i \in DOMAIN waiters : waiters[i] \in Nat
  BY DEF IndInv, TypeOK
<1>3. ASSUME NEW j \in DOMAIN waiters \ {k} PROVE waiters[j] # waiters[k]
  <2>1. j < k \/ k < j
    BY <1>2
  <2>2. waiters[j] < waiters[k] \/ waiters[k] < waiters[j]
    BY <1>1, <2>1
  <2>3. QED
    BY <1>2, <2>2
<1>4. ASSUME NEW i \in DOMAIN waiters'
      PROVE  \E q \in Queued' : ticket'[q] = waiters'[i]
  <2>1. PICK j \in DOMAIN waiters \ {k} : waiters'[i] = waiters[j]
    BY <1>4
  <2>2. PICK q \in Queued : ticket[q] = waiters[j]
    BY <1>1
  <2>3. q # r
    BY <1>3, <2>2
  <2>4. QED
    BY <2>1, <2>2, <2>3
<1>5. ASSUME NEW q \in Queued'
      PROVE  \E i \in DOMAIN waiters' : waiters'[i] = ticket'[q]
  <2>1. q \in Queued /\ q # r
    OBVIOUS
  <2>2. PICK j \in DOMAIN waiters : waiters[j] = ticket[q]
    BY <1>1, <2>1
  <2>3. j # k
    BY <1>1, <2>1, <2>2
  <2>4. QED
    BY <2>2, <2>3
<1>6. \A i \in DOMAIN waiters' : waiters'[i] < nextTicket'
  BY <1>1
<1>7. \A p, q \in Queued' : ticket'[p] = ticket'[q] => p = q
  BY <1>1
<1>8. Len(waiters') = Cardinality(Queued')
  BY <1>1, StageSets, FS_RemoveElement DEF IndInv
<1>9. QED
  BY <1>4, <1>5, <1>6, <1>7, <1>8
     DEF LineInv, WaitersExact, TicketsFresh, TicketsUnique, LengthExact

LEMMA WithdrawStep ==
  ASSUME IndInv, NEW r \in Requests, Withdraw(r)
  PROVE  IndInv'
<1>1. "refused" \in Stages /\ Move(r, "refused") /\ TypeOK
  BY DEF Withdraw, Stages, IndInv
<1>2. r \in Queued /\ r \notin Holders
  BY DEF Withdraw, Queued, Holders
<1>3. Queued' = Queued \ {r} /\ Holders' = Holders
  BY <1>1, <1>2, MoveSets
<1>4. PICK k \in DOMAIN waiters : waiters[k] = ticket[r]
  BY <1>2 DEF IndInv, LineInv, WaitersExact
<1>5. waiters' = Without(waiters, waiters[k])
  BY <1>4 DEF Withdraw
<1>6. /\ waiters \in Seq(Nat)
      /\ \A i, j \in DOMAIN waiters : i < j => waiters[i] < waiters[j]
  BY <1>1 DEF TypeOK, IndInv, LineInv, WaitersExact
<1>7. /\ waiters' \in Seq(Nat) /\ Len(waiters') = Len(waiters) - 1
      /\ \A i, j \in DOMAIN waiters' : i < j => waiters'[i] < waiters'[j]
      /\ \A i \in DOMAIN waiters' :
           \E j \in DOMAIN waiters \ {k} : waiters'[i] = waiters[j]
      /\ \A j \in DOMAIN waiters \ {k} :
           \E i \in DOMAIN waiters' : waiters'[i] = waiters[j]
  BY <1>5, <1>6, WithoutLeavesOrder
<1>8. UNCHANGED <<ticket, nextTicket, active, highWatermark>>
  BY DEF Withdraw
<1>9. TypeOK'
  BY <1>1, <1>7, MoveSets DEF Withdraw, TypeOK, world
<1>10. LineInv'
  BY <1>2, <1>3, <1>4, <1>7, <1>8, LineLosesOne
<1>11. AdmissionsBounded'
  BY <1>3, <1>8 DEF IndInv, AdmissionsBounded, Capacity
<1>12. QueueBounded'
  BY <1>1, <1>6, <1>7, <1>8 DEF IndInv, QueueBounded, TypeOK
<1>13. QED
  BY <1>9, <1>10, <1>11, <1>12 DEF IndInv

LEMMA AdmitWaiterStep ==
  ASSUME IndInv, NEW r \in Requests, AdmitWaiter(r)
  PROVE  IndInv'
<1>1. "admitted" \in Stages /\ Move(r, "admitted") /\ TypeOK
  BY DEF AdmitWaiter, Stages, IndInv
<1>2. r \in Queued /\ r \notin Holders
  BY DEF AdmitWaiter, Queued, Holders
<1>3. Queued' = Queued \ {r} /\ Holders' = Holders \cup {r}
  BY <1>1, <1>2, MoveSets
<1>4. /\ waiters \in Seq(Nat) /\ waiters # <<>> /\ waiters' = Tail(waiters)
      /\ \A i, j \in DOMAIN waiters : i < j => waiters[i] < waiters[j]
      /\ Head(waiters) = ticket[r]
  BY <1>1 DEF AdmitWaiter, TypeOK, IndInv, LineInv, WaitersExact
<1>5. /\ 1 \in DOMAIN waiters /\ waiters[1] = ticket[r]
      /\ waiters' \in Seq(Nat) /\ Len(waiters') = Len(waiters) - 1
      /\ \A i, j \in DOMAIN waiters' : i < j => waiters'[i] < waiters'[j]
      /\ \A i \in DOMAIN waiters' :
           \E j \in DOMAIN waiters \ {1} : waiters'[i] = waiters[j]
      /\ \A j \in DOMAIN waiters \ {1} :
           \E i \in DOMAIN waiters' : waiters'[i] = waiters[j]
  <2>1. /\ Len(waiters) \in Nat \ {0} /\ DOMAIN waiters = 1 .. Len(waiters)
        /\ Head(waiters) = waiters[1]
        /\ waiters' \in Seq(Nat) /\ Len(waiters') = Len(waiters) - 1
        /\ DOMAIN waiters' = 1 .. Len(waiters) - 1
        /\ \A i \in DOMAIN waiters' : waiters'[i] = waiters[i + 1]
    BY <1>4
  <2>2. \A i, j \in DOMAIN waiters' : i < j => waiters'[i] < waiters'[j]
    BY <1>4, <2>1
  <2>3. \A i \in DOMAIN waiters' : i + 1 \in DOMAIN waiters \ {1}
    BY <2>1
  <2>4. \A j \in DOMAIN waiters \ {1} :
          j - 1 \in DOMAIN waiters' /\ waiters'[j - 1] = waiters[j]
    BY <2>1
  <2>5. 1 \in DOMAIN waiters
    BY <2>1
  <2>6. QED
    BY <1>4, <2>1, <2>2, <2>3, <2>4, <2>5
<1>6. UNCHANGED <<ticket, nextTicket, highWatermark>>
  BY DEF AdmitWaiter
<1>7. active' = active + 1 /\ active < Capacity /\ active \in Nat
  BY <1>1 DEF AdmitWaiter, TypeOK
<1>8. TypeOK'
  BY <1>1, <1>5, <1>7, MoveSets DEF AdmitWaiter, TypeOK, world
<1>9. LineInv'
  BY <1>2, <1>3, <1>4, <1>5, <1>6, LineLosesOne
<1>10. AdmissionsBounded'
  <2>1. Cardinality(Holders') = Cardinality(Holders) + 1
    BY <1>1, <1>2, <1>3, StageSets, FS_AddElement
  <2>2. QED
    BY <1>7, <2>1, CapacityPositive DEF IndInv, AdmissionsBounded, Capacity
<1>11. QueueBounded'
  BY <1>1, <1>4, <1>5, <1>6 DEF IndInv, QueueBounded, TypeOK
<1>12. QED
  BY <1>8, <1>9, <1>10, <1>11 DEF IndInv

LEMMA ReleaseStep ==
  ASSUME IndInv, NEW r \in Requests, Release(r)
  PROVE  IndInv'
<1>1. "released" \in Stages /\ Move(r, "released") /\ TypeOK
  BY DEF Release, Stages, IndInv
<1>2. r \notin Queued /\ r \in Holders
  BY DEF Release, Queued, Holders
<1>3. Queued' = Queued /\ Holders' = Holders \ {r}
  BY <1>1, <1>2, MoveSets
<1>4. Cardinality(Holders') = Cardinality(Holders) - 1
  BY <1>1, <1>2, <1>3, StageSets, FS_RemoveElement
<1>5. active = Cardinality(Holders) /\ active # 0 /\ active \in Nat
  BY <1>1, <1>2, StageSets, FS_EmptySet DEF IndInv, AdmissionsBounded, TypeOK
<1>6. active' = active - 1 /\ active' \in Nat
  BY <1>5 DEF Release
<1>7. TypeOK'
  BY <1>1, <1>6, MoveSets DEF Release, TypeOK, world
<1>8. LineInv'
  BY <1>3 DEF IndInv, Release, LineInv, WaitersExact, TicketsFresh,
     TicketsUnique, LengthExact
<1>9. AdmissionsBounded'
  BY <1>4, <1>5, <1>6, CapacityPositive
     DEF IndInv, AdmissionsBounded, Capacity
<1>10. QueueBounded'
  BY DEF IndInv, Release, QueueBounded
<1>11. QED
  BY <1>7, <1>8, <1>9, <1>10 DEF IndInv

(* Every step that only moves a worker that neither waits nor holds, or    *)
(* changes the world around the queue.                                     *)
LEMMA OutsideStep ==
  ASSUME IndInv, NEW r \in Requests,
         Disconnect(r) \/ Expire(r) \/ Call(r) \/ Refuse(r)
  PROVE  IndInv'
<1>1. TypeOK /\ {"called", "refused"} \subseteq Stages
  BY DEF IndInv, Stages
<1>2. CASE Disconnect(r) \/ Expire(r)
  <2>1. Queued' = Queued /\ Holders' = Holders
    BY <1>2 DEF Disconnect, Expire, Queued, Holders
  <2>2. TypeOK'
    BY <1>1, <1>2 DEF Disconnect, Expire, TypeOK, queueVars
  <2>3. UNCHANGED queueVars /\ UNCHANGED ticket
    BY <1>2 DEF Disconnect, Expire
  <2>4. QED
    BY <2>1, <2>2, <2>3, QuietStep DEF IndInv
<1>3. CASE Call(r)
  <2>1. r \notin Queued /\ r \notin Holders
    BY <1>3 DEF Call, Queued, Holders
  <2>2. Queued' = Queued /\ Holders' = Holders
    BY <1>1, <1>3, <2>1, MoveSets DEF Call
  <2>3. pc' \in [Requests -> Stages]
    BY <1>1, <1>3, MoveSets DEF Call
  <2>4. startedLate' \in [Requests -> BOOLEAN]
    <3>1. (r \in late) \in BOOLEAN
      OBVIOUS
    <3>2. QED
      BY <1>1, <1>3, <3>1 DEF Call, TypeOK
  <2>5. TypeOK'
    BY <1>1, <1>3, <2>3, <2>4 DEF Call, TypeOK, world, queueVars
  <2>6. UNCHANGED queueVars /\ UNCHANGED ticket
    BY <1>3 DEF Call
  <2>7. QED
    BY <2>2, <2>5, <2>6, QuietStep DEF IndInv
<1>4. CASE Refuse(r)
  <2>1. r \notin Queued /\ r \notin Holders
    BY <1>4 DEF Refuse, Queued, Holders
  <2>2. Queued' = Queued /\ Holders' = Holders
    BY <1>1, <1>4, <2>1, MoveSets DEF Refuse
  <2>3. TypeOK'
    BY <1>1, <1>4, MoveSets DEF Refuse, TypeOK, world, queueVars
  <2>4. UNCHANGED queueVars /\ UNCHANGED ticket
    BY <1>4 DEF Refuse
  <2>5. QED
    BY <2>2, <2>3, <2>4, QuietStep DEF IndInv
<1>5. QED
  BY <1>2, <1>3, <1>4

LEMMA DrainStep ==
  ASSUME IndInv, StartDraining \/ UNCHANGED vars
  PROVE  IndInv'
<1> USE DEF StartDraining, vars, world, queueVars
<1>1. Queued' = Queued /\ Holders' = Holders
  BY DEF Queued, Holders
<1>2. TypeOK'
  BY DEF IndInv, TypeOK
<1>3. LineInv'
  BY <1>1 DEF IndInv, LineInv, WaitersExact, TicketsFresh, TicketsUnique,
     LengthExact
<1>4. AdmissionsBounded' /\ QueueBounded'
  BY <1>1 DEF IndInv, AdmissionsBounded, QueueBounded, Capacity
<1>5. QED
  BY <1>2, <1>3, <1>4 DEF IndInv

LEMMA IndInvStep == IndInv /\ [Next]_vars => IndInv'
<1> SUFFICES ASSUME IndInv, [Next]_vars PROVE IndInv'
  OBVIOUS
<1>1. ASSUME NEW r \in Requests,
             \/ Disconnect(r) \/ Expire(r)
             \/ Call(r) \/ AdmitAtOnce(r) \/ Refuse(r) \/ Enqueue(r)
             \/ LeaveQueue(r) \/ CallbackThrows(r) \/ AdmitWaiter(r)
             \/ Release(r)
      PROVE  IndInv'
  BY <1>1, OutsideStep, AdmitAtOnceStep, EnqueueStep, WithdrawStep,
     AdmitWaiterStep, ReleaseStep DEF LeaveQueue, CallbackThrows
<1>2. CASE StartDraining \/ UNCHANGED vars
  BY <1>2, DrainStep
<1>3. QED
  BY <1>1, <1>2 DEF Next

(* The inductive invariant holds in every state of the queue. *)
LEMMA IndInvAlways == Spec => []IndInv
  BY InitIndInv, IndInvStep, PTL DEF Spec

-----------------------------------------------------------------------------
(* RequestQueue::active_, waiters_ and high_watermark_ stay in their types *)
(* for every number of workers, every capacity and every queue bound.      *)
THEOREM TypeCorrect == Spec => []TypeOK
<1>1. IndInv => TypeOK
  BY DEF IndInv
<1>2. QED
  BY <1>1, IndInvAlways, PTL

(* active_ is the number of admissions handed out and not returned, and it *)
(* never exceeds capacity_.                                                *)
THEOREM AdmissionsAlwaysBounded == Spec => []AdmissionsBounded
<1>1. IndInv => AdmissionsBounded
  BY DEF IndInv
<1>2. QED
  BY <1>1, IndInvAlways, PTL

(* waiters_ is exactly the line of blocked Acquire calls, oldest first. *)
THEOREM WaitersAlwaysExact == Spec => []WaitersExact
<1>1. IndInv => WaitersExact
  BY DEF IndInv, LineInv
<1>2. QED
  BY <1>1, IndInvAlways, PTL

(* waiters_ never outgrows max_queued_. *)
THEOREM QueueAlwaysBounded == Spec => []QueueBounded
<1>1. IndInv => QueueBounded
  BY DEF IndInv
<1>2. QED
  BY <1>1, IndInvAlways, PTL

-----------------------------------------------------------------------------
(* The refinement: what each step of the queue means to AdmissionPromise.  *)

(* The instance brings its own copy of Cardinality. *)
LEMMA SameCardinality == \A S : Promise!Cardinality(S) = Cardinality(S)
  BY DEF Promise!Cardinality, Cardinality

LEMMA PromiseInit == Init => Promise!Init
<1> SUFFICES ASSUME Init PROVE Promise!Init
  OBVIOUS
<1>1. Queued = {} /\ Holders = {}
  BY DEF Init, Queued, Holders
<1>2. ticket \in [Requests -> Nat] /\ draining = FALSE
  BY DEF Init
<1>3. QED
  BY <1>1, <1>2 DEF Promise!Init

(* A worker admitted at once enters: the empty deque means an empty line. *)
LEMMA AdmitAtOnceEnters ==
  ASSUME IndInv, NEW r \in Requests, AdmitAtOnce(r)
  PROVE  Promise!Enter(r)
<1>1. "admitted" \in Stages /\ Move(r, "admitted") /\ TypeOK
  BY DEF AdmitAtOnce, Stages, IndInv
<1>2. r \notin Queued /\ r \notin Holders
  BY DEF AdmitAtOnce, Queued, Holders
<1>3. Queued' = Queued /\ Holders' = Holders \cup {r}
  BY <1>1, <1>2, MoveSets
<1>4. Queued = {}
  <2>1. waiters = <<>>
    BY DEF AdmitAtOnce, FastPath
  <2>2. \A q \in Queued : \E i \in DOMAIN waiters : waiters[i] = ticket[q]
    BY DEF IndInv, LineInv, WaitersExact
  <2>3. QED
    BY <2>1, <2>2
<1>5. Cardinality(Holders) < Capacity
  BY DEF AdmitAtOnce, FastPath, IndInv, AdmissionsBounded
<1>6. ~draining /\ UNCHANGED <<ticket, draining>>
  BY DEF AdmitAtOnce, RefusedAtOnce
<1>7. QED
  BY <1>2, <1>3, <1>4, <1>5, <1>6, SameCardinality DEF Promise!Enter

(* A queued worker joins behind all others: its ticket is the highest. *)
LEMMA EnqueueJoins ==
  ASSUME IndInv, NEW r \in Requests, Enqueue(r)
  PROVE  Promise!Join(r)
<1>1. "queued" \in Stages /\ Move(r, "queued") /\ TypeOK
  BY DEF Enqueue, Stages, IndInv
<1>2. r \notin Queued /\ r \notin Holders
  BY DEF Enqueue, Queued, Holders
<1>3. Queued' = Queued \cup {r} /\ Holders' = Holders
  BY <1>1, <1>2, MoveSets
<1>4. ticket' = [ticket EXCEPT ![r] = nextTicket] /\ ticket'[r] = nextTicket
  BY <1>1 DEF Enqueue, TypeOK
<1>5. \A q \in Queued : ticket[q] < nextTicket
  <2>1. \A q \in Queued : \E i \in DOMAIN waiters : waiters[i] = ticket[q]
    BY DEF IndInv, LineInv, WaitersExact
  <2>2. \A i \in DOMAIN waiters : waiters[i] < nextTicket
    BY DEF IndInv, LineInv, TicketsFresh
  <2>3. QED
    BY <2>1, <2>2
<1>6. Cardinality(Queued) < MaxQueued
  BY DEF Enqueue, IndInv, LineInv, LengthExact
<1>7. ~draining /\ draining' = draining
  BY DEF Enqueue, RefusedAtOnce
<1>8. QED
  BY <1>2, <1>3, <1>4, <1>5, <1>6, <1>7, SameCardinality
     DEF Promise!Join

LEMMA WithdrawLeaves ==
  ASSUME IndInv, NEW r \in Requests, Withdraw(r)
  PROVE  Promise!Leave(r)
<1>1. "refused" \in Stages /\ Move(r, "refused") /\ TypeOK
  BY DEF Withdraw, Stages, IndInv
<1>2. r \in Queued /\ r \notin Holders
  BY DEF Withdraw, Queued, Holders
<1>3. Queued' = Queued \ {r} /\ Holders' = Holders
  BY <1>1, <1>2, MoveSets
<1>4. UNCHANGED <<ticket, draining>>
  BY DEF Withdraw
<1>5. QED
  BY <1>2, <1>3, <1>4 DEF Promise!Leave

(* The head of the deque is served: nobody in line drew a lower ticket. *)
LEMMA AdmitWaiterServes ==
  ASSUME IndInv, NEW r \in Requests, AdmitWaiter(r)
  PROVE  Promise!Serve(r)
<1>1. "admitted" \in Stages /\ Move(r, "admitted") /\ TypeOK
  BY DEF AdmitWaiter, Stages, IndInv
<1>2. r \in Queued /\ r \notin Holders
  BY DEF AdmitWaiter, Queued, Holders
<1>3. Queued' = Queued \ {r} /\ Holders' = Holders \cup {r}
  BY <1>1, <1>2, MoveSets
<1>4. \A q \in Queued : ticket[r] <= ticket[q]
  <2>1. /\ waiters \in Seq(Nat) /\ waiters # <<>>
        /\ Head(waiters) = ticket[r]
    BY <1>1 DEF AdmitWaiter, TypeOK
  <2>2. /\ 1 \in DOMAIN waiters /\ waiters[1] = ticket[r]
        /\ \A i \in DOMAIN waiters : waiters[i] \in Nat /\ (i = 1 \/ 1 < i)
    BY <2>1
  <2>3. \A i, j \in DOMAIN waiters : i < j => waiters[i] < waiters[j]
    BY DEF IndInv, LineInv, WaitersExact
  <2>4. \A i \in DOMAIN waiters : ticket[r] <= waiters[i]
    BY <2>2, <2>3
  <2>5. \A q \in Queued : \E i \in DOMAIN waiters : waiters[i] = ticket[q]
    BY DEF IndInv, LineInv, WaitersExact
  <2>6. QED
    BY <2>4, <2>5
<1>5. Cardinality(Holders) < Capacity
  BY DEF AdmitWaiter, IndInv, AdmissionsBounded
<1>6. ~draining /\ UNCHANGED <<ticket, draining>>
  BY DEF AdmitWaiter, MustLeave
<1>7. QED
  BY <1>2, <1>3, <1>4, <1>5, <1>6, SameCardinality DEF Promise!Serve

LEMMA ReleaseFinishes ==
  ASSUME IndInv, NEW r \in Requests, Release(r)
  PROVE  Promise!Finish(r)
<1>1. "released" \in Stages /\ Move(r, "released") /\ TypeOK
  BY DEF Release, Stages, IndInv
<1>2. r \notin Queued /\ r \in Holders
  BY DEF Release, Queued, Holders
<1>3. Queued' = Queued /\ Holders' = Holders \ {r}
  BY <1>1, <1>2, MoveSets
<1>4. UNCHANGED <<ticket, draining>>
  BY DEF Release
<1>5. QED
  BY <1>2, <1>3, <1>4 DEF Promise!Finish

(* Steps outside the mutex, and refusals, change nothing that is promised. *)
LEMMA OutsideStutters ==
  ASSUME IndInv, NEW r \in Requests,
         Disconnect(r) \/ Expire(r) \/ Call(r) \/ Refuse(r)
  PROVE  UNCHANGED Promise!vars
<1>1. UNCHANGED <<ticket, draining>>
  BY DEF Disconnect, Expire, Call, Refuse, queueVars
<1>2. Queued' = Queued /\ Holders' = Holders
  <2>1. CASE Disconnect(r) \/ Expire(r)
    BY <2>1 DEF Disconnect, Expire, Queued, Holders
  <2>2. CASE Call(r) \/ Refuse(r)
    <3>1. r \notin Queued /\ r \notin Holders
      BY <2>2 DEF Call, Refuse, Queued, Holders
    <3>2. TypeOK /\ {"called", "refused"} \subseteq Stages
      BY DEF IndInv, Stages
    <3>3. QED
      BY <2>2, <3>1, <3>2, MoveSets DEF Call, Refuse
  <2>3. QED
    BY <2>1, <2>2
<1>3. QED
  BY <1>1, <1>2 DEF Promise!vars

LEMMA PromiseStep == IndInv /\ [Next]_vars => [Promise!Next]_(Promise!vars)
<1> SUFFICES ASSUME IndInv, [Next]_vars
             PROVE  Promise!Next \/ UNCHANGED Promise!vars
  OBVIOUS
<1>1. ASSUME NEW r \in Requests,
             \/ Disconnect(r) \/ Expire(r)
             \/ Call(r) \/ AdmitAtOnce(r) \/ Refuse(r) \/ Enqueue(r)
             \/ LeaveQueue(r) \/ CallbackThrows(r) \/ AdmitWaiter(r)
             \/ Release(r)
      PROVE  Promise!Next \/ UNCHANGED Promise!vars
  <2>1. CASE Disconnect(r) \/ Expire(r) \/ Call(r) \/ Refuse(r)
    BY <2>1, OutsideStutters
  <2>2. CASE AdmitAtOnce(r)
    BY <2>2, AdmitAtOnceEnters DEF Promise!Next
  <2>3. CASE Enqueue(r)
    BY <2>3, EnqueueJoins DEF Promise!Next
  <2>4. CASE LeaveQueue(r) \/ CallbackThrows(r)
    BY <2>4, WithdrawLeaves DEF LeaveQueue, CallbackThrows, Promise!Next
  <2>5. CASE AdmitWaiter(r)
    BY <2>5, AdmitWaiterServes DEF Promise!Next
  <2>6. CASE Release(r)
    BY <2>6, ReleaseFinishes DEF Promise!Next
  <2>7. QED
    BY <1>1, <2>1, <2>2, <2>3, <2>4, <2>5, <2>6
<1>2. CASE StartDraining
  <2>1. Promise!Close
    BY <1>2 DEF StartDraining, Queued, Holders, Promise!Close
  <2>2. QED
    BY <2>1 DEF Promise!Next
<1>3. CASE UNCHANGED vars
  BY <1>3 DEF vars, queueVars, Queued, Holders, Promise!vars
<1>4. QED
  BY <1>1, <1>2, <1>3 DEF Next

(* The queue implements what docs/SERVER.md promises of admission: first   *)
(* come first served, nobody overtaken, both bounds, nothing admitted once *)
(* draining has started.                                                   *)
THEOREM PromiseAlwaysKept == Spec => PromiseKept
<1>1. Spec => Promise!Init /\ [][Promise!Next]_(Promise!vars)
  BY PromiseInit, PromiseStep, IndInvAlways, PTL DEF Spec
<1>2. QED
  BY <1>1, PTL DEF PromiseKept, Promise!Spec

(* No Acquire waits for nobody: the head of waiters_ is always the ticket  *)
(* of a caller that is still in its wait loop, and only admissions that a  *)
(* handler really holds keep it there (Acquire, remove_ticket, Release).   *)
THEOREM LineAlwaysMoves == Spec => []LineMoves
<1>1. ASSUME IndInv PROVE LineMoves
  <2> SUFFICES ASSUME NEW q \in Queued
               PROVE  \E r \in Queued :
                        First(r) /\ (active < Capacity
                                      \/ Cardinality(Holders) = Capacity)
    BY DEF LineMoves
  <2>1. active < Capacity \/ Cardinality(Holders) = Capacity
    BY <1>1, CapacityPositive DEF IndInv, TypeOK, AdmissionsBounded
  <2>2. waiters \in Seq(Nat) /\ waiters # <<>>
    BY <1>1 DEF IndInv, TypeOK, LineInv, WaitersExact
  <2>3. 1 \in DOMAIN waiters /\ Head(waiters) = waiters[1]
    BY <2>2
  <2>4. PICK r \in Queued : ticket[r] = waiters[1]
    BY <1>1, <2>3 DEF IndInv, LineInv, WaitersExact
  <2> QED BY <2>1, <2>2, <2>3, <2>4 DEF First
<1> QED BY <1>1, IndInvAlways, PTL
=============================================================================

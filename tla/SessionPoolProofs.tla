------------------------- MODULE SessionPoolProofs --------------------------
(***************************************************************************)
(* Proofs about SessionPool for any sets of requests and chat ids, any     *)
(* number of slots, and whether or not the device fails: the pool never    *)
(* outgrows its limit, a session has one user at a time, and no discarded  *)
(* or recycled session is served; and what clients see of it is what       *)
(* SessionPromise allows.                                                  *)
(***************************************************************************)
EXTENDS SessionPool, FiniteSetTheorems, WellFoundedInduction, TLAPS

OnMap(e) == \E i \in SessionIds : resident[i] = e

(* Stages by what the handler's reference is to: nothing, an entry that is *)
(* on the map, or one that only the handler knows of.                      *)
Empty == {"new", "acquire", "create", "waitRetired", "waitPending", "waitRoom"}
Private == {"build", "publish", "reclaim"}
Holding == {"waitIdle", "publish", "reclaim"} \cup Leasing

RefsEmpty == \A r \in Requests : stage[r] \in Empty => ref[r] = NoEntry
RefsHeld == \A r \in Requests : stage[r] \in Holding => ref[r] # NoEntry
RefsShared ==
  \A r \in Requests :
    stage[r] \notin Private /\ ref[r] # NoEntry => OnMap(ref[r])
RefsPrivate ==
  \A r \in Requests :
    stage[r] \in Private /\ ref[r] # NoEntry =>
      ~OnMap(ref[r]) /\ \A q \in Requests \ {r} : ref[q] # ref[r]

RefInv == RefsEmpty /\ RefsHeld /\ RefsShared /\ RefsPrivate

(* An entry has one name. *)
NamesUnique ==
  \A i, j \in Resident : resident[i] = resident[j] => i = j

(* active_requests, as a fact about each holder. *)
CountExact ==
  /\ \A e \in Entries : active[e] \in {0, 1}
  /\ \A r \in Requests : stage[r] \in Leasing => active[ref[r]] = 1
  /\ \A q, r \in Requests :
       stage[q] \in Leasing /\ stage[r] \in Leasing /\ ref[q] = ref[r] => q = r
  /\ \A e \in Entries :
       active[e] = 1 => \E r \in Requests : stage[r] \in Leasing /\ ref[r] = e

(* A reservation belongs to one creator. *)
Reserved ==
  /\ \A r \in Requests : stage[r] \in Creating => want[r] \in pending
  /\ \A q, r \in Requests :
       stage[q] \in Creating /\ stage[r] \in Creating /\ want[q] = want[r] =>
         q = r

(* Only chats and roots create sessions, and the session of a root is made *)
(* by its own request alone.                                               *)
Creators ==
  \A r \in Requests :
    stage[r] \in {"create", "waitRetired", "waitPending", "waitRoom", "build",
                  "publish"} => ~IsNext(r)
RootsFresh ==
  \A p \in Requests :
    /\ p \in pending => want[p] = p /\ stage[p] \in Creating
    /\ resident[p] # NoEntry =>
         want[p] = p /\ stage[p] \in Leasing \cup {"unwinding"}

(* What is being served is neither retired nor without its slot, and an    *)
(* entry that lost its slot is retired before its lease ends.              *)
Clean ==
  \A r \in Requests : stage[r] \in {"publish", "leased", "running"} =>
                        ~retired[ref[r]] /\ ~moved[ref[r]]
MovedRetired ==
  \A e \in Entries : OnMap(e) /\ moved[e] =>
    retired[e] \/ \E r \in Requests : stage[r] = "discarding" /\ ref[r] = e

IndInv ==
  /\ TypeOK /\ RefInv /\ NamesUnique /\ CountExact
  /\ Reserved /\ Creators /\ RootsFresh /\ PoolBounded
  /\ Clean /\ MovedRetired /\ IndexSound

-----------------------------------------------------------------------------
(* The initial state.                                                      *)

(* There is no entry 0, and no session id is both a chat's and a root's:   *)
(* the facts about the constants that every step uses.                     *)
LEMMA Constants ==
  /\ NoEntry \notin Entries
  /\ \A e \in Entries \cup {NoEntry} : e \in Nat
  /\ \A e \in Entries : e # NoEntry
  /\ Requests \subseteq SessionIds
  /\ ChatIds \cap Requests = {}
BY PoolAssumption DEF PoolAssumption, Entries, NoEntry, SessionIds

(* The map and the reservations are finite, so their sizes add up.         *)
LEMMA PoolFinite ==
  ASSUME TypeOK
  PROVE  /\ IsFiniteSet(Resident) /\ Cardinality(Resident) \in Nat
         /\ IsFiniteSet(pending) /\ Cardinality(pending) \in Nat
<1>1. IsFiniteSet(SessionIds)
  BY PoolAssumption, FS_Union DEF PoolAssumption, SessionIds
<1>2. Resident \subseteq SessionIds /\ pending \subseteq SessionIds
  BY DEF Resident, TypeOK
<1> QED BY <1>1, <1>2, FS_Subset, FS_CardinalityType

(* The invariant holds before any request arrives.                         *)
LEMMA InitIndInv == Init => IndInv
<1> SUFFICES ASSUME Init PROVE IndInv OBVIOUS
<1>1. TypeOK
  BY Constants DEF Init, TypeOK, Stages
<1>2. Resident = {} /\ pending = {}
  BY DEF Init, Resident
<1>3. PoolBounded
  BY <1>2, FS_EmptySet, PoolAssumption DEF PoolBounded, PoolAssumption
<1>4. RefInv
  BY DEF Init, RefInv, RefsEmpty, RefsHeld, RefsShared, RefsPrivate, Holding,
         Leasing
<1>5. CountExact
  BY DEF Init, CountExact, Leasing
<1>6. Reserved /\ Creators
  BY DEF Init, Reserved, Creators, Creating
<1>7. RootsFresh
  BY Constants DEF Init, RootsFresh
<1>8. Clean /\ MovedRetired
  BY DEF Init, Clean, MovedRetired
<1>9. NamesUnique /\ IndexSound
  BY <1>2 DEF Init, NamesUnique, IndexSound
<1> QED BY <1>1, <1>3, <1>4, <1>5, <1>6, <1>7, <1>8, <1>9 DEF IndInv

-----------------------------------------------------------------------------
(* Steps of a request that has no session.                                 *)

Outside == Empty \cup {"waitIdle", "unwinding"}

(* A handler that waits, looks, gives up or lets go of its entry: the pool *)
(* and the entries are as before, and the handler holds nothing afterwards.*)
LEMMA OutsideStep ==
  ASSUME IndInv,
         NEW r \in Requests, NEW t \in Empty \cup {"unwinding"},
         NEW w \in SessionIds,
         stage[r] \in Outside,
         stage[r] = "unwinding" => t = "unwinding" /\ w = want[r],
         t \in {"create", "waitRetired", "waitPending", "waitRoom"} =>
           w \in ChatIds \/ w = r,
         stage' = [stage EXCEPT ![r] = t],
         want' = [want EXCEPT ![r] = w],
         ref' = [ref EXCEPT ![r] = NoEntry],
         admitted' \subseteq Requests,
         onRefusal' \in [Requests -> {"acquire", "waitRoom"}],
         UNCHANGED <<poolVars, entryVars>>
  PROVE  IndInv'
<1>1. /\ stage'[r] = t /\ want'[r] = w /\ ref'[r] = NoEntry
      /\ \A q \in Requests \ {r} :
           stage'[q] = stage[q] /\ want'[q] = want[q] /\ ref'[q] = ref[q]
  BY DEF IndInv, TypeOK
<1>2. /\ UNCHANGED <<resident, pending, index>>
      /\ UNCHANGED <<active, retired, moved, recency, served>>
  BY DEF poolVars, entryVars
<1>3. UNCHANGED Resident
  BY <1>2 DEF Resident
<1>4. \A e : OnMap(e)' <=> OnMap(e)
  BY <1>2 DEF OnMap
<1>5. TypeOK'
  BY <1>2 DEF IndInv, TypeOK, Stages, Waiting, Empty
<1>6. RefInv'
  <2>1. RefsEmpty' /\ RefsHeld'
    BY <1>1 DEF IndInv, RefInv, RefsEmpty, RefsHeld, Holding, Leasing, Empty
  <2>2. RefsShared'
    <3> SUFFICES ASSUME NEW q \in Requests, stage'[q] \notin Private,
                        ref'[q] # NoEntry
                 PROVE  \E i \in SessionIds : resident'[i] = ref'[q]
      BY DEF RefsShared, OnMap
    <3>1. q # r
      BY <1>1
    <3>2. OnMap(ref[q])
      BY <1>1, <3>1 DEF IndInv, RefInv, RefsShared
    <3> QED BY <1>1, <1>2, <3>1, <3>2 DEF OnMap
  <2>3. RefsPrivate'
    <3> SUFFICES ASSUME NEW q \in Requests, stage'[q] \in Private,
                        ref'[q] # NoEntry
                 PROVE  /\ \A i \in SessionIds : resident'[i] # ref'[q]
                        /\ \A p \in Requests \ {q} : ref'[p] # ref'[q]
      BY DEF RefsPrivate, OnMap
    <3>1. q # r
      BY <1>1
    <3>2. ~OnMap(ref[q]) /\ \A p \in Requests \ {q} : ref[p] # ref[q]
      BY <1>1, <3>1 DEF IndInv, RefInv, RefsPrivate
    <3> QED BY <1>1, <1>2, <3>1, <3>2 DEF OnMap
  <2> QED BY <2>1, <2>2, <2>3 DEF RefInv
<1>7. NamesUnique' /\ PoolBounded'
  BY <1>2, <1>3 DEF IndInv, NamesUnique, PoolBounded
<1>8. CountExact'
  BY <1>1, <1>2 DEF IndInv, CountExact, Leasing, Outside, Empty
<1>9. Reserved'
  BY <1>1, <1>2 DEF IndInv, Reserved, Creating, Empty
<1>10. Creators'
  BY <1>1 DEF IndInv, Creators, IsNext, IsChat, IsRoot, Empty
<1>11. RootsFresh'
  BY <1>1, <1>2
  DEF IndInv, RootsFresh, Creating, Leasing, Outside, Empty
<1>12. Clean' /\ MovedRetired'
  BY <1>1, <1>2, <1>4 DEF IndInv, Clean, MovedRetired, Outside, Empty
<1>13. IndexSound'
  BY <1>2, <1>3 DEF IndInv, IndexSound
<1> QED
  BY <1>5, <1>6, <1>7, <1>8, <1>9, <1>10, <1>11, <1>12, <1>13 DEF IndInv

(* The steps of that kind. *)
LookStep(r) ==
  \/ Admit(r) \/ Abort(r) \/ SeeIdle(r) \/ NotFound(r) \/ FindRetired(r)
  \/ SeeRetirable(r) \/ WaitForPending(r) \/ SeeCreated(r)
  \/ StartCreate(r) \/ SeeRoom(r) \/ Refused(r) \/ DropEntry(r)

(* They all keep the invariant.                                            *)
LEMMA LookKeeps ==
  ASSUME IndInv, NEW r \in Requests, LookStep(r) PROVE IndInv'
<1>1. TypeOK /\ want[r] \in SessionIds /\ onRefusal[r] \in {"acquire", "waitRoom"}
  BY DEF IndInv, TypeOK
<1>2. /\ want = [want EXCEPT ![r] = want[r]]
      /\ stage = [stage EXCEPT ![r] = stage[r]]
  BY <1>1 DEF TypeOK
<1>3. stage[r] \in Empty =>
        ref[r] = NoEntry /\ ref = [ref EXCEPT ![r] = NoEntry]
  BY <1>1 DEF IndInv, RefInv, RefsEmpty, TypeOK
<1>4. stage[r] \in {"create", "waitRetired", "waitPending", "waitRoom"} =>
        want[r] \in ChatIds \/ want[r] = r
  BY DEF IndInv, Creators, IsNext, IsChat, IsRoot
<1>5. CASE Admit(r)
  <2>1. PICK w \in SessionIds : want' = [want EXCEPT ![r] = w]
    BY <1>5 DEF Admit
  <2>2. /\ stage[r] = "new" /\ stage' = [stage EXCEPT ![r] = "acquire"]
        /\ admitted' = admitted \cup {r}
        /\ UNCHANGED <<ref, onRefusal, poolVars, entryVars>>
    BY <1>5 DEF Admit, Go
  <2>3. stage[r] \in Empty /\ stage[r] \in Outside /\ "acquire" \in Empty
    BY <2>2 DEF Outside, Empty
  <2>4. ref' = [ref EXCEPT ![r] = NoEntry]
    BY <1>3, <2>2, <2>3
  <2>5. /\ admitted' \subseteq Requests
        /\ onRefusal' \in [Requests -> {"acquire", "waitRoom"}]
    BY <1>1, <2>2 DEF TypeOK
  <2> QED
    BY <2>1, <2>2, <2>3, <2>4, <2>5, OutsideStep
<1>6. CASE Abort(r)
  BY <1>1, <1>2, <1>3, <1>6, OutsideStep
  DEF Abort, Hold, Waiting, Outside, Empty, TypeOK
<1>7. CASE SeeIdle(r)
  BY <1>1, <1>2, <1>7, OutsideStep DEF SeeIdle, Go, Hold, Outside, Empty, TypeOK
<1>8. CASE NotFound(r)
  BY <1>1, <1>2, <1>3, <1>8, OutsideStep
  DEF NotFound, Go, Outside, Empty, TypeOK
<1>9. CASE FindRetired(r)
  <2>1. onRefusal' \in [Requests -> {"acquire", "waitRoom"}]
    BY <1>1, <1>9 DEF FindRetired, TypeOK
  <2> QED
    BY <1>1, <1>2, <1>3, <1>9, <2>1, OutsideStep
    DEF FindRetired, IsChat, Go, Outside, Empty, TypeOK
<1>10. CASE SeeRetirable(r)
  BY <1>1, <1>2, <1>3, <1>4, <1>10, OutsideStep
  DEF SeeRetirable, Go, Outside, Empty, TypeOK
<1>11. CASE WaitForPending(r)
  BY <1>1, <1>2, <1>3, <1>11, OutsideStep
  DEF WaitForPending, IsChat, Go, Outside, Empty, TypeOK
<1>12. CASE SeeCreated(r)
  BY <1>1, <1>2, <1>3, <1>12, OutsideStep
  DEF SeeCreated, Go, Outside, Empty, TypeOK
<1>13. CASE StartCreate(r)
  <2>1. onRefusal' \in [Requests -> {"acquire", "waitRoom"}]
    BY <1>1, <1>13 DEF StartCreate, TypeOK
  <2> QED
    BY <1>1, <1>2, <1>3, <1>13, <2>1, OutsideStep
    DEF StartCreate, IsNext, IsChat, IsRoot, Go, Outside, Empty, TypeOK
<1>14. CASE SeeRoom(r)
  BY <1>1, <1>2, <1>3, <1>14, OutsideStep
  DEF SeeRoom, Go, Outside, Empty, TypeOK
<1>15. CASE Refused(r)
  BY <1>1, <1>2, <1>3, <1>4, <1>15, OutsideStep
  DEF Refused, Go, Outside, Empty, TypeOK
<1>16. CASE DropEntry(r)
  BY <1>1, <1>2, <1>16, OutsideStep
  DEF DropEntry, Hold, Outside, Empty, TypeOK
<1> QED
  BY <1>5, <1>6, <1>7, <1>8, <1>9, <1>10, <1>11, <1>12, <1>13, <1>14, <1>15,
     <1>16 DEF LookStep

-----------------------------------------------------------------------------
(* Steps of a request that has its session.                                *)

(* What no step of a turn touches, because the handler keeps its entry and *)
(* its place among the users of the map.                                   *)
LEMMA TurnFrame ==
  ASSUME IndInv,
         NEW r \in Requests, NEW t \in Leasing \cup {"unwinding"},
         stage[r] \in Leasing,
         stage' = [stage EXCEPT ![r] = t],
         UNCHANGED <<want, ref, resident, pending>>
  PROVE  /\ RefInv' /\ NamesUnique' /\ Reserved' /\ Creators'
         /\ RootsFresh' /\ PoolBounded'
         /\ stage'[r] = t
         /\ \A q \in Requests \ {r} : stage'[q] = stage[q]
         /\ stage' \in [Requests -> Stages]
<1>1. stage'[r] = t /\ \A q \in Requests \ {r} : stage'[q] = stage[q]
  BY DEF IndInv, TypeOK
<1>2. UNCHANGED Resident
  BY DEF Resident
<1>3. RefsEmpty' /\ RefsHeld'
  BY <1>1 DEF IndInv, RefInv, RefsEmpty, RefsHeld, Holding, Leasing, Empty
<1>4. RefsShared'
  BY <1>1 DEF IndInv, RefInv, RefsShared, Private, Leasing, OnMap
<1>5. RefsPrivate'
  BY <1>1 DEF IndInv, RefInv, RefsPrivate, Private, Leasing, OnMap
<1>6. NamesUnique' /\ PoolBounded'
  BY <1>2 DEF IndInv, NamesUnique, PoolBounded
<1>7. Reserved'
  BY <1>1 DEF IndInv, Reserved, Creating, Leasing
<1>8. Creators'
  BY <1>1 DEF IndInv, Creators, IsNext, IsChat, IsRoot, Leasing
<1>9. RootsFresh'
  BY <1>1 DEF IndInv, RootsFresh, Creating, Leasing
<1>10. stage' \in [Requests -> Stages]
  BY DEF IndInv, TypeOK, Stages
<1> QED
  BY <1>1, <1>3, <1>4, <1>5, <1>6, <1>7, <1>8, <1>9, <1>10 DEF RefInv

(* Until it is released, the count of the entry stays what it is. *)
LEMMA TurnCount ==
  ASSUME IndInv, NEW r \in Requests, NEW t \in Leasing,
         stage[r] \in Leasing, stage' = [stage EXCEPT ![r] = t],
         UNCHANGED <<ref, active>>
  PROVE  CountExact'
<1>1. \A q \in Requests : stage'[q] \in Leasing <=> stage[q] \in Leasing
  BY DEF IndInv, TypeOK
<1> QED BY <1>1 DEF IndInv, CountExact

(* The entry of a handler that leases it is resident, and is its alone.    *)
LEMMA Leased ==
  ASSUME IndInv, NEW r \in Requests, stage[r] \in Leasing
  PROVE  /\ ref[r] \in Entries /\ active[ref[r]] = 1
         /\ \E i \in Resident : resident[i] = ref[r]
         /\ \A q \in Requests \ {r} :
              stage[q] \in {"publish"} \cup Leasing => ref[q] # ref[r]
<1>1. ref[r] \in Entries
  BY DEF IndInv, TypeOK, RefInv, RefsHeld, Holding
<1>2. OnMap(ref[r])
  BY <1>1, Constants DEF IndInv, RefInv, RefsShared, Private, Leasing
<1>3. \E i \in Resident : resident[i] = ref[r]
  BY <1>1, <1>2, Constants DEF OnMap, Resident
<1>4. active[ref[r]] = 1
  BY DEF IndInv, CountExact
<1>5. ASSUME NEW q \in Requests \ {r}, stage[q] \in {"publish"} \cup Leasing
      PROVE  ref[q] # ref[r]
  <2>1. CASE stage[q] = "publish"
    BY <2>1, <1>1, Constants DEF IndInv, RefInv, RefsPrivate, RefsHeld, Private, Holding
  <2>2. CASE stage[q] \in Leasing
    BY <2>2 DEF IndInv, CountExact
  <2> QED BY <1>5, <2>1, <2>2
<1> QED BY <1>1, <1>3, <1>4, <1>5

(* Indexing: the response leads to the session that is about to hold it.   *)
LEMMA IndexResponseKeeps ==
  ASSUME IndInv, NEW r \in Requests, IndexResponse(r) PROVE IndInv'
<1> USE DEF IndexResponse, Go
<1>1. stage[r] \in Leasing /\ "running" \in Leasing
  BY DEF Leasing
<1>2. /\ ref[r] \in Entries
      /\ \E i \in Resident : resident[i] = ref[r]
  BY <1>1, Leased
<1>3. CountExact'
  BY <1>1, TurnCount
<1>4. /\ RefInv' /\ NamesUnique' /\ Reserved' /\ Creators'
      /\ RootsFresh' /\ PoolBounded'
      /\ stage'[r] = "running"
      /\ \A q \in Requests \ {r} : stage'[q] = stage[q]
      /\ stage' \in [Requests -> Stages]
  BY <1>1, TurnFrame
<1>5. TypeOK'
  BY <1>2, <1>4 DEF IndInv, TypeOK
<1>6. Clean'
  BY <1>4 DEF IndInv, Clean
<1>7. MovedRetired'
  BY <1>4 DEF IndInv, MovedRetired, OnMap
<1>8. IndexSound'
  <2> SUFFICES ASSUME NEW p \in Requests, index'[p] # NoEntry
               PROVE  /\ p \in served'[index'[p]]
                      /\ ~retired[index'[p]]
                      /\ \E i \in Resident' : resident'[i] = index'[p]
    BY DEF IndexSound
  <2>1. UNCHANGED Resident
    BY DEF Resident
  <2>2. CASE p = r
    <3>1. index'[p] = ref[r] /\ r \in served'[ref[r]]
      BY <1>2, <2>2 DEF IndInv, TypeOK
    <3>2. ~retired[ref[r]]
      BY DEF IndInv, Clean
    <3> QED BY <1>2, <2>1, <2>2, <3>1, <3>2
  <2>3. CASE p # r
    <3>1. index'[p] = index[p] /\ index[p] \in Entries
      BY <2>3 DEF IndInv, TypeOK
    <3>2. served[index[p]] \subseteq served'[index[p]]
      BY <1>2, <3>1 DEF IndInv, TypeOK
    <3> QED BY <2>1, <3>1, <3>2 DEF IndInv, IndexSound
  <2> QED BY <2>2, <2>3
<1> QED BY <1>3, <1>4, <1>5, <1>6, <1>7, <1>8 DEF IndInv

(* A turn that ends well, and the first half of the release.               *)
LEMMA CompleteKeeps ==
  ASSUME IndInv, NEW r \in Requests, Complete(r) \/ StampRelease(r)
  PROVE  IndInv'
<1>1. PICK t \in {"releasing", "dropping"} :
        /\ stage' = [stage EXCEPT ![r] = t]
        /\ stage[r] \in {"running", "releasing"}
        /\ UNCHANGED <<want, ref, resident, pending, index, active, retired,
                       moved, served, admitted, onRefusal>>
  BY DEF Complete, StampRelease, Go, poolVars, entryVars
<1>2. recency' \subseteq Entries \X Entries
  <2>1. ref[r] \in Entries
    BY <1>1, Leased DEF Leasing
  <2>2. Touched(ref[r]) \subseteq Entries \X Entries
    BY <2>1 DEF Touched, Without, IndInv, TypeOK
  <2>3. recency' \in {recency, Touched(ref[r])}
    BY DEF Complete, StampRelease, entryVars
  <2> QED BY <2>2, <2>3 DEF IndInv, TypeOK
<1>3. stage[r] \in Leasing /\ t \in Leasing
  BY <1>1 DEF Leasing
<1>4. CountExact'
  BY <1>1, <1>3, TurnCount
<1>5. /\ RefInv' /\ NamesUnique' /\ Reserved' /\ Creators'
      /\ RootsFresh' /\ PoolBounded'
      /\ stage'[r] = t
      /\ \A q \in Requests \ {r} : stage'[q] = stage[q]
      /\ stage' \in [Requests -> Stages]
  BY <1>1, <1>3, TurnFrame
<1>6. TypeOK'
  BY <1>1, <1>2, <1>5 DEF IndInv, TypeOK
<1>7. Clean'
  BY <1>1, <1>5 DEF IndInv, Clean
<1>8. MovedRetired'
  BY <1>1, <1>5 DEF IndInv, MovedRetired, OnMap
<1>9. IndexSound'
  BY <1>1 DEF IndInv, IndexSound, Resident
<1> QED BY <1>4, <1>5, <1>6, <1>7, <1>8, <1>9 DEF IndInv

(* A failed turn takes its response out of the index.                      *)
LEMMA FailKeeps ==
  ASSUME IndInv, NEW r \in Requests, Fail(r) PROVE IndInv'
<1> USE DEF Fail, Go, entryVars
<1>1. PICK t \in {"releasing", "discarding"} :
        stage[r] = "running" /\ stage' = [stage EXCEPT ![r] = t]
  OBVIOUS
<1>2. stage[r] \in Leasing /\ t \in Leasing
  BY <1>1 DEF Leasing
<1>3. CountExact'
  BY <1>1, <1>2, TurnCount
<1>4. /\ RefInv' /\ NamesUnique' /\ Reserved' /\ Creators'
      /\ RootsFresh' /\ PoolBounded'
      /\ stage'[r] = t
      /\ \A q \in Requests \ {r} : stage'[q] = stage[q]
      /\ stage' \in [Requests -> Stages]
  BY <1>1, <1>2, TurnFrame
<1>5. TypeOK'
  BY <1>4, Constants DEF IndInv, TypeOK
<1>6. Clean'
  BY <1>4 DEF IndInv, Clean
<1>7. MovedRetired'
  BY <1>1, <1>4 DEF IndInv, MovedRetired, OnMap
<1>8. IndexSound'
  <2>1. UNCHANGED Resident
    BY DEF Resident
  <2>2. \A p \in Requests : index'[p] # NoEntry => index'[p] = index[p]
    BY DEF IndInv, TypeOK
  <2> QED BY <2>1, <2>2 DEF IndInv, IndexSound
<1> QED BY <1>3, <1>4, <1>5, <1>6, <1>7, <1>8 DEF IndInv

(* The session has lost its slot: it serves nobody, and will be discarded. *)
LEMMA RestartFailsKeeps ==
  ASSUME IndInv, NEW r \in Requests, RestartFails(r) PROVE IndInv'
<1> USE DEF RestartFails, Go, poolVars
<1>1. stage[r] \in Leasing /\ "discarding" \in Leasing
  BY DEF Leasing
<1>2. /\ ref[r] \in Entries
      /\ \A q \in Requests \ {r} :
           stage[q] \in {"publish"} \cup Leasing => ref[q] # ref[r]
  BY <1>1, Leased
<1>3. CountExact'
  BY <1>1, TurnCount
<1>4. /\ RefInv' /\ NamesUnique' /\ Reserved' /\ Creators'
      /\ RootsFresh' /\ PoolBounded'
      /\ stage'[r] = "discarding"
      /\ \A q \in Requests \ {r} : stage'[q] = stage[q]
      /\ stage' \in [Requests -> Stages]
  BY <1>1, TurnFrame
<1>5. /\ moved' \in [Entries -> BOOLEAN]
      /\ \A e \in Entries \ {ref[r]} : moved'[e] = moved[e]
  BY <1>2 DEF IndInv, TypeOK
<1>6. TypeOK'
  BY <1>4, <1>5 DEF IndInv, TypeOK
<1>7. Clean'
  <2> SUFFICES ASSUME NEW q \in Requests,
                      stage'[q] \in {"publish", "leased", "running"}
               PROVE  ~retired[ref[q]] /\ ~moved'[ref[q]]
    BY DEF Clean
  <2>1. q # r /\ stage[q] = stage'[q] /\ stage[q] \in Holding
    BY <1>4 DEF Holding, Leasing
  <2>2. ref[q] # ref[r] /\ ref[q] \in Entries
    BY <1>2, <2>1 DEF Leasing, IndInv, TypeOK, RefInv, RefsHeld
  <2>3. moved'[ref[q]] = moved[ref[q]]
    BY <1>5, <2>2
  <2>4. ~retired[ref[q]] /\ ~moved[ref[q]]
    BY <2>1 DEF IndInv, Clean
  <2> QED BY <2>3, <2>4
<1>8. MovedRetired'
  <2> SUFFICES ASSUME NEW e \in Entries, moved'[e],
                      \E i \in SessionIds : resident[i] = e
               PROVE  retired[e] \/ \E q \in Requests :
                                     stage'[q] = "discarding" /\ ref[q] = e
    BY DEF MovedRetired, OnMap
  <2>1. CASE e = ref[r]
    BY <1>4, <2>1
  <2>2. CASE e # ref[r]
    <3>1. moved[e]
      BY <1>5, <2>2
    <3>2. retired[e] \/ \E q \in Requests : stage[q] = "discarding" /\ ref[q] = e
      BY <3>1 DEF IndInv, MovedRetired, OnMap
    <3> QED BY <1>4, <2>2, <3>2
  <2> QED BY <2>1, <2>2
<1>9. IndexSound'
  BY DEF IndInv, IndexSound, Resident
<1> QED BY <1>3, <1>4, <1>6, <1>7, <1>8, <1>9 DEF IndInv

(* Retiring a session also takes it out of the index.                      *)
LEMMA DiscardKeeps ==
  ASSUME IndInv, NEW r \in Requests, DiscardSession(r) PROVE IndInv'
<1> USE DEF DiscardSession, Go
<1>1. stage[r] \in Leasing /\ "releasing" \in Leasing
  BY DEF Leasing
<1>2. /\ ref[r] \in Entries
      /\ \A q \in Requests \ {r} :
           stage[q] \in {"publish"} \cup Leasing => ref[q] # ref[r]
  BY <1>1, Leased
<1>3. CountExact'
  BY <1>1, TurnCount
<1>4. /\ RefInv' /\ NamesUnique' /\ Reserved' /\ Creators'
      /\ RootsFresh' /\ PoolBounded'
      /\ stage'[r] = "releasing"
      /\ \A q \in Requests \ {r} : stage'[q] = stage[q]
      /\ stage' \in [Requests -> Stages]
  BY <1>1, TurnFrame
<1>5. /\ retired' \in [Entries -> BOOLEAN] /\ retired'[ref[r]]
      /\ \A e \in Entries \ {ref[r]} : retired'[e] = retired[e]
  BY <1>2 DEF IndInv, TypeOK
<1>6. TypeOK'
  <2>1. index' \in [Requests -> Entries \cup {NoEntry}]
    BY DEF Unindexed, IndInv, TypeOK
  <2> QED BY <1>4, <1>5, <2>1 DEF IndInv, TypeOK
<1>7. Clean'
  <2> SUFFICES ASSUME NEW q \in Requests,
                      stage'[q] \in {"publish", "leased", "running"}
               PROVE  ~retired'[ref[q]] /\ ~moved[ref[q]]
    BY DEF Clean
  <2>1. q # r /\ stage[q] = stage'[q] /\ stage[q] \in Holding
    BY <1>4 DEF Holding, Leasing
  <2>2. ref[q] # ref[r] /\ ref[q] \in Entries
    BY <1>2, <2>1 DEF Leasing, IndInv, TypeOK, RefInv, RefsHeld
  <2>3. retired'[ref[q]] = retired[ref[q]]
    BY <1>5, <2>2
  <2>4. ~retired[ref[q]] /\ ~moved[ref[q]]
    BY <2>1 DEF IndInv, Clean
  <2> QED BY <2>3, <2>4
<1>8. MovedRetired'
  <2> SUFFICES ASSUME NEW e \in Entries, moved[e], e # ref[r],
                      \E i \in SessionIds : resident[i] = e
               PROVE  retired'[e] \/ \E q \in Requests :
                                      stage'[q] = "discarding" /\ ref[q] = e
    BY <1>5 DEF MovedRetired, OnMap
  <2>1. retired[e] \/ \E q \in Requests : stage[q] = "discarding" /\ ref[q] = e
    BY DEF IndInv, MovedRetired, OnMap
  <2>2. retired'[e] = retired[e]
    BY <1>5
  <2> QED BY <1>4, <2>1, <2>2
<1>9. IndexSound'
  <2> SUFFICES ASSUME NEW p \in Requests, index'[p] # NoEntry
               PROVE  /\ p \in served[index'[p]]
                      /\ ~retired'[index'[p]]
                      /\ \E i \in Resident' : resident[i] = index'[p]
    BY DEF IndexSound
  <2>1. UNCHANGED Resident
    BY DEF Resident
  <2>2. index'[p] = index[p] /\ index[p] # ref[r] /\ index[p] \in Entries
    BY DEF Unindexed, IndInv, TypeOK
  <2>3. retired'[index[p]] = retired[index[p]]
    BY <1>5, <2>2
  <2>4. /\ p \in served[index[p]] /\ ~retired[index[p]]
        /\ \E i \in Resident : resident[i] = index[p]
    BY <2>2 DEF IndInv, IndexSound
  <2> QED BY <2>1, <2>2, <2>3, <2>4
<1> QED BY <1>3, <1>4, <1>6, <1>7, <1>8, <1>9 DEF IndInv

(* The count goes back to zero with the only holder.                       *)
LEMMA ReleaseKeeps ==
  ASSUME IndInv, NEW r \in Requests, ReleaseSession(r) PROVE IndInv'
<1> USE DEF ReleaseSession, Go, poolVars
<1>1. stage[r] \in Leasing
  BY DEF Leasing
<1>2. /\ ref[r] \in Entries /\ active[ref[r]] = 1
      /\ \A q \in Requests \ {r} :
           stage[q] \in {"publish"} \cup Leasing => ref[q] # ref[r]
  BY <1>1, Leased
<1>3. /\ RefInv' /\ NamesUnique' /\ Reserved' /\ Creators'
      /\ RootsFresh' /\ PoolBounded'
      /\ stage'[r] = "unwinding"
      /\ \A q \in Requests \ {r} : stage'[q] = stage[q]
      /\ stage' \in [Requests -> Stages]
  BY <1>1, TurnFrame
<1>4. /\ active' \in [Entries -> Nat] /\ active'[ref[r]] = 0
      /\ \A e \in Entries \ {ref[r]} : active'[e] = active[e]
  BY <1>2 DEF IndInv, TypeOK
<1>5. TypeOK'
  BY <1>3, <1>4 DEF IndInv, TypeOK
<1>6. CountExact'
  <2>1. \A e \in Entries : active'[e] \in {0, 1}
    BY <1>4 DEF IndInv, CountExact
  <2>2. \A q \in Requests : stage'[q] \in Leasing =>
                               q # r /\ stage[q] \in Leasing
    BY <1>3 DEF Leasing
  <2>3. \A q \in Requests : stage'[q] \in Leasing => active'[ref[q]] = 1
    <3> SUFFICES ASSUME NEW q \in Requests, stage'[q] \in Leasing
                 PROVE  active'[ref[q]] = 1
      OBVIOUS
    <3>1. q # r /\ stage[q] \in Leasing
      BY <2>2
    <3>2. ref[q] \in Entries /\ active[ref[q]] = 1
      BY <3>1, Leased
    <3>3. ref[q] # ref[r]
      BY <1>2, <3>1
    <3> QED BY <1>4, <3>2, <3>3
  <2>4. \A e \in Entries :
          active'[e] = 1 => \E q \in Requests : stage'[q] \in Leasing /\ ref[q] = e
    <3> SUFFICES ASSUME NEW e \in Entries, active'[e] = 1
                 PROVE  \E q \in Requests : stage'[q] \in Leasing /\ ref[q] = e
      OBVIOUS
    <3>1. e # ref[r] /\ active[e] = 1
      BY <1>4
    <3>2. PICK q \in Requests : stage[q] \in Leasing /\ ref[q] = e
      BY <3>1 DEF IndInv, CountExact
    <3> QED BY <1>3, <3>1, <3>2
  <2> QED BY <2>1, <2>2, <2>3, <2>4 DEF IndInv, CountExact
<1>7. Clean'
  BY <1>3 DEF IndInv, Clean
<1>8. MovedRetired'
  BY <1>3 DEF IndInv, MovedRetired, OnMap
<1>9. IndexSound'
  BY DEF IndInv, IndexSound, Resident
<1> QED BY <1>3, <1>5, <1>6, <1>7, <1>8, <1>9 DEF IndInv

-----------------------------------------------------------------------------
(* A request gets to a session that is on the map.                         *)

(* The target of an acquisition is resident, and never an unpublished root *)
(* of the request itself.                                                  *)
LEMMA TargetMapped ==
  ASSUME IndInv, NEW r \in Requests, stage[r] = "acquire", Usable(r)
  PROVE  /\ Target(r) \in Entries /\ OnMap(Target(r)) /\ ~retired[Target(r)]
         /\ ref[r] = NoEntry
<1>1. CASE IsNext(r)
  <2>1. want[r] \in Requests
    BY <1>1 DEF IsNext, IsChat, IndInv, TypeOK, SessionIds
  <2>2. index[want[r]] # NoEntry /\ Target(r) = index[want[r]]
    BY <1>1 DEF Usable, Target
  <2> QED
    BY <2>1, <2>2
    DEF IndInv, IndexSound, TypeOK, OnMap, Resident, RefInv, RefsEmpty, Empty
<1>2. CASE IsChat(r)
  BY <1>2 DEF Usable, Target, IsNext, IsChat, IndInv, TypeOK, OnMap,
              SessionIds, RefInv, RefsEmpty, Empty
<1>3. CASE IsRoot(r) /\ ~IsChat(r)
  <2>1. resident[r] # NoEntry
    BY <1>3 DEF Usable, Target, IsNext, IsRoot
  <2> QED BY <2>1 DEF IndInv, RootsFresh, Leasing
<1> QED BY <1>1, <1>2, <1>3 DEF IsNext

(* What both lookups leave alone: a reference to a resident entry.         *)
LEMMA ShareFrame ==
  ASSUME IndInv,
         NEW r \in Requests, NEW t \in {"waitIdle", "leased", "running"},
         stage[r] = "acquire", Usable(r),
         stage' = [stage EXCEPT ![r] = t],
         ref' = [ref EXCEPT ![r] = Target(r)],
         UNCHANGED <<want, poolVars>>
  PROVE  /\ RefInv' /\ NamesUnique' /\ Reserved' /\ Creators'
         /\ RootsFresh' /\ PoolBounded'
         /\ stage'[r] = t /\ ref'[r] = Target(r)
         /\ \A q \in Requests \ {r} :
              stage'[q] = stage[q] /\ ref'[q] = ref[q]
         /\ stage' \in [Requests -> Stages]
         /\ ref' \in [Requests -> Entries \cup {NoEntry}]
<1> USE DEF poolVars
<1>1. /\ Target(r) \in Entries
      /\ \E i \in SessionIds : resident[i] = Target(r)
      /\ Target(r) # NoEntry
  BY TargetMapped, Constants DEF OnMap
<1>2. /\ stage'[r] = t /\ ref'[r] = Target(r)
      /\ \A q \in Requests \ {r} : stage'[q] = stage[q] /\ ref'[q] = ref[q]
      /\ stage' \in [Requests -> Stages]
      /\ ref' \in [Requests -> Entries \cup {NoEntry}]
  BY <1>1 DEF IndInv, TypeOK, Stages, Leasing, Waiting
<1>3. UNCHANGED Resident
  BY DEF Resident
<1>4. RefsEmpty' /\ RefsHeld'
  BY <1>1, <1>2 DEF IndInv, RefInv, RefsEmpty, RefsHeld, Holding, Leasing, Empty
<1>5. RefsShared'
  BY <1>1, <1>2 DEF IndInv, RefInv, RefsShared, Private, OnMap
<1>6. RefsPrivate'
  <2> SUFFICES ASSUME NEW q \in Requests, stage'[q] \in Private,
                      ref'[q] # NoEntry
               PROVE  /\ \A i \in SessionIds : resident[i] # ref'[q]
                      /\ \A p \in Requests \ {q} : ref'[p] # ref'[q]
    BY DEF RefsPrivate, OnMap
  <2>1. q # r
    BY <1>2 DEF Private
  <2>2. /\ \A i \in SessionIds : resident[i] # ref[q]
        /\ \A p \in Requests \ {q} : ref[p] # ref[q]
    BY <1>2, <2>1 DEF IndInv, RefInv, RefsPrivate, OnMap
  <2> QED BY <1>1, <1>2, <2>1, <2>2
<1>7. NamesUnique' /\ PoolBounded'
  BY <1>3 DEF IndInv, NamesUnique, PoolBounded
<1>8. Reserved'
  BY <1>2 DEF IndInv, Reserved, Creating
<1>9. Creators'
  BY <1>2 DEF IndInv, Creators, IsNext, IsChat, IsRoot
<1>10. RootsFresh'
  BY <1>2 DEF IndInv, RootsFresh, Creating, Leasing
<1> QED
  BY <1>2, <1>4, <1>5, <1>6, <1>7, <1>8, <1>9, <1>10 DEF RefInv

(* A waiter shares the entry but does not hold the lease.                  *)
LEMMA WaitForIdleKeeps ==
  ASSUME IndInv, NEW r \in Requests, WaitForIdle(r) PROVE IndInv'
<1> USE DEF WaitForIdle, Go, Hold, entryVars
<1>1. /\ RefInv' /\ NamesUnique' /\ Reserved' /\ Creators'
      /\ RootsFresh' /\ PoolBounded'
      /\ stage'[r] = "waitIdle" /\ ref'[r] = Target(r)
      /\ \A q \in Requests \ {r} :
           stage'[q] = stage[q] /\ ref'[q] = ref[q]
      /\ stage' \in [Requests -> Stages]
      /\ ref' \in [Requests -> Entries \cup {NoEntry}]
  BY ShareFrame
<1>2. TypeOK'
  BY <1>1 DEF IndInv, TypeOK, poolVars
<1>3. CountExact'
  BY <1>1 DEF IndInv, CountExact, Leasing
<1>4. Clean' /\ MovedRetired'
  BY <1>1 DEF IndInv, Clean, MovedRetired, OnMap, poolVars
<1>5. IndexSound'
  BY DEF IndInv, IndexSound, Resident, poolVars
<1> QED BY <1>1, <1>2, <1>3, <1>4, <1>5 DEF IndInv

(* The lease goes to one request, on a session that is clean.              *)
LEMMA LeaseKeeps ==
  ASSUME IndInv, NEW r \in Requests, Lease(r) PROVE IndInv'
<1> DEFINE e == Target(r)
<1>1. /\ stage[r] = "acquire" /\ Usable(r) /\ active[e] = 0
      /\ active' = [active EXCEPT ![e] = @ + 1]
      /\ recency' = Touched(e)
      /\ UNCHANGED <<want, admitted, onRefusal, poolVars, retired, moved,
                     served>>
  BY DEF Lease, Go
<1>2. PICK t \in {"leased", "running"} :
        stage' = [stage EXCEPT ![r] = t] /\ ref' = [ref EXCEPT ![r] = e]
  BY DEF Lease, Go, Hold
<1>3. e \in Entries /\ OnMap(e) /\ ~retired[e]
  BY <1>1, TargetMapped
<1>4. /\ RefInv' /\ NamesUnique' /\ Reserved' /\ Creators'
      /\ RootsFresh' /\ PoolBounded'
      /\ stage'[r] = t /\ ref'[r] = e
      /\ \A q \in Requests \ {r} :
           stage'[q] = stage[q] /\ ref'[q] = ref[q]
      /\ stage' \in [Requests -> Stages]
      /\ ref' \in [Requests -> Entries \cup {NoEntry}]
  BY <1>1, <1>2, ShareFrame
<1> HIDE DEF e
<1>5. /\ active' \in [Entries -> Nat] /\ active'[e] = 1
      /\ \A f \in Entries \ {e} : active'[f] = active[f]
  BY <1>1, <1>3 DEF IndInv, TypeOK
<1>6. TypeOK'
  <2>1. recency' \subseteq Entries \X Entries
    BY <1>1, <1>3 DEF Touched, Without, IndInv, TypeOK
  <2> QED BY <1>1, <1>4, <1>5, <2>1 DEF IndInv, TypeOK, poolVars
<1>7. CountExact'
  <2>1. \A f \in Entries : active'[f] \in {0, 1}
    BY <1>5 DEF IndInv, CountExact
  <2>2. \A q \in Requests \ {r} : stage'[q] \in Leasing =>
          /\ stage[q] \in Leasing /\ ref'[q] = ref[q]
          /\ ref[q] \in Entries /\ active[ref[q]] = 1 /\ ref[q] # e
    BY <1>1, <1>4, Leased
  <2>3. \A q \in Requests : stage'[q] \in Leasing => active'[ref'[q]] = 1
    BY <1>4, <1>5, <2>2
  <2>4. \A p, q \in Requests :
          stage'[p] \in Leasing /\ stage'[q] \in Leasing /\ ref'[p] = ref'[q]
            => p = q
    BY <1>4, <2>2 DEF IndInv, CountExact
  <2>5. \A f \in Entries :
          active'[f] = 1 =>
            \E q \in Requests : stage'[q] \in Leasing /\ ref'[q] = f
    <3> SUFFICES ASSUME NEW f \in Entries, active'[f] = 1
                 PROVE  \E q \in Requests : stage'[q] \in Leasing /\ ref'[q] = f
      OBVIOUS
    <3>1. CASE f = e
      BY <1>4, <3>1 DEF Leasing
    <3>2. CASE f # e
      <4>1. PICK q \in Requests : stage[q] \in Leasing /\ ref[q] = f
        BY <1>5, <3>2 DEF IndInv, CountExact
      <4>2. q # r
        BY <1>1, <4>1 DEF Leasing
      <4> QED BY <1>4, <4>1, <4>2
    <3> QED BY <3>1, <3>2
  <2> QED BY <2>1, <2>3, <2>4, <2>5 DEF CountExact
<1>8. ~moved[e]
  <2>1. ~ \E q \in Requests : stage[q] = "discarding" /\ ref[q] = e
    BY <1>1, Leased DEF Leasing
  <2> QED BY <1>3, <2>1 DEF IndInv, MovedRetired
<1>9. Clean'
  <2> SUFFICES ASSUME NEW q \in Requests,
                      stage'[q] \in {"publish", "leased", "running"}
               PROVE  ~retired[ref'[q]] /\ ~moved[ref'[q]]
    BY <1>1 DEF Clean
  <2> QED BY <1>3, <1>4, <1>8 DEF IndInv, Clean
<1>10. MovedRetired'
  <2>1. \A q \in Requests : stage[q] = "discarding" => q # r
    BY <1>1
  <2> QED BY <1>1, <1>4, <2>1 DEF IndInv, MovedRetired, OnMap, poolVars
<1>11. IndexSound'
  BY <1>1 DEF IndInv, IndexSound, Resident, poolVars
<1> QED BY <1>4, <1>6, <1>7, <1>9, <1>10, <1>11 DEF IndInv

-----------------------------------------------------------------------------
(* Steps of a request that creates a session.                              *)

CreatorStages == {"create", "build", "publish", "reclaim"}

(* Until it publishes, a creator is no holder: what is said of holders and *)
(* of who may create does not depend on its steps.                         *)
LEMMA CreatorFrame ==
  ASSUME IndInv,
         NEW r \in Requests, NEW t \in Stages \ Leasing,
         stage[r] \in CreatorStages,
         stage[r] = "reclaim" => t = "unwinding",
         stage' = [stage EXCEPT ![r] = t],
         \A q \in Requests \ {r} : ref'[q] = ref[q],
         UNCHANGED <<want, active>>
  PROVE  /\ CountExact' /\ Creators'
         /\ stage'[r] = t
         /\ \A q \in Requests \ {r} : stage'[q] = stage[q]
         /\ stage' \in [Requests -> Stages]
<1>1. stage'[r] = t /\ \A q \in Requests \ {r} : stage'[q] = stage[q]
  BY DEF IndInv, TypeOK
<1>2. stage' \in [Requests -> Stages]
  BY DEF IndInv, TypeOK
<1>3. stage[r] \notin Leasing
  BY DEF CreatorStages, Leasing
<1>4. CountExact'
  BY <1>1, <1>3 DEF IndInv, CountExact
<1>5. Creators'
  BY <1>1 DEF IndInv, Creators, CreatorStages, IsNext, IsChat, IsRoot
<1> QED BY <1>1, <1>2, <1>4, <1>5

(* A root's own request is the only one with its id.                       *)
LEMMA CreatorId ==
  ASSUME IndInv, NEW r \in Requests, stage[r] \in {"create", "build", "publish"},
         want[r] \in Requests
  PROVE  want[r] = r
BY Constants DEF IndInv, Creators, IsNext, IsChat, IsRoot

(* Dropping the reservation makes room and disturbs nobody else's.         *)
LEMMA UnreserveFrame ==
  ASSUME IndInv,
         NEW r \in Requests, NEW t \in Stages \ (Leasing \cup Creating),
         stage[r] = "build",
         stage' = [stage EXCEPT ![r] = t],
         t \in Empty => ref[r] = NoEntry,
         t \in Holding => ref[r] # NoEntry,
         t \notin Private => ref[r] = NoEntry,
         Unreserve(r),
         UNCHANGED <<want, admitted, ref, onRefusal, resident, index, entryVars>>
  PROVE  IndInv'
<1> USE DEF Unreserve, entryVars
<1>1. /\ CountExact' /\ Creators'
      /\ stage'[r] = t
      /\ \A q \in Requests \ {r} : stage'[q] = stage[q]
      /\ stage' \in [Requests -> Stages]
  BY CreatorFrame DEF CreatorStages
<1>2. UNCHANGED Resident
  BY DEF Resident
<1>3. TypeOK'
  BY <1>1 DEF IndInv, TypeOK
<1>4. RefInv'
  <2>1. RefsEmpty' /\ RefsHeld'
    BY <1>1 DEF IndInv, RefInv, RefsEmpty, RefsHeld
  <2>2. RefsShared'
    BY <1>1 DEF IndInv, RefInv, RefsShared, OnMap
  <2>3. RefsPrivate'
    BY <1>1 DEF IndInv, RefInv, RefsPrivate, Private, OnMap
  <2> QED BY <2>1, <2>2, <2>3 DEF RefInv
<1>5. NamesUnique'
  BY <1>2 DEF IndInv, NamesUnique
<1>6. PoolBounded'
  <2>1. Cardinality(pending') <= Cardinality(pending) /\ Cardinality(pending') \in Nat
    <3>1. IsFiniteSet(pending) /\ pending' \subseteq pending
      BY PoolFinite DEF IndInv
    <3> QED BY <3>1, FS_Subset, FS_CardinalityType
  <2>2. Cardinality(Resident) \in Nat /\ Cardinality(pending) \in Nat
    BY PoolFinite DEF IndInv
  <2>3. Cardinality(Resident') = Cardinality(Resident)
    BY <1>2
  <2>4. MaxSessions \in Nat
    BY PoolAssumption DEF PoolAssumption
  <2>5. Cardinality(Resident') + Cardinality(pending') <= MaxSessions
    BY <2>1, <2>2, <2>3, <2>4 DEF IndInv, PoolBounded
  <2>6. Resident' \cap pending' = {}
    BY <1>2 DEF IndInv, PoolBounded
  <2> QED BY <2>5, <2>6 DEF PoolBounded
<1>7. Reserved'
  BY <1>1 DEF IndInv, Reserved, Creating
<1>8. RootsFresh'
  BY <1>1 DEF IndInv, RootsFresh, Creating, Leasing
<1>9. Clean'
  BY <1>1 DEF IndInv, Clean, Leasing, Creating
<1>10. MovedRetired'
  BY <1>1 DEF IndInv, MovedRetired, OnMap
<1>11. IndexSound'
  BY <1>2 DEF IndInv, IndexSound
<1> QED
  BY <1>1, <1>3, <1>4, <1>5, <1>6, <1>7, <1>8, <1>9, <1>10, <1>11 DEF IndInv

(* A failed construction gives its reservation back.                       *)
LEMMA BuildFailsKeeps ==
  ASSUME IndInv, NEW r \in Requests, BuildFails(r) \/ ResetFails(r)
  PROVE  IndInv'
<1>1. CASE BuildFails(r)
  <2>1. PICK t \in {"acquire", "waitRoom", "unwinding"} :
          stage[r] = "build" /\ stage' = [stage EXCEPT ![r] = t]
    BY <1>1 DEF BuildFails, Go, IndInv, TypeOK
  <2>2. t \in Stages \ (Leasing \cup Creating)
    BY DEF Stages, Leasing, Creating, Waiting
  <2>3. t \notin Holding
    BY DEF Holding, Leasing
  <2> QED BY <1>1, <2>1, <2>2, <2>3, UnreserveFrame DEF BuildFails
<1>2. CASE ResetFails(r)
  <2>1. "reclaim" \in Stages \ (Leasing \cup Creating) /\ "reclaim" \in Private
        /\ "reclaim" \notin Empty
    BY DEF Stages, Leasing, Creating, Private, Empty
  <2> QED BY <1>2, <2>1, UnreserveFrame DEF ResetFails, Go
<1> QED BY <1>1, <1>2

(* A new reservation is nobody else's, and a root's is its own request's.  *)
LEMMA ReservationFrame ==
  ASSUME IndInv, NEW r \in Requests,
         Go(r, "create", "build"), want[r] \notin pending,
         pending' = pending \cup {want[r]},
         want' = want,
         \A i \in SessionIds : resident'[i] \in {resident[i], NoEntry}
  PROVE  Reserved' /\ RootsFresh'
<1>1. /\ stage'[r] = "build"
      /\ \A q \in Requests \ {r} : stage'[q] = stage[q]
  BY DEF Go, IndInv, TypeOK
<1>2. Reserved'
  BY <1>1 DEF IndInv, Reserved, Creating
<1>3. RootsFresh'
  <2> SUFFICES ASSUME NEW p \in Requests
               PROVE  /\ p \in pending' => want[p] = p /\ stage'[p] \in Creating
                      /\ resident'[p] # NoEntry =>
                           /\ want[p] = p
                           /\ stage'[p] \in Leasing \cup {"unwinding"}
    BY DEF RootsFresh
  <2>1. ASSUME p \in pending'
        PROVE  want[p] = p /\ stage'[p] \in Creating
    <3>1. CASE p \in pending
      BY <1>1, <3>1 DEF IndInv, RootsFresh, Creating
    <3>2. CASE p = want[r]
      <4>1. p = r
        BY <3>2, CreatorId DEF Go
      <4> QED BY <1>1, <3>2, <4>1 DEF Creating
    <3> QED BY <2>1, <3>1, <3>2
  <2>2. ASSUME resident'[p] # NoEntry
        PROVE  want[p] = p /\ stage'[p] \in Leasing \cup {"unwinding"}
    <3>1. resident[p] # NoEntry
      BY <2>2, Constants
    <3>2. want[p] = p /\ stage[p] \in Leasing \cup {"unwinding"}
      BY <3>1 DEF IndInv, RootsFresh
    <3> QED BY <1>1, <3>2 DEF Go, Leasing
  <2> QED BY <2>1, <2>2
<1> QED BY <1>2, <1>3

(* A reservation of free room stays within max_sessions.                   *)
LEMMA ReserveKeeps ==
  ASSUME IndInv, NEW r \in Requests, Reserve(r) PROVE IndInv'
<1> USE DEF Reserve, Go, entryVars
<1>1. want[r] \in SessionIds /\ want[r] \notin Resident /\ want[r] \notin pending
      /\ HasRoom
  BY DEF IndInv, TypeOK, TakesRoom
<1>2. /\ CountExact' /\ Creators'
      /\ stage'[r] = "build"
      /\ \A q \in Requests \ {r} : stage'[q] = stage[q]
      /\ stage' \in [Requests -> Stages]
  <2>1. "build" \in Stages \ Leasing
    BY DEF Stages, Creating, Leasing
  <2> QED BY <2>1, CreatorFrame DEF CreatorStages
<1>3. Reserved' /\ RootsFresh'
  BY <1>1, ReservationFrame
<1>4. UNCHANGED Resident
  BY DEF Resident
<1>5. TypeOK'
  BY <1>1, <1>2 DEF IndInv, TypeOK
<1>6. RefInv'
  <2>1. ref[r] = NoEntry
    BY DEF IndInv, RefInv, RefsEmpty, Empty
  <2>2. RefsEmpty' /\ RefsHeld'
    BY <1>2 DEF IndInv, RefInv, RefsEmpty, RefsHeld, Holding, Leasing, Empty
  <2>3. RefsShared' /\ RefsPrivate'
    BY <1>2, <2>1 DEF IndInv, RefInv, RefsShared, RefsPrivate, OnMap
  <2> QED BY <2>2, <2>3 DEF RefInv
<1>7. NamesUnique'
  BY <1>4 DEF IndInv, NamesUnique
<1>8. PoolBounded'
  <2>1. Cardinality(pending') = Cardinality(pending) + 1
    BY <1>1, PoolFinite, FS_AddElement DEF IndInv
  <2>2. Cardinality(Resident') = Cardinality(Resident)
    BY <1>4
  <2>3. MaxSessions \in Nat
    BY PoolAssumption DEF PoolAssumption
  <2>4. Cardinality(Resident') + Cardinality(pending') <= MaxSessions
    BY <1>1, <2>1, <2>2, <2>3, PoolFinite DEF IndInv, HasRoom
  <2>5. Resident' \cap pending' = {}
    BY <1>1, <1>4 DEF IndInv, PoolBounded
  <2> QED BY <2>4, <2>5 DEF PoolBounded
<1>9. Clean' /\ MovedRetired'
  BY <1>2 DEF IndInv, Clean, MovedRetired, OnMap
<1>10. IndexSound'
  BY <1>4 DEF IndInv, IndexSound
<1> QED
  BY <1>2, <1>3, <1>5, <1>6, <1>7, <1>8, <1>9, <1>10 DEF IndInv

(* A reservation of an evicted session: nobody else can reach it any more. *)
LEMMA RecycleKeeps ==
  ASSUME IndInv, NEW r \in Requests, Recycle(r) PROVE IndInv'
<1>1. /\ stage[r] = "create" /\ stage' = [stage EXCEPT ![r] = "build"]
      /\ want[r] \notin pending /\ want[r] \in SessionIds
      /\ pending' = pending \cup {want[r]}
      /\ UNCHANGED <<want, admitted, onRefusal, active, retired, moved,
                     recency, served>>
  BY DEF Recycle, Go, entryVars, IndInv, TypeOK
<1>2. PICK v \in Victims(want[r]) :
        /\ ref' = [ref EXCEPT ![r] = resident[v]]
        /\ resident' = [resident EXCEPT ![v] = NoEntry]
        /\ index' = Unindexed(resident[v])
  BY DEF Recycle, Hold
<1>3. /\ v \in Resident /\ v \in SessionIds /\ CanEvict(resident[v])
      /\ want[r] \in Resident => v = want[r]
  BY <1>2 DEF Victims, Evictable, Resident
<1> DEFINE e == resident[v]
<1>4. e \in Entries /\ e # NoEntry /\ \A q \in Requests : ref[q] # e
  BY <1>3 DEF Resident, CanEvict, IndInv, TypeOK
<1>5. /\ resident'[v] = NoEntry
      /\ \A i \in SessionIds \ {v} : resident'[i] = resident[i] /\ resident[i] # e
  BY <1>2, <1>3, <1>4 DEF Resident, IndInv, TypeOK, NamesUnique
<1>6. ref'[r] = e /\ \A q \in Requests \ {r} : ref'[q] = ref[q]
  BY <1>2 DEF IndInv, TypeOK
<1>7. /\ CountExact' /\ Creators'
      /\ stage'[r] = "build"
      /\ \A q \in Requests \ {r} : stage'[q] = stage[q]
      /\ stage' \in [Requests -> Stages]
  <2>1. "build" \in Stages \ Leasing
    BY DEF Stages, Creating, Leasing
  <2> QED BY <1>1, <1>6, <2>1, CreatorFrame DEF CreatorStages
<1>8. Resident' = Resident \ {v}
  BY <1>3, <1>5 DEF Resident
<1>9. Reserved' /\ RootsFresh'
  BY <1>1, <1>3, <1>5, ReservationFrame DEF Go
<1>10. index' \in [Requests -> Entries \cup {NoEntry}]
       /\ \A p \in Requests : index'[p] # NoEntry => index'[p] = index[p] /\ index[p] # e
  BY <1>2 DEF Unindexed, IndInv, TypeOK
<1>11. TypeOK'
  <2>1. ref' \in [Requests -> Entries \cup {NoEntry}]
        /\ resident' \in [SessionIds -> Entries \cup {NoEntry}]
    BY <1>2, <1>4 DEF IndInv, TypeOK
  <2> QED BY <1>1, <1>7, <1>10, <2>1 DEF IndInv, TypeOK
<1> HIDE DEF e
<1>12. RefInv'
  <2>1. RefsEmpty' /\ RefsHeld'
    BY <1>6, <1>7 DEF IndInv, RefInv, RefsEmpty, RefsHeld, Holding, Leasing, Empty
  <2>2. RefsShared'
    <3> SUFFICES ASSUME NEW q \in Requests, stage'[q] \notin Private,
                        ref'[q] # NoEntry
                 PROVE  \E i \in SessionIds : resident'[i] = ref'[q]
      BY DEF RefsShared, OnMap
    <3>1. q # r
      BY <1>7 DEF Private
    <3>2. PICK i \in SessionIds : resident[i] = ref[q]
      BY <1>6, <1>7, <3>1 DEF IndInv, RefInv, RefsShared, OnMap
    <3>3. i # v
      BY <1>4, <3>2 DEF e
    <3> QED BY <1>5, <1>6, <3>1, <3>2, <3>3
  <2>3. RefsPrivate'
    <3> SUFFICES ASSUME NEW q \in Requests, stage'[q] \in Private,
                        ref'[q] # NoEntry
                 PROVE  /\ \A i \in SessionIds : resident'[i] # ref'[q]
                        /\ \A p \in Requests \ {q} : ref'[p] # ref'[q]
      BY DEF RefsPrivate, OnMap
    <3>1. CASE q = r
      BY <1>4, <1>5, <1>6, <3>1
    <3>2. CASE q # r
      <4>1. /\ \A i \in SessionIds : resident[i] # ref[q]
            /\ \A p \in Requests \ {q} : ref[p] # ref[q]
        BY <1>6, <1>7, <3>2 DEF IndInv, RefInv, RefsPrivate, OnMap
      <4> QED BY <1>4, <1>5, <1>6, <3>2, <4>1
    <3> QED BY <3>1, <3>2
  <2> QED BY <2>1, <2>2, <2>3 DEF RefInv
<1>13. NamesUnique'
  <2>1. \A i \in Resident' : i \in Resident /\ i \in SessionIds \ {v}
    BY <1>8 DEF Resident
  <2> QED BY <1>5, <2>1 DEF IndInv, NamesUnique
<1>14. PoolBounded'
  <2>1. Cardinality(pending') = Cardinality(pending) + 1
    BY <1>1, PoolFinite, FS_AddElement DEF IndInv
  <2>2. Cardinality(Resident') = Cardinality(Resident) - 1
    BY <1>3, <1>8, PoolFinite, FS_RemoveElement DEF IndInv
  <2>3. MaxSessions \in Nat
    BY PoolAssumption DEF PoolAssumption
  <2>4. Cardinality(Resident') + Cardinality(pending') <= MaxSessions
    BY <2>1, <2>2, <2>3, PoolFinite DEF IndInv, PoolBounded
  <2>5. Resident' \cap pending' = {}
    BY <1>1, <1>3, <1>8 DEF IndInv, PoolBounded
  <2> QED BY <2>4, <2>5 DEF PoolBounded
<1>15. Clean'
  BY <1>1, <1>6, <1>7 DEF IndInv, Clean
<1>16. MovedRetired'
  <2> SUFFICES ASSUME NEW f \in Entries, moved[f],
                      \E i \in SessionIds : resident'[i] = f
               PROVE  retired[f] \/ \E q \in Requests :
                                     stage'[q] = "discarding" /\ ref'[q] = f
    BY <1>1 DEF MovedRetired, OnMap
  <2>1. OnMap(f)
    BY <1>5, Constants DEF OnMap
  <2>2. \A q \in Requests : stage[q] = "discarding" => q # r
    BY <1>1
  <2> QED BY <1>6, <1>7, <2>1, <2>2 DEF IndInv, MovedRetired
<1>17. IndexSound'
  <2> SUFFICES ASSUME NEW p \in Requests, index'[p] # NoEntry
               PROVE  /\ p \in served[index'[p]]
                      /\ ~retired[index'[p]]
                      /\ \E i \in Resident' : resident'[i] = index'[p]
    BY <1>1 DEF IndexSound
  <2>1. index'[p] = index[p] /\ index[p] # e
    BY <1>10 DEF e
  <2>2. /\ p \in served[index[p]] /\ ~retired[index[p]]
        /\ \E i \in Resident : resident[i] = index[p]
    BY <2>1 DEF IndInv, IndexSound
  <2>3. PICK i \in Resident : resident[i] = index[p]
    BY <2>2
  <2>4. i # v
    BY <2>1, <2>3 DEF e
  <2>5. i \in Resident' /\ resident'[i] = index'[p]
    BY <1>5, <1>8, <2>1, <2>3, <2>4 DEF Resident
  <2> QED BY <2>1, <2>2, <2>5
<1> QED
  BY <1>7, <1>9, <1>11, <1>12, <1>13, <1>14, <1>15, <1>16, <1>17 DEF IndInv

(* An entry that only its creator knows can be cleared: no index entry, no *)
(* lease and no name leads to it.                                          *)
LEMMA ClearFrame ==
  ASSUME IndInv,
         NEW r \in Requests, NEW t \in Stages \ Leasing, NEW e \in Entries,
         stage[r] \in {"build", "reclaim"},
         stage[r] = "build" => t = "publish" /\ ref'[r] = e,
         stage[r] = "reclaim" => t = "unwinding" /\ ref'[r] = NoEntry,
         ~OnMap(e), \A q \in Requests \ {r} : ref[q] # e,
         stage' = [stage EXCEPT ![r] = t],
         \A q \in Requests \ {r} : ref'[q] = ref[q],
         ref' \in [Requests -> Entries \cup {NoEntry}],
         recency' \subseteq Entries \X Entries,
         Cleared(e),
         UNCHANGED <<want, admitted, onRefusal, poolVars, active>>
  PROVE  IndInv'
<1> USE DEF poolVars
<1>1. /\ CountExact' /\ Creators'
      /\ stage'[r] = t
      /\ \A q \in Requests \ {r} : stage'[q] = stage[q]
      /\ stage' \in [Requests -> Stages]
  BY CreatorFrame DEF CreatorStages
<1>2. /\ retired' \in [Entries -> BOOLEAN] /\ ~retired'[e]
      /\ moved' \in [Entries -> BOOLEAN] /\ ~moved'[e]
      /\ served' \in [Entries -> SUBSET Requests]
  BY DEF Cleared, IndInv, TypeOK
<1>3. \A f \in Entries \ {e} :
        retired'[f] = retired[f] /\ moved'[f] = moved[f] /\ served'[f] = served[f]
  BY DEF Cleared, IndInv, TypeOK
<1>4. UNCHANGED Resident
  BY DEF Resident
<1>5. TypeOK'
  BY <1>1, <1>2 DEF IndInv, TypeOK
<1>6. e # NoEntry /\ \A i \in SessionIds : resident[i] # e
  BY Constants DEF OnMap
<1>7. RefInv'
  <2>1. RefsEmpty' /\ RefsHeld'
    BY <1>1, <1>6 DEF IndInv, RefInv, RefsEmpty, RefsHeld, Holding, Leasing, Empty
  <2>2. RefsShared'
    BY <1>1 DEF IndInv, RefInv, RefsShared, Private, OnMap
  <2>3. RefsPrivate'
    <3> SUFFICES ASSUME NEW q \in Requests, stage'[q] \in Private,
                        ref'[q] # NoEntry
                 PROVE  /\ \A i \in SessionIds : resident[i] # ref'[q]
                        /\ \A p \in Requests \ {q} : ref'[p] # ref'[q]
      BY DEF RefsPrivate, OnMap
    <3>1. CASE q = r
      BY <1>1, <1>6, <3>1 DEF Private
    <3>2. CASE q # r
      <4>1. /\ \A i \in SessionIds : resident[i] # ref[q]
            /\ \A p \in Requests \ {q} : ref[p] # ref[q]
        BY <1>1, <3>2 DEF IndInv, RefInv, RefsPrivate, OnMap
      <4> QED BY <1>6, <3>2, <4>1
    <3> QED BY <3>1, <3>2
  <2> QED BY <2>1, <2>2, <2>3 DEF RefInv
<1>8. NamesUnique' /\ PoolBounded'
  BY <1>4 DEF IndInv, NamesUnique, PoolBounded
<1>9. Reserved'
  BY <1>1 DEF IndInv, Reserved, Creating
<1>10. RootsFresh'
  BY <1>1 DEF IndInv, RootsFresh, Creating, Leasing
<1>11. Clean'
  <2> SUFFICES ASSUME NEW q \in Requests,
                      stage'[q] \in {"publish", "leased", "running"}
               PROVE  ~retired'[ref'[q]] /\ ~moved'[ref'[q]]
    BY DEF Clean
  <2>1. CASE q = r
    BY <1>1, <1>2, <2>1
  <2>2. CASE q # r
    <3>1. /\ ref[q] \in Entries \ {e}
          /\ ~retired[ref[q]] /\ ~moved[ref[q]]
      BY <1>1, <2>2
      DEF IndInv, TypeOK, Clean, RefInv, RefsHeld, Holding, Leasing
    <3>2. retired'[ref[q]] = retired[ref[q]] /\ moved'[ref[q]] = moved[ref[q]]
      BY <1>3, <3>1
    <3> QED BY <2>2, <3>1, <3>2
  <2> QED BY <2>1, <2>2
<1>12. MovedRetired'
  <2> SUFFICES ASSUME NEW f \in Entries, moved'[f],
                      \E i \in SessionIds : resident[i] = f
               PROVE  retired'[f] \/ \E q \in Requests :
                                      stage'[q] = "discarding" /\ ref'[q] = f
    BY DEF MovedRetired, OnMap
  <2>1. f # e
    BY <1>6
  <2>2. moved[f] /\ retired'[f] = retired[f]
    BY <1>3, <2>1
  <2>3. retired[f] \/ \E q \in Requests : stage[q] = "discarding" /\ ref[q] = f
    BY <2>2 DEF IndInv, MovedRetired, OnMap
  <2>4. \A q \in Requests : stage[q] = "discarding" => q # r
    OBVIOUS
  <2> QED BY <1>1, <2>2, <2>3, <2>4
<1>13. IndexSound'
  <2> SUFFICES ASSUME NEW p \in Requests, index[p] # NoEntry
               PROVE  /\ p \in served'[index[p]]
                      /\ ~retired'[index[p]]
                      /\ \E i \in Resident : resident[i] = index[p]
    BY <1>4 DEF IndexSound
  <2>1. /\ p \in served[index[p]] /\ ~retired[index[p]]
        /\ \E i \in Resident : resident[i] = index[p]
    BY DEF IndInv, IndexSound
  <2>2. index[p] \in Entries \ {e}
    BY <1>6, <2>1 DEF Resident, IndInv, TypeOK
  <2>3. served'[index[p]] = served[index[p]] /\ retired'[index[p]] = retired[index[p]]
    BY <1>3, <2>2
  <2> QED BY <2>1, <2>3
<1> QED
  BY <1>1, <1>5, <1>7, <1>8, <1>9, <1>10, <1>11, <1>12, <1>13 DEF IndInv

(* The slot is built or reset, or the session destroyed, out of all sight. *)
LEMMA BuildKeeps ==
  ASSUME IndInv, NEW r \in Requests, BuildNew(r) \/ BuildReset(r) \/ Reclaim(r)
  PROVE  IndInv'
<1>1. /\ "publish" \in Stages \ Leasing
      /\ "unwinding" \in Stages \ Leasing
  BY DEF Stages, Creating, Leasing
<1>2. recency \subseteq Entries \X Entries
  BY DEF IndInv, TypeOK
<1>3. CASE BuildNew(r)
  <2>1. PICK e \in Entries : Fresh(e) /\ Hold(r, e) /\ Cleared(e)
    BY <1>3 DEF BuildNew
  <2>2. ~OnMap(e) /\ \A q \in Requests : ref[q] # e
    BY <2>1 DEF Fresh, Alive, OnMap
  <2>3. /\ ref'[r] = e /\ \A q \in Requests \ {r} : ref'[q] = ref[q]
        /\ ref' \in [Requests -> Entries \cup {NoEntry}]
    BY <2>1 DEF Hold, IndInv, TypeOK
  <2>4. /\ stage[r] = "build" /\ stage' = [stage EXCEPT ![r] = "publish"]
        /\ UNCHANGED <<want, admitted, onRefusal, poolVars, active, recency>>
    BY <1>3 DEF BuildNew, Go
  <2> QED BY <1>1, <1>2, <2>1, <2>2, <2>3, <2>4, ClearFrame
<1>4. CASE BuildReset(r)
  <2>1. /\ stage[r] = "build" /\ stage' = [stage EXCEPT ![r] = "publish"]
        /\ ref[r] # NoEntry /\ Cleared(ref[r])
        /\ UNCHANGED <<ref, want, admitted, onRefusal, poolVars, active, recency>>
    BY <1>4 DEF BuildReset, Go
  <2>2. /\ ref[r] \in Entries /\ ~OnMap(ref[r])
        /\ \A q \in Requests \ {r} : ref[q] # ref[r]
        /\ ref \in [Requests -> Entries \cup {NoEntry}]
    BY <2>1 DEF IndInv, TypeOK, RefInv, RefsPrivate, Private
  <2> QED BY <1>1, <1>2, <2>1, <2>2, ClearFrame
<1>5. CASE Reclaim(r)
  <2>1. /\ stage[r] = "reclaim" /\ stage' = [stage EXCEPT ![r] = "unwinding"]
        /\ ref' = [ref EXCEPT ![r] = NoEntry] /\ Cleared(ref[r])
        /\ recency' = Without(ref[r])
        /\ UNCHANGED <<want, admitted, onRefusal, poolVars, active>>
    BY <1>5 DEF Reclaim, Go, Hold
  <2>2. /\ ref[r] \in Entries /\ ~OnMap(ref[r])
        /\ \A q \in Requests \ {r} : ref[q] # ref[r]
    BY <2>1 DEF IndInv, TypeOK, RefInv, RefsPrivate, RefsHeld, Private, Holding
  <2>3. /\ ref'[r] = NoEntry /\ \A q \in Requests \ {r} : ref'[q] = ref[q]
        /\ ref' \in [Requests -> Entries \cup {NoEntry}]
    BY <2>1 DEF IndInv, TypeOK
  <2>4. recency' \subseteq Entries \X Entries
    BY <1>2, <2>1 DEF Without
  <2> QED BY <1>1, <2>1, <2>2, <2>3, <2>4, ClearFrame
<1> QED BY <1>3, <1>4, <1>5

(* The reservation becomes a resident session, leased to its creator.      *)
LEMMA PublishKeeps ==
  ASSUME IndInv, NEW r \in Requests, Publish(r) PROVE IndInv'
<1> DEFINE e == ref[r]
           w == want[r]
<1>1. PICK t \in {"leased", "running"} : stage' = [stage EXCEPT ![r] = t]
  BY DEF Publish, Go
<1>2. /\ stage[r] = "publish" /\ w \in pending /\ w \in SessionIds
      /\ w \notin Resident /\ resident[w] = NoEntry
      /\ resident' = [resident EXCEPT ![w] = e]
      /\ pending' = pending \ {w}
      /\ active' = [active EXCEPT ![e] = 1]
      /\ recency' = Touched(e)
      /\ UNCHANGED <<want, admitted, ref, onRefusal, index, retired, moved, served>>
  BY DEF Publish, Go, Unreserve, Resident, IndInv, TypeOK
<1>3. /\ e \in Entries /\ e # NoEntry
      /\ \A i \in SessionIds : resident[i] # e
      /\ \A q \in Requests \ {r} : ref[q] # e
      /\ ~retired[e] /\ ~moved[e]
  BY <1>2, Constants
  DEF IndInv, TypeOK, RefInv, RefsHeld, RefsPrivate, Holding, Private, OnMap,
      Clean
<1>4. w \in Requests => w = r
  BY <1>2, CreatorId
<1>5. /\ stage'[r] = t /\ t \in Leasing
      /\ \A q \in Requests \ {r} : stage'[q] = stage[q]
      /\ stage' \in [Requests -> Stages]
  BY <1>1 DEF IndInv, TypeOK, Stages, Leasing
<1>6. /\ resident'[w] = e /\ resident' \in [SessionIds -> Entries \cup {NoEntry}]
      /\ \A i \in SessionIds \ {w} : resident'[i] = resident[i]
  BY <1>2, <1>3 DEF IndInv, TypeOK
<1>7. /\ active'[e] = 1 /\ active' \in [Entries -> Nat]
      /\ \A f \in Entries \ {e} : active'[f] = active[f]
  BY <1>2, <1>3 DEF IndInv, TypeOK
<1> HIDE DEF e, w
<1>8. Resident' = Resident \cup {w}
  BY <1>2, <1>3, <1>6 DEF Resident
<1>9. TypeOK'
  <2>1. recency' \subseteq Entries \X Entries
    BY <1>2, <1>3 DEF Touched, Without, IndInv, TypeOK
  <2>2. pending' \subseteq SessionIds
    BY <1>2 DEF IndInv, TypeOK
  <2> QED BY <1>2, <1>5, <1>6, <1>7, <2>1, <2>2 DEF IndInv, TypeOK
<1>10. RefInv'
  <2>1. RefsEmpty' /\ RefsHeld'
    BY <1>2, <1>3, <1>5
    DEF e, IndInv, RefInv, RefsEmpty, RefsHeld, Holding, Leasing, Empty
  <2>2. RefsShared'
    <3> SUFFICES ASSUME NEW q \in Requests, stage'[q] \notin Private,
                        ref[q] # NoEntry
                 PROVE  \E i \in SessionIds : resident'[i] = ref[q]
      BY <1>2 DEF RefsShared, OnMap
    <3>1. CASE q = r
      BY <1>2, <1>6, <3>1 DEF e
    <3>2. CASE q # r
      <4>1. PICK i \in SessionIds : resident[i] = ref[q]
        BY <1>5, <3>2 DEF IndInv, RefInv, RefsShared, OnMap
      <4> QED BY <1>2, <1>6, <4>1
    <3> QED BY <3>1, <3>2
  <2>3. RefsPrivate'
    <3> SUFFICES ASSUME NEW q \in Requests, stage'[q] \in Private,
                        ref[q] # NoEntry
                 PROVE  /\ \A i \in SessionIds : resident'[i] # ref[q]
                        /\ \A p \in Requests \ {q} : ref[p] # ref[q]
      BY <1>2 DEF RefsPrivate, OnMap
    <3>1. q # r
      BY <1>5 DEF Private, Leasing
    <3>2. /\ \A i \in SessionIds : resident[i] # ref[q]
          /\ \A p \in Requests \ {q} : ref[p] # ref[q]
      BY <1>5, <3>1 DEF IndInv, RefInv, RefsPrivate, OnMap
    <3> QED BY <1>3, <1>6, <3>1, <3>2
  <2> QED BY <2>1, <2>2, <2>3 DEF RefInv
<1>11. NamesUnique'
  <2>1. \A i \in Resident : i \in SessionIds
    BY DEF Resident
  <2> QED BY <1>2, <1>3, <1>6, <1>8, <2>1 DEF IndInv, NamesUnique
<1>12. CountExact'
  <2>1. \A f \in Entries : active'[f] \in {0, 1}
    BY <1>7 DEF IndInv, CountExact
  <2>2. \A q \in Requests \ {r} : stage'[q] \in Leasing =>
          /\ stage[q] \in Leasing
          /\ ref[q] \in Entries /\ active[ref[q]] = 1 /\ ref[q] # e
    BY <1>3, <1>5, Leased
  <2>3. \A q \in Requests : stage'[q] \in Leasing => active'[ref[q]] = 1
    BY <1>7, <2>2 DEF e
  <2>4. \A p, q \in Requests :
          stage'[p] \in Leasing /\ stage'[q] \in Leasing /\ ref[p] = ref[q]
            => p = q
    BY <2>2 DEF e, IndInv, CountExact
  <2>5. \A f \in Entries :
          active'[f] = 1 =>
            \E q \in Requests : stage'[q] \in Leasing /\ ref[q] = f
    <3> SUFFICES ASSUME NEW f \in Entries, active'[f] = 1
                 PROVE  \E q \in Requests : stage'[q] \in Leasing /\ ref[q] = f
      OBVIOUS
    <3>1. CASE f = e
      BY <1>5, <3>1 DEF e
    <3>2. CASE f # e
      <4>1. PICK q \in Requests : stage[q] \in Leasing /\ ref[q] = f
        BY <1>7, <3>2 DEF IndInv, CountExact
      <4>2. q # r
        BY <1>2, <4>1 DEF Leasing
      <4> QED BY <1>5, <4>1, <4>2
    <3> QED BY <3>1, <3>2
  <2> QED BY <1>2, <2>1, <2>3, <2>4, <2>5 DEF CountExact
<1>13. Reserved'
  <2>1. \A q \in Requests : stage'[q] \in Creating =>
          q # r /\ stage[q] \in Creating
    BY <1>5 DEF Creating, Leasing
  <2>2. \A q \in Requests : stage'[q] \in Creating => want[q] # w
    BY <1>2, <2>1 DEF w, IndInv, Reserved, Creating
  <2> QED BY <1>2, <2>1, <2>2 DEF IndInv, Reserved
<1>14. Creators'
  BY <1>2, <1>5 DEF IndInv, Creators, IsNext, IsChat, IsRoot, Leasing
<1>15. RootsFresh'
  <2> SUFFICES ASSUME NEW p \in Requests
               PROVE  /\ p \in pending' => want[p] = p /\ stage'[p] \in Creating
                      /\ resident'[p] # NoEntry =>
                           /\ want[p] = p
                           /\ stage'[p] \in Leasing \cup {"unwinding"}
    BY <1>2 DEF RootsFresh
  <2>1. CASE p = w
    BY <1>2, <1>4, <1>5, <2>1 DEF w
  <2>2. CASE p # w
    <3>1. p \in pending' => want[p] = p /\ stage'[p] \in Creating
      <4>1. p \in pending' => p \in pending /\ want[p] = p /\ stage[p] \in Creating
        BY <1>2 DEF IndInv, RootsFresh
      <4>2. p \in pending' => p # r
        BY <2>2, <4>1 DEF w
      <4> QED BY <1>5, <4>1, <4>2
    <3>2. resident'[p] = resident[p]
      BY <1>6, <2>2, Constants
    <3>3. resident'[p] # NoEntry =>
            want[p] = p /\ stage[p] \in Leasing \cup {"unwinding"}
      BY <3>2 DEF IndInv, RootsFresh
    <3> QED BY <1>5, <3>1, <3>3
  <2> QED BY <2>1, <2>2
<1>16. PoolBounded'
  <2>1. Cardinality(pending') = Cardinality(pending) - 1
    BY <1>2, PoolFinite, FS_RemoveElement DEF IndInv
  <2>2. Cardinality(Resident') = Cardinality(Resident) + 1
    BY <1>2, <1>8, PoolFinite, FS_AddElement DEF IndInv
  <2>3. MaxSessions \in Nat
    BY PoolAssumption DEF PoolAssumption
  <2>4. Cardinality(Resident') + Cardinality(pending') <= MaxSessions
    BY <2>1, <2>2, <2>3, PoolFinite DEF IndInv, PoolBounded
  <2>5. Resident' \cap pending' = {}
    BY <1>2, <1>8 DEF IndInv, PoolBounded
  <2> QED BY <2>4, <2>5 DEF PoolBounded
<1>17. Clean'
  <2>1. ~retired[ref[r]] /\ ~moved[ref[r]]
    BY <1>3 DEF e
  <2> QED BY <1>2, <1>5, <2>1 DEF IndInv, Clean
<1>18. MovedRetired'
  <2> SUFFICES ASSUME NEW f \in Entries, moved[f],
                      \E i \in SessionIds : resident'[i] = f
               PROVE  retired[f] \/ \E q \in Requests :
                                     stage'[q] = "discarding" /\ ref[q] = f
    BY <1>2 DEF MovedRetired, OnMap
  <2>1. f # e
    BY <1>3
  <2>2. OnMap(f)
    BY <1>6, <2>1 DEF OnMap
  <2>3. \A q \in Requests : stage[q] = "discarding" => q # r
    BY <1>2
  <2> QED BY <1>5, <2>2, <2>3 DEF IndInv, MovedRetired
<1>19. IndexSound'
  <2> SUFFICES ASSUME NEW p \in Requests, index[p] # NoEntry
               PROVE  /\ p \in served[index[p]]
                      /\ ~retired[index[p]]
                      /\ \E i \in Resident' : resident'[i] = index[p]
    BY <1>2 DEF IndexSound
  <2>1. PICK i \in Resident : resident[i] = index[p]
    BY DEF IndInv, IndexSound
  <2>2. i \in Resident' /\ resident'[i] = index[p]
    BY <1>2, <1>6, <1>8, <2>1 DEF Resident
  <2> QED BY <2>2 DEF IndInv, IndexSound
<1> QED
  BY <1>9, <1>10, <1>11, <1>12, <1>13, <1>14, <1>15, <1>16, <1>17, <1>18, <1>19
  DEF IndInv

-----------------------------------------------------------------------------
(* Putting the steps together.                                             *)

(* Admissions play no part: what only touches them keeps the invariant.    *)
LEMMA AdmissionAside ==
  ASSUME IndInv, admitted' \subseteq Requests,
         UNCHANGED <<stage, want, ref, onRefusal, poolVars, entryVars>>
  PROVE  IndInv'
<1> USE DEF poolVars, entryVars
<1>1. UNCHANGED Resident
  BY DEF Resident
<1>2. TypeOK'
  BY DEF IndInv, TypeOK
<1>3. RefInv'
  BY DEF IndInv, RefInv, RefsEmpty, RefsHeld, RefsShared, RefsPrivate, OnMap
<1>4. NamesUnique' /\ PoolBounded' /\ IndexSound'
  BY <1>1 DEF IndInv, NamesUnique, PoolBounded, IndexSound
<1>5. CountExact' /\ Reserved' /\ RootsFresh'
  BY DEF IndInv, CountExact, Reserved, RootsFresh
<1>6. Creators' /\ Clean' /\ MovedRetired'
  BY DEF IndInv, Creators, IsNext, IsChat, IsRoot, Clean, MovedRetired, OnMap
<1> QED BY <1>2, <1>3, <1>4, <1>5, <1>6 DEF IndInv

(* Every step keeps the invariant.                                         *)
LEMMA IndInvStep == IndInv /\ [Next]_vars => IndInv'
<1> SUFFICES ASSUME IndInv, [Next]_vars PROVE IndInv' OBVIOUS
<1>1. CASE UNCHANGED vars
  BY <1>1, AdmissionAside DEF vars, handlerVars, IndInv, TypeOK
<1>2. CASE Next
  <2> PICK r \in Requests : Admit(r) \/ Abort(r) \/ Handle(r)
    BY <1>2 DEF Next
  <2>1. CASE LookStep(r)
    BY <2>1, LookKeeps
  <2>2. CASE Lease(r) \/ WaitForIdle(r)
    BY <2>2, LeaseKeeps, WaitForIdleKeeps
  <2>3. CASE Create(r) /\ ~LookStep(r)
    BY <2>3, ReserveKeeps, RecycleKeeps, BuildKeeps, BuildFailsKeeps, PublishKeeps
    DEF Create, LookStep
  <2>4. CASE Use(r)
    BY <2>4, IndexResponseKeeps, CompleteKeeps, FailKeeps, RestartFailsKeeps,
       DiscardKeeps, ReleaseKeeps DEF Use
  <2>5. CASE ReturnAdmission(r)
    BY <2>5, AdmissionAside DEF ReturnAdmission, IndInv, TypeOK
  <2> QED
    BY <2>1, <2>2, <2>3, <2>4, <2>5 DEF Handle, Acquire, Unwind, LookStep
<1> QED BY <1>1, <1>2

(* So the invariant holds in every reachable state.                        *)
LEMMA IndInvAlways == Spec => []IndInv
BY InitIndInv, IndInvStep, PTL DEF Spec

(* The state of the pool, its entries and its handlers keeps its types; in *)
(* particular active_requests never falls below zero.                      *)
THEOREM TypeCorrect == Spec => []TypeOK
<1>1. IndInv => TypeOK
  BY DEF IndInv
<1> QED BY <1>1, IndInvAlways, PTL

(* Sessions and reservations together never exceed max_sessions, for any   *)
(* number of requests (CreateSession's reservation under pool_mutex).      *)
THEOREM PoolAlwaysBounded == Spec => []PoolBounded
<1>1. IndInv => PoolBounded
  BY DEF IndInv
<1> QED BY <1>1, IndInvAlways, PTL

(* The check before publication, "session reservation was lost", never     *)
(* fails, and no two handlers build a session for the same id.             *)
THEOREM ReservationAlwaysKept == Spec => []ReservationKept
<1>1. IndInv => ReservationKept
  BY DEF IndInv, ReservationKept, Reserved, PoolBounded
<1> QED BY <1>1, IndInvAlways, PTL

(* A session has at most one user at a time, active_requests counts it     *)
(* exactly, and a session in use is never evicted.                         *)
THEOREM LeaseAlwaysExclusive == Spec => []LeaseExclusive
<1>1. ASSUME IndInv PROVE LeaseExclusive
  <2> SUFFICES ASSUME NEW e \in Entries
               PROVE  /\ active[e] = Cardinality(Holders(e))
                      /\ active[e] <= 1
                      /\ active[e] = 1 => \E i \in Resident : resident[i] = e
    BY DEF LeaseExclusive
  <2>1. CASE active[e] = 0
    <3>1. Holders(e) = {}
      BY <1>1, <2>1 DEF Holders, IndInv, CountExact
    <3> QED BY <2>1, <3>1, FS_EmptySet
  <2>2. CASE active[e] = 1
    <3>1. PICK r \in Requests : stage[r] \in Leasing /\ ref[r] = e
      BY <1>1, <2>2 DEF IndInv, CountExact
    <3>2. Holders(e) = {r}
      BY <1>1, <3>1 DEF Holders, IndInv, CountExact
    <3>3. \E i \in Resident : resident[i] = e
      BY <1>1, <3>1, Leased
    <3>4. Cardinality(Holders(e)) = 1
      BY <3>2, FS_Singleton
    <3> QED BY <2>2, <3>3, <3>4
  <2> QED BY <1>1, <2>1, <2>2 DEF IndInv, CountExact
<1> QED BY <1>1, IndInvAlways, PTL

(* No request is ever served by a session that was discarded or that lost  *)
(* its slot, although AcquireResponseSession does not look at `retired`.   *)
THEOREM DiscardedNeverServes == Spec => []NeverServesDiscarded
<1>1. IndInv => NeverServesDiscarded
  BY DEF IndInv, Clean, NeverServesDiscarded
<1> QED BY <1>1, IndInvAlways, PTL

(* response_index leads to the live session that holds the response.       *)
THEOREM IndexAlwaysSound == Spec => []IndexSound
<1>1. IndInv => IndexSound
  BY DEF IndInv
<1> QED BY <1>1, IndInvAlways, PTL

-----------------------------------------------------------------------------
(* The slots of the device.  Without device faults only a session that has *)
(* lost its slot is destroyed after a failed reset.                        *)
ReclaimsMoved == \A r \in Requests : stage[r] = "reclaim" => moved[ref[r]]

(* A session that waits for its destructor stays without a slot: nobody    *)
(* else refers to it, so nobody resets it.                                 *)
LEMMA ReclaimsMovedStep ==
  ASSUME DeviceFaults = FALSE, IndInv, ReclaimsMoved, [Next]_vars
  PROVE  ReclaimsMoved'
<1> SUFFICES ASSUME NEW q \in Requests, stage'[q] = "reclaim"
             PROVE  moved'[ref'[q]]
  BY DEF ReclaimsMoved
<1>1. CASE UNCHANGED vars
  BY <1>1 DEF vars, handlerVars, entryVars, ReclaimsMoved
<1>2. CASE Next
  <2> PICK r \in Requests : Admit(r) \/ Abort(r) \/ Handle(r)
    BY <1>2 DEF Next
  <2> USE DEF IndInv, TypeOK
  <2>1. CASE q = r
    <3>1. ResetFails(r)
      BY <2>1 DEF Admit, Abort, Handle, Acquire, Create, Use, Unwind, Go, Lease,
         WaitForIdle, SeeIdle, NotFound, FindRetired, SeeRetirable,
         WaitForPending, SeeCreated, StartCreate, SeeRoom, Reserve, Recycle,
         Refused, BuildNew, BuildReset, BuildFails, Reclaim, Publish,
         IndexResponse, Complete, Fail, RestartFails, DiscardSession,
         StampRelease, ReleaseSession, ReturnAdmission, DropEntry, Stages
    <3> QED BY <2>1, <3>1 DEF ResetFails, entryVars
  <2>2. CASE q # r
    <3>1. stage[q] = "reclaim" /\ ref'[q] = ref[q]
      BY <2>2 DEF Admit, Abort, Handle, Acquire, Create, Use, Unwind, Go, Hold,
         Lease, WaitForIdle, SeeIdle, NotFound, FindRetired, SeeRetirable,
         WaitForPending, SeeCreated, StartCreate, SeeRoom, Reserve, Recycle,
         Refused, BuildNew, BuildReset, BuildFails, ResetFails, Reclaim,
         Publish, IndexResponse, Complete, Fail, RestartFails, DiscardSession,
         StampRelease, ReleaseSession, ReturnAdmission, DropEntry
    <3>2. moved[ref[q]] /\ ref[q] \in Entries
      BY <3>1 DEF ReclaimsMoved, RefInv, RefsHeld, Holding
    <3>3. CASE UNCHANGED moved
      BY <3>1, <3>2, <3>3
    <3>4. CASE RestartFails(r)
      BY <3>1, <3>2, <3>4 DEF RestartFails
    <3>5. CASE BuildReset(r) \/ Reclaim(r)
      <4>1. stage[r] \in {"build", "reclaim"} /\ ref[q] # ref[r]
        BY <2>2, <3>1, <3>2, <3>5, Constants
        DEF BuildReset, Reclaim, Go, RefInv, RefsPrivate, Private
      <4> QED BY <3>1, <3>2, <3>5, <4>1 DEF BuildReset, Reclaim, Cleared
    <3>6. CASE BuildNew(r)
      <4>1. PICK e \in Entries : Fresh(e) /\ Cleared(e)
        BY <3>6 DEF BuildNew
      <4>2. ref[q] # e
        BY <4>1 DEF Fresh, Alive
      <4> QED BY <3>1, <3>2, <4>1, <4>2 DEF Cleared
    <3> QED
      BY <3>3, <3>4, <3>5, <3>6 DEF Admit, Abort, Handle, Acquire, Create, Use,
         Unwind, entryVars, Lease, WaitForIdle, SeeIdle, NotFound, FindRetired,
         SeeRetirable, WaitForPending, SeeCreated, StartCreate, SeeRoom,
         Reserve, Recycle, Refused, BuildFails, ResetFails, Publish,
         IndexResponse, Complete, Fail, DiscardSession, StampRelease,
         ReleaseSession, ReturnAdmission, DropEntry
  <2> QED BY <2>1, <2>2
<1> QED BY <1>1, <1>2

(* The sessions with a slot that the pool accounts for: each is on the map *)
(* or is built under a reservation.                                        *)
Named(e, i) ==
  \/ i \in Resident /\ resident[i] = e
  \/ \E r \in Requests : stage[r] \in Creating /\ want[r] = i /\ ref[r] = e
Placed == {e \in SlotHolders : \E i \in Resident \cup pending : Named(e, i)}

(* The others wait for the destructor of `recycled`. *)
Reclaiming == {r \in Requests : stage[r] = "reclaim"}

LEMMA SlotsPlaced ==
  ASSUME IndInv, NEW e \in SlotHolders \ Placed
  PROVE  \E r \in Reclaiming : ref[r] = e
<1>1. e \in Entries /\ e # NoEntry /\ Alive(e)
  BY Constants DEF SlotHolders
<1>2. ~\E i \in SessionIds : resident[i] = e
  BY <1>1 DEF Placed, Named, Resident
<1>3. PICK r \in Requests : ref[r] = e
  BY <1>1, <1>2 DEF Alive
<1>4. stage[r] \in Private
  BY <1>1, <1>2, <1>3 DEF IndInv, RefInv, RefsShared, OnMap
<1>5. stage[r] \notin Creating
  BY <1>3 DEF Placed, Named, IndInv, Reserved
<1> QED BY <1>3, <1>4, <1>5 DEF Private, Creating, Reclaiming

(* Map and reservations together are names for the slots accounted for.    *)
LEMMA PlacedCounted ==
  ASSUME IndInv
  PROVE  /\ IsFiniteSet(Placed)
         /\ Cardinality(Placed) \in Nat /\ Cardinality(Placed) <= MaxSessions
<1>1. \A e, f \in Placed, i \in Resident \cup pending :
        Named(e, i) /\ Named(f, i) => e = f
  BY DEF IndInv, Reserved, PoolBounded, Named
<1> DEFINE id == [e \in Placed |-> CHOOSE i \in Resident \cup pending : Named(e, i)]
<1>2. \A e \in Placed : id[e] \in Resident \cup pending /\ Named(e, id[e])
  BY DEF Placed
<1>3. id \in Injection(Placed, Resident \cup pending)
  <2>1. id \in [Placed -> Resident \cup pending]
    BY <1>2
  <2>2. \A e, f \in Placed : id[e] = id[f] => e = f
    BY <1>1, <1>2
  <2> QED BY <2>1, <2>2 DEF Injection, IsInjective
<1> HIDE DEF id
<1>4. /\ IsFiniteSet(Resident \cup pending)
      /\ Cardinality(Resident \cup pending)
           = Cardinality(Resident) + Cardinality(pending)
  <2>1. Resident \cap pending = {}
    BY DEF IndInv, PoolBounded
  <2>2. /\ IsFiniteSet(Resident) /\ Cardinality(Resident) \in Nat
        /\ IsFiniteSet(pending) /\ Cardinality(pending) \in Nat
    BY PoolFinite DEF IndInv
  <2>3. /\ IsFiniteSet(Resident \cup pending)
        /\ Cardinality(Resident \cup pending)
             = Cardinality(Resident) + Cardinality(pending)
               - Cardinality(Resident \cap pending)
    BY <2>2, FS_Union
  <2>4. Cardinality(Resident \cap pending) = 0
    BY <2>1, FS_EmptySet
  <2> QED BY <2>2, <2>3, <2>4
<1>5. /\ IsFiniteSet(Placed)
      /\ Cardinality(Placed) <= Cardinality(Resident \cup pending)
  BY <1>3, <1>4, FS_Injection
<1> QED
  BY <1>4, <1>5, PoolFinite, FS_CardinalityType, PoolAssumption
  DEF IndInv, PoolBounded, PoolAssumption

(* A handler reclaims at most one session.                                 *)
LEMMA ReclaimsCounted ==
  ASSUME IndInv
  PROVE  /\ IsFiniteSet(SlotHolders \ Placed) /\ IsFiniteSet(Reclaiming)
         /\ Cardinality(SlotHolders \ Placed) <= Cardinality(Reclaiming)
<1> DEFINE by == [e \in SlotHolders \ Placed |-> CHOOSE r \in Reclaiming : ref[r] = e]
<1>1. \A e \in SlotHolders \ Placed : by[e] \in Reclaiming /\ ref[by[e]] = e
  BY SlotsPlaced
<1>2. by \in Injection(SlotHolders \ Placed, Reclaiming)
  <2>1. by \in [SlotHolders \ Placed -> Reclaiming]
    BY <1>1
  <2>2. \A e, f \in SlotHolders \ Placed : by[e] = by[f] => e = f
    BY <1>1
  <2> QED BY <2>1, <2>2 DEF Injection, IsInjective
<1> HIDE DEF by
<1>3. IsFiniteSet(Reclaiming)
  <2>1. Reclaiming \subseteq Requests
    BY DEF Reclaiming
  <2> QED BY <2>1, FS_Subset, PoolAssumption DEF PoolAssumption
<1> QED BY <1>2, <1>3, FS_Injection

(* So without device faults map and reservations count all the slots.      *)
LEMMA SlotsCounted ==
  ASSUME IndInv, DeviceFaults = FALSE, ReclaimsMoved
  PROVE  SlotBound
<1>1. SlotHolders \subseteq Placed
  BY SlotsPlaced DEF ReclaimsMoved, Reclaiming, SlotHolders
<1>2. SlotHolders = Placed
  BY <1>1 DEF Placed
<1> QED BY <1>2, PlacedCounted DEF SlotBound

(* As long as the device does not fail, it never holds more session slots  *)
(* than max_sessions: a replaced session's slot is reused, or was lost     *)
(* already, before the next one is built (CreateSession).                  *)
THEOREM SlotsAlwaysBounded == ASSUME DeviceFaults = FALSE PROVE Spec => []SlotBound
<1>1. Init => ReclaimsMoved
  BY DEF Init, ReclaimsMoved
<1>2. IndInv /\ ReclaimsMoved /\ [Next]_vars => ReclaimsMoved'
  BY ReclaimsMovedStep
<1>3. IndInv /\ ReclaimsMoved => SlotBound
  BY SlotsCounted
<1> QED BY <1>1, <1>2, <1>3, IndInvAlways, PTL DEF Spec

(* With or without device faults, the slots in excess of max_sessions are  *)
(* those of sessions whose reset failed and whose destructor is still to   *)
(* run, one at most for each handler there (CreateSession destroys         *)
(* `recycled` only after it has dropped the reservation).                  *)
SlotsAccounted ==
  Cardinality(SlotHolders) <= MaxSessions + Cardinality(Reclaiming)

THEOREM SlotsAlwaysAccounted == Spec => []SlotsAccounted
<1>1. ASSUME IndInv PROVE SlotsAccounted
  <2> DEFINE rest == SlotHolders \ Placed
  <2>1. /\ IsFiniteSet(Placed) /\ Cardinality(Placed) \in Nat
        /\ Cardinality(Placed) <= MaxSessions
    BY <1>1, PlacedCounted
  <2>2. /\ IsFiniteSet(rest) /\ Cardinality(rest) \in Nat
        /\ Cardinality(Reclaiming) \in Nat
        /\ Cardinality(rest) <= Cardinality(Reclaiming)
    BY <1>1, ReclaimsCounted, FS_CardinalityType
  <2>3. SlotHolders = Placed \cup rest /\ Placed \cap rest = {}
    BY DEF Placed
  <2> HIDE DEF rest
  <2>4. Cardinality(SlotHolders) = Cardinality(Placed) + Cardinality(rest)
    <3>1. Cardinality(Placed \cup rest)
            = Cardinality(Placed) + Cardinality(rest) - Cardinality(Placed \cap rest)
      BY <2>1, <2>2, FS_Union
    <3>2. Cardinality(Placed \cap rest) = 0
      BY <2>3, FS_EmptySet
    <3> QED BY <2>1, <2>2, <2>3, <3>1, <3>2
  <2> QED BY <2>1, <2>2, <2>4, PoolAssumption DEF SlotsAccounted, PoolAssumption
<1> QED BY <1>1, IndInvAlways, PTL

-----------------------------------------------------------------------------
(* Nobody is stuck.  A finite set of numbers has a least one: a smallest   *)
(* set without one would have one after all.                               *)
HasLeast(S) == \E m \in S : \A n \in S : m <= n

LEMMA FiniteHasLeast ==
  ASSUME NEW S \in SUBSET Nat, IsFiniteSet(S), S # {}
  PROVE  HasLeast(S)
<1> SUFFICES ASSUME ~HasLeast(S) PROVE FALSE
  OBVIOUS
<1> DEFINE Lacking == {U \in SUBSET S : U # {} /\ ~HasLeast(U)}
<1>1. IsWellFoundedOn(StrictSubsetOrdering(S), SUBSET S)
  BY FS_StrictSubsetOrderingWellFounded, FS_FiniteSubsetsOfFinite
<1>2. Lacking \subseteq SUBSET S /\ Lacking # {}
  OBVIOUS
<1>3. PICK U \in Lacking : \A V \in Lacking : <<V, U>> \notin StrictSubsetOrdering(S)
  <2> HIDE DEF Lacking
  <2> QED BY <1>1, <1>2, WFMin
<1>4. PICK x \in U : TRUE
  BY <1>3
<1>5. CASE U \ {x} = {}
  BY <1>3, <1>4, <1>5 DEF HasLeast
<1>6. CASE U \ {x} # {}
  <2>1. <<U \ {x}, U>> \in StrictSubsetOrdering(S)
    BY <1>3, <1>4 DEF StrictSubsetOrdering
  <2>2. HasLeast(U \ {x})
    BY <1>3, <1>6, <2>1
  <2>3. PICK m \in U \ {x} : \A n \in U \ {x} : m <= n
    BY <2>2 DEF HasLeast
  <2>4. \A n \in U : n \in Nat
    BY <1>3
  <2>5. CASE x <= m
    BY <1>3, <1>4, <2>3, <2>4, <2>5 DEF HasLeast
  <2>6. CASE ~(x <= m)
    BY <1>3, <1>4, <2>3, <2>4, <2>6 DEF HasLeast
  <2> QED BY <2>5, <2>6
<1> QED BY <1>5, <1>6

(* The entries in use, and the requests that may have built one: a request *)
(* builds once.                                                            *)
InUse == {e \in Entries : Alive(e)}
Past == {"publish", "unwinding"} \cup Leasing
Builders == {r \in Requests : stage[r] \in Past}

(* There are never more entries than requests past building one, and so    *)
(* the numbers 1 .. Cardinality(Requests) always suffice to name them.     *)
EntriesSuffice == Cardinality(InUse) <= Cardinality(Builders)

LEMMA EntriesFinite ==
  /\ IsFiniteSet(InUse) /\ Cardinality(InUse) \in Nat
  /\ IsFiniteSet(Builders) /\ Cardinality(Builders) \in Nat
  /\ IsFiniteSet(Entries) /\ Cardinality(Entries) = Cardinality(Requests)
  /\ Cardinality(Requests) \in Nat
<1>1. IsFiniteSet(Requests) /\ Cardinality(Requests) \in Nat
  BY PoolAssumption, FS_CardinalityType DEF PoolAssumption
<1>2. IsFiniteSet(Entries) /\ Cardinality(Entries) = Cardinality(Requests)
  <2> DEFINE n == Cardinality(Requests)
  <2>1. n \in Nat /\ 1 \in Int
    BY <1>1
  <2> HIDE DEF n
  <2>2. IsFiniteSet(1 .. n) /\ Cardinality(1 .. n) = n
    BY <2>1, FS_Interval
  <2> QED BY <2>2 DEF n, Entries
<1>3. InUse \subseteq Entries /\ Builders \subseteq Requests
  BY DEF InUse, Builders
<1> QED BY <1>1, <1>2, <1>3, FS_Subset, FS_CardinalityType

(* Only a build takes a number that was free.                              *)
LEMMA OldEntries ==
  ASSUME IndInv, NEW r \in Requests, Admit(r) \/ Abort(r) \/ Handle(r), ~BuildNew(r)
  PROVE  InUse' \subseteq InUse
<1> SUFFICES ASSUME NEW e \in Entries, Alive(e)' PROVE Alive(e)
  BY DEF InUse
<1> USE DEF Alive
<1>1. CASE Lease(r) \/ WaitForIdle(r)
  <2>1. /\ resident' = resident /\ Usable(r)
        /\ ref' = [ref EXCEPT ![r] = Target(r)]
    BY <1>1 DEF Lease, WaitForIdle, Hold, poolVars
  <2>2. \E i \in SessionIds : resident[i] = Target(r)
    <3>1. CASE IsNext(r)
      <4>1. want[r] \in Requests
        BY <3>1 DEF IsNext, IsChat, IndInv, TypeOK, SessionIds
      <4> QED BY <2>1, <3>1, <4>1 DEF Usable, Target, IndInv, IndexSound, Resident
    <3>2. CASE ~IsNext(r)
      BY <3>2 DEF Target, IndInv, TypeOK
    <3> QED BY <3>1, <3>2
  <2> QED BY <2>1, <2>2 DEF IndInv, TypeOK
<1>2. CASE Recycle(r)
  <2>1. PICK v \in SessionIds : /\ ref' = [ref EXCEPT ![r] = resident[v]]
                                /\ resident' = [resident EXCEPT ![v] = NoEntry]
    BY <1>2 DEF Recycle, Hold, Victims, Evictable, Resident
  <2> QED BY <2>1, Constants DEF IndInv, TypeOK
<1>3. CASE Publish(r)
  <2>1. ref' = ref /\ resident' = [resident EXCEPT ![want[r]] = ref[r]]
    BY <1>3 DEF Publish
  <2> QED BY <2>1 DEF IndInv, TypeOK
<1>4. CASE ~Lease(r) /\ ~WaitForIdle(r) /\ ~Recycle(r) /\ ~Publish(r)
  <2>1. resident' = resident /\ (ref' = ref \/ ref' = [ref EXCEPT ![r] = NoEntry])
    BY <1>4 DEF Admit, Abort, Handle, Acquire, Create, Use, Unwind, Hold, poolVars, SeeIdle,
       NotFound, FindRetired, SeeRetirable, WaitForPending, SeeCreated, StartCreate, SeeRoom,
       Reserve, Refused, BuildReset, BuildFails, ResetFails, Reclaim, IndexResponse, Complete,
       Fail, RestartFails, DiscardSession, StampRelease, ReleaseSession, ReturnAdmission,
       DropEntry
  <2> QED BY <2>1, Constants DEF IndInv, TypeOK
<1> QED BY <1>1, <1>2, <1>3, <1>4

(* Nobody goes back to before the build.                                   *)
LEMMA BuildersStay ==
  ASSUME IndInv, NEW r \in Requests, Admit(r) \/ Abort(r) \/ Handle(r)
  PROVE  Builders \subseteq Builders'
<1> SUFFICES ASSUME NEW q \in Requests, stage[q] \in Past PROVE stage'[q] \in Past
  BY DEF Builders
<1> USE DEF IndInv, TypeOK, Past, Leasing, Go
<1>1. CASE Acquire(r)
  BY <1>1 DEF Acquire, Lease, WaitForIdle, SeeIdle, NotFound, FindRetired, SeeRetirable,
     WaitForPending, SeeCreated, StartCreate, SeeRoom
<1>2. CASE Create(r)
  BY <1>2 DEF Create, Reserve, Recycle, Refused, BuildNew, BuildReset, BuildFails, ResetFails,
     Reclaim, Publish
<1>3. CASE Use(r)
  BY <1>3 DEF Use, IndexResponse, Complete, Fail, RestartFails, DiscardSession, StampRelease,
     ReleaseSession
<1>4. CASE Unwind(r) \/ Admit(r) \/ Abort(r)
  BY <1>4 DEF Unwind, ReturnAdmission, DropEntry, Admit, Abort, Waiting
<1> QED BY <1>1, <1>2, <1>3, <1>4 DEF Handle

LEMMA EntriesStep ==
  ASSUME IndInv, EntriesSuffice, [Next]_vars PROVE EntriesSuffice'
<1>1. CASE UNCHANGED vars
  BY <1>1 DEF vars, handlerVars, poolVars, EntriesSuffice, InUse, Alive, Builders
<1>2. ASSUME NEW r \in Requests, Admit(r) \/ Abort(r) \/ Handle(r)
      PROVE  EntriesSuffice'
  <2> DEFINE before == Builders
             after == Builders'
             used == InUse
             using == InUse'
  <2>1. before \subseteq after
    BY <1>2, BuildersStay
  <2>2. /\ IsFiniteSet(used) /\ IsFiniteSet(before) /\ IsFiniteSet(after)
        /\ Cardinality(used) \in Nat /\ Cardinality(before) \in Nat
        /\ Cardinality(after) \in Nat /\ Cardinality(using) \in Nat
        /\ Cardinality(used) <= Cardinality(before)
    <3>1. after \subseteq Requests /\ using \subseteq Entries
      BY DEF Builders, InUse
    <3>2. IsFiniteSet(after) /\ IsFiniteSet(using)
      BY <3>1, EntriesFinite, FS_Subset, PoolAssumption DEF PoolAssumption
    <3> QED BY <3>2, EntriesFinite, FS_CardinalityType DEF EntriesSuffice
  <2>3. CASE BuildNew(r)
    <3>1. PICK e \in Entries : ref' = [ref EXCEPT ![r] = e]
      BY <2>3 DEF BuildNew, Hold
    <3>2. using \subseteq used \cup {e}
      BY <2>3, <3>1 DEF InUse, Alive, BuildNew, poolVars, IndInv, TypeOK
    <3>3. r \notin before /\ before \cup {r} \subseteq after
      BY <2>1, <2>3 DEF BuildNew, Go, Builders, Past, Leasing, IndInv, TypeOK
    <3> HIDE DEF before, after, used, using
    <3>4. Cardinality(used \cup {e}) <= Cardinality(used) + 1 /\ IsFiniteSet(used \cup {e})
          /\ Cardinality(used \cup {e}) \in Nat
      <4>1. /\ IsFiniteSet(used \cup {e})
            /\ Cardinality(used \cup {e}) = IF e \in used THEN Cardinality(used)
                                            ELSE Cardinality(used) + 1
        BY <2>2, FS_AddElement
      <4> QED BY <2>2, <4>1
    <3>5. Cardinality(using) <= Cardinality(used \cup {e})
      BY <3>2, <3>4, FS_Subset
    <3>6. Cardinality(before \cup {r}) = Cardinality(before) + 1
      BY <2>2, <3>3, FS_AddElement
    <3>7. Cardinality(before \cup {r}) <= Cardinality(after)
      BY <2>2, <3>3, FS_Subset
    <3>8. Cardinality(using) <= Cardinality(after)
      BY <2>2, <3>4, <3>5, <3>6, <3>7
    <3> QED BY <3>8 DEF EntriesSuffice, using, after
  <2>4. CASE ~BuildNew(r)
    <3>1. using \subseteq used
      BY <1>2, <2>4, OldEntries
    <3> HIDE DEF before, after, used, using
    <3>2. Cardinality(using) <= Cardinality(used) /\ Cardinality(before) <= Cardinality(after)
      BY <2>1, <2>2, <3>1, FS_Subset
    <3>3. Cardinality(using) <= Cardinality(after)
      BY <2>2, <3>2
    <3> QED BY <3>3 DEF EntriesSuffice, using, after
  <2> QED BY <2>3, <2>4
<1> QED BY <1>1, <1>2 DEF Next

(* The numbers 1 .. Cardinality(Requests) always suffice to name the       *)
(* SessionEntry objects that are alive: a request builds one at most       *)
(* (CreateSession), and an object does not outlive its references.         *)
THEOREM EntriesAlwaysSuffice == Spec => []EntriesSuffice
<1>1. Init => EntriesSuffice
  <2> SUFFICES ASSUME Init PROVE EntriesSuffice
    OBVIOUS
  <2>1. InUse = {}
    BY Constants DEF Init, InUse, Alive
  <2>2. Cardinality(InUse) = 0
    BY <2>1, FS_EmptySet
  <2> QED BY <2>2, EntriesFinite DEF EntriesSuffice
<1>2. IndInv /\ EntriesSuffice /\ [Next]_vars => EntriesSuffice'
  BY EntriesStep
<1> QED BY <1>1, <1>2, IndInvAlways, PTL DEF Spec

(* Every reservation has a creator at work on it.                          *)
Created == \A i \in pending : \E q \in Requests : stage[q] \in Creating /\ want[q] = i

LEMMA CreatedStep ==
  ASSUME IndInv, Created, [Next]_vars PROVE Created'
<1>1. CASE UNCHANGED vars
  BY <1>1 DEF vars, handlerVars, poolVars, Created
<1>2. ASSUME NEW r \in Requests, Admit(r) \/ Abort(r) \/ Handle(r), NEW i \in pending'
      PROVE  \E q \in Requests : stage'[q] \in Creating /\ want'[q] = i
  <2> USE DEF IndInv, TypeOK, Created, Creating, Go
  <2>1. CASE Acquire(r)
    BY <2>1 DEF Acquire, Lease, WaitForIdle, SeeIdle, NotFound, FindRetired, SeeRetirable,
       WaitForPending, SeeCreated, StartCreate, SeeRoom, poolVars
  <2>2. CASE Reserve(r) \/ Recycle(r)
    BY <2>2 DEF Reserve, Recycle
  <2>3. CASE Refused(r) \/ BuildNew(r) \/ BuildReset(r) \/ Reclaim(r)
    BY <2>3 DEF Refused, BuildNew, BuildReset, Reclaim, poolVars
  <2>4. CASE BuildFails(r) \/ ResetFails(r) \/ Publish(r)
    <3>1. i \in pending /\ i # want[r]
      BY <2>4 DEF BuildFails, ResetFails, Publish, Unreserve
    <3>2. PICK q \in Requests : stage[q] \in Creating /\ want[q] = i
      BY <3>1
    <3>3. q # r /\ want' = want
      BY <2>4, <3>1, <3>2 DEF BuildFails, ResetFails, Publish
    <3>4. stage'[q] = stage[q]
      BY <2>4, <3>3 DEF BuildFails, ResetFails, Publish
    <3> QED BY <3>2, <3>3, <3>4
  <2>5. CASE Use(r)
    BY <2>5 DEF Use, IndexResponse, Complete, Fail, RestartFails, DiscardSession, StampRelease,
       ReleaseSession, poolVars
  <2>6. CASE Unwind(r) \/ Admit(r) \/ Abort(r)
    BY <2>6 DEF Unwind, ReturnAdmission, DropEntry, Admit, Abort, Waiting, poolVars
  <2> QED BY <1>2, <2>1, <2>2, <2>3, <2>4, <2>5, <2>6 DEF Handle, Create
<1> QED BY <1>1, <1>2 DEF Next, Created

(* A session that is to be built finds a number: the handler that builds   *)
(* it is not past its build.                                               *)
LEMMA SomeFresh ==
  ASSUME IndInv, EntriesSuffice, NEW r \in Requests, stage[r] = "build"
  PROVE  \E e \in Entries : Fresh(e)
<1> DEFINE dead == Entries \ InUse
<1>1. Cardinality(InUse) < Cardinality(Entries)
  <2>1. IsFiniteSet(Requests) /\ Builders \subseteq Requests \ {r}
    BY PoolAssumption DEF PoolAssumption, Builders, Past, Leasing
  <2>2. /\ IsFiniteSet(Requests \ {r})
        /\ Cardinality(Requests \ {r}) = Cardinality(Requests) - 1
    BY <2>1, FS_RemoveElement
  <2>3. Cardinality(Builders) <= Cardinality(Requests \ {r})
    BY <2>1, <2>2, FS_Subset
  <2> QED BY <2>2, <2>3, EntriesFinite DEF EntriesSuffice
<1>2. dead # {}
  <2>1. InUse \subseteq Entries
    BY DEF InUse
  <2>2. ASSUME dead = {} PROVE FALSE
    <3>1. InUse = Entries
      BY <2>1, <2>2
    <3> QED BY <1>1, <3>1, EntriesFinite
  <2> QED BY <2>2
<1>3. dead \in SUBSET Nat /\ IsFiniteSet(dead)
  BY EntriesFinite, FS_Subset DEF Entries
<1>4. PICK e \in dead : \A f \in dead : e <= f
  <2> HIDE DEF dead
  <2> QED BY <1>2, <1>3, FiniteHasLeast DEF HasLeast
<1>5. ~Alive(e) /\ \A f \in Entries : f < e => Alive(f)
  BY <1>3, <1>4 DEF InUse, Entries
<1> QED BY <1>4, <1>5 DEF Fresh

(* Who does not wait can go on.                                            *)
LEMMA WorkersGoOn ==
  ASSUME IndInv, EntriesSuffice, NEW r \in Requests, stage[r] \notin Waiting
  PROVE  GoesOn(r)
<1>1. stage[r] = "build" => \E e \in Entries : Fresh(e)
  BY SomeFresh
<1>2. stage[r] = "publish" => want[r] \in pending /\ want[r] \notin Resident
  BY DEF IndInv, Reserved, PoolBounded, Creating
<1>3. stage[r] = "acquire" /\ IsRoot(r) => want[r] \notin pending
  BY DEF IndInv, RootsFresh, IsRoot, Creating
<1> QED BY <1>1, <1>2, <1>3 DEF GoesOn, Waiting

(* An entry that cannot be evicted is in use, or a handler that waits for  *)
(* it, or is about to drop it, can go on.                                  *)
LEMMA PinnedBySomeone ==
  ASSUME IndInv, EntriesSuffice, NEW e \in Entries, OnMap(e), ~CanEvict(e)
  PROVE  \E q \in Requests : Underway(q) /\ GoesOn(q)
<1>1. CASE active[e] # 0
  <2>1. PICK q \in Requests : stage[q] \in Leasing
    BY <1>1 DEF IndInv, CountExact
  <2>2. GoesOn(q)
    BY <2>1, WorkersGoOn DEF Leasing, Waiting
  <2> QED BY <2>1, <2>2 DEF Underway, Leasing
<1>2. CASE active[e] = 0
  <2>1. PICK q \in Requests : ref[q] = e
    BY <1>2 DEF CanEvict
  <2>2. ref[q] # NoEntry /\ stage[q] \notin Empty /\ stage[q] \in Stages
    BY <2>1, Constants DEF IndInv, RefInv, RefsEmpty, TypeOK
  <2>3. Underway(q)
    BY <2>2 DEF Underway, Empty
  <2>4. CASE stage[q] = "waitIdle"
    BY <1>2, <2>1, <2>3, <2>4 DEF GoesOn
  <2>5. CASE stage[q] # "waitIdle"
    BY <2>2, <2>3, <2>5, WorkersGoOn DEF Waiting, Empty
  <2> QED BY <2>4, <2>5
<1> QED BY <1>1, <1>2

(* Whatever a handler waits for, somebody is at work on it.                *)
LEMMA WaitedForSomeone ==
  ASSUME IndInv, EntriesSuffice, Created, NEW r \in Requests,
         stage[r] \in Waiting, ~GoesOn(r)
  PROVE  \E q \in Requests : Underway(q) /\ GoesOn(q)
<1>1. ASSUME NEW i \in pending PROVE \E q \in Requests : Underway(q) /\ GoesOn(q)
  <2>1. PICK q \in Requests : stage[q] \in Creating
    BY DEF Created
  <2>2. GoesOn(q)
    BY <2>1, WorkersGoOn DEF Creating, Waiting
  <2> QED BY <2>1, <2>2 DEF Underway, Creating
<1>2. ASSUME NEW i \in Resident, ~CanEvict(resident[i])
      PROVE  \E q \in Requests : Underway(q) /\ GoesOn(q)
  <2>1. resident[i] \in Entries /\ OnMap(resident[i])
    BY DEF Resident, IndInv, TypeOK, OnMap
  <2> QED BY <1>2, <2>1, PinnedBySomeone
<1>3. Target(r) # NoEntry => \E i \in Resident : resident[i] = Target(r)
  <2>1. want[r] \in SessionIds
    BY DEF IndInv, TypeOK
  <2>2. CASE IsNext(r)
    BY <2>1, <2>2 DEF Target, IsNext, IsChat, SessionIds, IndInv, IndexSound
  <2>3. CASE ~IsNext(r)
    BY <2>1, <2>3 DEF Target, Resident
  <2> QED BY <2>2, <2>3
<1>4. CASE stage[r] = "waitIdle"
  <2>1. active[ref[r]] # 0 /\ ref[r] \in Entries /\ OnMap(ref[r])
    BY <1>4 DEF GoesOn, IndInv, TypeOK, RefInv, RefsHeld, RefsShared, Holding, Private
  <2> QED BY <2>1, PinnedBySomeone DEF CanEvict
<1>5. CASE stage[r] = "waitRetired"
  <2>1. Target(r) # NoEntry /\ ~CanEvict(Target(r))
    BY <1>5 DEF GoesOn, StillHeld, Retired
  <2> QED BY <1>2, <1>3, <2>1
<1>6. CASE stage[r] = "waitPending"
  BY <1>1, <1>6 DEF GoesOn
<1>7. CASE stage[r] = "waitRoom" /\ Target(r) # NoEntry
  <2>1. ~CanEvict(Target(r))
    BY <1>7 DEF GoesOn, RoomFor, CanEvict
  <2> QED BY <1>2, <1>3, <1>7, <2>1
<1>8. CASE stage[r] = "waitRoom" /\ Target(r) = NoEntry /\ pending = {}
  <2>1. ~HasRoom /\ Evictable = {}
    BY <1>8 DEF GoesOn, RoomFor
  <2>2. Resident # {}
    <3>1. Cardinality(pending) = 0
      BY <1>8, FS_EmptySet
    <3>2. Cardinality(Resident) # 0
      BY <2>1, <3>1, PoolAssumption DEF HasRoom, PoolAssumption
    <3> QED BY <3>2, FS_EmptySet
  <2>3. PICK i \in Resident : ~CanEvict(resident[i])
    BY <2>1, <2>2 DEF Evictable
  <2> QED BY <1>2, <2>3
<1> QED BY <1>1, <1>4, <1>5, <1>6, <1>7, <1>8 DEF Waiting

(* Neither the numbers of the entries nor the handlers' waits ever stop    *)
(* the pool: handlers wait for leases, creators and room, never only for   *)
(* each other (AcquireNamedSession, AcquireResponseSession,                *)
(* CreateSessionQueued), and every other step of theirs is possible.       *)
THEOREM NobodyEverStuck == Spec => []NobodyStuck
<1>1. Init => Created
  BY DEF Init, Created
<1>2. IndInv /\ Created /\ [Next]_vars => Created'
  BY CreatedStep
<1>3. ASSUME IndInv, EntriesSuffice, Created PROVE NobodyStuck
  <2>1. ASSUME NEW r \in Requests, Underway(r)
        PROVE  \E q \in Requests : Underway(q) /\ GoesOn(q)
    BY <1>3, <2>1, WorkersGoOn, WaitedForSomeone
  <2> QED BY <1>3, <2>1, WorkersGoOn DEF NobodyStuck
<1> QED BY <1>1, <1>2, <1>3, IndInvAlways, EntriesAlwaysSuffice, PTL DEF Spec

-----------------------------------------------------------------------------
(* The refinement: what each step means to SessionPromise.                 *)

(* A response is indexed by its own handler while it runs, or was when it  *)
(* ended; until then it leads to the entry that the handler leases.        *)
Answering ==
  \A r \in Requests : index[r] # NoEntry =>
    /\ stage[r] \in {"running", "discarding", "releasing", "dropping", "unwinding"}
    /\ stage[r] \in Leasing => index[r] = ref[r]

LEMMA AnsweringStep ==
  ASSUME IndInv, Answering, [Next]_vars PROVE Answering'
<1>1. CASE UNCHANGED vars
  BY <1>1 DEF vars, handlerVars, poolVars, entryVars, Answering
<1>2. ASSUME NEW r \in Requests, Admit(r) \/ Abort(r) \/ Handle(r)
      PROVE  Answering'
  <2> SUFFICES ASSUME NEW q \in Requests, index'[q] # NoEntry
               PROVE  /\ stage'[q] \in {"running", "discarding", "releasing", "dropping",
                                        "unwinding"}
                      /\ stage'[q] \in Leasing => index'[q] = ref'[q]
    BY DEF Answering
  <2> USE DEF IndInv, TypeOK, Answering, Go, Hold, Leasing
  <2>1. CASE Acquire(r)
    BY <2>1 DEF Acquire, Lease, WaitForIdle, SeeIdle, NotFound, FindRetired, SeeRetirable,
       WaitForPending, SeeCreated, StartCreate, SeeRoom, poolVars
  <2>2. CASE Create(r)
    BY <2>2 DEF Create, Reserve, Recycle, Refused, BuildNew, BuildReset, BuildFails, ResetFails,
       Reclaim, Publish, Unindexed, poolVars
  <2>3. CASE Use(r)
    BY <2>3 DEF Use, IndexResponse, Complete, Fail, RestartFails, DiscardSession, Unindexed,
       StampRelease, ReleaseSession, poolVars
  <2>4. CASE Unwind(r) \/ Admit(r) \/ Abort(r)
    BY <2>4 DEF Unwind, ReturnAdmission, DropEntry, Admit, Abort, Waiting, poolVars
  <2> QED BY <1>2, <2>1, <2>2, <2>3, <2>4 DEF Handle
<1> QED BY <1>1, <1>2 DEF Next

(* A step that leaves map and index alone, retires no session on the map   *)
(* and moves no lease does nothing that is promised.                       *)
LEMMA PromiseStutters ==
  ASSUME UNCHANGED <<want, resident, index>>,
         \A i \in Resident : retired'[resident[i]] = retired[resident[i]],
         \A q \in Requests : /\ stage'[q] \in Leasing <=> stage[q] \in Leasing
                             /\ stage[q] \in Leasing => ref'[q] = ref[q]
  PROVE  UNCHANGED Promise!vars
<1>1. UNCHANGED Resident
  BY DEF Resident
<1>2. UNCHANGED Spoilt
  BY <1>1 DEF Spoilt
<1>3. UNCHANGED Serving
  BY <1>1 DEF Serving
<1>4. UNCHANGED Known
  BY <1>1 DEF Known
<1> QED BY <1>1, <1>2, <1>3, <1>4 DEF Promise!vars

(* The steps of that kind. *)
HiddenStep(r) ==
  \/ Abort(r) \/ WaitForIdle(r) \/ SeeIdle(r) \/ NotFound(r) \/ FindRetired(r)
  \/ SeeRetirable(r) \/ WaitForPending(r) \/ SeeCreated(r) \/ StartCreate(r) \/ SeeRoom(r)
  \/ Reserve(r) \/ Refused(r) \/ BuildNew(r) \/ BuildReset(r) \/ BuildFails(r)
  \/ ResetFails(r) \/ Reclaim(r) \/ Complete(r) \/ RestartFails(r) \/ StampRelease(r)
  \/ Unwind(r)

LEMMA HiddenStutters ==
  ASSUME IndInv, NEW r \in Requests, HiddenStep(r)
  PROVE  UNCHANGED Promise!vars
<1>1. UNCHANGED <<want, resident, index>>
  BY DEF HiddenStep, Abort, WaitForIdle, SeeIdle, NotFound, FindRetired, SeeRetirable,
     WaitForPending, SeeCreated, StartCreate, SeeRoom, Reserve, Refused, BuildNew, BuildReset,
     BuildFails, ResetFails, Reclaim, Complete, RestartFails, StampRelease, Unwind,
     ReturnAdmission, DropEntry, poolVars
<1>2. \A q \in Requests : /\ stage'[q] \in Leasing <=> stage[q] \in Leasing
                          /\ stage[q] \in Leasing => ref'[q] = ref[q]
  <2> USE DEF IndInv, TypeOK, Leasing, Waiting, Go, Hold
  <2>1. CASE \/ Abort(r) \/ WaitForIdle(r) \/ SeeIdle(r) \/ NotFound(r) \/ FindRetired(r)
             \/ SeeRetirable(r) \/ WaitForPending(r) \/ SeeCreated(r) \/ StartCreate(r) \/ SeeRoom(r)
    BY <2>1 DEF Abort, WaitForIdle, SeeIdle, NotFound, FindRetired, SeeRetirable, WaitForPending,
       SeeCreated, StartCreate, SeeRoom
  <2>2. CASE \/ Reserve(r) \/ Refused(r) \/ BuildNew(r) \/ BuildReset(r) \/ BuildFails(r)
             \/ ResetFails(r) \/ Reclaim(r)
    BY <2>2 DEF Reserve, Refused, BuildNew, BuildReset, BuildFails, ResetFails, Reclaim
  <2>3. CASE Complete(r) \/ RestartFails(r) \/ StampRelease(r) \/ Unwind(r)
    BY <2>3 DEF Complete, RestartFails, StampRelease, Unwind, ReturnAdmission, DropEntry
  <2> QED BY <2>1, <2>2, <2>3 DEF HiddenStep
<1>3. \A i \in Resident : retired'[resident[i]] = retired[resident[i]]
  <2>1. CASE BuildNew(r)
    <3>1. PICK e \in Entries : Fresh(e) /\ Cleared(e)
      BY <2>1 DEF BuildNew
    <3>2. \A i \in Resident : resident[i] # e
      BY <3>1 DEF Fresh, Alive, Resident
    <3> QED BY <3>1, <3>2 DEF Cleared, IndInv, TypeOK, Resident
  <2>2. CASE BuildReset(r) \/ Reclaim(r)
    <3>1. Cleared(ref[r]) /\ ~OnMap(ref[r])
      BY <2>2 DEF BuildReset, Reclaim, Go, IndInv, RefInv, RefsPrivate, RefsHeld, Private, Holding
    <3>2. \A i \in Resident : resident[i] # ref[r]
      BY <3>1 DEF OnMap, Resident
    <3> QED BY <3>1, <3>2 DEF Cleared, IndInv, TypeOK, Resident
  <2>3. CASE ~BuildNew(r) /\ ~BuildReset(r) /\ ~Reclaim(r)
    BY <2>3 DEF HiddenStep, Abort, WaitForIdle, SeeIdle, NotFound, FindRetired, SeeRetirable,
       WaitForPending, SeeCreated, StartCreate, SeeRoom, Reserve, Refused, BuildFails,
       ResetFails, Complete, RestartFails, StampRelease, Unwind, ReturnAdmission, DropEntry,
       entryVars
  <2> QED BY <2>1, <2>2, <2>3
<1> QED BY <1>1, <1>2, <1>3, PromiseStutters

(* Who leases an entry is served by the one session whose entry it is.     *)
LEMMA ServedBy ==
  ASSUME IndInv, NEW r \in Requests, stage[r] \in Leasing
  PROVE  \E i \in Resident : /\ resident[i] = ref[r] /\ i \in Promise!Names
                             /\ <<r, i>> \in Serving
                             /\ \A j \in Resident : resident[j] = ref[r] => j = i
<1>1. ref[r] # NoEntry /\ OnMap(ref[r])
  BY DEF IndInv, RefInv, RefsHeld, RefsShared, Holding, Private, Leasing
<1>2. PICK i \in Resident : resident[i] = ref[r]
  BY <1>1 DEF OnMap, Resident
<1>3. i \in Promise!Names
  BY DEF Promise!Names, Resident, SessionIds
<1> QED BY <1>2, <1>3 DEF Serving, IndInv, NamesUnique

(* Who has no lease is not served.                                         *)
LEMMA NotServed ==
  ASSUME NEW r \in Requests, stage[r] \notin Leasing
  PROVE  ~Promise!Served(r)
BY DEF Promise!Served, Serving

(* A session whose entry nobody uses is idle.                              *)
LEMMA UnusedIsIdle ==
  ASSUME IndInv, NEW i \in Resident, active[resident[i]] = 0
  PROVE  Promise!Idle(i)
<1>1. resident[i] \in Entries
  BY DEF IndInv, TypeOK, Resident, SessionIds
<1>2. \A r \in Requests : stage[r] \in Leasing => ref[r] # resident[i]
  BY <1>1 DEF IndInv, CountExact
<1> QED BY <1>2 DEF Promise!Idle, Serving

LEMMA SameIds == Promise!Names = SessionIds
BY DEF Promise!Names, SessionIds

(* The instance brings its own copy of Cardinality. *)
LEMMA SameCardinality == \A S : Promise!Cardinality(S) = Cardinality(S)
BY DEF Promise!Cardinality, Cardinality

LEMMA PromiseInit == Init => Promise!Init
<1> SUFFICES ASSUME Init PROVE Promise!Init
  OBVIOUS
<1>1. Resident = {}
  BY DEF Init, Resident
<1>2. want \in [Requests -> Promise!Names]
  BY SameIds, Constants DEF Init
<1> QED BY <1>1, <1>2 DEF Promise!Init, Spoilt, Serving, Known

(* A request that is admitted asks for something. *)
LEMMA AdmitAsks ==
  ASSUME IndInv, NEW r \in Requests, Admit(r)
  PROVE  Promise!Ask(r)
<1>1. stage[r] = "new" /\ stage' = [stage EXCEPT ![r] = "acquire"]
  BY DEF Admit, Go
<1>2. PICK w \in SessionIds : want' = [want EXCEPT ![r] = w]
  BY DEF Admit
<1>3. UNCHANGED <<ref, resident, index, retired>>
  BY DEF Admit, poolVars, entryVars
<1>4. UNCHANGED Resident /\ UNCHANGED Spoilt /\ UNCHANGED Known
  BY <1>3 DEF Resident, Spoilt, Known
<1>5. UNCHANGED Serving
  BY <1>1, <1>3, <1>4 DEF Serving, Leasing, IndInv, TypeOK
<1>6. ~Promise!Served(r)
  BY <1>1, NotServed DEF Leasing
<1> QED BY <1>2, <1>4, <1>5, <1>6, SameIds DEF Promise!Ask

(* The lease is on the session that was asked for: for a continuation the  *)
(* index says so, and what it leads to is not retired, though nobody looks.*)
LEMMA LeaseServes ==
  ASSUME IndInv, NEW r \in Requests, Lease(r)
  PROVE  \E i \in Promise!Names : Promise!Serve(r, i)
<1>1. /\ stage[r] = "acquire" /\ Usable(r) /\ active[Target(r)] = 0
      /\ stage' = [stage EXCEPT ![r] = IF IsChat(r) THEN "running" ELSE "leased"]
      /\ ref' = [ref EXCEPT ![r] = Target(r)]
      /\ UNCHANGED <<want, resident, index, retired>>
  BY DEF Lease, Go, Hold, poolVars
<1>2. UNCHANGED Resident /\ UNCHANGED Spoilt /\ UNCHANGED Known
  BY <1>1 DEF Resident, Spoilt, Known
<1>3. want[r] \in SessionIds /\ stage'[r] \in Leasing /\ ref'[r] = Target(r)
  BY <1>1 DEF IndInv, TypeOK, Leasing
<1>4. PICK i \in Resident : resident[i] = Target(r) /\ ~retired[resident[i]]
                            /\ (IsNext(r) => <<want[r], i>> \in Known)
                            /\ (~IsNext(r) => i = want[r])
  <2>1. CASE IsNext(r)
    <3>1. want[r] \in Requests /\ index[want[r]] = Target(r) /\ Target(r) # NoEntry
      BY <1>1, <1>3, <2>1 DEF Usable, Target, IsNext, IsChat, SessionIds
    <3>2. PICK i \in Resident : resident[i] = Target(r)
      BY <3>1 DEF IndInv, IndexSound
    <3>3. ~retired[resident[i]]
      BY <3>1, <3>2 DEF IndInv, IndexSound
    <3>4. <<want[r], i>> \in Known
      BY <3>1, <3>2 DEF Known
    <3> QED BY <2>1, <3>2, <3>3, <3>4
  <2>2. CASE IsChat(r)
    BY <1>1, <1>3, <2>2 DEF Usable, Target, IsNext, Resident
  <2>3. CASE IsRoot(r)
    <3>1. resident[r] # NoEntry
      BY <1>1, <2>3, Constants DEF Usable, Target, IsNext, IsRoot
    <3>2. stage[r] \in Leasing \cup {"unwinding"}
      BY <3>1 DEF IndInv, RootsFresh
    <3> QED BY <1>1, <3>2 DEF Leasing
  <2> QED BY <2>1, <2>2, <2>3 DEF IsNext
<1>5. Promise!Idle(i)
  BY <1>1, <1>4, UnusedIsIdle
<1>6. ~Promise!Served(r)
  BY <1>1, NotServed DEF Leasing
<1>7. Serving' = Serving \cup {<<r, i>>}
  <2>1. \A q \in Requests \ {r} : stage'[q] = stage[q] /\ ref'[q] = ref[q]
    BY <1>1 DEF IndInv, TypeOK
  <2>2. \A q \in Requests, j \in Resident :
          stage'[q] \in Leasing /\ ref'[q] = resident'[j]
            <=> (stage[q] \in Leasing /\ ref[q] = resident[j]) \/ (q = r /\ j = i)
    <3> TAKE q \in Requests, j \in Resident
    <3>1. CASE q # r
      BY <1>1, <2>1, <3>1
    <3>2. CASE q = r
      <4>1. stage[q] \notin Leasing
        BY <1>1, <3>2 DEF Leasing
      <4>2. resident[j] = resident[i] <=> j = i
        BY DEF IndInv, NamesUnique
      <4> QED BY <1>1, <1>3, <1>4, <3>2, <4>1, <4>2
    <3> QED BY <3>1, <3>2
  <2>3. Serving' \subseteq Serving \cup {<<r, i>>}
    BY <1>2, <2>2 DEF Serving
  <2>4. Serving \cup {<<r, i>>} \subseteq Serving'
    BY <1>2, <1>4, <2>2 DEF Serving
  <2> QED BY <2>3, <2>4
<1>8. IF Promise!Continues(r) THEN <<want[r], i>> \in Known ELSE i = want[r]
  <2>1. Promise!Continues(r) <=> IsNext(r)
    BY <1>3, Constants DEF Promise!Continues, IsNext, IsChat, IsRoot, SessionIds
  <2> QED BY <1>4, <2>1
<1>9. i \in Resident \ Spoilt /\ i \in Promise!Names
  BY <1>4, SameIds DEF Spoilt, Resident
<1> QED BY <1>1, <1>2, <1>5, <1>6, <1>7, <1>8, <1>9 DEF Promise!Serve

(* Publication opens a session: the reservation has kept a place for it.   *)
LEMMA PublishOpens ==
  ASSUME IndInv, NEW r \in Requests, Publish(r)
  PROVE  \E i \in Promise!Names : Promise!Open(r, i)
<1> DEFINE i == want[r]
<1>1. /\ stage[r] = "publish" /\ i \in pending /\ i \notin Resident
      /\ stage' = [stage EXCEPT ![r] = IF IsChat(r) THEN "running" ELSE "leased"]
      /\ resident' = [resident EXCEPT ![i] = ref[r]]
      /\ UNCHANGED <<want, ref, index, retired>>
  BY DEF Publish, Go
<1>2. i \in SessionIds /\ stage'[r] \in Leasing
  BY <1>1 DEF IndInv, TypeOK, Leasing
<1>3. ref[r] # NoEntry /\ ~OnMap(ref[r]) /\ \A q \in Requests \ {r} : ref[q] # ref[r]
  BY <1>1 DEF IndInv, RefInv, RefsHeld, RefsPrivate, Holding, Private
<1>4. resident'[i] = ref[r] /\ \A j \in SessionIds \ {i} : resident'[j] = resident[j]
  BY <1>1, <1>2 DEF IndInv, TypeOK
<1>5. Resident' = Resident \cup {i}
  BY <1>2, <1>3, <1>4 DEF Resident
<1>6. Spoilt' = Spoilt
  <2>1. ~retired[ref[r]]
    BY <1>1 DEF IndInv, Clean
  <2>2. \A j \in Resident : j # i /\ resident'[j] = resident[j]
    BY <1>1, <1>4 DEF Resident
  <2> QED BY <1>1, <1>4, <1>5, <2>1, <2>2 DEF Spoilt
<1>7. Known' = Known
  <2>1. \A p \in Requests : index[p] # ref[r]
    BY <1>3 DEF IndInv, IndexSound, OnMap, Resident
  <2>2. \A j \in Resident : j # i /\ resident'[j] = resident[j]
    BY <1>1, <1>4 DEF Resident
  <2>3. \A p \in Requests, j \in Resident' :
          index'[p] = resident'[j] <=> j \in Resident /\ index[p] = resident[j]
    BY <1>1, <1>4, <1>5, <2>1, <2>2
  <2> QED BY <1>5, <2>3 DEF Known
<1>8. Serving' = Serving \cup {<<r, i>>}
  <2>1. \A q \in Requests \ {r} : stage'[q] = stage[q]
    BY <1>1 DEF IndInv, TypeOK
  <2>2. \A j \in Resident : j # i /\ resident'[j] = resident[j] /\ resident[j] # ref[r]
    BY <1>1, <1>3, <1>4 DEF Resident, OnMap
  <2>3. \A q \in Requests, j \in Resident' :
          stage'[q] \in Leasing /\ ref'[q] = resident'[j]
            <=> \/ j \in Resident /\ stage[q] \in Leasing /\ ref[q] = resident[j]
                \/ q = r /\ j = i
    <3> TAKE q \in Requests, j \in Resident'
    <3>1. CASE j = i
      BY <1>1, <1>2, <1>3, <1>4, <2>1, <3>1
    <3>2. CASE j # i
      <4>1. j \in Resident /\ resident'[j] = resident[j] /\ resident[j] # ref[r]
        BY <1>5, <2>2, <3>2
      <4> QED BY <1>1, <2>1, <3>2, <4>1
    <3> QED BY <3>1, <3>2
  <2>4. Serving' \subseteq Serving \cup {<<r, i>>}
    BY <2>3 DEF Serving
  <2>5. Serving \cup {<<r, i>>} \subseteq Serving'
    BY <1>5, <2>3 DEF Serving
  <2> QED BY <2>4, <2>5
<1>9. Cardinality(Resident) < MaxSessions
  <2>1. /\ Cardinality(Resident) \in Nat /\ Cardinality(pending) \in Nat /\ IsFiniteSet(pending)
        /\ Cardinality(Resident) + Cardinality(pending) <= MaxSessions
    BY PoolFinite DEF IndInv, PoolBounded
  <2>2. Cardinality(pending) # 0
    BY <1>1, <2>1, FS_EmptySet
  <2> QED BY <2>1, <2>2, PoolAssumption DEF PoolAssumption
<1>10. ~Promise!Continues(r) /\ ~Promise!Served(r)
  <2>1. ~IsNext(r)
    BY <1>1 DEF IndInv, Creators
  <2>2. ~Promise!Served(r)
    BY <1>1, NotServed DEF Leasing
  <2> QED
    BY <1>2, <2>1, <2>2, Constants DEF Promise!Continues, IsNext, IsChat, IsRoot, SessionIds
<1>11. Promise!Open(r, i)
  BY <1>1, <1>5, <1>6, <1>7, <1>8, <1>9, <1>10, SameCardinality DEF Promise!Open
<1> QED BY <1>2, <1>11, SameIds

(* The indexed response leads to the session that serves it. *)
LEMMA IndexAnswers ==
  ASSUME IndInv, Answering, NEW r \in Requests, IndexResponse(r)
  PROVE  \E i \in Promise!Names : Promise!Answer(r, i)
<1>1. /\ stage[r] = "leased" /\ stage' = [stage EXCEPT ![r] = "running"]
      /\ index' = [index EXCEPT ![r] = ref[r]]
      /\ UNCHANGED <<want, ref, resident, retired>>
  BY DEF IndexResponse, Go
<1>2. PICK i \in Resident : /\ resident[i] = ref[r] /\ i \in Promise!Names
                            /\ <<r, i>> \in Serving
                            /\ \A j \in Resident : resident[j] = ref[r] => j = i
  BY <1>1, ServedBy DEF Leasing
<1>3. UNCHANGED Resident /\ UNCHANGED Spoilt
  BY <1>1 DEF Resident, Spoilt
<1>4. UNCHANGED Serving
  BY <1>1, <1>3 DEF Serving, Leasing, IndInv, TypeOK
<1>5. i \notin Spoilt
  BY <1>1, <1>2 DEF Spoilt, IndInv, Clean
<1>6. Known' = Known \cup {<<r, i>>}
  <2>1. index[r] = NoEntry
    BY <1>1 DEF Answering
  <2>2. \A p \in Requests, j \in Resident :
          index'[p] = resident'[j] <=> index[p] = resident[j] \/ (p = r /\ j = i)
    BY <1>1, <1>2, <2>1 DEF IndInv, TypeOK, Resident
  <2>3. Known' \subseteq Known \cup {<<r, i>>}
    BY <1>3, <2>2 DEF Known
  <2>4. Known \cup {<<r, i>>} \subseteq Known'
    BY <1>2, <1>3, <2>2 DEF Known
  <2> QED BY <2>3, <2>4
<1> QED BY <1>1, <1>2, <1>3, <1>4, <1>5, <1>6 DEF Promise!Answer

(* The response of a failed turn is taken back, if it was indexed. *)
LEMMA FailWithdraws ==
  ASSUME IndInv, Answering, NEW r \in Requests, Fail(r)
  PROVE  \E i \in Promise!Names : Promise!Withdraw(r, i)
<1>1. PICK next \in {"releasing", "discarding"} :
        /\ stage[r] = "running" /\ stage' = [stage EXCEPT ![r] = next]
        /\ index' = [index EXCEPT ![r] = NoEntry]
        /\ UNCHANGED <<want, ref, resident, retired>>
  BY DEF Fail, Go, entryVars
<1>2. PICK i \in Resident : /\ resident[i] = ref[r] /\ i \in Promise!Names
                            /\ <<r, i>> \in Serving
                            /\ \A j \in Resident : resident[j] = ref[r] => j = i
  BY <1>1, ServedBy DEF Leasing
<1>3. UNCHANGED Resident /\ UNCHANGED Spoilt
  BY <1>1 DEF Resident, Spoilt
<1>4. UNCHANGED Serving
  BY <1>1, <1>3 DEF Serving, Leasing, IndInv, TypeOK
<1>5. Known' = Known \ {<<r, i>>}
  <2>1. index[r] \in {NoEntry, ref[r]}
    BY <1>1 DEF Answering, Leasing
  <2>2. \A p \in Requests, j \in Resident :
          index'[p] = resident'[j] <=> index[p] = resident[j] /\ ~(p = r /\ j = i)
    BY <1>1, <1>2, <2>1 DEF IndInv, TypeOK, Resident
  <2>3. Known' \subseteq Known \ {<<r, i>>}
    BY <1>3, <2>2 DEF Known
  <2>4. Known \ {<<r, i>>} \subseteq Known'
    BY <1>3, <2>2 DEF Known
  <2> QED BY <2>3, <2>4
<1> QED BY <1>1, <1>2, <1>3, <1>4, <1>5 DEF Promise!Withdraw

(* Purging the index of an entry makes the responses of its session, and   *)
(* no others, unknown.                                                     *)
LEMMA UnindexForgets ==
  ASSUME IndInv, NEW i \in Resident, index' = Unindexed(resident[i]),
         NEW left \in SUBSET Resident, Resident \ {i} \subseteq left,
         Resident' = left, \A j \in left : resident'[j] = resident[j]
  PROVE  Known' = Promise!Forgotten(i)
<1>1. \A j \in left : resident[j] # NoEntry /\ (resident[j] = resident[i] <=> j = i)
  BY DEF IndInv, NamesUnique, Resident
<1>2. \A p \in Requests, j \in left :
        index'[p] = resident'[j] <=> index[p] = resident[j] /\ j # i
  BY <1>1 DEF Unindexed
<1>3. Known' \subseteq Promise!Forgotten(i)
  BY <1>2 DEF Known, Promise!Forgotten
<1>4. ASSUME NEW k \in Promise!Forgotten(i) PROVE k \in Known'
  <2>1. k \in Requests \X Resident /\ index[k[1]] = resident[k[2]] /\ k[2] # i
    BY <1>4 DEF Promise!Forgotten, Known
  <2>2. k[1] \in Requests /\ k[2] \in left
    BY <2>1
  <2> QED BY <1>2, <2>1, <2>2 DEF Known
<1> QED BY <1>3, <1>4

(* Discarding spoils the session for everybody. *)
LEMMA DiscardSpoils ==
  ASSUME IndInv, NEW r \in Requests, DiscardSession(r)
  PROVE  \E i \in Promise!Names : Promise!Spoil(r, i)
<1>1. /\ stage[r] = "discarding" /\ stage' = [stage EXCEPT ![r] = "releasing"]
      /\ retired' = [retired EXCEPT ![ref[r]] = TRUE]
      /\ index' = Unindexed(ref[r])
      /\ UNCHANGED <<want, ref, resident>>
  BY DEF DiscardSession, Go
<1>2. PICK i \in Resident : /\ resident[i] = ref[r] /\ i \in Promise!Names
                            /\ <<r, i>> \in Serving
                            /\ \A j \in Resident : resident[j] = ref[r] => j = i
  BY <1>1, ServedBy DEF Leasing
<1>3. UNCHANGED Resident
  BY <1>1 DEF Resident
<1>4. UNCHANGED Serving
  BY <1>1, <1>3 DEF Serving, Leasing, IndInv, TypeOK
<1>5. Spoilt' = Spoilt \cup {i}
  <2>1. \A j \in Resident : retired'[resident'[j]] <=> retired[resident[j]] \/ j = i
    BY <1>1, <1>2 DEF IndInv, TypeOK, Resident
  <2> QED BY <1>2, <1>3, <2>1 DEF Spoilt
<1>6. Known' = Promise!Forgotten(i)
  BY <1>1, <1>2, <1>3, UnindexForgets
<1> QED BY <1>1, <1>2, <1>3, <1>4, <1>5, <1>6 DEF Promise!Spoil

LEMMA ReleaseReturns ==
  ASSUME IndInv, NEW r \in Requests, ReleaseSession(r)
  PROVE  \E i \in Promise!Names : Promise!Return(r, i)
<1>1. /\ stage[r] = "dropping" /\ stage' = [stage EXCEPT ![r] = "unwinding"]
      /\ UNCHANGED <<want, ref, resident, index, retired>>
  BY DEF ReleaseSession, Go, poolVars
<1>2. PICK i \in Resident : /\ resident[i] = ref[r] /\ i \in Promise!Names
                            /\ <<r, i>> \in Serving
                            /\ \A j \in Resident : resident[j] = ref[r] => j = i
  BY <1>1, ServedBy DEF Leasing
<1>3. UNCHANGED Resident /\ UNCHANGED Spoilt /\ UNCHANGED Known
  BY <1>1 DEF Resident, Spoilt, Known
<1>4. Serving' = Serving \ {<<r, i>>}
  <2>1. \A q \in Requests, j \in Resident :
          stage'[q] \in Leasing /\ ref'[q] = resident'[j]
            <=> stage[q] \in Leasing /\ ref[q] = resident[j] /\ ~(q = r /\ j = i)
    BY <1>1, <1>2 DEF IndInv, TypeOK, Leasing
  <2>2. Serving' \subseteq Serving \ {<<r, i>>}
    BY <1>3, <2>1 DEF Serving
  <2>3. Serving \ {<<r, i>>} \subseteq Serving'
    BY <1>3, <2>1 DEF Serving
  <2> QED BY <2>2, <2>3
<1> QED BY <1>1, <1>2, <1>3, <1>4 DEF Promise!Return

(* Recycling closes a session that nobody uses or waits for.               *)
LEMMA RecycleCloses ==
  ASSUME IndInv, NEW r \in Requests, Recycle(r)
  PROVE  \E i \in Promise!Names : Promise!Close(i)
<1>1. PICK i \in Victims(want[r]) :
        /\ ref' = [ref EXCEPT ![r] = resident[i]]
        /\ resident' = [resident EXCEPT ![i] = NoEntry]
        /\ index' = Unindexed(resident[i])
  BY DEF Recycle, Hold
<1>2. /\ stage[r] = "create" /\ stage' = [stage EXCEPT ![r] = "build"]
      /\ UNCHANGED <<want, retired>>
  BY DEF Recycle, Go, entryVars
<1>3. i \in Resident /\ active[resident[i]] = 0
  BY <1>1 DEF Victims, Evictable, CanEvict
<1>4. i \in SessionIds
  BY <1>3 DEF Resident
<1>5. /\ Resident' = Resident \ {i}
      /\ \A j \in Resident \ {i} : resident'[j] = resident[j]
  BY <1>1, <1>4 DEF Resident, IndInv, TypeOK
<1>6. Promise!Idle(i)
  BY <1>3, UnusedIsIdle
<1>7. Spoilt' = Spoilt \ {i}
  BY <1>2, <1>5 DEF Spoilt
<1>8. Known' = Promise!Forgotten(i)
  BY <1>1, <1>3, <1>5, UnindexForgets
<1>9. Serving' = Serving
  <2>1. \A q \in Requests : /\ stage'[q] \in Leasing <=> stage[q] \in Leasing
                            /\ stage[q] \in Leasing => ref'[q] = ref[q]
    BY <1>1, <1>2 DEF IndInv, TypeOK, Leasing
  <2>2. \A q \in Requests : <<q, i>> \notin Serving
    BY <1>6 DEF Promise!Idle
  <2>3. Serving' \subseteq Serving
    BY <1>5, <2>1 DEF Serving
  <2>4. ASSUME NEW p \in Serving PROVE p \in Serving'
    <3>1. p \in Requests \X Resident /\ p[1] \in Requests /\ p = <<p[1], p[2]>>
      BY DEF Serving
    <3>2. p[2] \in Resident \ {i}
      BY <2>2, <3>1
    <3> QED BY <1>5, <2>1, <3>1, <3>2 DEF Serving
  <2> QED BY <2>3, <2>4
<1> QED BY <1>2, <1>3, <1>4, <1>5, <1>6, <1>7, <1>8, <1>9, SameIds DEF Promise!Close

LEMMA PromiseStep ==
  ASSUME IndInv, Answering, [Next]_vars
  PROVE  [Promise!Next]_Promise!vars
<1>1. CASE UNCHANGED vars
  BY <1>1, PromiseStutters DEF vars, handlerVars, poolVars, entryVars
<1>2. ASSUME NEW r \in Requests, Admit(r) \/ Abort(r) \/ Handle(r)
      PROVE  Promise!Next \/ UNCHANGED Promise!vars
  <2>1. CASE HiddenStep(r)
    BY <2>1, HiddenStutters
  <2>2. CASE Admit(r)
    BY <2>2, AdmitAsks DEF Promise!Next
  <2>3. CASE Lease(r)
    BY <2>3, LeaseServes DEF Promise!Next
  <2>4. CASE Publish(r)
    BY <2>4, PublishOpens DEF Promise!Next
  <2>5. CASE IndexResponse(r)
    BY <2>5, IndexAnswers DEF Promise!Next
  <2>6. CASE Fail(r)
    BY <2>6, FailWithdraws DEF Promise!Next
  <2>7. CASE DiscardSession(r)
    BY <2>7, DiscardSpoils DEF Promise!Next
  <2>8. CASE ReleaseSession(r)
    BY <2>8, ReleaseReturns DEF Promise!Next
  <2>9. CASE Recycle(r)
    BY <2>9, RecycleCloses DEF Promise!Next
  <2> QED BY <1>2, <2>1, <2>2, <2>3, <2>4, <2>5, <2>6, <2>7, <2>8, <2>9
          DEF Handle, Acquire, Create, Use, HiddenStep
<1> QED BY <1>1, <1>2 DEF Next

(* What a client sees of the pool is what docs/SERVER.md promises: sessions *)
(* that serve one request at a time, continuations on the session that     *)
(* answered before, nothing from a session that failed, and never one too  *)
(* many (CreateSession, AcquireNamedSession, AcquireResponseSession).      *)
THEOREM PromiseAlwaysKept == Spec => PromiseKept
<1>1. Init => Answering
  BY DEF Init, Answering
<1>2. IndInv /\ Answering /\ [Next]_vars => Answering'
  BY AnsweringStep
<1>3. Spec => []Answering
  BY <1>1, <1>2, IndInvAlways, PTL DEF Spec
<1>4. IndInv /\ Answering /\ [Next]_vars => [Promise!Next]_Promise!vars
  BY PromiseStep
<1> QED BY <1>3, <1>4, PromiseInit, IndInvAlways, PTL DEF Spec, PromiseKept, Promise!Spec
=============================================================================

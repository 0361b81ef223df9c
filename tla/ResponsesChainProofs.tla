------------------------ MODULE ResponsesChainProofs ------------------------
(***************************************************************************)
(* Proofs about ResponsesChain for any set of requests: the chain of every *)
(* session is one linear history, an idle session of the pool holds that   *)
(* conversation or one failed stream more, and the response index leads    *)
(* only to turns that were kept.  The pool assumed here keeps the promise  *)
(* that SessionPool keeps.                                                 *)
(***************************************************************************)
EXTENDS ResponsesChain, FiniteSetTheorems, TLAPS

(* Stages before a handler has failed or answered, and after its index     *)
(* entry has been settled.                                                 *)
Working == {"leased", "indexed", "prepared", "generated", "committed"}
Closed == {"discarding", "releasing", "done"}
Answered == {"committed", "closing"} \cup Closed

(* What a handler has before it starts, while it works, and once it has    *)
(* decided about its index entry and its session.                          *)
HandlerFacts ==
  \A r \in Requests :
    /\ stage[r] = "new" =>
         sess[r] = None /\ index[r] = None /\ status[r] = "none"
    /\ stage[r] = "leased" => index[r] = None
    /\ stage[r] \in Leasing => sess[r] \in Requests
    /\ stage[r] \in Working \cup {"new"} => r \notin keepIndex \cup discard
    /\ stage[r] \in Working => status[r] \in {"none", "200"}
    /\ stage[r] = "discarding" => r \in discard
    /\ r \in keepIndex =>
         status[r] = "200" /\ r \notin discard /\ sess[r] \in Requests
    /\ stage[r] \in Closed /\ index[r] # None => r \in keepIndex

(* A session exists from the request that created it until it is evicted   *)
(* or discarded, one handler leases it at a time, and only responses that  *)
(* it handles are indexed to it.                                           *)
SessionFacts ==
  /\ \A r \in Requests : sess[r] # None =>
       stage[sess[r]] # "new" /\ (previous[r] = None => sess[r] = r)
  /\ \A s \in resident : stage[s] # "new"
  /\ \A p \in Requests : index[p] # None =>
       index[p] = sess[p] /\ index[p] \in resident
  /\ \A r \in Requests : stage[r] \in Leasing =>
       sess[r] \in resident \/ (stage[r] = "releasing" /\ r \in discard)
  /\ \A r \in discard : stage[r] \in {"releasing", "done"} =>
       sess[r] \notin resident
  /\ \A q, r \in Requests :
       stage[q] \in Leasing /\ stage[r] \in Leasing /\ sess[q] = sess[r] =>
         q = r

InChain(s, r) == \E i \in DOMAIN chain[s] : chain[s][i] = r

(* The turns of a chain belong to handlers of that session that have       *)
(* committed, and one that has checked its place still has it.             *)
TurnFacts ==
  /\ \A s \in Requests : \A i \in DOMAIN chain[s] :
       sess[chain[s][i]] = s /\ stage[chain[s][i]] \in Answered
  /\ \A r \in keepIndex : InChain(sess[r], r)
  /\ \A r \in Requests : stage[r] \in {"prepared", "generated"} =>
       previous[r] = Latest(sess[r])
  /\ \A r \in Requests : stage[r] = "committed" => InChain(sess[r], r)

(* LinearHistory, for the sessions that are gone as well.                  *)
Linear ==
  \A s \in Requests : \A i \in DOMAIN chain[s] :
    /\ previous[chain[s][i]] = IF i = 1 THEN None ELSE chain[s][i - 1]
    /\ i = 1 => chain[s][i] = s
    /\ \A j \in DOMAIN chain[s] : chain[s][i] = chain[s][j] => i = j

(* The cache of session s ran ahead of its chain by the failed stream r.   *)
AheadBy(s, r) ==
  streamed[r] /\ r \notin keepIndex /\ committed[s] = Append(chain[s], r)

Settled(s) ==
  \/ committed[s] = chain[s]
  \/ \E r \in Requests : stage[r] = "done" /\ AheadBy(s, r)

(* The KV cache of a session as its handler goes through its stages: ahead *)
(* of the chain only between the generation and the commit, or after a     *)
(* stream that failed there.                                               *)
CacheAt(r) ==
  LET s == sess[r]
  IN  /\ stage[r] \in {"leased", "indexed", "prepared"} =>
           s \notin poisoned /\ Settled(s)
      /\ stage[r] = "generated" =>
           s \notin poisoned /\ committed[s] = Append(chain[s], r)
      /\ stage[r] = "committed" =>
           s \notin poisoned /\ committed[s] = chain[s]
      /\ stage[r] \in {"closing", "releasing"} /\ r \notin discard =>
           s \notin poisoned /\ (Settled(s) \/ AheadBy(s, r))

CacheFacts ==
  /\ \A s \in Requests : stage[s] = "new" => committed[s] = <<>> /\ s \notin poisoned
  /\ \A s \in resident : ~Busy(s) => s \notin poisoned /\ Settled(s)
  /\ \A r \in Requests : CacheAt(r)

IndInv ==
  /\ TypeOK /\ HandlerFacts /\ SessionFacts /\ TurnFacts /\ Linear /\ CacheFacts

-----------------------------------------------------------------------------
(* The types, and what is known of handlers and sessions, step by step.    *)
LEMMA TypeStep ==
  ASSUME IndInv, NEW r \in Requests, Handle(r) \/ Evict(r)
  PROVE  TypeOK'
<1> USE ChainAssumption DEF ChainAssumption, IndInv, TypeOK, Stages, Leasing, Go, Send, Purged,
    handlerVars, sessionVars
<1>1. CASE CreateSession(r)
  BY <1>1 DEF CreateSession
<1>2. CASE Continue(r)
  BY <1>2 DEF Continue
<1>3. CASE Unknown(r)
  BY <1>3 DEF Unknown
<1>4. CASE IndexResponse(r)
  BY <1>4 DEF IndexResponse
<1>5. CASE PrepareResponsesRequest(r)
  BY <1>5 DEF PrepareResponsesRequest
<1>6. CASE RejectStale(r)
  BY <1>6 DEF RejectStale
<1>7. CASE Generate(r)
  <2>1. sess[r] \in Requests /\ chain[sess[r]] \in Seq(Requests)
    BY <1>7 DEF HandlerFacts, Generate
  <2>2. Append(chain[sess[r]], r) \in Seq(Requests)
    BY <2>1
  <2> QED BY <1>7, <2>1, <2>2 DEF Generate
<1>8. CASE GenerateFails(r)
  BY <1>8 DEF GenerateFails
<1>9. CASE GeneratePoisons(r)
  BY <1>9 DEF HandlerFacts, GeneratePoisons
<1>10. CASE StreamTailFails(r)
  BY <1>10 DEF StreamTailFails
<1>11. CASE CommitResponsesRequest(r)
  <2>1. sess[r] \in Requests /\ chain[sess[r]] \in Seq(Requests)
    BY <1>11 DEF HandlerFacts, CommitResponsesRequest
  <2>2. Append(chain[sess[r]], r) \in Seq(Requests)
    BY <2>1
  <2> QED BY <1>11, <2>1, <2>2 DEF CommitResponsesRequest
<1>12. CASE Respond(r)
  BY <1>12 DEF Respond
<1>13. CASE Throw(r)
  BY <1>13 DEF Throw
<1>14. CASE Desert(r)
  BY <1>14 DEF Desert
<1>15. CASE CloseIndex(r)
  BY <1>15 DEF CloseIndex
<1>16. CASE DiscardSession(r)
  BY <1>16 DEF DiscardSession
<1>17. CASE ReleaseSession(r)
  BY <1>17 DEF ReleaseSession
<1>18. CASE Evict(r)
  BY <1>18 DEF Evict
<1> QED BY <1>1, <1>2, <1>3, <1>4, <1>5, <1>6, <1>7, <1>8, <1>9, <1>10, <1>11,
      <1>12, <1>13, <1>14, <1>15, <1>16, <1>17, <1>18 DEF Handle

(* What a handler has is settled by its own steps and by nobody else's.    *)
LEMMA HandlerFactsStep ==
  ASSUME IndInv, NEW r \in Requests, Handle(r) \/ Evict(r)
  PROVE  HandlerFacts'
<1> USE ChainAssumption DEF ChainAssumption, IndInv, TypeOK, HandlerFacts, SessionFacts, Leasing,
    Working, Closed, Go, Send, Purged, handlerVars, sessionVars
<1>1. CASE CreateSession(r)
  BY <1>1 DEF CreateSession
<1>2. CASE Continue(r)
  BY <1>2 DEF Continue
<1>3. CASE Unknown(r)
  BY <1>3 DEF Unknown
<1>4. CASE IndexResponse(r)
  BY <1>4 DEF IndexResponse
<1>5. CASE PrepareResponsesRequest(r)
  BY <1>5 DEF PrepareResponsesRequest
<1>6. CASE RejectStale(r)
  BY <1>6 DEF RejectStale
<1>7. CASE Generate(r)
  BY <1>7 DEF Generate
<1>8. CASE GenerateFails(r)
  BY <1>8 DEF GenerateFails
<1>9. CASE GeneratePoisons(r)
  BY <1>9 DEF GeneratePoisons
<1>10. CASE StreamTailFails(r)
  BY <1>10 DEF StreamTailFails
<1>11. CASE CommitResponsesRequest(r)
  BY <1>11 DEF CommitResponsesRequest
<1>12. CASE Respond(r)
  BY <1>12 DEF Respond
<1>13. CASE Throw(r)
  BY <1>13 DEF Throw
<1>14. CASE Desert(r)
  BY <1>14 DEF Desert
<1>15. CASE CloseIndex(r)
  BY <1>15 DEF CloseIndex
<1>16. CASE DiscardSession(r)
  BY <1>16 DEF DiscardSession
<1>17. CASE ReleaseSession(r)
  BY <1>17 DEF ReleaseSession
<1>18. CASE Evict(r)
  BY <1>18 DEF Evict
<1> QED BY <1>1, <1>2, <1>3, <1>4, <1>5, <1>6, <1>7, <1>8, <1>9, <1>10, <1>11,
      <1>12, <1>13, <1>14, <1>15, <1>16, <1>17, <1>18 DEF Handle

(* A session keeps its one handler until it is released, whatever is       *)
(* evicted or discarded around it.                                         *)
LEMMA SessionFactsStep ==
  ASSUME IndInv, NEW r \in Requests, Handle(r) \/ Evict(r)
  PROVE  SessionFacts'
<1> USE ChainAssumption DEF ChainAssumption, IndInv, TypeOK, HandlerFacts, SessionFacts, Leasing,
    Working, Closed, Go, Purged, Busy, handlerVars, sessionVars
<1>1. CASE CreateSession(r)
  BY <1>1 DEF CreateSession
<1>2. CASE Continue(r)
  BY <1>2 DEF Continue
<1>3. CASE Unknown(r)
  BY <1>3 DEF Unknown
<1>4. CASE IndexResponse(r)
  BY <1>4 DEF IndexResponse
<1>5. CASE PrepareResponsesRequest(r)
  BY <1>5 DEF PrepareResponsesRequest
<1>6. CASE RejectStale(r)
  BY <1>6 DEF RejectStale
<1>7. CASE Generate(r)
  BY <1>7 DEF Generate
<1>8. CASE GenerateFails(r)
  BY <1>8 DEF GenerateFails
<1>9. CASE GeneratePoisons(r)
  BY <1>9 DEF GeneratePoisons
<1>10. CASE StreamTailFails(r)
  BY <1>10 DEF StreamTailFails
<1>11. CASE CommitResponsesRequest(r)
  BY <1>11 DEF CommitResponsesRequest
<1>12. CASE Respond(r)
  BY <1>12 DEF Respond
<1>13. CASE Throw(r)
  BY <1>13 DEF Throw
<1>14. CASE Desert(r)
  BY <1>14 DEF Desert
<1>15. CASE CloseIndex(r)
  BY <1>15 DEF CloseIndex
<1>16. CASE DiscardSession(r)
  BY <1>16 DEF DiscardSession
<1>17. CASE ReleaseSession(r)
  BY <1>17 DEF ReleaseSession
<1>18. CASE Evict(r)
  BY <1>18 DEF Evict
<1> QED BY <1>1, <1>2, <1>3, <1>4, <1>5, <1>6, <1>7, <1>8, <1>9, <1>10, <1>11,
      <1>12, <1>13, <1>14, <1>15, <1>16, <1>17, <1>18 DEF Handle

(* What every step of a handler has in common: it touches its own stage    *)
(* and the session it has leased, and nothing else.                        *)
StepOf(r) ==
  /\ stage[r] # "done" /\ stage'[r] # "new"
  /\ UNCHANGED <<previous, streamed>>
  /\ \A q \in Requests \ {r} :
       /\ stage'[q] = stage[q] /\ sess'[q] = sess[q]
       /\ q \in discard' <=> q \in discard
       /\ q \in keepIndex' <=> q \in keepIndex
  /\ stage[r] # "new" => sess'[r] = sess[r]
  /\ \/ stage[r] \in Leasing \/ stage'[r] \in Leasing \/ sess'[r] = None
  /\ \A s \in Requests \ {sess'[r]} :
       /\ committed'[s] = committed[s] /\ chain'[s] = chain[s]
       /\ s \in poisoned' <=> s \in poisoned
       /\ s \in resident' => s \in resident

LEMMA HandlerStep ==
  ASSUME IndInv, NEW r \in Requests, Handle(r)
  PROVE  StepOf(r)
<1> USE DEF IndInv, TypeOK, HandlerFacts, StepOf, Leasing, Go, sessionVars
<1>1. CASE CreateSession(r)
  BY <1>1 DEF CreateSession
<1>2. CASE Continue(r)
  BY <1>2 DEF Continue
<1>3. CASE Unknown(r)
  BY <1>3 DEF Unknown
<1>4. CASE IndexResponse(r)
  BY <1>4 DEF IndexResponse
<1>5. CASE PrepareResponsesRequest(r)
  BY <1>5 DEF PrepareResponsesRequest
<1>6. CASE RejectStale(r)
  BY <1>6 DEF RejectStale
<1>7. CASE Generate(r)
  BY <1>7 DEF Generate
<1>8. CASE GenerateFails(r)
  BY <1>8 DEF GenerateFails
<1>9. CASE GeneratePoisons(r)
  BY <1>9 DEF GeneratePoisons
<1>10. CASE StreamTailFails(r)
  BY <1>10 DEF StreamTailFails
<1>11. CASE CommitResponsesRequest(r)
  BY <1>11 DEF CommitResponsesRequest
<1>12. CASE Respond(r)
  BY <1>12 DEF Respond
<1>13. CASE Throw(r)
  BY <1>13 DEF Throw
<1>14. CASE Desert(r)
  BY <1>14 DEF Desert
<1>15. CASE CloseIndex(r)
  BY <1>15 DEF CloseIndex
<1>16. CASE DiscardSession(r)
  BY <1>16 DEF DiscardSession
<1>17. CASE ReleaseSession(r)
  BY <1>17 DEF ReleaseSession
<1> QED BY <1>1, <1>2, <1>3, <1>4, <1>5, <1>6, <1>7, <1>8, <1>9, <1>10, <1>11,
      <1>12, <1>13, <1>14, <1>15, <1>16, <1>17 DEF Handle

(* Steps that leave the chains alone keep what is known of their turns.    *)
LEMMA TurnFrame ==
  ASSUME IndInv, NEW r \in Requests, StepOf(r), UNCHANGED chain,
         stage[r] \in Answered => stage'[r] \in Answered,
         stage'[r] = "prepared" => stage[r] # "new" /\ previous[r] = Latest(sess[r]),
         stage'[r] = "generated" => stage[r] = "prepared",
         stage'[r] # "committed",
         r \in keepIndex' => r \in keepIndex \/ stage[r] = "committed",
         keepIndex' \subseteq Requests
  PROVE  TurnFacts'
<1>1. ASSUME NEW s \in Requests, NEW i \in DOMAIN chain[s]
      PROVE  sess'[chain[s][i]] = s /\ stage'[chain[s][i]] \in Answered
  <2>1. chain[s][i] \in Requests
    BY DEF IndInv, TypeOK
  <2>2. sess[chain[s][i]] = s /\ stage[chain[s][i]] \in Answered
    BY DEF IndInv, TurnFacts
  <2> QED BY <2>1, <2>2 DEF StepOf, Answered, Closed
<1>2. ASSUME NEW q \in keepIndex'
      PROVE  InChain(sess[q], q)'
  <2>1. q \in Requests /\ (q \in keepIndex \/ (q = r /\ stage[r] = "committed"))
    BY DEF StepOf, IndInv, TypeOK
  <2>2. InChain(sess[q], q)
    BY <2>1 DEF IndInv, TurnFacts
  <2>3. sess'[q] = sess[q]
    BY <2>1 DEF StepOf, IndInv, HandlerFacts, Working
  <2> QED BY <2>2, <2>3 DEF InChain
<1>3. ASSUME NEW q \in Requests, stage'[q] \in {"prepared", "generated"}
      PROVE  previous'[q] = Latest(sess[q])'
  BY <1>3 DEF StepOf, IndInv, TurnFacts, Latest
<1>4. ASSUME NEW q \in Requests, stage'[q] = "committed"
      PROVE  InChain(sess[q], q)'
  <2>1. q # r /\ stage[q] = "committed" /\ sess'[q] = sess[q]
    BY <1>4 DEF StepOf
  <2> QED BY <2>1 DEF IndInv, TurnFacts, InChain
<1> QED BY <1>1, <1>2, <1>3, <1>4 DEF TurnFacts, Latest, InChain

(* A new turn is a turn of its handler's session, and is not in any chain  *)
(* before.                                                                 *)
LEMMA CommitTurns ==
  ASSUME IndInv, NEW r \in Requests, CommitResponsesRequest(r)
  PROVE  TurnFacts' /\ Linear'
<1> DEFINE s == sess[r]
<1>1. /\ s \in Requests /\ stage[r] = "generated" /\ chain[s] \in Seq(Requests)
      /\ chain' = [chain EXCEPT ![s] = Append(chain[s], r)]
      /\ stage' = [stage EXCEPT ![r] = "committed"]
      /\ UNCHANGED <<previous, sess, keepIndex>>
  BY DEF IndInv, TypeOK, HandlerFacts, Leasing, CommitResponsesRequest, Go
<1>2. /\ \A t \in Requests \ {s} : chain'[t] = chain[t]
      /\ chain'[s] = Append(chain[s], r)
      /\ \A t \in Requests : chain[t] \in Seq(Requests)
      /\ stage'[r] = "committed" /\ \A q \in Requests \ {r} : stage'[q] = stage[q]
  BY <1>1 DEF IndInv, TypeOK
<1> HIDE DEF s
<1>3. /\ DOMAIN chain'[s] = 1..(Len(chain[s]) + 1)
      /\ DOMAIN chain[s] = 1..Len(chain[s]) /\ Len(chain[s]) \in Nat
      /\ \A i \in DOMAIN chain[s] : chain'[s][i] = chain[s][i]
      /\ chain'[s][Len(chain[s]) + 1] = r
  BY <1>1, <1>2
<1>4. \A t \in Requests : \A i \in DOMAIN chain[t] :
        /\ chain[t][i] \in Requests /\ chain[t][i] # r
        /\ sess[chain[t][i]] = t /\ stage[chain[t][i]] \in Answered
  BY <1>1, <1>2 DEF IndInv, TurnFacts, Answered, Closed
<1>5. previous[r] = Latest(s)
  BY <1>1 DEF s, IndInv, TurnFacts
<1>6. \A t \in Requests : \A q : InChain(t, q) => InChain(t, q)'
  <2> SUFFICES ASSUME NEW t \in Requests, NEW q, NEW i \in DOMAIN chain[t],
                      chain[t][i] = q
               PROVE  \E j \in DOMAIN chain'[t] : chain'[t][j] = q
    BY DEF InChain
  <2>1. CASE t = s
    BY <1>3, <2>1
  <2>2. CASE t # s
    BY <1>2, <2>2
  <2> QED BY <2>1, <2>2
<1>7. InChain(s, r)'
  BY <1>3, <1>1 DEF InChain, s
<1>8. TurnFacts'
  <2>1. ASSUME NEW t \in Requests, NEW i \in DOMAIN chain'[t]
        PROVE  sess'[chain'[t][i]] = t /\ stage'[chain'[t][i]] \in Answered
    <3>1. CASE t = s /\ i = Len(chain[s]) + 1
      BY <1>1, <1>2, <1>3, <3>1 DEF s, Answered
    <3>2. CASE ~(t = s /\ i = Len(chain[s]) + 1)
      <4>1. i \in DOMAIN chain[t] /\ chain'[t][i] = chain[t][i]
        BY <1>2, <1>3, <2>1, <3>2
      <4> QED BY <1>1, <1>2, <1>4, <4>1
    <3> QED BY <3>1, <3>2
  <2>2. ASSUME NEW q \in keepIndex'
        PROVE  InChain(sess[q], q)'
    <3>1. q \in keepIndex /\ q \in Requests /\ InChain(sess[q], q)
      BY <1>1 DEF IndInv, TypeOK, TurnFacts
    <3>2. sess[q] \in Requests
      BY <3>1 DEF IndInv, HandlerFacts
    <3> QED BY <1>6, <1>1, <3>1, <3>2 DEF InChain
  <2>3. ASSUME NEW q \in Requests, stage'[q] \in {"prepared", "generated"}
        PROVE  previous[q] = Latest(sess[q])'
    <3>1. q # r /\ stage[q] \in {"prepared", "generated"}
      BY <1>2, <2>3
    <3>2. sess[q] # s /\ sess[q] \in Requests
      BY <1>1, <3>1 DEF s, IndInv, HandlerFacts, SessionFacts, Leasing
    <3>3. previous[q] = Latest(sess[q])
      BY <3>1 DEF IndInv, TurnFacts
    <3> QED BY <1>1, <1>2, <3>2, <3>3 DEF Latest
  <2>4. ASSUME NEW q \in Requests, stage'[q] = "committed"
        PROVE  InChain(sess[q], q)'
    <3>1. CASE q = r
      BY <1>1, <1>7, <3>1 DEF s, InChain
    <3>2. CASE q # r
      <4>1. stage[q] = "committed" /\ InChain(sess[q], q) /\ sess[q] \in Requests
        BY <1>2, <2>4, <3>2 DEF IndInv, TurnFacts, HandlerFacts, Leasing
      <4> QED BY <1>1, <1>6, <4>1 DEF InChain
    <3> QED BY <3>1, <3>2
  <2> QED BY <1>1, <2>1, <2>2, <2>3, <2>4 DEF TurnFacts, Latest, InChain
<1>9. Linear'
  <2> SUFFICES ASSUME NEW t \in Requests, NEW i \in DOMAIN chain'[t]
               PROVE  /\ previous[chain'[t][i]] = IF i = 1 THEN None ELSE chain'[t][i - 1]
                      /\ i = 1 => chain'[t][i] = t
                      /\ \A j \in DOMAIN chain'[t] :
                           chain'[t][i] = chain'[t][j] => i = j
    BY <1>1 DEF Linear
  <2>1. CASE t # s
    BY <1>2, <2>1 DEF IndInv, Linear
  <2>2. CASE t = s /\ i # Len(chain[s]) + 1
    <3>1. i \in DOMAIN chain[s] /\ chain'[s][i] = chain[s][i]
      BY <1>3, <2>2
    <3>2. i # 1 => i - 1 \in DOMAIN chain[s] /\ chain'[s][i - 1] = chain[s][i - 1]
      BY <1>3, <3>1
    <3>3. \A j \in DOMAIN chain'[s] : chain[s][i] = chain'[s][j] => i = j
      BY <1>1, <1>3, <1>4, <3>1 DEF IndInv, Linear
    <3> QED BY <1>1, <2>2, <3>1, <3>2, <3>3 DEF IndInv, Linear
  <2>3. CASE t = s /\ i = Len(chain[s]) + 1
    <3>1. chain'[t][i] = r
      BY <1>3, <2>3
    <3>2. \A j \in DOMAIN chain'[s] : chain'[s][j] = r => j = i
      BY <1>1, <1>3, <1>4, <2>3
    <3>3. CASE chain[s] = <<>>
      <4>1. previous[r] = None /\ i = 1
        BY <1>5, <2>3, <3>3 DEF Latest
      <4>2. s = r
        BY <1>1, <4>1, ChainAssumption DEF s, IndInv, SessionFacts, ChainAssumption
      <4> QED BY <2>3, <3>1, <3>2, <4>1, <4>2
    <3>4. CASE chain[s] # <<>>
      <4>1. Len(chain[s]) \in DOMAIN chain[s]
        BY <1>1, <1>3, <3>4
      <4>2. i # 1 /\ i - 1 = Len(chain[s]) /\ chain'[s][i - 1] = chain[s][Len(chain[s])]
        BY <1>3, <2>3, <4>1
      <4>3. previous[r] = chain[s][Len(chain[s])]
        BY <1>5, <3>4 DEF Latest, Last
      <4> QED BY <2>3, <3>1, <3>2, <4>2, <4>3
    <3> QED BY <3>3, <3>4
  <2> QED BY <2>1, <2>2, <2>3
<1> QED BY <1>8, <1>9

(* A session stays settled while another handler, or one that does not end,*)
(* takes a step.                                                           *)
LEMMA SettledKept ==
  ASSUME NEW r \in Requests, StepOf(r), NEW s \in Requests, Settled(s),
         committed'[s] = committed[s], chain'[s] = chain[s]
  PROVE  Settled(s)'
BY DEF Settled, AheadBy, StepOf

(* A step changes the cache of one session at most, so what remains to be  *)
(* shown of a step is what it makes of that session.                       *)
Left(r) == sess[r] \in resident => sess[r] \notin poisoned /\ Settled(sess[r])

LEMMA CacheFrame ==
  ASSUME IndInv, NEW r \in Requests, StepOf(r), SessionFacts', TypeOK',
         stage'[r] \in Leasing => CacheAt(r)',
         stage'[r] \notin Leasing => Left(r)'
  PROVE  CacheFacts'
<1>1. ASSUME NEW s \in Requests, stage'[s] = "new"
      PROVE  committed'[s] = <<>> /\ s \notin poisoned'
  <2>1. s # r /\ stage[s] = "new" /\ s # sess'[r]
    BY <1>1, ChainAssumption DEF StepOf, SessionFacts, ChainAssumption
  <2> QED BY <2>1 DEF StepOf, IndInv, CacheFacts
<1>2. ASSUME NEW s \in resident', ~Busy(s)'
      PROVE  s \notin poisoned' /\ Settled(s)'
  <2>0. s \in Requests
    BY DEF TypeOK
  <2>1. CASE s = sess'[r]
    <3>1. stage'[r] \notin Leasing
      BY <1>2, <2>1 DEF Busy
    <3>2. Left(r)'
      BY <3>1
    <3>3. Settled(s)' <=> Settled(sess[r])'
      BY <2>1 DEF Settled, AheadBy
    <3> QED BY <1>2, <2>1, <3>2, <3>3 DEF Left
  <2>2. CASE s # sess'[r]
    <3>1. /\ s \in resident /\ committed'[s] = committed[s] /\ chain'[s] = chain[s]
          /\ s \in poisoned' <=> s \in poisoned
      BY <2>0, <2>2 DEF StepOf
    <3>2. ~Busy(s)
      BY <1>2, <2>2 DEF Busy, StepOf, Leasing
    <3> QED BY <2>0, <3>1, <3>2, SettledKept DEF IndInv, CacheFacts
  <2> QED BY <2>1, <2>2
<1>3. ASSUME NEW q \in Requests
      PROVE  CacheAt(q)'
  <2>1. CASE stage'[q] \notin Leasing
    BY <2>1 DEF CacheAt, Leasing
  <2>2. CASE q = r /\ stage'[q] \in Leasing
    BY <2>2
  <2>3. CASE q # r /\ stage'[q] \in Leasing
    <3>1. /\ stage'[q] = stage[q] /\ sess'[q] = sess[q]
          /\ q \in discard' <=> q \in discard
          /\ q \in keepIndex' <=> q \in keepIndex
          /\ sess[q] \in Requests
      BY <2>3 DEF StepOf, IndInv, HandlerFacts
    <3> PICK s \in Requests : s = sess[q]
      BY <3>1
    <3>2. s # sess'[r]
      BY <2>3, <3>1, ChainAssumption
      DEF StepOf, IndInv, SessionFacts, ChainAssumption, Leasing
    <3>3. /\ committed'[s] = committed[s] /\ chain'[s] = chain[s]
          /\ s \in poisoned' <=> s \in poisoned
      BY <3>1, <3>2 DEF StepOf
    <3>4. Settled(s) => Settled(s)'
      BY <3>1, <3>3, SettledKept
    <3>5. CacheAt(q)
      BY DEF IndInv, CacheFacts
    <3>6. AheadBy(s, q) => AheadBy(s, q)'
      BY <3>1, <3>3 DEF AheadBy, StepOf
    <3>7. sess'[q] = s
      BY <3>1
    <3>8. CacheAt(q) <=>
            /\ stage[q] \in {"leased", "indexed", "prepared"} =>
                 s \notin poisoned /\ Settled(s)
            /\ stage[q] = "generated" =>
                 s \notin poisoned /\ committed[s] = Append(chain[s], q)
            /\ stage[q] = "committed" =>
                 s \notin poisoned /\ committed[s] = chain[s]
            /\ stage[q] \in {"closing", "releasing"} /\ q \notin discard =>
                 s \notin poisoned /\ (Settled(s) \/ AheadBy(s, q))
      BY DEF CacheAt
    <3>9. CacheAt(q)' <=>
            /\ stage'[q] \in {"leased", "indexed", "prepared"} =>
                 s \notin poisoned' /\ Settled(s)'
            /\ stage'[q] = "generated" =>
                 s \notin poisoned' /\ committed'[s] = Append(chain'[s], q)
            /\ stage'[q] = "committed" =>
                 s \notin poisoned' /\ committed'[s] = chain'[s]
            /\ stage'[q] \in {"closing", "releasing"} /\ q \notin discard' =>
                 s \notin poisoned' /\ (Settled(s)' \/ AheadBy(s, q)')
      <4>1. Settled(sess[q])' <=> Settled(s)'
        BY <3>7 DEF Settled, AheadBy
      <4>2. AheadBy(sess[q], q)' <=> AheadBy(s, q)'
        BY <3>7 DEF AheadBy
      <4> QED BY <3>7, <4>1, <4>2 DEF CacheAt
    <3> QED BY <3>1, <3>3, <3>4, <3>5, <3>6, <3>8, <3>9
  <2> QED BY <2>1, <2>2, <2>3
<1> QED BY <1>1, <1>2, <1>3 DEF CacheFacts

(* A session that was settled when it was leased is so until a turn is     *)
(* generated.                                                              *)
LEMMA QuietCache ==
  ASSUME IndInv, NEW r \in Requests, StepOf(r),
         UNCHANGED <<committed, chain, poisoned>>,
         stage[r] \in {"leased", "indexed", "prepared"},
         stage'[r] \in {"indexed", "prepared", "closing"}
  PROVE  CacheAt(r)'
<1> PICK s \in Requests : s = sess[r]
  BY DEF IndInv, HandlerFacts, Leasing
<1>1. s \notin poisoned /\ Settled(s)
  BY DEF IndInv, CacheFacts, CacheAt
<1>2. Settled(s)'
  BY <1>1, SettledKept
<1>3. sess'[r] = s
  BY DEF StepOf
<1>4. Settled(sess[r])'
  BY <1>2, <1>3 DEF Settled, AheadBy
<1> QED BY <1>1, <1>3, <1>4 DEF CacheAt

(* Each step of a handler leaves the caches as CacheFacts says.            *)
LEMMA CacheStep ==
  ASSUME IndInv, NEW r \in Requests, Handle(r), TypeOK', SessionFacts'
  PROVE  CacheFacts'
<1>1. StepOf(r)
  BY HandlerStep
<1> SUFFICES /\ stage'[r] \in Leasing => CacheAt(r)'
             /\ stage'[r] \notin Leasing => Left(r)'
  BY <1>1, CacheFrame
<1> USE <1>1
<1>2. CASE CreateSession(r)
  <2>1. stage[r] = "new" /\ stage'[r] = "leased" /\ sess'[r] = r
    BY <1>2 DEF CreateSession, Go, IndInv, TypeOK
  <2>2. committed[r] = <<>> /\ r \notin poisoned
    BY <2>1 DEF IndInv, CacheFacts
  <2>3. chain[r] = <<>>
    <3>1. \A i \in DOMAIN chain[r] : FALSE
      BY <2>1, ChainAssumption
      DEF IndInv, TypeOK, TurnFacts, SessionFacts, ChainAssumption
    <3>2. chain[r] \in Seq(Requests)
      BY DEF IndInv, TypeOK
    <3>3. chain[r] # <<>> => Len(chain[r]) \in DOMAIN chain[r]
      BY <3>2
    <3> QED BY <3>1, <3>3
  <2>4. UNCHANGED <<committed, chain, poisoned>>
    BY <1>2 DEF CreateSession
  <2>5. Settled(sess[r])'
    BY <2>1, <2>2, <2>3, <2>4 DEF Settled
  <2> QED BY <2>1, <2>2, <2>4, <2>5 DEF CacheAt, Leasing
<1>3. CASE Continue(r)
  <2> PICK s \in Requests : s = index[previous[r]]
    BY <1>3 DEF Continue, IndInv, TypeOK
  <2>1. stage'[r] = "leased" /\ sess'[r] = s /\ ~Busy(s)
    BY <1>3 DEF Continue, Go, IndInv, TypeOK
  <2>2. s \in resident
    BY <1>3 DEF Continue, IndInv, TypeOK, SessionFacts
  <2>3. s \notin poisoned /\ Settled(s)
    BY <2>1, <2>2 DEF IndInv, CacheFacts
  <2>4. UNCHANGED <<committed, chain, poisoned>>
    BY <1>3 DEF Continue, sessionVars
  <2>5. Settled(s)'
    BY <2>3, <2>4, SettledKept
  <2>6. Settled(sess[r])'
    BY <2>1, <2>5 DEF Settled, AheadBy
  <2> QED BY <2>1, <2>3, <2>4, <2>6 DEF CacheAt, Leasing
<1>4. CASE Unknown(r)
  <2>1. stage'[r] = "done" /\ sess'[r] = None
    BY <1>4 DEF Unknown, Go, IndInv, TypeOK, HandlerFacts
  <2>2. sess'[r] \notin resident'
    BY <2>1, ChainAssumption DEF TypeOK, ChainAssumption
  <2> QED BY <2>1, <2>2 DEF Left, Leasing
<1>5. CASE \/ IndexResponse(r) \/ PrepareResponsesRequest(r) \/ RejectStale(r)
           \/ GenerateFails(r) \/ Desert(r)
  <2>1. /\ UNCHANGED <<committed, chain, poisoned>>
        /\ stage[r] \in {"leased", "indexed", "prepared"}
        /\ stage'[r] \in {"indexed", "prepared", "closing"}
    BY <1>5 DEF IndexResponse, PrepareResponsesRequest, RejectStale,
       GenerateFails, Desert, Go, sessionVars, IndInv, TypeOK
  <2> QED BY <2>1, QuietCache DEF Leasing
<1>6. CASE stage[r] \in Leasing
  <2> PICK s \in Requests : s = sess[r]
    BY <1>6 DEF IndInv, HandlerFacts
  <2>1. sess'[r] = s
    BY <1>6 DEF StepOf, Leasing
  <2>2. CacheAt(r)
    BY DEF IndInv, CacheFacts
  <2>3. Settled(s)' <=> Settled(sess[r])'
    BY <2>1 DEF Settled, AheadBy
  <2>4. CASE Generate(r)
    <3>1. stage'[r] = "generated" /\ chain' = chain /\ poisoned' = poisoned
      BY <2>4 DEF Generate, Go, IndInv, TypeOK
    <3>2. committed'[s] = Append(chain[s], r)
      BY <2>4 DEF Generate, IndInv, TypeOK
    <3>3. s \notin poisoned
      BY <2>2, <2>4 DEF CacheAt, Generate, Go
    <3> QED BY <2>1, <3>1, <3>2, <3>3 DEF CacheAt, Leasing
  <2>5. CASE GeneratePoisons(r) \/ Throw(r)
    <3>1. stage'[r] = "closing" /\ r \in discard'
      BY <2>5 DEF GeneratePoisons, Throw, Go, IndInv, TypeOK
    <3> QED BY <3>1 DEF CacheAt, Leasing
  <2>6. CASE StreamTailFails(r)
    <3>1. /\ stage[r] = "generated" /\ stage'[r] = "closing" /\ streamed[r]
          /\ UNCHANGED <<committed, chain, poisoned, streamed, keepIndex>>
      BY <2>6 DEF StreamTailFails, Go, sessionVars, IndInv, TypeOK
    <3>2. r \notin keepIndex
      BY <3>1 DEF IndInv, HandlerFacts, Working
    <3>3. s \notin poisoned /\ AheadBy(s, r)
      BY <2>2, <3>1, <3>2 DEF CacheAt, AheadBy
    <3>4. AheadBy(sess[r], r)'
      BY <2>1, <3>1, <3>3 DEF AheadBy
    <3> QED BY <2>1, <3>1, <3>3, <3>4 DEF CacheAt, Leasing
  <2>7. CASE CommitResponsesRequest(r)
    <3>1. /\ stage[r] = "generated" /\ stage'[r] = "committed"
          /\ UNCHANGED <<committed, poisoned>>
      BY <2>7 DEF CommitResponsesRequest, Go, IndInv, TypeOK
    <3>2. chain'[s] = Append(chain[s], r)
      BY <2>7 DEF CommitResponsesRequest, IndInv, TypeOK
    <3>3. s \notin poisoned /\ committed[s] = Append(chain[s], r)
      BY <2>2, <3>1 DEF CacheAt
    <3> QED BY <2>1, <3>1, <3>2, <3>3 DEF CacheAt, Leasing
  <2>8. CASE Respond(r)
    <3>1. /\ stage[r] = "committed" /\ stage'[r] = "closing"
          /\ UNCHANGED <<committed, chain, poisoned>>
      BY <2>8 DEF Respond, Go, sessionVars, IndInv, TypeOK
    <3>2. s \notin poisoned /\ committed[s] = chain[s]
      BY <2>2, <3>1 DEF CacheAt
    <3>3. Settled(sess[r])'
      BY <2>1, <3>1, <3>2 DEF Settled
    <3> QED BY <2>1, <3>1, <3>2, <3>3 DEF CacheAt, Leasing
  <2>9. CASE CloseIndex(r)
    <3>1. /\ stage[r] = "closing" /\ UNCHANGED <<committed, chain, poisoned>>
          /\ UNCHANGED <<streamed, keepIndex, discard>>
          /\ stage'[r] = IF r \in discard THEN "discarding" ELSE "releasing"
      BY <2>9 DEF CloseIndex, Go, IndInv, TypeOK
    <3>2. r \notin discard => s \notin poisoned /\ (Settled(s) \/ AheadBy(s, r))
      BY <2>2, <3>1 DEF CacheAt
    <3>3. Settled(s) => Settled(sess[r])'
      BY <2>3, <3>1, SettledKept
    <3>4. AheadBy(s, r) => AheadBy(sess[r], r)'
      BY <2>1, <3>1 DEF AheadBy
    <3> QED BY <2>1, <3>1, <3>2, <3>3, <3>4 DEF CacheAt, Leasing
  <2>10. CASE DiscardSession(r)
    <3>1. stage'[r] = "releasing" /\ r \in discard'
      BY <2>10 DEF DiscardSession, Go, IndInv, TypeOK, HandlerFacts
    <3> QED BY <3>1 DEF CacheAt, Leasing
  <2>11. CASE ReleaseSession(r)
    <3>1. /\ stage[r] = "releasing" /\ stage'[r] = "done"
          /\ UNCHANGED <<resident, committed, chain, poisoned, discard, streamed, keepIndex>>
      BY <2>11 DEF ReleaseSession, Go, sessionVars, IndInv, TypeOK
    <3>2. SUFFICES ASSUME s \in resident PROVE s \notin poisoned /\ Settled(s)'
      BY <2>1, <2>3, <3>1 DEF Left, Leasing
    <3>3. r \notin discard
      BY <3>1, <3>2 DEF IndInv, SessionFacts
    <3>4. s \notin poisoned /\ (Settled(s) \/ AheadBy(s, r))
      BY <2>2, <3>1, <3>3 DEF CacheAt
    <3>5. Settled(s) => Settled(s)'
      BY <3>1, SettledKept
    <3>6. AheadBy(s, r) => Settled(s)'
      BY <3>1 DEF Settled, AheadBy
    <3> QED BY <3>4, <3>5, <3>6
  <2> QED
    BY <1>5, <1>6, <2>4, <2>5, <2>6, <2>7, <2>8, <2>9, <2>10, <2>11
    DEF Handle, CreateSession, Continue, Unknown, Go, Leasing
<1>7. stage[r] \notin Leasing => CreateSession(r) \/ Continue(r) \/ Unknown(r)
  BY DEF Handle, IndexResponse, PrepareResponsesRequest, RejectStale, Generate,
     GenerateFails, GeneratePoisons, StreamTailFails, CommitResponsesRequest,
     Respond, Throw, Desert, CloseIndex, DiscardSession, ReleaseSession, Go, Leasing
<1> QED BY <1>2, <1>3, <1>4, <1>6, <1>7

(* The turns after each step of a handler.                                 *)
LEMMA TurnStep ==
  ASSUME IndInv, NEW r \in Requests, Handle(r), TypeOK'
  PROVE  TurnFacts' /\ Linear'
<1>1. StepOf(r)
  BY HandlerStep
<1>2. CASE CommitResponsesRequest(r)
  BY <1>2, CommitTurns
<1>3. CASE ~CommitResponsesRequest(r)
  <2>1. /\ UNCHANGED chain
        /\ stage[r] \in Answered => stage'[r] \in Answered
        /\ stage'[r] = "prepared" => stage[r] # "new" /\ previous[r] = Latest(sess[r])
        /\ stage'[r] = "generated" => stage[r] = "prepared"
        /\ stage'[r] # "committed"
        /\ r \in keepIndex' => r \in keepIndex \/ stage[r] = "committed"
    BY <1>3 DEF Handle, CreateSession, Continue, Unknown, IndexResponse,
       PrepareResponsesRequest, RejectStale, Generate, GenerateFails,
       GeneratePoisons, StreamTailFails, Respond, Throw, Desert, CloseIndex,
       DiscardSession, ReleaseSession, Go, IsLatest, sessionVars, Answered, Closed,
       IndInv, TypeOK
  <2>2. TurnFacts'
    BY <1>1, <2>1, TurnFrame DEF TypeOK
  <2>3. Linear'
    BY <1>1, <2>1 DEF StepOf, IndInv, Linear
  <2> QED BY <2>2, <2>3
<1> QED BY <1>2, <1>3

-----------------------------------------------------------------------------
(* Taking a session out of the pool leaves every turn and cache as it was. *)
LEMMA EvictStep ==
  ASSUME IndInv, NEW s \in Requests, Evict(s)
  PROVE  TurnFacts' /\ Linear' /\ CacheFacts'
<1>1. UNCHANGED <<handlerVars, chain, committed, poisoned>> /\ resident' \subseteq resident
  BY DEF Evict
<1>2. TurnFacts' /\ Linear'
  BY <1>1 DEF IndInv, TurnFacts, Linear, InChain, Latest, handlerVars
<1>3. \A t \in Requests : Settled(t)' <=> Settled(t)
  BY <1>1 DEF Settled, AheadBy, handlerVars
<1>4. \A t \in Requests : Busy(t)' <=> Busy(t)
  BY <1>1 DEF Busy, handlerVars
<1>5. \A r \in Requests : CacheAt(r) => CacheAt(r)'
  BY <1>1 DEF CacheAt, Settled, AheadBy, handlerVars
<1>6. CacheFacts'
  BY <1>1, <1>3, <1>4, <1>5 DEF IndInv, TypeOK, CacheFacts, handlerVars
<1> QED BY <1>2, <1>6

(* The invariant holds before any request arrives.                         *)
LEMMA InitIndInv == Init => IndInv
<1> SUFFICES ASSUME Init PROVE IndInv OBVIOUS
<1>1. TypeOK
  BY DEF Init, TypeOK, Stages
<1>2. HandlerFacts
  BY DEF Init, HandlerFacts, Leasing, Working, Closed
<1>3. SessionFacts
  BY DEF Init, SessionFacts, Leasing
<1>4. TurnFacts /\ Linear
  BY DEF Init, TurnFacts, Linear
<1>5. CacheFacts
  BY DEF Init, CacheFacts, CacheAt
<1> QED BY <1>1, <1>2, <1>3, <1>4, <1>5 DEF IndInv

(* Every step keeps it.                                                    *)
LEMMA IndInvStep == IndInv /\ [Next]_vars => IndInv'
<1> SUFFICES ASSUME IndInv, [Next]_vars PROVE IndInv' OBVIOUS
<1>1. CASE UNCHANGED vars
  <2> USE <1>1 DEF vars, handlerVars, sessionVars, IndInv
  <2>1. TypeOK' /\ HandlerFacts' /\ SessionFacts'
    BY DEF TypeOK, HandlerFacts, SessionFacts
  <2>2. TurnFacts' /\ Linear'
    BY DEF TurnFacts, Linear, InChain, Latest
  <2>3. CacheFacts'
    BY DEF CacheFacts, CacheAt, Settled, AheadBy, Busy
  <2> QED BY <2>1, <2>2, <2>3
<1>2. CASE Next
  <2> PICK r \in Requests : Handle(r) \/ Evict(r)
    BY <1>2 DEF Next
  <2>1. TypeOK' /\ HandlerFacts' /\ SessionFacts'
    BY TypeStep, HandlerFactsStep, SessionFactsStep
  <2>2. CASE Handle(r)
    BY <2>1, <2>2, TurnStep, CacheStep DEF IndInv
  <2>3. CASE Evict(r)
    BY <2>1, <2>3, EvictStep DEF IndInv
  <2> QED BY <2>2, <2>3
<1> QED BY <1>1, <1>2

(* So the invariant holds in every reachable state.                        *)
LEMMA IndInvAlways == Spec => []IndInv
BY InitIndInv, IndInvStep, PTL DEF Spec

-----------------------------------------------------------------------------
(* The handlers, the index and the sessions keep their types.              *)
THEOREM TypeCorrect == Spec => []TypeOK
<1>1. IndInv => TypeOK
  BY DEF IndInv
<1> QED BY <1>1, IndInvAlways, PTL

(* Between turns a session of the pool is clean, and its KV cache holds    *)
(* the conversation of its chain or that of one failed stream more         *)
(* (CommitResponsesRequest, ResponsesStream::Generate, ~SessionLease).     *)
THEOREM ChainAlwaysMatches == Spec => []ChainMatchesSession
<1>1. IndInv => ChainMatchesSession
  BY DEF IndInv, CacheFacts, ChainMatchesSession, Settled, AheadBy
<1> QED BY <1>1, IndInvAlways, PTL

(* No response is ever answered by two turns of a kept conversation: every *)
(* chain starts with its root and each turn continues the one before it    *)
(* (PrepareResponsesRequest, CommitResponsesRequest).                      *)
THEOREM HistoryAlwaysLinear == Spec => []LinearHistory
<1>1. IndInv => LinearHistory
  BY DEF IndInv, TypeOK, Linear, LinearHistory
<1> QED BY <1>1, IndInvAlways, PTL

(* An id that is still indexed after its handler has ended is a kept turn  *)
(* of the resident session it leads to (ResponseIndexGuard, ~ProviderState,*)
(* DiscardSession).                                                        *)
THEOREM IndexedAlwaysTurns == Spec => []IndexedTurns
<1>1. ASSUME IndInv PROVE IndexedTurns
  <2> SUFFICES ASSUME NEW p \in Requests, stage[p] = "done", index[p] # None
               PROVE  /\ index[p] \in resident /\ status[p] = "200"
                      /\ p \in Range(chain[index[p]])
    BY DEF IndexedTurns
  <2>1. p \in keepIndex /\ status[p] = "200"
    BY <1>1 DEF IndInv, HandlerFacts, Closed
  <2>2. index[p] = sess[p] /\ index[p] \in resident
    BY <1>1 DEF IndInv, SessionFacts
  <2>3. InChain(index[p], p)
    BY <1>1, <2>1, <2>2 DEF IndInv, TurnFacts
  <2> QED BY <2>1, <2>2, <2>3 DEF InChain, Range
<1> QED BY <1>1, IndInvAlways, PTL

(* The conversation in a KV cache grows only by the turn of a request that *)
(* names its latest turn (ValidateContinuation), whatever failed, was      *)
(* deserted or thrown in between.                                          *)
THEOREM LatestAloneExtends == Spec => OnlyLatestExtends
<1> DEFINE Grows ==
      \A s \in Requests : committed'[s] # committed[s] =>
        \E r \in Requests :
          /\ committed'[s] = Append(committed[s], r)
          /\ previous[r] = IF committed[s] = <<>> THEN None ELSE Last(committed[s])
<1>1. ASSUME IndInv, [Next]_vars PROVE Grows
  <2> SUFFICES ASSUME NEW s \in Requests, committed'[s] # committed[s]
               PROVE  \E r \in Requests :
                        /\ committed'[s] = Append(committed[s], r)
                        /\ previous[r] = IF committed[s] = <<>> THEN None
                                         ELSE Last(committed[s])
    OBVIOUS
  <2>1. PICK r \in Requests : Generate(r)
    BY <1>1 DEF Next, Handle, CreateSession, Continue, Unknown, IndexResponse,
       PrepareResponsesRequest, RejectStale, GenerateFails, GeneratePoisons,
       StreamTailFails, CommitResponsesRequest, Respond, Throw, Desert, CloseIndex,
       DiscardSession, ReleaseSession, Evict, vars, sessionVars
  <2>2. s = sess[r] /\ committed'[s] = Append(chain[s], r)
    BY <1>1, <2>1 DEF Generate, IndInv, TypeOK
  <2>3. chain[s] = committed[s] /\ previous[r] = Latest(s)
    BY <1>1, <2>1, <2>2 DEF Generate, Go, Extends, IndInv, TurnFacts
  <2> QED BY <2>2, <2>3 DEF Latest
<1>2. IndInv /\ [Next]_vars => [Grows]_vars
  BY <1>1
<1> HIDE DEF Grows
<1>3. Spec => [][Grows]_vars
  BY <1>2, IndInvAlways, PTL DEF Spec
<1> QED BY <1>3 DEF Grows, OnlyLatestExtends

-----------------------------------------------------------------------------
(* The refinement: what each step means to SessionPromise.                 *)

(* Only who has a session can have failed on it.                           *)
DiscardsHeld == \A r \in discard : sess[r] \in Requests

LEMMA DiscardsHeldStep ==
  ASSUME IndInv, DiscardsHeld, [Next]_vars PROVE DiscardsHeld'
<1>1. CASE UNCHANGED vars
  BY <1>1 DEF vars, handlerVars, DiscardsHeld
<1>2. ASSUME NEW r \in Requests, Handle(r) \/ Evict(r)
      PROVE  DiscardsHeld'
  <2> USE DEF IndInv, TypeOK, HandlerFacts, DiscardsHeld, Go, Leasing
  <2>1. CASE CreateSession(r) \/ Continue(r) \/ Unknown(r)
    <3>1. discard' = discard /\ r \notin discard /\ \A q \in Requests \ {r} : sess'[q] = sess[q]
      BY <2>1 DEF CreateSession, Continue, Unknown
    <3> QED BY <3>1
  <2>2. CASE GeneratePoisons(r) \/ Throw(r)
    BY <2>2 DEF GeneratePoisons, Throw
  <2>3. CASE UNCHANGED <<sess, discard>>
    BY <2>3
  <2> QED BY <1>2, <2>1, <2>2, <2>3 DEF Handle, Evict, IndexResponse, PrepareResponsesRequest,
      RejectStale, Generate, GenerateFails, StreamTailFails, CommitResponsesRequest, Respond,
      Desert, CloseIndex, DiscardSession, ReleaseSession, handlerVars
<1> QED BY <1>1, <1>2 DEF Next

(* Between lease and end only the index and the discards are promised.     *)
LEMMA PoolStutters ==
  ASSUME UNCHANGED <<previous, resident, index>>, Discarded' = Discarded, Serving' = Serving
  PROVE  UNCHANGED Pool!vars
<1>1. UNCHANGED Wanted /\ UNCHANGED Known
  BY DEF Wanted, Known
<1> QED BY <1>1 DEF Pool!vars

(* The steps in which a handler does something else. *)
HiddenStep(r) ==
  \/ Unknown(r) \/ PrepareResponsesRequest(r) \/ RejectStale(r) \/ Generate(r)
  \/ GenerateFails(r) \/ GeneratePoisons(r) \/ StreamTailFails(r) \/ CommitResponsesRequest(r)
  \/ Respond(r) \/ Throw(r) \/ Desert(r)

(* A handler goes on with its lease, or without ever having had one.       *)
LEMMA SameServing ==
  ASSUME TypeOK, NEW r \in Requests, NEW t \in Stages, stage' = [stage EXCEPT ![r] = t],
         stage[r] \in Leasing <=> t \in Leasing, UNCHANGED sess
  PROVE  Serving' = Serving
BY DEF Serving, TypeOK

LEMMA SameDiscarded ==
  ASSUME TypeOK, NEW r \in Requests, NEW t \in Stages, stage' = [stage EXCEPT ![r] = t],
         discard \subseteq discard', discard' \subseteq discard \cup {r},
         r \in discard => (stage[r] \in {"releasing", "done"} <=> t \in {"releasing", "done"}),
         r \in discard' \ discard => t \notin {"releasing", "done"},
         \A q \in Requests \ {r} : sess'[q] = sess[q],
         r \in discard => sess'[r] = sess[r]
  PROVE  Discarded' = Discarded
<1>1. \A q \in Requests : q \in discard' /\ stage'[q] \in {"releasing", "done"}
                            <=> q \in discard /\ stage[q] \in {"releasing", "done"}
  BY DEF TypeOK
<1>2. \A q \in discard : sess'[q] = sess[q]
  BY DEF TypeOK
<1> DEFINE ended == {q \in discard : stage[q] \in {"releasing", "done"}}
<1>3. {q \in discard' : stage'[q] \in {"releasing", "done"}} = ended
  BY <1>1 DEF TypeOK
<1>4. Discarded' = {sess'[q] : q \in ended}
  BY <1>3 DEF Discarded
<1>5. \A q \in ended : sess'[q] = sess[q]
  BY <1>2
<1> QED BY <1>4, <1>5 DEF Discarded

LEMMA HiddenStutters ==
  ASSUME IndInv, NEW r \in Requests, HiddenStep(r)
  PROVE  UNCHANGED Pool!vars
<1>1. UNCHANGED <<previous, resident, index, sess>>
  BY DEF HiddenStep, Unknown, PrepareResponsesRequest, RejectStale, Generate, GenerateFails,
     GeneratePoisons, StreamTailFails, CommitResponsesRequest, Respond, Throw, Desert,
     sessionVars
<1>2. PICK t \in Stages :
        /\ stage' = [stage EXCEPT ![r] = t] /\ (stage[r] \in Leasing <=> t \in Leasing)
        /\ stage[r] \notin {"releasing", "done"}
        /\ t \in {"releasing", "done"} => stage[r] = "new"
  <2>1. "done" \in Stages /\ "prepared" \in Stages /\ "closing" \in Stages
        /\ "generated" \in Stages /\ "committed" \in Stages
    BY DEF Stages, Leasing
  <2> USE <2>1 DEF Go, Leasing
  <2>2. CASE Unknown(r)
    BY <2>2 DEF Unknown
  <2>3. CASE PrepareResponsesRequest(r) \/ Generate(r) \/ CommitResponsesRequest(r)
    BY <2>3 DEF PrepareResponsesRequest, Generate, CommitResponsesRequest
  <2>4. CASE \/ RejectStale(r) \/ GenerateFails(r) \/ GeneratePoisons(r) \/ StreamTailFails(r)
             \/ Respond(r) \/ Throw(r) \/ Desert(r)
    BY <2>4 DEF RejectStale, GenerateFails, GeneratePoisons, StreamTailFails, Respond, Throw,
       Desert
  <2> QED BY <2>2, <2>3, <2>4 DEF HiddenStep
<1>3. discard' = discard \/ (discard' = discard \cup {r} /\ stage[r] # "new")
  BY DEF HiddenStep, Unknown, PrepareResponsesRequest, RejectStale, Generate, GenerateFails,
     GeneratePoisons, StreamTailFails, CommitResponsesRequest, Respond, Throw, Desert, Go
<1>4. stage[r] = "new" => r \notin discard
  BY DEF IndInv, HandlerFacts
<1>5. Discarded' = Discarded
  BY <1>1, <1>2, <1>3, <1>4, SameDiscarded DEF IndInv
<1>6. Serving' = Serving
  BY <1>1, <1>2, SameServing DEF IndInv
<1> QED BY <1>1, <1>5, <1>6, PoolStutters

(* The session of a handler that leases one.                               *)
LEMMA Leases ==
  ASSUME IndInv, NEW r \in Requests, stage[r] \in Leasing
  PROVE  /\ sess[r] \in Requests /\ sess[r] \in Pool!Names /\ <<r, sess[r]>> \in Serving
         /\ \A q \in Requests : stage[q] \in Leasing /\ sess[q] = sess[r] => q = r
         /\ stage[r] # "releasing" => sess[r] \in resident
BY DEF IndInv, HandlerFacts, SessionFacts, Serving, Pool!Names

(* No session is there and discarded.                                      *)
LEMMA DiscardedGone == ASSUME IndInv PROVE resident \cap Discarded = {}
BY DEF IndInv, TypeOK, SessionFacts, Discarded

LEMMA SameCardinality == \A S : Pool!Cardinality(S) = Cardinality(S)
BY DEF Pool!Cardinality, Cardinality

LEMMA PoolInit == Init => Pool!Init
<1> SUFFICES ASSUME Init PROVE Pool!Init
  OBVIOUS
<1>1. Wanted \in [Requests -> Pool!Names]
  BY DEF Init, Wanted, Pool!Names
<1>2. resident \cup Discarded = {} /\ Discarded = {} /\ Serving = {}
  BY DEF Init, Discarded, Serving, Leasing
<1>3. Known = {}
  BY ChainAssumption DEF Init, Known, ChainAssumption
<1> QED BY <1>1, <1>2, <1>3 DEF Pool!Init

(* A root opens the session it names, and finds a place for it. *)
LEMMA CreateOpens ==
  ASSUME IndInv, DiscardsHeld, NEW r \in Requests, CreateSession(r)
  PROVE  Pool!Open(r, r)
<1>1. /\ stage[r] = "new" /\ stage' = [stage EXCEPT ![r] = "leased"] /\ previous[r] = None
      /\ sess' = [sess EXCEPT ![r] = r] /\ resident' = resident \cup {r}
      /\ UNCHANGED <<previous, discard, index>>
  BY DEF CreateSession, Go
<1>2. "leased" \in Stages /\ "leased" \in Leasing /\ r \notin discard /\ sess[r] = None
  BY <1>1 DEF Stages, Leasing, IndInv, HandlerFacts
<1>3. \A q \in Requests \ {r} : sess'[q] = sess[q] /\ stage'[q] = stage[q]
  BY <1>1 DEF IndInv, TypeOK
<1>4. Discarded' = Discarded
  BY <1>1, <1>2, <1>3, SameDiscarded DEF IndInv
<1>5. stage'[r] = "leased" /\ sess'[r] = r
  BY <1>1 DEF IndInv, TypeOK
<1>6. Serving' = Serving \cup {<<r, r>>}
  <2>1. \A q, n \in Requests : stage'[q] \in Leasing /\ sess'[q] = n
                                 <=> (stage[q] \in Leasing /\ sess[q] = n) \/ (q = r /\ n = r)
    BY <1>1, <1>2, <1>3, <1>5 DEF Leasing
  <2>2. Serving' \subseteq Serving \cup {<<r, r>>}
    BY <2>1 DEF Serving
  <2>3. Serving \cup {<<r, r>>} \subseteq Serving'
    BY <2>1 DEF Serving
  <2> QED BY <2>2, <2>3
<1>7. resident \cup Discarded \subseteq Requests \ {r}
  <2>1. Discarded \subseteq Requests
    BY DEF Discarded, DiscardsHeld
  <2>2. resident \subseteq Requests \ {r}
    BY <1>1 DEF IndInv, TypeOK, SessionFacts
  <2>3. r \notin Discarded
    <3> SUFFICES ASSUME NEW q \in discard, sess[q] = r PROVE FALSE
      BY DEF Discarded
    <3> QED BY <1>1, ChainAssumption DEF IndInv, TypeOK, SessionFacts, ChainAssumption
  <2> QED BY <2>1, <2>2, <2>3
<1>8. Cardinality(resident \cup Discarded) < Cardinality(Requests)
  <2>1. IsFiniteSet(Requests)
    BY ChainAssumption DEF ChainAssumption
  <2>2. /\ IsFiniteSet(Requests \ {r})
        /\ Cardinality(Requests \ {r}) = Cardinality(Requests) - 1
    BY <2>1, FS_RemoveElement
  <2>3. /\ Cardinality(resident \cup Discarded) <= Cardinality(Requests \ {r})
        /\ IsFiniteSet(resident \cup Discarded)
    BY <1>7, <2>2, FS_Subset
  <2> QED BY <2>1, <2>2, <2>3, FS_CardinalityType
<1>9. Wanted[r] = r /\ UNCHANGED Wanted /\ UNCHANGED Known
  BY <1>1 DEF Wanted, Known
<1>10. ~Pool!Served(r) /\ ~Pool!Continues(r)
  BY <1>1, <1>9 DEF Pool!Served, Pool!Continues, Serving, Leasing
<1>11. (resident \cup Discarded)' = (resident \cup Discarded) \cup {r}
  BY <1>1, <1>4
<1>12. r \notin resident \cup Discarded
  BY <1>7
<1> QED BY <1>4, <1>6, <1>8, <1>9, <1>10, <1>11, <1>12, SameCardinality DEF Pool!Open

(* A continuation waits for the session of the response it names. *)
LEMMA ContinueServes ==
  ASSUME IndInv, NEW r \in Requests, Continue(r)
  PROVE  \E n \in Pool!Names : Pool!Serve(r, n)
<1> DEFINE n == index[previous[r]]
<1>1. /\ stage[r] = "new" /\ stage' = [stage EXCEPT ![r] = "leased"] /\ previous[r] # None
      /\ n # None /\ ~Busy(n) /\ sess' = [sess EXCEPT ![r] = n]
      /\ UNCHANGED <<previous, discard, resident, index>>
  BY DEF Continue, Go, sessionVars
<1>2. "leased" \in Stages /\ "leased" \in Leasing /\ r \notin discard /\ index[r] = None
  BY <1>1 DEF Stages, Leasing, IndInv, HandlerFacts
<1>3. /\ previous[r] \in Requests \ {r} /\ n \in Requests /\ n \in resident
  BY <1>1, <1>2 DEF IndInv, TypeOK, SessionFacts
<1>4. \A q \in Requests \ {r} : sess'[q] = sess[q] /\ stage'[q] = stage[q]
  BY <1>1 DEF IndInv, TypeOK
<1>5. stage'[r] = "leased" /\ sess'[r] = n
  BY <1>1 DEF IndInv, TypeOK
<1> HIDE DEF n
<1>6. Discarded' = Discarded
  BY <1>1, <1>2, <1>4, SameDiscarded DEF IndInv
<1>7. Serving' = Serving \cup {<<r, n>>}
  <2>1. \A q, m \in Requests : stage'[q] \in Leasing /\ sess'[q] = m
                                 <=> (stage[q] \in Leasing /\ sess[q] = m) \/ (q = r /\ m = n)
    BY <1>1, <1>2, <1>4, <1>5 DEF Leasing
  <2>2. Serving' \subseteq Serving \cup {<<r, n>>}
    BY <2>1 DEF Serving
  <2>3. Serving \cup {<<r, n>>} \subseteq Serving'
    BY <1>3, <2>1 DEF Serving
  <2> QED BY <2>2, <2>3
<1>8. n \in (resident \cup Discarded) \ Discarded
  BY <1>3, DiscardedGone
<1>9. Pool!Idle(n)
  BY <1>1, <1>3 DEF Pool!Idle, Serving, Busy
<1>10. Wanted[r] = previous[r] /\ UNCHANGED Wanted /\ UNCHANGED Known
  BY <1>1 DEF Wanted, Known
<1>11. ~Pool!Served(r) /\ Pool!Continues(r) /\ <<Wanted[r], n>> \in Known
  BY <1>1, <1>3, <1>10 DEF Pool!Served, Pool!Continues, Serving, Known, Leasing, n
<1>12. n \in Pool!Names
  BY <1>3 DEF Pool!Names
<1>13. (resident \cup Discarded)' = resident \cup Discarded
  BY <1>1, <1>6
<1> QED BY <1>6, <1>7, <1>8, <1>9, <1>10, <1>11, <1>12, <1>13 DEF Pool!Serve

LEMMA IndexAnswers ==
  ASSUME IndInv, NEW r \in Requests, IndexResponse(r)
  PROVE  Pool!Answer(r, sess[r])
<1>1. /\ stage[r] = "leased" /\ stage' = [stage EXCEPT ![r] = "indexed"]
      /\ index' = [index EXCEPT ![r] = sess[r]] /\ index[r] = None
      /\ UNCHANGED <<previous, sess, discard, resident>>
  BY DEF IndexResponse, Go, IndInv, HandlerFacts
<1>2. /\ "indexed" \in Stages /\ "indexed" \in Leasing /\ "leased" \in Leasing
  BY DEF Stages, Leasing
<1>3. Discarded' = Discarded /\ Serving' = Serving
  BY <1>1, <1>2, SameDiscarded, SameServing DEF IndInv
<1>4. sess[r] \in Requests /\ sess[r] \in resident /\ <<r, sess[r]>> \in Serving
  BY <1>1, <1>2, Leases
<1>5. sess[r] \notin Discarded
  BY <1>4, DiscardedGone
<1>6. Known' = Known \cup {<<r, sess[r]>>}
  <2>1. \A p, m \in Requests : index'[p] = m <=> index[p] = m \/ (p = r /\ m = sess[r])
    BY <1>1, ChainAssumption DEF IndInv, TypeOK, ChainAssumption
  <2>2. Known' \subseteq Known \cup {<<r, sess[r]>>}
    BY <2>1 DEF Known
  <2>3. Known \cup {<<r, sess[r]>>} \subseteq Known'
    BY <1>4, <2>1 DEF Known
  <2> QED BY <2>2, <2>3
<1>7. UNCHANGED Wanted /\ (resident \cup Discarded)' = resident \cup Discarded
  BY <1>1, <1>3 DEF Wanted
<1> QED BY <1>3, <1>4, <1>5, <1>6, <1>7 DEF Pool!Answer

(* The guards of the handler take the response back, unless it is kept.    *)
LEMMA CloseWithdraws ==
  ASSUME IndInv, NEW r \in Requests, CloseIndex(r)
  PROVE  Pool!Withdraw(r, sess[r]) \/ UNCHANGED Pool!vars
<1> DEFINE t == IF r \in discard THEN "discarding" ELSE "releasing"
<1>1. /\ stage[r] = "closing" /\ stage' = [stage EXCEPT ![r] = t]
      /\ index' = IF r \in keepIndex THEN index ELSE [index EXCEPT ![r] = None]
      /\ UNCHANGED <<previous, sess, discard, resident>>
  BY DEF CloseIndex, Go
<1>2. /\ t \in Stages /\ t \in Leasing /\ "closing" \in Leasing
      /\ r \in discard => t \notin {"releasing", "done"}
  BY DEF Stages, Leasing
<1> HIDE DEF t
<1>3. Discarded' = Discarded /\ Serving' = Serving
  BY <1>1, <1>2, SameDiscarded, SameServing DEF IndInv
<1>4. CASE r \in keepIndex
  BY <1>1, <1>3, <1>4, PoolStutters
<1>5. CASE r \notin keepIndex
  <2>1. sess[r] \in Requests /\ <<r, sess[r]>> \in Serving
    BY <1>1, <1>2, Leases
  <2>2. \A p, m \in Requests : index'[p] = m <=> index[p] = m /\ ~(p = r /\ m = sess[r])
    BY <1>1, <1>5, <2>1, ChainAssumption DEF IndInv, TypeOK, SessionFacts, ChainAssumption
  <2>3. Known' \subseteq Known \ {<<r, sess[r]>>}
    BY <2>2 DEF Known
  <2>4. Known \ {<<r, sess[r]>>} \subseteq Known'
    BY <2>2 DEF Known
  <2>5. UNCHANGED Wanted /\ (resident \cup Discarded)' = resident \cup Discarded
    BY <1>1, <1>3 DEF Wanted
  <2> QED BY <1>3, <2>1, <2>3, <2>4, <2>5 DEF Pool!Withdraw
<1> QED BY <1>4, <1>5

(* A session that goes takes the responses it answered with it.            *)
LEMMA PurgeForgets ==
  ASSUME TypeOK, NEW s \in Requests, index' = Purged(s)
  PROVE  Known' = Pool!Forgotten(s)
<1>1. \A p, n \in Requests : index'[p] = n <=> index[p] = n /\ n # s
  BY ChainAssumption DEF Purged, TypeOK, ChainAssumption
<1>2. Known' \subseteq Pool!Forgotten(s)
  BY <1>1 DEF Known, Pool!Forgotten
<1>3. Pool!Forgotten(s) \subseteq Known'
  BY <1>1 DEF Known, Pool!Forgotten
<1> QED BY <1>2, <1>3

(* The failed session serves nobody any more. *)
LEMMA DiscardSpoils ==
  ASSUME IndInv, NEW r \in Requests, DiscardSession(r)
  PROVE  Pool!Spoil(r, sess[r])
<1>1. /\ stage[r] = "discarding" /\ stage' = [stage EXCEPT ![r] = "releasing"]
      /\ resident' = resident \ {sess[r]} /\ index' = Purged(sess[r])
      /\ UNCHANGED <<previous, sess, discard>>
  BY DEF DiscardSession, Go
<1>2. /\ "releasing" \in Stages /\ "releasing" \in Leasing /\ "discarding" \in Leasing
  BY DEF Stages, Leasing
<1>3. sess[r] \in Requests /\ sess[r] \in resident /\ <<r, sess[r]>> \in Serving
  BY <1>1, <1>2, Leases
<1>4. r \in discard
  BY <1>1 DEF IndInv, HandlerFacts
<1>5. Serving' = Serving
  BY <1>1, <1>2, SameServing DEF IndInv
<1>6. Discarded' = Discarded \cup {sess[r]}
  <2> DEFINE ended == {q \in discard : stage[q] \in {"releasing", "done"}}
  <2>1. {q \in discard' : stage'[q] \in {"releasing", "done"}} = ended \cup {r}
    BY <1>1, <1>2, <1>4 DEF IndInv, TypeOK
  <2> QED BY <1>1, <2>1 DEF Discarded
<1>7. (resident \cup Discarded)' = resident \cup Discarded
  BY <1>1, <1>3, <1>6
<1>8. Known' = Pool!Forgotten(sess[r])
  BY <1>1, <1>3, PurgeForgets DEF IndInv
<1>9. UNCHANGED Wanted
  BY <1>1 DEF Wanted
<1> QED BY <1>3, <1>5, <1>6, <1>7, <1>8, <1>9 DEF Pool!Spoil

LEMMA ReleaseReturns ==
  ASSUME IndInv, NEW r \in Requests, ReleaseSession(r)
  PROVE  Pool!Return(r, sess[r])
<1>1. /\ stage[r] = "releasing" /\ stage' = [stage EXCEPT ![r] = "done"]
      /\ UNCHANGED <<previous, sess, discard, resident, index>>
  BY DEF ReleaseSession, Go, sessionVars
<1>2. "done" \in Stages /\ "done" \notin Leasing /\ "releasing" \in Leasing
  BY DEF Stages, Leasing
<1>3. <<r, sess[r]>> \in Serving
  BY <1>1, <1>2, Leases
<1>4. Discarded' = Discarded
  BY <1>1, <1>2, SameDiscarded DEF IndInv
<1>5. Serving' = Serving \ {<<r, sess[r]>>}
  <2>1. \A q, n \in Requests : stage'[q] \in Leasing /\ sess'[q] = n
          <=> stage[q] \in Leasing /\ sess[q] = n /\ ~(q = r /\ n = sess[r])
    BY <1>1, <1>2 DEF IndInv, TypeOK
  <2>2. Serving' \subseteq Serving \ {<<r, sess[r]>>}
    BY <2>1 DEF Serving
  <2>3. Serving \ {<<r, sess[r]>>} \subseteq Serving'
    BY <2>1 DEF Serving
  <2> QED BY <2>2, <2>3
<1>6. UNCHANGED Wanted /\ UNCHANGED Known /\ (resident \cup Discarded)' = resident \cup Discarded
  BY <1>1, <1>4 DEF Wanted, Known
<1> QED BY <1>3, <1>4, <1>5, <1>6 DEF Pool!Return

LEMMA EvictCloses ==
  ASSUME IndInv, NEW s \in Requests, Evict(s)
  PROVE  Pool!Close(s)
<1>1. /\ s \in resident /\ ~Busy(s)
      /\ resident' = resident \ {s} /\ index' = Purged(s)
      /\ UNCHANGED <<previous, stage, sess, discard>>
  BY DEF Evict, handlerVars
<1>2. Pool!Idle(s)
  BY <1>1 DEF Pool!Idle, Serving, Busy
<1>3. Serving' = Serving /\ Discarded' = Discarded /\ UNCHANGED Wanted
  BY <1>1 DEF Serving, Discarded, Wanted
<1>4. s \notin Discarded
  BY <1>1, DiscardedGone
<1>5. (resident \cup Discarded)' = (resident \cup Discarded) \ {s}
      /\ Discarded = Discarded \ {s}
  BY <1>1, <1>3, <1>4
<1>6. Known' = Pool!Forgotten(s)
  BY <1>1, PurgeForgets DEF IndInv
<1> QED BY <1>1, <1>2, <1>3, <1>5, <1>6 DEF Pool!Close

LEMMA PoolStep ==
  ASSUME IndInv, DiscardsHeld, [Next]_vars
  PROVE  [Pool!Next]_Pool!vars
<1>1. CASE UNCHANGED vars
  <2>1. Discarded' = Discarded /\ Serving' = Serving
    BY <1>1 DEF vars, handlerVars, Discarded, Serving
  <2> QED BY <1>1, <2>1, PoolStutters DEF vars, handlerVars, sessionVars
<1>2. Requests \subseteq Pool!Names
  BY DEF Pool!Names
<1>3. ASSUME NEW r \in Requests, Handle(r) \/ Evict(r)
      PROVE  Pool!Next \/ UNCHANGED Pool!vars
  <2>1. stage[r] \in Leasing => sess[r] \in Pool!Names
    BY Leases
  <2>2. CASE HiddenStep(r)
    BY <2>2, HiddenStutters
  <2>3. CASE CreateSession(r)
    BY <1>2, <2>3, CreateOpens DEF Pool!Next
  <2>4. CASE Continue(r)
    BY <2>4, ContinueServes DEF Pool!Next
  <2>5. CASE IndexResponse(r)
    BY <2>1, <2>5, IndexAnswers DEF Pool!Next, IndexResponse, Go, Leasing
  <2>6. CASE CloseIndex(r)
    BY <2>1, <2>6, CloseWithdraws DEF Pool!Next, CloseIndex, Go, Leasing
  <2>7. CASE DiscardSession(r)
    BY <2>1, <2>7, DiscardSpoils DEF Pool!Next, DiscardSession, Go, Leasing
  <2>8. CASE ReleaseSession(r)
    BY <2>1, <2>8, ReleaseReturns DEF Pool!Next, ReleaseSession, Go, Leasing
  <2>9. CASE Evict(r)
    BY <1>2, <2>9, EvictCloses DEF Pool!Next
  <2> QED BY <1>3, <2>2, <2>3, <2>4, <2>5, <2>6, <2>7, <2>8, <2>9 DEF Handle, HiddenStep
<1> QED BY <1>1, <1>3 DEF Next

(* The pool that the handlers of HandleResponses rely on never does what   *)
(* SessionPromise, which SessionPool implements, forbids (session_pool.cpp, *)
(* AcquireResponseSession, DiscardSession, the eviction of CreateSession). *)
THEOREM PoolAlwaysAsPromised == Spec => PoolAsPromised
<1>1. Init => DiscardsHeld
  BY DEF Init, DiscardsHeld
<1>2. IndInv /\ DiscardsHeld /\ [Next]_vars => DiscardsHeld'
  BY DiscardsHeldStep
<1>3. Spec => []DiscardsHeld
  BY <1>1, <1>2, IndInvAlways, PTL DEF Spec
<1>4. IndInv /\ DiscardsHeld /\ [Next]_vars => [Pool!Next]_Pool!vars
  BY PoolStep
<1> QED BY <1>3, <1>4, PoolInit, IndInvAlways, PTL DEF Spec, PoolAsPromised, Pool!Spec

-----------------------------------------------------------------------------
(* What a handler has sent when it has indexed its response, and what one  *)
(* has sent that was told its previous_response_id is stale.               *)
StaleFacts ==
  \A r \in Requests :
    /\ stage[r] \in {"new", "leased"} => status[r] = "none"
    /\ stage[r] = "indexed" => status[r] = IF streamed[r] THEN "200" ELSE "none"
    /\ r \in stale =>
         /\ stage[r] \in {"closing"} \cup Closed
         /\ status[r] = IF streamed[r] THEN "200" ELSE "404"

LEMMA StaleFactsStep ==
  ASSUME IndInv, StaleFacts, [Next]_vars PROVE StaleFacts'
<1>1. CASE UNCHANGED vars
  BY <1>1 DEF vars, handlerVars, StaleFacts
<1>2. ASSUME NEW r \in Requests, Handle(r) \/ Evict(r)
      PROVE  StaleFacts'
  <2> USE DEF IndInv, TypeOK, StaleFacts, Closed, Go, Send
  <2>1. CASE CreateSession(r) \/ Continue(r) \/ Unknown(r)
    BY <2>1 DEF CreateSession, Continue, Unknown
  <2>2. CASE IndexResponse(r)
    BY <2>2 DEF IndexResponse
  <2>3. CASE RejectStale(r)
    BY <2>3 DEF RejectStale
  <2>4. CASE PrepareResponsesRequest(r) \/ Generate(r) \/ StreamTailFails(r)
             \/ CommitResponsesRequest(r) \/ Desert(r)
    <3>1. /\ stage[r] \in {"indexed", "prepared", "generated"}
          /\ \E to \in {"prepared", "generated", "committed", "closing"} :
               stage' = [stage EXCEPT ![r] = to]
          /\ UNCHANGED <<streamed, status, stale>>
      BY <2>4 DEF PrepareResponsesRequest, Generate, StreamTailFails, CommitResponsesRequest,
         Desert
    <3> QED BY <3>1
  <2>5. CASE GenerateFails(r) \/ GeneratePoisons(r) \/ Respond(r) \/ Throw(r)
    BY <2>5 DEF GenerateFails, GeneratePoisons, Respond, Throw
  <2>6. CASE CloseIndex(r) \/ DiscardSession(r) \/ ReleaseSession(r)
    <3>1. /\ stage[r] \in {"closing", "discarding", "releasing"}
          /\ \E to \in {"discarding", "releasing", "done"} : stage' = [stage EXCEPT ![r] = to]
          /\ UNCHANGED <<streamed, status, stale>>
      BY <2>6 DEF CloseIndex, DiscardSession, ReleaseSession
    <3> QED BY <3>1
  <2>7. CASE Evict(r)
    BY <2>7 DEF Evict, handlerVars
  <2> QED BY <1>2, <2>1, <2>2, <2>3, <2>4, <2>5, <2>6, <2>7 DEF Handle
<1> QED BY <1>1, <1>2 DEF Next

(* How a stale previous_response_id is answered: a plain request always    *)
(* with 404, a streamed one always with the 200 that went out before       *)
(* PrepareResponsesRequest looked at the chain (HandleResponses).          *)
StaleAnswered ==
  \A r \in stale : status[r] = IF streamed[r] THEN "200" ELSE "404"

THEOREM StaleAlwaysAnswered == Spec => []StaleAnswered
<1>1. Init => StaleFacts
  BY DEF Init, StaleFacts
<1>2. IndInv /\ StaleFacts /\ [Next]_vars => StaleFacts'
  BY StaleFactsStep
<1>3. IndInv /\ StaleFacts => StaleAnswered
  BY DEF IndInv, TypeOK, StaleFacts, StaleAnswered
<1> QED BY <1>1, <1>2, <1>3, IndInvAlways, PTL DEF Spec
=============================================================================

-------------------------- MODULE GatewayJWT_proofs -------------------------
(* Proofs about the key cache of the JWT gateway, for any requests, keys,   *)
(* tokens, configurations, refresh interval and bound on the clock.         *)
EXTENDS GatewayJWT, TLAPS

-----------------------------------------------------------------------------
(* The inductive invariant.                                                 *)

(* refreshMu is held from the decision to refresh until its end, and no     *)
(* request is served before Provision has fetched keys.                     *)
MutexHolder ==
    /\ \A r \in Request : refreshMu = r <=> pc[r] \in {"fetch", "store"}
    /\ \A r \in Request : pc[r] # "idle" => keysByKID # {}

(* The tag sent is that of the cached keys, so "304" is said of them. *)
TagIsOfKeys ==
    /\ keysByKID = confirmed
    /\ etag # NoTag => etag = keysByKID
    /\ \A r \in Request :
          pc[r] = "store" /\ answer[r].status = "304" => answer[r].doc = keysByKID

(* The times of the cache belong together, and who refreshes found the      *)
(* interval over: nobody else stores before it does.                        *)
TimesOK ==
    /\ keysByKID = {} <=> lastFetched = ZeroTime
    /\ nextRefreshAt = IF lastFetched = ZeroTime THEN ZeroTime
                                                 ELSE lastFetched + Refresh
    /\ lastFetched <= clock
    /\ \A r \in Request : pc[r] \in {"fetch", "store"} =>
          now[r] > nextRefreshAt /\ now[r] <= clock

(* A key that has been published since before the last refresh is cached,   *)
(* and one published since before a running refresh is in its answer.       *)
OldKeysKnown ==
    /\ \A k \in Kid : since[k] <= clock
    /\ \A k \in Kid : since[k] # Never <=> doc # Malformed /\ k \in doc
    /\ \A k \in Kid : since[k] # Never /\ since[k] < lastFetched => k \in keysByKID
    /\ \A r \in Request : pc[r] = "store" /\ answer[r].doc # Malformed =>
          \A k \in Kid : since[k] # Never /\ since[k] < now[r] => k \in answer[r].doc

(* A request looks again after a refresh that is not older than Refresh     *)
(* when the request began.                                                  *)
Refreshing == {"lock", "fetch", "store", "again"}

BeganOK ==
    \A r \in Request :
        /\ pc[r] \in Refreshing => token[r] \in Token /\ token[r].kid \in Kid
        /\ pc[r] = "lookup" => token[r] \in Token
        /\ began[r] <= clock
        /\ pc[r] \in {"fetch", "store"} => began[r] <= now[r]
        /\ pc[r] = "again" => began[r] <= lastFetched + Refresh

Inv == TypeOK /\ MutexHolder /\ TagIsOfKeys /\ TimesOK /\ OldKeysKnown /\ BeganOK

-----------------------------------------------------------------------------
(* What the helpers of the actions do.                                      *)

(* A request that is answered forgets its locals and holds no mutex. *)
LEMMA AnswerEffect ==
    ASSUME TypeOK, NEW r \in Request, NEW how \in Returned, Answer(r, how)
    PROVE  /\ pc' \in [Request -> Labels] /\ pc'[r] \in Returned
           /\ token' \in [Request -> {NoToken} \cup Token]
           /\ now' \in [Request -> 0..MaxTime]
           /\ began' \in [Request -> 0..MaxTime] /\ began'[r] = 0
           /\ answer' \in [Request -> [status : {"none", "200", "304"}, doc : Document]]
           /\ \A s \in Request \ {r} :
                 /\ pc'[s] = pc[s] /\ token'[s] = token[s] /\ now'[s] = now[s]
                 /\ began'[s] = began[s] /\ answer'[s] = answer[s]
BY TimeAssumption DEF TypeOK, Answer, Goto, Labels, Returned, NoAnswer, Document, ZeroTime

(* Verifying a token answers the request. *)
LEMMA VerifyAnswers ==
    ASSUME NEW r, NEW key, Verify(r, key)
    PROVE  \E how \in Returned : Answer(r, how)
BY DEF Verify, Returned

(* A document that is stored has keys. *)
LEMMA UsableIsKeys ==
    ASSUME NEW d \in Document, Usable(d)
    PROVE  d \in SUBSET Kid /\ d # {} /\ d # Malformed
BY DEF Document, Usable

(* A request that ends without touching the cache keeps the invariant: it   *)
(* either did not hold the mutex or has released it.                        *)
LEMMA EndKeepsInv ==
    ASSUME Inv, NEW r \in Request, NEW how \in Returned, Answer(r, how),
           UNCHANGED <<conf, clock, doc, since, cache>>,
           \/ pc[r] \notin {"fetch", "store"} /\ UNCHANGED refreshMu
           \/ pc[r] \in {"fetch", "store"} /\ refreshMu' = NoRequest,
           keysByKID # {}
    PROVE  Inv'
<1>1. /\ TypeOK' /\ pc'[r] \in Returned /\ began'[r] = 0
      /\ \A s \in Request \ {r} :
            /\ pc'[s] = pc[s] /\ token'[s] = token[s] /\ now'[s] = now[s]
            /\ began'[s] = began[s] /\ answer'[s] = answer[s]
  BY AnswerEffect, RequestAssumption DEF Inv, TypeOK, cache
<1>2. MutexHolder'
  BY <1>1, RequestAssumption DEF Inv, MutexHolder, cache, Returned
<1>3. TagIsOfKeys'
  BY <1>1 DEF Inv, TagIsOfKeys, cache, Returned
<1>4. TimesOK'
  BY <1>1 DEF Inv, TimesOK, cache, Returned
<1>5. OldKeysKnown'
  BY <1>1 DEF Inv, OldKeysKnown, cache, Returned
<1>6. BeganOK'
  BY <1>1 DEF Inv, BeganOK, cache, Returned, Refreshing, TypeOK
<1>. QED  BY <1>1, <1>2, <1>3, <1>4, <1>5, <1>6 DEF Inv

-----------------------------------------------------------------------------
(* The invariant holds initially and every step keeps it.                   *)
LEMMA InvInit == Init => Inv
<1>. SUFFICES ASSUME Init PROVE Inv
  OBVIOUS
<1>. USE DEF Init, ZeroTime, Never, NoAnswer
<1>1. TypeOK
  BY TimeAssumption DEF TypeOK, Document, Labels
<1>2. MutexHolder /\ TagIsOfKeys
  BY RequestAssumption DEF MutexHolder, TagIsOfKeys
<1>3. TimesOK
  BY DEF TimesOK
<1>4. OldKeysKnown
  BY DEF OldKeysKnown, Document
<1>5. BeganOK
  BY DEF BeganOK, Refreshing
<1>. QED  BY <1>1, <1>2, <1>3, <1>4, <1>5 DEF Inv

LEMMA InvStep == Inv /\ [Next]_vars => Inv'
<1>. SUFFICES ASSUME Inv, [Next]_vars PROVE Inv'
  OBVIOUS
<1>. USE DEF cache, local
<1>1. CASE Provision
  <2>0. /\ doc \in SUBSET Kid /\ doc # {} /\ doc # Malformed
        /\ keysByKID = {} /\ keysByKID' = doc /\ etag' \in {doc, NoTag}
        /\ lastFetched' = clock /\ nextRefreshAt' = clock + Refresh
        /\ confirmed' = doc
        /\ UNCHANGED <<conf, clock, doc, since, refreshMu, pc, local>>
    BY <1>1, UsableIsKeys DEF Provision, Stored, Inv, TypeOK
  <2>7. \A r \in Request : pc[r] = "idle"
    BY <2>0 DEF Inv, MutexHolder
  <2>1. TypeOK'
    BY <2>0, TimeAssumption DEF Inv, TypeOK, Document
  <2>2. MutexHolder'
    BY <2>0, <2>7 DEF Inv, MutexHolder
  <2>3. TagIsOfKeys'
    BY <2>0, <2>7 DEF Inv, TagIsOfKeys
  <2>4. TimesOK'
    BY <2>0, <2>7, TimeAssumption DEF Inv, TimesOK, TypeOK, ZeroTime
  <2>5. OldKeysKnown'
    BY <2>0, <2>7 DEF Inv, OldKeysKnown
  <2>6. BeganOK'
    BY <2>0, <2>7 DEF Inv, BeganOK, Refreshing
  <2>. QED  BY <2>1, <2>2, <2>3, <2>4, <2>5, <2>6 DEF Inv
<1>2. CASE Tick
  <2>1. TypeOK'
    BY <1>2, TimeAssumption DEF Tick, Inv, TypeOK
  <2>2. MutexHolder' /\ TagIsOfKeys'
    BY <1>2 DEF Tick, Inv, MutexHolder, TagIsOfKeys
  <2>4. TimesOK'
    BY <1>2 DEF Tick, Inv, TimesOK, TypeOK
  <2>5. OldKeysKnown'
    BY <1>2 DEF Tick, Inv, OldKeysKnown, TypeOK, Never
  <2>6. BeganOK'
    BY <1>2 DEF Tick, Inv, BeganOK, TypeOK
  <2>. QED  BY <2>1, <2>2, <2>4, <2>5, <2>6 DEF Inv
<1>3. ASSUME NEW d \in Document, Publish(d) PROVE Inv'
  <2>0. /\ doc' = d
        /\ \A k \in Kid : since'[k] = IF d = Malformed \/ k \notin d THEN Never
                                      ELSE IF since[k] # Never THEN since[k] ELSE clock
        /\ since' \in [Kid -> 0..MaxTime \cup {Never}]
        /\ UNCHANGED <<conf, clock, cache, refreshMu, pc, local>>
    BY <1>3 DEF Publish, Inv, TypeOK
  <2>1. TypeOK'
    BY <2>0 DEF Inv, TypeOK
  <2>2. MutexHolder' /\ TagIsOfKeys'
    BY <2>0 DEF Inv, MutexHolder, TagIsOfKeys
  <2>4. TimesOK'
    BY <2>0 DEF Inv, TimesOK, TypeOK
  <2>5. OldKeysKnown'
    <3>1. \A k \in Kid : since'[k] <= clock' /\ (since'[k] # Never <=> doc' # Malformed /\ k \in doc')
      BY <2>0 DEF Inv, OldKeysKnown, TypeOK, Never
    <3>2. \A k \in Kid : since'[k] # Never /\ since'[k] < clock => since'[k] = since[k]
      BY <2>0 DEF Inv, TypeOK, Never
    <3>3. lastFetched <= clock
          /\ \A r \in Request : pc[r] = "store" => now[r] <= clock
      BY DEF Inv, TimesOK
    <3>. QED  BY <2>0, <3>1, <3>2, <3>3 DEF Inv, OldKeysKnown, TypeOK, Never
  <2>6. BeganOK'
    BY <2>0 DEF Inv, BeganOK, TypeOK
  <2>. QED  BY <2>1, <2>2, <2>4, <2>5, <2>6 DEF Inv
<1>4. ASSUME NEW r \in Request, RefreshLock(r) PROVE Inv'
  <2>0. /\ pc[r] = "lock" /\ refreshMu = NoRequest
        /\ keysByKID # {} /\ clock \in 1..MaxTime
        /\ UNCHANGED <<conf, clock, doc, since, cache, token, answer, began>>
    BY <1>4 DEF RefreshLock, Inv, MutexHolder, TypeOK
  <2>1. CASE shouldRefresh(clock)
    <3>0. /\ refreshMu' = r /\ pc' = [pc EXCEPT ![r] = "fetch"]
          /\ now' = [now EXCEPT ![r] = clock] /\ clock > nextRefreshAt
      BY <1>4, <2>0, <2>1, TimeAssumption
      DEF RefreshLock, shouldRefresh, Goto, Inv, TimesOK, TypeOK, ZeroTime
    <3>1. TypeOK'
      BY <2>0, <3>0 DEF Inv, TypeOK, Labels
    <3>2. MutexHolder'
      BY <2>0, <3>0, RequestAssumption DEF Inv, MutexHolder, TypeOK
    <3>3. TagIsOfKeys'
      BY <2>0, <3>0 DEF Inv, TagIsOfKeys, TypeOK
    <3>4. TimesOK'
      BY <2>0, <3>0 DEF Inv, TimesOK, TypeOK
    <3>5. OldKeysKnown'
      BY <2>0, <3>0 DEF Inv, OldKeysKnown, TypeOK
    <3>6. BeganOK'
      BY <2>0, <3>0 DEF Inv, BeganOK, TypeOK, Refreshing
    <3>. QED  BY <3>1, <3>2, <3>3, <3>4, <3>5, <3>6 DEF Inv
  <2>2. CASE ~shouldRefresh(clock)
    <3>0. /\ UNCHANGED <<refreshMu, now>> /\ pc' = [pc EXCEPT ![r] = "again"]
          /\ clock <= lastFetched + Refresh
      BY <1>4, <2>0, <2>2, TimeAssumption
      DEF RefreshLock, shouldRefresh, Goto, Inv, TimesOK, TypeOK, ZeroTime
    <3>1. TypeOK'
      BY <2>0, <3>0 DEF Inv, TypeOK, Labels
    <3>2. MutexHolder'
      BY <2>0, <3>0, RequestAssumption DEF Inv, MutexHolder, TypeOK
    <3>3. TagIsOfKeys'
      BY <2>0, <3>0 DEF Inv, TagIsOfKeys, TypeOK
    <3>4. TimesOK'
      BY <2>0, <3>0 DEF Inv, TimesOK, TypeOK
    <3>5. OldKeysKnown'
      BY <2>0, <3>0 DEF Inv, OldKeysKnown, TypeOK
    <3>6. BeganOK'
      BY <2>0, <3>0, TimeAssumption DEF Inv, BeganOK, TypeOK, Refreshing
    <3>. QED  BY <3>1, <3>2, <3>3, <3>4, <3>5, <3>6 DEF Inv
  <2>. QED  BY <2>1, <2>2
<1>5. ASSUME NEW r \in Request, RefreshFetch(r) PROVE Inv'
  <2>0. PICK status \in {"200", "304"} :
           /\ status = "304" => etag = doc
           /\ answer' = [answer EXCEPT ![r] = [status |-> status, doc |-> doc]]
           /\ pc[r] = "fetch" /\ pc' = [pc EXCEPT ![r] = "store"]
           /\ UNCHANGED <<conf, clock, doc, since, cache, refreshMu, token, now, began>>
    BY <1>5 DEF RefreshFetch, Goto
  <2>1. TypeOK'
    BY <2>0 DEF Inv, TypeOK, Labels
  <2>2. MutexHolder'
    BY <2>0 DEF Inv, MutexHolder, TypeOK
  <2>3. TagIsOfKeys'
    BY <2>0, KidAssumption DEF Inv, TagIsOfKeys, TypeOK
  <2>4. TimesOK'
    BY <2>0 DEF Inv, TimesOK, TypeOK
  <2>5. OldKeysKnown'
    BY <2>0 DEF Inv, OldKeysKnown, TypeOK
  <2>6. BeganOK'
    BY <2>0 DEF Inv, BeganOK, TypeOK, Refreshing
  <2>. QED  BY <2>1, <2>2, <2>3, <2>4, <2>5, <2>6 DEF Inv
<1>6. ASSUME NEW r \in Request, RefreshFails(r) \/ RefreshUseless(r) PROVE Inv'
  BY <1>6, EndKeepsInv DEF RefreshFails, RefreshUseless, Reject, Inv, MutexHolder, Returned
<1>7. ASSUME NEW r \in Request, RefreshStore(r) PROVE Inv'
  <2>. DEFINE d == answer[r].doc
  <2>0. /\ pc[r] = "store" /\ keysByKID # {} /\ refreshMu = r
        /\ \A s \in Request \ {r} : pc[s] \notin {"fetch", "store"}
        /\ d \in Document
        /\ refreshMu' = NoRequest /\ now' = [now EXCEPT ![r] = ZeroTime]
        /\ answer' = [answer EXCEPT ![r] = NoAnswer]
        /\ pc' = [pc EXCEPT ![r] = "again"]
        /\ UNCHANGED <<conf, clock, doc, since, token, began>>
    BY <1>7 DEF RefreshStore, Goto, Inv, MutexHolder, TypeOK
  <2>1. /\ d \in SUBSET Kid /\ d # {} /\ d # Malformed
        /\ keysByKID' = d /\ etag' \in {NoTag, d} /\ confirmed' = d
        /\ lastFetched' = now[r] /\ nextRefreshAt' = now[r] + Refresh
    <3>1. CASE answer[r].status = "304"
      BY <1>7, <2>0, <3>1, KidAssumption DEF RefreshStore, Stored, Inv, TagIsOfKeys, TypeOK
    <3>2. CASE answer[r].status # "304"
      BY <1>7, <2>0, <3>2, UsableIsKeys DEF RefreshStore, Stored
    <3>. QED  BY <3>1, <3>2
  <2>2. now[r] \in 1..MaxTime /\ now[r] > nextRefreshAt /\ now[r] <= clock
        /\ now[r] >= lastFetched /\ began[r] <= now[r]
    BY <2>0, TimeAssumption DEF Inv, TimesOK, BeganOK, TypeOK, ZeroTime
  <2>3. TypeOK'
    BY <2>0, <2>1, <2>2, TimeAssumption, RequestAssumption
    DEF Inv, TypeOK, Labels, NoAnswer, Document, ZeroTime
  <2>4. MutexHolder'
    BY <2>0, <2>1, RequestAssumption DEF Inv, MutexHolder, TypeOK
  <2>5. TagIsOfKeys'
    BY <2>0, <2>1 DEF Inv, TagIsOfKeys, TypeOK
  <2>6. TimesOK'
    BY <2>0, <2>1, <2>2 DEF Inv, TimesOK, TypeOK, ZeroTime
  <2>7. OldKeysKnown'
    BY <2>0, <2>1, <2>2 DEF Inv, OldKeysKnown, TypeOK
  <2>8. BeganOK'
    BY <2>0, <2>1, <2>2, TimeAssumption DEF Inv, BeganOK, TypeOK, Refreshing
  <2>. QED  BY <2>3, <2>4, <2>5, <2>6, <2>7, <2>8 DEF Inv
<1>8. ASSUME NEW r \in Request, Serve(r) PROVE Inv'
  <2>1. ASSUME NEW source \in Source, NEW cert \in Cert, ServeMissing(r, source, cert)
        PROVE  Inv'
    BY <2>1, EndKeepsInv DEF ServeMissing, Returned
  <2>2. ASSUME NEW t \in Token, NEW source \in Source, NEW cert \in Cert,
               ServeHTTP(r, t, source, cert)
        PROVE  Inv'
    <3>1. CASE \E how \in {"forbidden", "unauthorized"} : Answer(r, how)
      BY <2>2, <3>1, EndKeepsInv DEF ServeHTTP, Returned
    <3>2. CASE ~ \E how \in {"forbidden", "unauthorized"} : Answer(r, how)
      <4>0. /\ token' = [token EXCEPT ![r] = t]
            /\ began' = [began EXCEPT ![r] = clock]
            /\ pc[r] = "idle" /\ keysByKID # {}
            /\ pc' = [pc EXCEPT ![r] = "lookup"]
            /\ UNCHANGED <<conf, clock, doc, since, cache, refreshMu, now, answer>>
        BY <2>2, <3>2 DEF ServeHTTP, Goto
      <4>1. TypeOK'
        BY <4>0 DEF Inv, TypeOK, Labels
      <4>2. MutexHolder' /\ TagIsOfKeys'
        BY <4>0 DEF Inv, MutexHolder, TagIsOfKeys, TypeOK
      <4>4. TimesOK'
        BY <4>0 DEF Inv, TimesOK, TypeOK
      <4>5. OldKeysKnown'
        BY <4>0 DEF Inv, OldKeysKnown, TypeOK
      <4>6. BeganOK'
        BY <4>0 DEF Inv, BeganOK, TypeOK, Refreshing
      <4>. QED  BY <4>1, <4>2, <4>4, <4>5, <4>6 DEF Inv
    <3>. QED  BY <3>1, <3>2
  <2>. QED  BY <1>8, <2>1, <2>2 DEF Serve
<1>9. ASSUME NEW r \in Request, KeyForToken(r) PROVE Inv'
  <2>1. CASE \E how \in Returned : Answer(r, how)
    BY <1>9, <2>1, EndKeepsInv DEF KeyForToken, Inv, MutexHolder
  <2>2. CASE ~ \E how \in Returned : Answer(r, how)
    <3>0. /\ pc[r] = "lookup" /\ pc' = [pc EXCEPT ![r] = "lock"]
          /\ token[r] \in Token /\ token[r].kid \in Kid
          /\ UNCHANGED <<conf, clock, doc, since, cache, refreshMu, local>>
      BY <1>9, <2>2, VerifyAnswers DEF KeyForToken, Goto, Inv, BeganOK, Returned
    <3>1. TypeOK'
      BY <3>0 DEF Inv, TypeOK, Labels
    <3>2. MutexHolder' /\ TagIsOfKeys'
      BY <3>0 DEF Inv, MutexHolder, TagIsOfKeys, TypeOK
    <3>4. TimesOK'
      BY <3>0 DEF Inv, TimesOK, TypeOK
    <3>5. OldKeysKnown'
      BY <3>0 DEF Inv, OldKeysKnown, TypeOK
    <3>6. BeganOK'
      BY <3>0 DEF Inv, BeganOK, TypeOK, Refreshing
    <3>. QED  BY <3>1, <3>2, <3>4, <3>5, <3>6 DEF Inv
  <2>. QED  BY <2>1, <2>2
<1>10. ASSUME NEW r \in Request, KeyAgain(r) PROVE Inv'
  <2>1. \E how \in Returned : Answer(r, how)
    BY <1>10, VerifyAnswers DEF KeyAgain, Returned
  <2>. QED  BY <1>10, <2>1, EndKeepsInv DEF KeyAgain, Inv, MutexHolder
<1>11. ASSUME NEW r \in Request, Return(r) PROVE Inv'
  <2>0. /\ pc[r] \in Returned /\ pc' = [pc EXCEPT ![r] = "idle"]
        /\ UNCHANGED <<conf, clock, doc, since, cache, refreshMu, local>>
    BY <1>11 DEF Return, Goto
  <2>1. TypeOK'
    BY <2>0 DEF Inv, TypeOK, Labels
  <2>2. MutexHolder' /\ TagIsOfKeys'
    BY <2>0 DEF Inv, MutexHolder, TagIsOfKeys, TypeOK, Returned
  <2>4. TimesOK'
    BY <2>0 DEF Inv, TimesOK, TypeOK
  <2>5. OldKeysKnown'
    BY <2>0 DEF Inv, OldKeysKnown, TypeOK
  <2>6. BeganOK'
    BY <2>0 DEF Inv, BeganOK, TypeOK, Refreshing
  <2>. QED  BY <2>1, <2>2, <2>4, <2>5, <2>6 DEF Inv
<1>12. CASE UNCHANGED vars
  BY <1>12 DEF vars, Inv, TypeOK, MutexHolder, TagIsOfKeys, TimesOK, OldKeysKnown, BeganOK
<1>. QED  BY <1>1, <1>2, <1>3, <1>4, <1>5, <1>6, <1>7, <1>8, <1>9, <1>10, <1>11, <1>12
          DEF Next, Step

-----------------------------------------------------------------------------
(* The theorems.                                                            *)

(* The invariant holds for every number of requests and keys. *)
THEOREM InvHolds == Spec => []Inv
BY InvInit, InvStep, PTL DEF Spec

(* The variables of the gateway keep their types. *)
THEOREM TypeCorrect == Spec => []TypeOK
<1>1. Inv => TypeOK
  BY DEF Inv
<1>. QED  BY <1>1, InvHolds, PTL

(* The cached keys are those of the document the endpoint had when it       *)
(* answered the last successful refresh, with "304 Not Modified" too.       *)
THEOREM KeysCorrect == Spec => []KeysAreAsAnswered
<1>1. Inv => KeysAreAsAnswered
  BY DEF Inv, TagIsOfKeys, KeysAreAsAnswered
<1>. QED  BY <1>1, InvHolds, PTL

(* A key published for longer than Refresh when a request begins is not     *)
(* reported as unknown: the key was in the answer of the last refresh.      *)
THEOREM PublishedKeysFound == Spec => []PublishedKeyIsFound
<1>1. Inv => PublishedKeyIsFound
  <2>. SUFFICES ASSUME Inv, NEW r \in Request, pc[r] = "again",
                       token[r].kid \notin keysByKID, since[token[r].kid] # Never
                PROVE  since[token[r].kid] >= began[r] - Refresh
    BY DEF PublishedKeyIsFound
  <2>1. token[r].kid \in Kid /\ began[r] <= lastFetched + Refresh
    BY DEF Inv, BeganOK, Refreshing
  <2>2. ~(since[token[r].kid] < lastFetched)
    BY <2>1 DEF Inv, OldKeysKnown
  <2>. QED  BY <2>1, <2>2, TimeAssumption DEF Inv, TypeOK, Never
<1>. QED  BY <1>1, InvHolds, PTL

(* Successful refreshes are more than Refresh apart: whoever holds the      *)
(* mutex found the interval over, and nobody else stores meanwhile.         *)
THEOREM RefreshesAreRare == Spec => RefreshRate
<1>1. Inv /\ [Next]_vars
        => [lastFetched # ZeroTime /\ lastFetched' # lastFetched
               => lastFetched' > lastFetched + Refresh]_vars
  <2>. SUFFICES ASSUME Inv, Next, lastFetched # ZeroTime, lastFetched' # lastFetched
                PROVE  lastFetched' > lastFetched + Refresh
    BY DEF vars, cache
  <2>1. ~Provision
    BY DEF Provision, Inv, TimesOK
  <2>2. PICK r \in Request : RefreshStore(r)
    BY <2>1 DEF Next, Tick, Publish, Serve, ServeMissing, ServeHTTP, RefreshLock, Step,
       KeyForToken, RefreshFetch, RefreshFails, RefreshUseless, Reject, KeyAgain, Return,
       cache
  <2>3. lastFetched' = now[r] /\ now[r] > nextRefreshAt
    BY <2>2 DEF RefreshStore, Stored, Inv, TimesOK
  <2>. QED  BY <2>3 DEF Inv, TimesOK
<1>. QED  BY <1>1, InvHolds, PTL DEF Spec, RefreshRate
=============================================================================

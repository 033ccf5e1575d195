-------------------------- MODULE EtcdSource_proofs -------------------------
(* Proofs about the etcd data source, for any keys, readers and bounds.     *)
EXTENDS EtcdSource, SequenceTheorems, TLAPS

-----------------------------------------------------------------------------
(* What the helpers of the actions return.                                  *)

(* Parsing a stored text gives a configuration or nil, and a flag. *)
LEMMA ParseType ==
    ASSUME NEW x \in Content
    PROVE  /\ ParseRouteConfig(x).config \in Config \cup {None}
           /\ ParseRouteConfig(x).err \in BOOLEAN
           /\ ParseRouteConfig(x).config # None => ParseRouteConfig(x).config = x
           /\ ParseRouteConfig(x).config # None <=> x \in Config
BY NoneNotConfig DEF ParseRouteConfig, Content

(* Every outcome of adding to the cache is a cache. *)
LEMMA AddedType ==
    ASSUME CacheTypeOK, NEW k \in Key, NEW c \in Config
    PROVE  \A f \in Added(k, c) : /\ f \in [Key -> Config \cup {None}]
                                  /\ f[k] = c
                                  /\ \A j \in Key \ {k} : f[j] \in {val[j], None}
<1>1. CASE val[k] # None \/ Cardinality(Cached) < MaxSize
  BY <1>1 DEF Added, CacheTypeOK
<1>2. CASE ~(val[k] # None \/ Cardinality(Cached) < MaxSize)
  BY <1>2 DEF Added, CacheTypeOK, Cached
<1>. QED  BY <1>1, <1>2

(* Set and Delete leave a well-formed cache. *)
LEMMA SetType ==
    ASSUME CacheTypeOK, NEW k \in Key, NEW c \in Config, Set(k, c)
    PROVE  CacheTypeOK' /\ val'[k] = c
           /\ \A j \in Key \ {k} : val'[j] \in {val[j], None}
BY AddedType DEF CacheTypeOK, Set

LEMMA DeleteType ==
    ASSUME CacheTypeOK, NEW k \in Key, Delete(k)
    PROVE  CacheTypeOK' /\ val'[k] = None
           /\ \A j \in Key \ {k} : val'[j] = val[j]
BY DEF CacheTypeOK, Delete

(* The end of a fetch leaves the readers well-formed. *)
LEMMA FinishType ==
    ASSUME TypeOK, NEW r \in Reader, NEW c \in Config \cup {None},
           NEW e \in BOOLEAN, Finish(r, c, e)
    PROVE  /\ res' \in [Reader -> Result]
           /\ pc' \in [Reader -> Label]
           /\ call' \in [Key -> Reader \cup {NoReader}]
           /\ resp' \in [Reader -> Content]
           /\ touched' \in [Reader -> BOOLEAN]
BY DEF TypeOK, Finish, Result, Label, Leading, Content

(* An empty channel. *)
LEMMA NoEvents == <<>> \in Seq(Event)
BY EmptySeq

-----------------------------------------------------------------------------
(* The variables keep their types. *)
LEMMA TypeStep == TypeOK /\ [Next]_vars => TypeOK'
<1>. SUFFICES ASSUME TypeOK, [Next]_vars PROVE TypeOK'
  OBVIOUS
<1>. USE DEF storeVars, cacheVars, watchVars, readerVars
<1>1. CASE Provision
  <2>1. CASE initialLoad
    <3>1. val' \in [Key -> Config \cup {None}] /\ hidden' = hidden
      BY <2>1, ParseType DEF initialLoad, Loaded, TypeOK, StoreTypeOK
    <3>. QED  BY <1>1, <3>1 DEF Provision, TypeOK, CacheTypeOK, StoreTypeOK
  <2>2. CASE UNCHANGED cacheVars
    BY <1>1, <2>2 DEF Provision, TypeOK, CacheTypeOK, StoreTypeOK
  <2>. QED  BY <1>1, <2>1, <2>2 DEF Provision
<1>2. CASE Cleanup
  BY <1>2 DEF Cleanup, TypeOK, CacheTypeOK, StoreTypeOK
<1>3. CASE AdminClearCache
  BY <1>3 DEF AdminClearCache, TypeOK, CacheTypeOK, StoreTypeOK
<1>4. ASSUME NEW k \in Key, Expire(k) PROVE TypeOK'
  BY <1>4 DEF Expire, Reveal, TypeOK, CacheTypeOK, StoreTypeOK
<1>5. ASSUME NEW k \in Key, NEW x \in Content, EtcdChange(k, x) PROVE TypeOK'
  <2>1. StoreTypeOK'
    BY <1>5, MaxWritesNat DEF EtcdChange, Change, Overwrite, TypeOK, StoreTypeOK, Content
  <2>2. [key |-> k, content |-> x] \in Event
    BY DEF Event
  <2>3. events' \in Seq(Event)
    <3>1. CASE wpc = "watching"
      BY <1>5, <3>1, <2>2 DEF EtcdChange, TypeOK
    <3>2. CASE wpc # "watching"
      BY <1>5, <3>2 DEF EtcdChange, TypeOK
    <3>. QED  BY <3>1, <3>2
  <2>4. missed' \subseteq Key
    BY <1>5 DEF EtcdChange, TypeOK
  <2>. QED  BY <1>5, <2>1, <2>3, <2>4 DEF EtcdChange, TypeOK, CacheTypeOK
<1>6. CASE WatchLoop
  BY <1>6 DEF WatchLoop, TypeOK, CacheTypeOK, StoreTypeOK
<1>7. CASE WatchCall
  BY <1>7, NoEvents DEF WatchCall, TypeOK, CacheTypeOK, StoreTypeOK
<1>8. CASE WatchEvent
  <2>. DEFINE e == Head(events)
  <2>1. e \in Event /\ Tail(events) \in Seq(Event)
    BY <1>8 DEF WatchEvent, TypeOK
  <2>3. e.key \in Key /\ e.content \in Content
    BY <2>1 DEF Event
  <2>2. CacheTypeOK'
    <3>1. ApplyEvent(e)
      BY <1>8 DEF WatchEvent
    <3>2. CASE e.content = Absent /\ Delete(e.key)
      BY <3>2, <2>3, DeleteType DEF TypeOK
    <3>3. CASE ParseRouteConfig(e.content).config # None
               /\ Set(e.key, ParseRouteConfig(e.content).config)
      BY <3>3, <2>3, ParseType, SetType DEF TypeOK
    <3>4. CASE UNCHANGED cacheVars
      BY <3>4 DEF TypeOK, CacheTypeOK
    <3>. QED  BY <3>1, <3>2, <3>3, <3>4 DEF ApplyEvent
  <2>4. /\ missed' \subseteq Key /\ raced' \subseteq Key
        /\ touched' \in [Reader -> BOOLEAN]
    BY <1>8 DEF WatchEvent, TypeOK
  <2>. QED  BY <1>8, <2>1, <2>2, <2>4 DEF WatchEvent, TypeOK, StoreTypeOK
<1>9. CASE WatchFail
  <2>1. \A i \in DOMAIN events : events[i] \in Event
    BY ElementOfSeq DEF TypeOK
  <2>2. {events[i].key : i \in DOMAIN events} \subseteq Key
    BY <2>1 DEF Event
  <2>. QED  BY <1>9, <2>2, NoEvents DEF WatchFail, TypeOK, CacheTypeOK, StoreTypeOK
<1>10. CASE WatchRetry
  <2>1. backoff' \in 1..MaxBackoff
    BY <1>10, BackoffAssumption DEF WatchRetry, TypeOK
  <2>. QED  BY <1>10, <2>1 DEF WatchRetry, TypeOK, CacheTypeOK, StoreTypeOK
<1>11. CASE WatchExit
  BY <1>11 DEF WatchExit, TypeOK, CacheTypeOK, StoreTypeOK
<1>12. ASSUME NEW r \in Reader, NEW k \in Key, GetCache(r, k) PROVE TypeOK'
  BY <1>12 DEF GetCache, TypeOK, CacheTypeOK, StoreTypeOK, Label, Leading
<1>13. ASSUME NEW r \in Reader, GetGate(r) PROVE TypeOK'
  BY <1>13 DEF GetGate, TypeOK, CacheTypeOK, StoreTypeOK, Label, Leading
<1>14. ASSUME NEW r \in Reader, GetDo(r) PROVE TypeOK'
  BY <1>14 DEF GetDo, TypeOK, CacheTypeOK, StoreTypeOK, Label, Leading
<1>15. ASSUME NEW r \in Reader, GetRecheck(r) PROVE TypeOK'
  <2>1. CASE Lookup(key[r]) # None
    <3>1. Lookup(key[r]) \in Config \cup {None}
      BY DEF Lookup, TypeOK, CacheTypeOK
    <3>. QED  BY <1>15, <2>1, <3>1, FinishType
              DEF GetRecheck, TypeOK, CacheTypeOK, StoreTypeOK
  <2>2. CASE ~(Lookup(key[r]) # None)
    BY <1>15, <2>2 DEF GetRecheck, TypeOK, CacheTypeOK, StoreTypeOK, Label, Leading
  <2>. QED  BY <2>1, <2>2
<1>16. ASSUME NEW r \in Reader, GetFetch(r) PROVE TypeOK'
  BY <1>16 DEF GetFetch, TypeOK, CacheTypeOK, StoreTypeOK, Label, Leading
<1>17. ASSUME NEW r \in Reader, GetFetchFails(r) PROVE TypeOK'
  BY <1>17, FinishType DEF GetFetchFails, TypeOK, CacheTypeOK, StoreTypeOK
<1>18. ASSUME NEW r \in Reader, GetFill(r) PROVE TypeOK'
  <2>. DEFINE p == ParseRouteConfig(resp[r])
  <2>1. resp[r] \in Content /\ key[r] \in Key
    BY DEF TypeOK
  <2>2. p.config \in Config \cup {None}
    BY <2>1, ParseType
  <2>. HIDE DEF p
  <2>3. PICK c \in Config \cup {None}, e \in BOOLEAN : Finish(r, c, e)
    BY <1>18, <2>2 DEF GetFill, p
  <2>4. CacheTypeOK'
    BY <1>18, <2>1, <2>2, SetType DEF GetFill, Hide, p, TypeOK, CacheTypeOK
  <2>5. lastError' \in BOOLEAN /\ raced' \subseteq Key
    BY <1>18, <2>1 DEF GetFill, TypeOK
  <2>. QED  BY <1>18, <2>3, <2>4, <2>5, FinishType DEF GetFill, TypeOK, StoreTypeOK
<1>19. ASSUME NEW r \in Reader, GetReturn(r) PROVE TypeOK'
  BY <1>19 DEF GetReturn, TypeOK, CacheTypeOK, StoreTypeOK, Label, Leading,
               Result, NoResult
<1>20. CASE UNCHANGED vars
  BY <1>20 DEF vars, TypeOK, CacheTypeOK, StoreTypeOK
<1>. QED  BY <1>1, <1>2, <1>3, <1>4, <1>5, <1>6, <1>7, <1>8, <1>9, <1>10, <1>11,
             <1>12, <1>13, <1>14, <1>15, <1>16, <1>17, <1>18, <1>19, <1>20
          DEF Next, Watcher, Get

(* Type correctness of the etcd source. *)
THEOREM EtcdTypeCorrect == Spec => []TypeOK
<1>1. Init => TypeOK
  <2>. SUFFICES ASSUME Init PROVE TypeOK
    OBVIOUS
  <2>1. CacheTypeOK
    BY DEF Init, CacheInit, CacheTypeOK
  <2>2. StoreTypeOK
    BY MaxWritesNat DEF Init, StoreInit, StoreTypeOK, Content
  <2>3. /\ pc \in [Reader -> Label] /\ key \in [Reader -> Key]
        /\ resp \in [Reader -> Content] /\ res \in [Reader -> Result]
    BY DEF Init, Label, Content, Result, NoResult
  <2>4. backoff \in 1..MaxBackoff
    BY BackoffAssumption DEF Init
  <2>5. /\ call \in [Key -> Reader \cup {NoReader}]
        /\ touched \in [Reader -> BOOLEAN]
    BY DEF Init
  <2>6. events \in Seq(Event)
    BY NoEvents DEF Init
  <2>. QED  BY <2>1, <2>2, <2>3, <2>4, <2>5, <2>6 DEF Init, TypeOK
<1>. QED  BY <1>1, TypeStep, PTL DEF Spec

-----------------------------------------------------------------------------
(* Singleflight.                                                            *)

(* The end of a fetch frees its key and leaves nobody waiting for it. *)
LEMMA FinishFlight ==
    ASSUME TypeOK, FlightOK, NEW r \in Reader, pc[r] \in Leading,
           NEW c, NEW e, Finish(r, c, e), key' = key
    PROVE  FlightOK'
<1>1. call[key[r]] = r /\ key[r] \in Key
  BY DEF FlightOK, TypeOK
<1>2. ASSUME NEW s \in Reader, pc'[s] \in Leading
      PROVE  call'[key'[s]] = s
  <2>1. s # r /\ pc[s] \in Leading
    BY <1>2 DEF Finish, Leading, TypeOK
  <2>2. call[key[s]] = s /\ key[s] # key[r]
    BY <2>1, <1>1 DEF FlightOK
  <2>. QED  BY <2>2 DEF Finish, TypeOK
<1>3. ASSUME NEW k \in Key, call'[k] # NoReader
      PROVE  pc'[call'[k]] \in Leading /\ key'[call'[k]] = k
  <2>1. k # key[r] /\ call'[k] = call[k]
    BY <1>3, <1>1 DEF Finish, TypeOK
  <2>2. call[k] \in Reader /\ pc[call[k]] \in Leading /\ key[call[k]] = k
    BY <1>3, <2>1 DEF FlightOK, TypeOK
  <2>3. pc'[call[k]] = pc[call[k]]
    BY <2>1, <2>2 DEF Finish, Leading, TypeOK
  <2>. QED  BY <2>1, <2>2, <2>3
<1>4. ASSUME NEW s \in Reader, pc'[s] = "wait"
      PROVE  call'[key'[s]] # NoReader
  <2>1. pc[s] = "wait" /\ key[s] # key[r]
    BY <1>4 DEF Finish, TypeOK
  <2>2. call'[key[s]] = call[key[s]]
    BY <2>1, <1>1 DEF Finish, TypeOK
  <2>. QED  BY <2>1, <2>2 DEF FlightOK
<1>. QED  BY <1>2, <1>3, <1>4 DEF FlightOK

(* Steps that neither start nor end a fetch. *)
LEMMA QuietFlight ==
    ASSUME TypeOK, FlightOK, call' = call,
           \A r \in Reader :
              /\ pc'[r] \in Leading <=> pc[r] \in Leading
              /\ pc'[r] = "wait" => pc[r] = "wait"
              /\ pc[r] \in Leading \cup {"wait"} => key'[r] = key[r]
    PROVE  FlightOK'
BY ReaderAssumption DEF FlightOK, TypeOK

LEMMA FlightStep == TypeOK /\ FlightOK /\ [Next]_vars => FlightOK'
<1>. SUFFICES ASSUME TypeOK, FlightOK, [Next]_vars PROVE FlightOK'
  OBVIOUS
<1>1. CASE readerVars' = readerVars
  BY <1>1 DEF FlightOK, readerVars
<1>2. ASSUME NEW r \in Reader, NEW k \in Key, GetCache(r, k) PROVE FlightOK'
  BY <1>2, QuietFlight DEF GetCache, TypeOK, Leading
<1>3. ASSUME NEW r \in Reader, GetGate(r) PROVE FlightOK'
  BY <1>3, QuietFlight DEF GetGate, TypeOK, Leading
<1>4. ASSUME NEW r \in Reader, GetDo(r) PROVE FlightOK'
  <2>. key[r] \in Key /\ key' = key
    BY <1>4 DEF GetDo, TypeOK
  <2>1. CASE call[key[r]] = NoReader
    <3>1. call' = [call EXCEPT ![key[r]] = r] /\ pc' = [pc EXCEPT ![r] = "recheck"]
      BY <1>4, <2>1 DEF GetDo
    <3>2. \A s \in Reader : pc[s] \in Leading \cup {"wait"} => key[s] # key[r]
      BY <2>1, ReaderAssumption DEF FlightOK
    <3>. QED  BY <1>4, <3>1, <3>2, ReaderAssumption
              DEF FlightOK, TypeOK, Leading, GetDo
  <2>2. CASE call[key[r]] # NoReader
    <3>1. call' = call /\ pc' = [pc EXCEPT ![r] = "wait"]
      BY <1>4, <2>2 DEF GetDo
    <3>2. pc[r] \notin Leading
      BY <1>4 DEF GetDo, Leading
    <3>. QED  BY <2>2, <3>1, <3>2 DEF FlightOK, TypeOK, Leading
  <2>. QED  BY <2>1, <2>2
<1>5. ASSUME NEW r \in Reader, GetRecheck(r) PROVE FlightOK'
  <2>1. CASE Lookup(key[r]) # None
    BY <1>5, <2>1, FinishFlight DEF GetRecheck, Leading
  <2>2. CASE ~(Lookup(key[r]) # None)
    BY <1>5, <2>2, QuietFlight DEF GetRecheck, TypeOK, Leading
  <2>. QED  BY <2>1, <2>2
<1>6. ASSUME NEW r \in Reader, GetFetch(r) PROVE FlightOK'
  BY <1>6, QuietFlight DEF GetFetch, TypeOK, Leading
<1>7. ASSUME NEW r \in Reader, GetFetchFails(r) PROVE FlightOK'
  BY <1>7, FinishFlight DEF GetFetchFails, Leading
<1>8. ASSUME NEW r \in Reader, GetFill(r) PROVE FlightOK'
  <2>1. PICK c, e : Finish(r, c, e)
    BY <1>8 DEF GetFill
  <2>. QED  BY <1>8, <2>1, FinishFlight DEF GetFill, Leading
<1>9. ASSUME NEW r \in Reader, GetReturn(r) PROVE FlightOK'
  BY <1>9, QuietFlight DEF GetReturn, TypeOK, Leading
<1>. QED  BY <1>1, <1>2, <1>3, <1>4, <1>5, <1>6, <1>7, <1>8, <1>9
          DEF Next, Watcher, Get, Provision, Cleanup, AdminClearCache, WatchLoop,
              WatchCall, WatchEvent, WatchFail, WatchRetry, WatchExit, Expire,
              EtcdChange, readerVars, vars

(* At most one fetch per key is in flight, and nobody waits for none. *)
THEOREM EtcdSingleflight == Spec => []FlightOK
<1>1. Init => FlightOK
  BY DEF Init, FlightOK, Leading
<1>. QED  BY <1>1, FlightStep, EtcdTypeCorrect, PTL DEF Spec

-----------------------------------------------------------------------------
(* Health.                                                                  *)

(* A source with an established watch reports healthy. *)
THEOREM EtcdHealth == Spec => []UnhealthyOnlyWithoutWatch
<1>1. Init => UnhealthyOnlyWithoutWatch
  BY DEF Init, UnhealthyOnlyWithoutWatch
<1>2. TypeOK /\ UnhealthyOnlyWithoutWatch /\ [Next]_vars
         => UnhealthyOnlyWithoutWatch'
  BY DEF UnhealthyOnlyWithoutWatch, TypeOK, Next, Watcher, Get, Provision, Cleanup,
         AdminClearCache, WatchLoop, WatchCall, WatchEvent, WatchFail, WatchRetry,
         WatchExit, Expire, EtcdChange, GetCache, GetGate, GetDo, GetRecheck,
         GetFetch, GetFetchFails, GetFill, GetReturn, watchVars, vars
<1>. QED  BY <1>1, <1>2, EtcdTypeCorrect, PTL DEF Spec

-----------------------------------------------------------------------------
(* Coherence of the cache with etcd.                                        *)

(* Steps that leave store, channel and histories alone, forget cached       *)
(* routes at most, and bring no reader to the point of caching an answer.   *)
LEMMA QuietCoherence ==
    ASSUME TypeOK, CoherenceInvariant,
           UNCHANGED <<store, lastGood, events, missed, raced, phase>>,
           phase = "new" => UNCHANGED <<val, wpc, pc>>,
           phase = "up" /\ wpc = "watching" => wpc' = "watching",
           \A k \in Key : val'[k] \in {val[k], None},
           \A r \in Reader : pc'[r] = "fill" =>
              /\ pc[r] = "fill" /\ key'[r] = key[r]
              /\ resp'[r] = resp[r] /\ touched'[r] = touched[r]
    PROVE  CoherenceInvariant'
<1>1. StoreRemembered' /\ NewIsBlank' /\ EventsOnlyWhileWatching'
  BY DEF CoherenceInvariant, StoreRemembered, NewIsBlank, EventsOnlyWhileWatching,
         TypeOK
<1>2. EventsEndGood'
  BY DEF CoherenceInvariant, EventsEndGood, Newest
<1>3. \A k : EffectivePending(k)' <=> EffectivePending(k)
  BY DEF EffectivePending
<1>4. CacheIsGood'
  BY <1>3 DEF CoherenceInvariant, CacheIsGood
<1>5. AnswersAreGood'
  BY <1>3 DEF CoherenceInvariant, AnswersAreGood
<1>. QED  BY <1>1, <1>2, <1>4, <1>5 DEF CoherenceInvariant

(* The step that ends a fetch without a configuration. *)
LEMMA FinishQuiet ==
    ASSUME TypeOK, NEW r \in Reader, NEW c, NEW e, Finish(r, c, e), key' = key
    PROVE  \A s \in Reader : pc'[s] = "fill" =>
              /\ pc[s] = "fill" /\ key'[s] = key[s]
              /\ resp'[s] = resp[s] /\ touched'[s] = touched[s]
BY DEF Finish, TypeOK

(* A change in etcd. *)
LEMMA ChangeCoherence ==
    ASSUME TypeOK, CoherenceInvariant, NEW k \in Key, NEW x \in Content,
           EtcdChange(k, x)
    PROVE  CoherenceInvariant'
<1>. DEFINE ev == [key |-> k, content |-> x]
<1>. USE DEF CoherenceInvariant
<1>1. /\ UNCHANGED <<val, hidden, phase, wpc, pc, key, resp, touched, raced>>
      /\ store' = [store EXCEPT ![k] = x]
      /\ \A j \in Key \ {k} : lastGood'[j] = lastGood[j]
      /\ x \in Config => lastGood'[k] = x
      /\ x = Absent => lastGood'[k] = None
      /\ x \notin Config \cup {Absent} => lastGood'[k] = lastGood[k]
  BY ContentsDistinct DEF EtcdChange, Change, Overwrite, cacheVars, readerVars, TypeOK,
                          StoreTypeOK
<1>2. StoreRemembered' /\ NewIsBlank'
  BY <1>1 DEF StoreRemembered, NewIsBlank, TypeOK, StoreTypeOK
<1>3. EventsOnlyWhileWatching'
  BY <1>1 DEF EtcdChange, EventsOnlyWhileWatching
<1>4. CASE wpc = "watching"
  <2>1. events' = Append(events, ev) /\ missed' = missed /\ events \in Seq(Event)
    BY <1>4 DEF EtcdChange, TypeOK
  <2>2. ev.key = k /\ ev.content = x /\ ev \in Event
    BY DEF Event
  <2>. HIDE DEF ev
  <2>3. /\ DOMAIN events = 1..Len(events) /\ Len(events) \in Nat
        /\ DOMAIN events' = 1..(Len(events) + 1)
        /\ \A i \in DOMAIN events : events'[i] = events[i]
        /\ events'[Len(events) + 1] = ev
    BY <2>1, <2>2
  <2>4. EventsEndGood'
    <3>. SUFFICES ASSUME phase = "up", NEW i \in DOMAIN events', Newest(i)'
                  PROVE  Outcome(events'[i].content) = lastGood'[events'[i].key]
      BY <1>1 DEF EventsEndGood, Outcome
    <3>1. CASE i = Len(events) + 1
      BY <3>1, <2>2, <2>3, <1>1, ContentsDistinct DEF Newest, Effective, Outcome
    <3>2. CASE i \in DOMAIN events
      <4>1. Newest(i)
        BY <2>3, <3>2 DEF Newest
      <4>2. Outcome(events[i].content) = lastGood[events[i].key]
        BY <3>2, <4>1 DEF EventsEndGood
      <4>3. events[i].key = k => ~Effective(ev)
        BY <2>2, <2>3, <3>2 DEF Newest
      <4>4. events[i] \in Event
        BY <2>1, <3>2, ElementOfSeq
      <4>5. events[i].key \in Key
        BY <4>4 DEF Event
      <4>. QED  BY <4>2, <4>3, <4>5, <2>2, <2>3, <3>2, <1>1 DEF Effective
    <3>. QED  BY <2>3, <3>1, <3>2
  <2>5. \A j \in Key : ~EffectivePending(j)' =>
                        ~EffectivePending(j) /\ lastGood'[j] = lastGood[j]
    BY <2>2, <2>3, <1>1 DEF EffectivePending, Effective
  <2>6. CacheIsGood'
    BY <1>1, <2>1, <2>5 DEF CacheIsGood
  <2>7. AnswersAreGood'
    BY <1>1, <2>1, <2>5 DEF AnswersAreGood, TypeOK
  <2>. QED  BY <1>2, <1>3, <2>4, <2>6, <2>7
<1>5. CASE wpc # "watching"
  <2>1. /\ events' = events
        /\ phase # "new" => missed' = missed \cup {k}
        /\ phase # "closed" => events = <<>>
    BY <1>5 DEF EtcdChange, EventsOnlyWhileWatching
  <2>2. EventsEndGood'
    BY <2>1, <1>1 DEF EventsEndGood
  <2>3. \A j : EffectivePending(j)' <=> EffectivePending(j)
    BY <2>1 DEF EffectivePending
  <2>4. CacheIsGood'
    BY <1>1, <2>1, <2>3 DEF CacheIsGood
  <2>5. AnswersAreGood'
    BY <1>1, <2>1, <2>3 DEF AnswersAreGood, TypeOK
  <2>. QED  BY <1>2, <1>3, <2>2, <2>4, <2>5
<1>. QED  BY <1>4, <1>5

(* The watcher applies an event. *)
LEMMA EventCoherence ==
    ASSUME TypeOK, CoherenceInvariant, WatchEvent
    PROVE  CoherenceInvariant'
<1>. DEFINE e == Head(events)
<1>. USE DEF CoherenceInvariant
<1>1. /\ events \in Seq(Event) /\ events # <<>> /\ wpc = "watching"
      /\ events' = Tail(events)
      /\ UNCHANGED <<store, lastGood, phase, wpc, pc, key, resp>>
  BY DEF WatchEvent, TypeOK, storeVars, readerVars
<1>2. /\ DOMAIN events = 1..Len(events) /\ Len(events) \in Nat \ {0}
      /\ DOMAIN events' = 1..(Len(events) - 1)
      /\ \A i \in DOMAIN events' : i + 1 \in DOMAIN events
                                   /\ events'[i] = events[i + 1]
      /\ e = events[1] /\ e \in Event
  BY <1>1
<1>3. e.key \in Key /\ e.content \in Content
  BY <1>2 DEF Event
<1>4. /\ \A k \in Key \ {e.key} : val'[k] \in {val[k], None}
      /\ Effective(e) => val'[e.key] = Outcome(e.content)
      /\ ~Effective(e) => val' = val
  <2>1. ApplyEvent(e)
    BY DEF WatchEvent
  <2>2. CASE e.content = Absent /\ Delete(e.key)
    BY <2>2, <1>3, DeleteType DEF TypeOK, Outcome, Effective
  <2>3. CASE /\ ParseRouteConfig(e.content).config # None
             /\ Set(e.key, ParseRouteConfig(e.content).config)
    <3>1. e.content \in Config /\ ParseRouteConfig(e.content).config = e.content
      BY <2>3, <1>3, ParseType
    <3>. QED  BY <2>3, <3>1, <1>3, SetType, ContentsDistinct
              DEF TypeOK, Outcome, Effective
  <2>4. CASE /\ e.content # Absent /\ ParseRouteConfig(e.content).config = None
             /\ UNCHANGED cacheVars
    BY <2>4, <1>3, ParseType DEF cacheVars, Effective
  <2>. QED  BY <2>1, <2>2, <2>3, <2>4 DEF ApplyEvent
<1>5. /\ Effective(e) => /\ missed' = missed \ {e.key}
                         /\ raced' = raced \ {e.key}
                         /\ \A r \in Reader : touched'[r] <=>
                               (touched[r] \/ (pc[r] = "fill" /\ key[r] = e.key))
      /\ ~Effective(e) => UNCHANGED <<missed, raced, touched>>
  BY DEF WatchEvent, TypeOK
<1>. HIDE DEF e
<1>6. StoreRemembered' /\ NewIsBlank' /\ EventsOnlyWhileWatching'
  BY <1>1 DEF StoreRemembered, NewIsBlank, EventsOnlyWhileWatching
<1>7. EventsEndGood'
  <2>. SUFFICES ASSUME phase = "up", NEW i \in DOMAIN events', Newest(i)'
                PROVE  Outcome(events'[i].content) = lastGood'[events'[i].key]
    BY <1>1 DEF EventsEndGood, Outcome
  <2>1. ASSUME NEW j \in DOMAIN events, j > i + 1,
               events[j].key = events[i + 1].key, Effective(events[j])
        PROVE  FALSE
    <3>1. j - 1 \in DOMAIN events' /\ j - 1 > i /\ events'[j - 1] = events[j]
      BY <2>1, <1>2
    <3>. QED  BY <3>1, <2>1, <1>2 DEF Newest
  <2>2. Newest(i + 1)
    BY <2>1, <1>2 DEF Newest
  <2>. QED  BY <2>2, <1>1, <1>2 DEF EventsEndGood
<1>8. ASSUME NEW k \in Key, ~EffectivePending(k)', EffectivePending(k)
      PROVE  e.key = k /\ Effective(e) /\ Newest(1)
  <2>1. \A i \in DOMAIN events : i > 1 => i - 1 \in DOMAIN events'
                                          /\ events'[i - 1] = events[i]
    BY <1>2
  <2>2. \A i \in DOMAIN events : events[i].key = k /\ Effective(events[i]) => i = 1
    BY <1>8, <1>2, <2>1 DEF EffectivePending
  <2>. QED  BY <1>8, <2>2, <1>2 DEF EffectivePending, Newest
<1>9. CacheIsGood'
  <2>. SUFFICES ASSUME phase = "up", NEW k \in Key, ~EffectivePending(k)',
                       k \notin missed' \cup raced'
                PROVE  val'[k] \in {None, lastGood[k]}
    BY <1>1 DEF CacheIsGood
  <2>1. CASE EffectivePending(k)
    <3>1. e.key = k /\ Effective(e) /\ Newest(1)
      BY <2>1, <1>8
    <3>2. Outcome(e.content) = lastGood[k]
      BY <3>1, <1>2 DEF EventsEndGood
    <3>. QED  BY <3>1, <3>2, <1>4
  <2>2. CASE ~EffectivePending(k)
    <3>1. ~(e.key = k /\ Effective(e))
      BY <2>2, <1>2 DEF EffectivePending
    <3>2. val[k] \in {None, lastGood[k]}
      BY <2>2, <3>1, <1>5 DEF CacheIsGood
    <3>. QED  BY <3>1, <3>2, <1>4
  <2>. QED  BY <2>1, <2>2
<1>10. AnswersAreGood'
  <2>. SUFFICES ASSUME phase' = "up", NEW r \in Reader,
                       (/\ pc[r] = "fill" /\ resp[r] \in Config /\ ~touched[r]
                        /\ key[r] \notin missed /\ ~EffectivePending(key[r]))'
                PROVE  (resp[r] = lastGood[key[r]])'
    BY DEF AnswersAreGood
  <2>0. /\ phase = "up" /\ pc[r] = "fill" /\ resp[r] \in Config /\ key' = key
        /\ ~touched'[r] /\ key[r] \notin missed'
    BY <1>1
  <2>1. key[r] \in Key /\ ~(e.key = key[r] /\ Effective(e))
    BY <2>0, <1>5 DEF TypeOK
  <2>2. ~EffectivePending(key[r])
    BY <2>0, <2>1, <1>8
  <2>. QED  BY <2>0, <2>1, <2>2, <1>1, <1>5 DEF AnswersAreGood, TypeOK
<1>. QED  BY <1>6, <1>7, <1>9, <1>10

LEMMA CoherenceStep ==
    TypeOK /\ CoherenceInvariant /\ [Next]_vars => CoherenceInvariant'
<1>. SUFFICES ASSUME TypeOK, CoherenceInvariant, [Next]_vars
              PROVE  CoherenceInvariant'
  OBVIOUS
<1>. USE DEF storeVars, cacheVars, watchVars, readerVars
<1>1. CASE Provision
  <2>1. /\ UNCHANGED <<store, lastGood, events, missed, raced, pc>>
        /\ phase = "new" /\ phase' = "up" /\ wpc' = "loop"
    BY <1>1 DEF Provision
  <2>2. events = <<>> /\ events' = <<>> /\ \A r \in Reader : pc'[r] = "idle"
    BY <2>1 DEF CoherenceInvariant, EventsOnlyWhileWatching, NewIsBlank
  <2>3. \A k \in Key : val'[k] \in {None, lastGood[k]}
    <3>1. CASE initialLoad
      <4>1. PICK S \in SUBSET {k \in Key : store[k] \in Config} : val' = Loaded(S)
        BY <3>1 DEF initialLoad
      <4>2. \A k \in S : store[k] \in Content
                         /\ ParseRouteConfig(store[k]).config = store[k]
        BY ParseType, NoneNotConfig DEF TypeOK, StoreTypeOK, Content
      <4>. QED  BY <4>1, <4>2 DEF Loaded, CoherenceInvariant, StoreRemembered
    <3>2. CASE UNCHANGED cacheVars
      BY <2>1, <3>2 DEF CoherenceInvariant, NewIsBlank
    <3>. QED  BY <1>1, <3>1, <3>2 DEF Provision
  <2>. QED  BY <2>1, <2>2, <2>3
            DEF CoherenceInvariant, StoreRemembered, NewIsBlank,
                EventsOnlyWhileWatching, EventsEndGood, CacheIsGood, AnswersAreGood
<1>2. CASE Cleanup
  BY <1>2 DEF Cleanup, CoherenceInvariant, StoreRemembered, NewIsBlank,
              EventsOnlyWhileWatching, EventsEndGood, CacheIsGood, AnswersAreGood
<1>3. CASE AdminClearCache
  BY <1>3, QuietCoherence DEF AdminClearCache
<1>4. ASSUME NEW k \in Key, Expire(k) PROVE CoherenceInvariant'
  BY <1>4, QuietCoherence DEF Expire, Reveal
<1>5. ASSUME NEW k \in Key, NEW x \in Content, EtcdChange(k, x)
      PROVE  CoherenceInvariant'
  BY <1>5, ChangeCoherence
<1>6. CASE WatchLoop
  BY <1>6, QuietCoherence DEF WatchLoop, CoherenceInvariant, NewIsBlank
<1>7. CASE WatchCall
  <2>1. phase # "new" /\ (phase = "up" => events = <<>>) /\ events' = <<>>
    BY <1>7 DEF WatchCall, CoherenceInvariant, NewIsBlank, EventsOnlyWhileWatching
  <2>2. phase = "up" => \A k : EffectivePending(k)' <=> EffectivePending(k)
    BY <2>1 DEF EffectivePending
  <2>3. CacheIsGood' /\ AnswersAreGood'
    BY <1>7, <2>1, <2>2 DEF WatchCall, CoherenceInvariant, CacheIsGood, AnswersAreGood
  <2>. QED  BY <1>7, <2>1, <2>3
            DEF WatchCall, CoherenceInvariant, StoreRemembered, NewIsBlank,
                EventsOnlyWhileWatching, EventsEndGood
<1>8. CASE WatchEvent
  BY <1>8, EventCoherence
<1>9. CASE WatchFail
  <2>1. /\ events' = <<>> /\ phase = "up" /\ phase' = "up"
        /\ UNCHANGED <<store, lastGood, val, pc, key, resp, touched, raced>>
        /\ missed' = missed \cup {events[i].key : i \in DOMAIN events}
    BY <1>9 DEF WatchFail
  <2>2. \A k \in Key : k \notin missed' => k \notin missed /\ ~EffectivePending(k)
    BY <2>1 DEF EffectivePending
  <2>3. CacheIsGood' /\ AnswersAreGood'
    BY <2>1, <2>2 DEF CoherenceInvariant, CacheIsGood, AnswersAreGood, TypeOK
  <2>. QED  BY <2>1, <2>3
            DEF CoherenceInvariant, StoreRemembered, NewIsBlank,
                EventsOnlyWhileWatching, EventsEndGood
<1>10. CASE WatchRetry
  BY <1>10, QuietCoherence DEF WatchRetry, CoherenceInvariant, NewIsBlank
<1>11. CASE WatchExit
  BY <1>11, QuietCoherence DEF WatchExit, CoherenceInvariant, NewIsBlank
<1>12. ASSUME NEW r \in Reader, NEW k \in Key, GetCache(r, k)
       PROVE  CoherenceInvariant'
  BY <1>12, QuietCoherence DEF GetCache, TypeOK
<1>13. ASSUME NEW r \in Reader, GetGate(r) PROVE CoherenceInvariant'
  BY <1>13, QuietCoherence DEF GetGate, TypeOK, CoherenceInvariant, NewIsBlank
<1>14. ASSUME NEW r \in Reader, GetDo(r) PROVE CoherenceInvariant'
  BY <1>14, QuietCoherence DEF GetDo, TypeOK, CoherenceInvariant, NewIsBlank
<1>15. ASSUME NEW r \in Reader, GetRecheck(r) PROVE CoherenceInvariant'
  <2>0. phase # "new"
    BY <1>15 DEF GetRecheck, CoherenceInvariant, NewIsBlank
  <2>1. CASE Lookup(key[r]) # None
    BY <1>15, <2>0, <2>1, FinishQuiet, QuietCoherence DEF GetRecheck
  <2>2. CASE ~(Lookup(key[r]) # None)
    BY <1>15, <2>0, <2>2, QuietCoherence DEF GetRecheck, TypeOK
  <2>. QED  BY <2>1, <2>2
<1>16. ASSUME NEW r \in Reader, GetFetch(r) PROVE CoherenceInvariant'
  <2>1. \A k : EffectivePending(k)' <=> EffectivePending(k)
    BY <1>16 DEF GetFetch, EffectivePending
  <2>2. AnswersAreGood'
    BY <1>16, <2>1 DEF GetFetch, CoherenceInvariant, AnswersAreGood,
                       StoreRemembered, TypeOK
  <2>3. CacheIsGood'
    BY <1>16, <2>1 DEF GetFetch, CoherenceInvariant, CacheIsGood
  <2>4. EventsEndGood'
    BY <1>16 DEF GetFetch, CoherenceInvariant, EventsEndGood, Newest
  <2>. QED  BY <1>16, <2>2, <2>3, <2>4
            DEF GetFetch, CoherenceInvariant, StoreRemembered, NewIsBlank,
                EventsOnlyWhileWatching
<1>17. ASSUME NEW r \in Reader, GetFetchFails(r) PROVE CoherenceInvariant'
  BY <1>17, FinishQuiet, QuietCoherence
  DEF GetFetchFails, CoherenceInvariant, NewIsBlank
<1>18. ASSUME NEW r \in Reader, GetFill(r) PROVE CoherenceInvariant'
  <2>. DEFINE c == ParseRouteConfig(resp[r]).config
  <2>1. /\ resp[r] \in Content /\ key[r] \in Key
        /\ pc[r] = "fill" /\ phase # "new"
        /\ UNCHANGED <<store, lastGood, phase, wpc, events, key, missed>>
    BY <1>18 DEF GetFill, TypeOK, CoherenceInvariant, NewIsBlank
  <2>2. PICK d, e : Finish(r, d, e)
    BY <1>18 DEF GetFill
  <2>3. \A s \in Reader : pc'[s] = "fill" =>
           /\ pc[s] = "fill" /\ key'[s] = key[s]
           /\ resp'[s] = resp[s] /\ touched'[s] = touched[s]
    BY <2>1, <2>2, FinishQuiet
  <2>4. CASE val' = val /\ raced' = raced
    BY <2>1, <2>3, <2>4, QuietCoherence
  <2>5. CASE /\ c # None /\ Set(key[r], c)
             /\ raced' = IF touched[r] THEN raced \cup {key[r]} ELSE raced
    <3>1. c \in Config /\ c = resp[r]
      BY <2>1, <2>5, ParseType
    <3>2. val'[key[r]] = c /\ \A j \in Key \ {key[r]} : val'[j] \in {val[j], None}
      BY <2>1, <2>5, <3>1, SetType DEF TypeOK
    <3>3. \A k : EffectivePending(k)' <=> EffectivePending(k)
      BY <2>1 DEF EffectivePending
    <3>4. CacheIsGood'
      <4>. SUFFICES ASSUME phase = "up", NEW k \in Key, ~EffectivePending(k),
                           k \notin missed \cup raced'
                    PROVE  val'[k] \in {None, lastGood[k]}
        BY <2>1, <3>3 DEF CacheIsGood
      <4>1. CASE k = key[r]
        BY <4>1, <3>1, <3>2, <2>1, <2>5
        DEF CoherenceInvariant, AnswersAreGood, TypeOK
      <4>2. CASE k # key[r]
        BY <4>2, <3>2, <2>5 DEF CoherenceInvariant, CacheIsGood
      <4>. QED  BY <4>1, <4>2
    <3>5. AnswersAreGood'
      BY <2>1, <2>3, <3>3 DEF CoherenceInvariant, AnswersAreGood
    <3>6. EventsEndGood'
      BY <2>1 DEF CoherenceInvariant, EventsEndGood, Newest
    <3>. QED  BY <2>1, <3>4, <3>5, <3>6
              DEF CoherenceInvariant, StoreRemembered, NewIsBlank,
                  EventsOnlyWhileWatching
  <2>. QED  BY <1>18, <2>4, <2>5 DEF GetFill, Hide
<1>19. ASSUME NEW r \in Reader, GetReturn(r) PROVE CoherenceInvariant'
  BY <1>19, QuietCoherence DEF GetReturn, TypeOK, CoherenceInvariant, NewIsBlank
<1>20. CASE UNCHANGED vars
  BY <1>20, QuietCoherence DEF vars
<1>. QED  BY <1>1, <1>2, <1>3, <1>4, <1>5, <1>6, <1>7, <1>8, <1>9, <1>10, <1>11,
             <1>12, <1>13, <1>14, <1>15, <1>16, <1>17, <1>18, <1>19, <1>20
          DEF Next, Watcher, Get

(* Apart from changes nobody watched and answers overtaken by an event, the *)
(* cache of a running source holds no stale route once its events are read. *)
THEOREM EtcdCoherent == Spec => []Coherent
<1>1. Init => CoherenceInvariant
  BY ContentsDistinct
  DEF Init, CacheInit, StoreInit, CoherenceInvariant, StoreRemembered, NewIsBlank,
         EventsOnlyWhileWatching, EventsEndGood, CacheIsGood, AnswersAreGood
<1>2. CoherenceInvariant => Coherent
  BY DEF CoherenceInvariant, CacheIsGood, Coherent, EffectivePending, Pending
<1>. QED  BY <1>1, <1>2, CoherenceStep, EtcdTypeCorrect, PTL DEF Spec
=============================================================================

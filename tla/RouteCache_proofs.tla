-------------------------- MODULE RouteCache_proofs -------------------------
(* Proofs about the route cache, for any keys, configurations, capacity and *)
(* number of threads.                                                       *)
EXTENDS RouteCache, FiniteSetTheorems, TLAPS

-----------------------------------------------------------------------------
(* The inductive invariant.                                                 *)

(* The Gets that are about to count a hit. *)
AtHit == {t \in Thread : pc[t] = "hit"}

(* Unless a Clear is between zeroing the hits and zeroing the negative      *)
(* hits, the negative hits that are not yet counted as hits are those of    *)
(* Gets that are about to count them.                                       *)
CountersOK ==
    (\A t \in Thread : ~InClear(t)) => negativeHits <= hits + Cardinality(AtHit)

(* What is stable for a Range is cached and has been, or will be, visited. *)
RangeOK == RangeMissesNothing /\ \A t \in Thread : stable[t] \subseteq Present

(* The cache is never over its capacity. *)
WithinCapacity == Cardinality(Present) <= MaxSize

(* While the value of a Set waits to be added, its key is hidden only by a  *)
(* SetNegative that overlapped this very Set.                               *)
SetRevealsKey ==
    \A t \in Thread :
        pc[t] = "add" /\ negativeCache[key[t]] = "live" => negated[t]

Inv == StateOK /\ CountersOK /\ SetRevealsKey /\ RangeOK /\ WithinCapacity

-----------------------------------------------------------------------------
(* Lemmas about the parts.                                                  *)

(* The threads and the cached keys can be counted. *)
LEMMA Countable ==
    /\ IsFiniteSet(AtHit) /\ Cardinality(AtHit) \in Nat
    /\ IsFiniteSet(Present) /\ Cardinality(Present) \in Nat
<1>1. AtHit \subseteq Thread /\ Present \subseteq Key
  BY DEF AtHit, Present
<1>. QED  BY <1>1, CacheAssumption, FS_Subset, FS_CardinalityType

(* A step between labels other than those of the counters. *)
LEMMA CountersKept ==
    ASSUME CountersOK, hits' = hits, negativeHits' = negativeHits,
           \A u \in Thread : pc'[u] = "hit" <=> pc[u] = "hit",
           \A u \in Thread : InClear(u)' <=> InClear(u)
    PROVE  CountersOK'
<1>1. AtHit' = AtHit
  BY DEF AtHit
<1>. QED  BY <1>1 DEF CountersOK

(* A Get arrives at, or leaves, the step that counts the hit. *)
LEMMA ArriveAtHit ==
    ASSUME StateOK, NEW t \in Thread, pc[t] # "hit", pc' = [pc EXCEPT ![t] = "hit"]
    PROVE  Cardinality(AtHit') = Cardinality(AtHit) + 1
<1>1. AtHit' = AtHit \cup {t} /\ t \notin AtHit
  BY DEF AtHit, StateOK
<1>. QED  BY <1>1, Countable, FS_AddElement

LEMMA LeaveHit ==
    ASSUME StateOK, NEW t \in Thread, pc[t] = "hit", pc' = [pc EXCEPT ![t] = "idle"]
    PROVE  Cardinality(AtHit') = Cardinality(AtHit) - 1
<1>1. AtHit' = AtHit \ {t} /\ t \in AtHit
  BY DEF AtHit, StateOK
<1>. QED  BY <1>1, Countable, FS_RemoveElement

(* Adding to the map, with or without an eviction, keeps it within its      *)
(* capacity, and the recency list a list of keys.                           *)
LEMMA AddOK ==
    ASSUME StateOK, WithinCapacity, NEW k \in Key, NEW c \in Config, lruAdd(k, c)
    PROVE  /\ lru' \in [Key -> Config \cup {None}] /\ older' \subseteq Key \X Key
           /\ WithinCapacity'
<1>1. CASE k \in Present
  <2>1. lru' = [lru EXCEPT ![k] = c] /\ older' = Touched(k, Present)
    BY <1>1 DEF lruAdd
  <2>2. Present' = Present
    BY <1>1, <2>1, CacheAssumption DEF Present, StateOK
  <2>3. WithinCapacity'
    BY <2>2 DEF WithinCapacity
  <2>. QED  BY <2>1, <2>3 DEF StateOK, Touched, Present
<1>2. CASE k \notin Present /\ Cardinality(Present) < MaxSize
  <2>1. lru' = [lru EXCEPT ![k] = c] /\ older' = Touched(k, Present)
    BY <1>2, Countable, CacheAssumption DEF lruAdd
  <2>2. Present' = Present \cup {k}
    BY <2>1, CacheAssumption DEF Present, StateOK
  <2>3. Cardinality(Present') = Cardinality(Present) + 1
    BY <1>2, <2>2, Countable, FS_AddElement
  <2>4. WithinCapacity'
    BY <1>2, <2>3, Countable, CacheAssumption DEF WithinCapacity
  <2>. QED  BY <2>1, <2>4 DEF StateOK, Touched, Present
<1>3. CASE k \notin Present /\ ~(Cardinality(Present) < MaxSize)
  <2>1. PICK v \in Present :
           /\ lru' = [lru EXCEPT ![v] = None, ![k] = c]
           /\ older' = {p \in older : v \notin {p[1], p[2]}}
                          \cup {<<x, k>> : x \in Present \ {v}}
    BY <1>3, Countable, CacheAssumption DEF lruAdd
  <2>2. Present' = (Present \ {v}) \cup {k} /\ v # k /\ v \in Key
    BY <1>3, <2>1, CacheAssumption DEF Present, StateOK
  <2>3. /\ Cardinality(Present \ {v}) = Cardinality(Present) - 1
        /\ IsFiniteSet(Present \ {v})
    BY <2>1, Countable, FS_RemoveElement
  <2>4. Cardinality(Present') = Cardinality(Present \ {v}) + 1
    BY <1>3, <2>2, <2>3, FS_AddElement
  <2>5. WithinCapacity'
    BY <2>3, <2>4, Countable DEF WithinCapacity
  <2>6. older' \subseteq Key \X Key
    BY <2>1 DEF StateOK, Present
  <2>7. lru' \in [Key -> Config \cup {None}]
    BY <2>1, <2>2 DEF StateOK
  <2>. QED  BY <2>5, <2>6, <2>7
<1>. QED  BY <1>1, <1>2, <1>3

(* Where the map loses keys or stays as it is, it stays within capacity. *)
LEMMA ShrinkOK ==
    ASSUME WithinCapacity, \A k \in Key : lru'[k] # None => lru[k] # None
    PROVE  WithinCapacity'
<1>1. Present' \subseteq Present
  BY DEF Present
<1>2. Cardinality(Present') <= Cardinality(Present) /\ Cardinality(Present') \in Nat
  BY <1>1, Countable, FS_Subset, FS_CardinalityType
<1>. QED  BY <1>2, Countable, CacheAssumption DEF WithinCapacity

(* A change of the map keeps what is stable for a Range. *)
LEMMA UnstableOK ==
    ASSUME StateOK, RangeOK, Unstable, UNCHANGED <<seen>>,
           \A t \in Thread : pc'[t] = "range" => pc[t] = "range" /\ todo'[t] = todo[t]
    PROVE  RangeOK' /\ stable' \in [Thread -> SUBSET Key]
BY DEF StateOK, RangeOK, RangeMissesNothing, Unstable, Present

-----------------------------------------------------------------------------
(* The invariant holds initially and every step keeps it.                   *)
LEMMA InvInit == Init => Inv
<1>. SUFFICES ASSUME Init PROVE Inv
  OBVIOUS
<1>. USE DEF Init
<1>1. StateOK
  BY CacheAssumption DEF StateOK, Entry, Label
<1>2. Present = {}
  BY DEF Present
<1>3. CountersOK
  BY Countable DEF CountersOK
<1>4. SetRevealsKey /\ RangeOK
  BY <1>2 DEF SetRevealsKey, RangeOK, RangeMissesNothing
<1>5. WithinCapacity
  BY <1>2, FS_EmptySet, CacheAssumption DEF WithinCapacity
<1>. QED  BY <1>1, <1>3, <1>4, <1>5 DEF Inv

(* A step that leaves the map and the Ranges alone keeps what is said of    *)
(* them.                                                                    *)
LEMMA MapKept ==
    ASSUME RangeOK, WithinCapacity, UNCHANGED <<lru, seen, stable>>,
           \A t \in Thread : pc'[t] = "range" => pc[t] = "range" /\ todo'[t] = todo[t]
    PROVE  RangeOK' /\ WithinCapacity'
<1>1. Present' = Present
  BY DEF Present
<1>. QED  BY <1>1 DEF RangeOK, RangeMissesNothing, WithinCapacity

(* Every step of a method that has begun. *)
LEMMA StepKeepsInv ==
    ASSUME Inv, NEW t \in Thread, Step(t)
    PROVE  Inv'
<1>. USE DEF lruVars, counters, history
<1>1. CASE GetNegativeHit(t)
  <2>0. /\ pc[t] = "negHit" /\ pc' = [pc EXCEPT ![t] = "hit"]
        /\ negativeHits' = negativeHits + 1
    BY <1>1 DEF GetNegativeHit, Goto
  <2>1. StateOK'
    BY <1>1, <2>0 DEF GetNegativeHit, Inv, StateOK, Label
  <2>2. CountersOK'
    <3>1. Cardinality(AtHit') = Cardinality(AtHit) + 1
      BY <2>0, ArriveAtHit DEF Inv
    <3>2. (\A u \in Thread : ~InClear(u)') => \A u \in Thread : ~InClear(u)
      BY <2>0 DEF Inv, StateOK, InClear
    <3>. QED  BY <1>1, <2>0, <3>1, <3>2, Countable DEF GetNegativeHit, Inv, StateOK, CountersOK
  <2>3. SetRevealsKey'
    BY <1>1, <2>0 DEF GetNegativeHit, Inv, StateOK, SetRevealsKey
  <2>4. RangeOK' /\ WithinCapacity'
    BY <1>1, <2>0, MapKept DEF GetNegativeHit, Inv, StateOK
  <2>. QED  BY <2>1, <2>2, <2>3, <2>4 DEF Inv
<1>2. CASE GetDropExpired(t)
  <2>0. pc[t] = "dropExpired" /\ pc' = [pc EXCEPT ![t] = "lruGet"]
    BY <1>2 DEF GetDropExpired, Goto
  <2>1. StateOK'
    BY <1>2, <2>0 DEF GetDropExpired, DropEntry, Inv, StateOK, Label, Entry
  <2>2. CountersOK'
    BY <1>2, <2>0, CountersKept DEF GetDropExpired, Inv, StateOK, InClear
  <2>3. SetRevealsKey'
    BY <1>2, <2>0 DEF GetDropExpired, DropEntry, Inv, StateOK, SetRevealsKey
  <2>4. RangeOK' /\ WithinCapacity'
    BY <1>2, <2>0, MapKept DEF GetDropExpired, Inv, StateOK
  <2>. QED  BY <2>1, <2>2, <2>3, <2>4 DEF Inv
<1>3. CASE GetLRU(t)
  <2>0. /\ pc[t] = "lruGet" /\ older' \subseteq Key \X Key
        /\ pc' = [pc EXCEPT ![t] = "hit"] \/ pc' = [pc EXCEPT ![t] = "miss"]
        /\ UNCHANGED <<lru, negativeCache, counters, key, cfg, todo, calls, history>>
    <3>1. older' \subseteq older \cup {<<x, key[t]>> : x \in Present}
      BY <1>3 DEF GetLRU, lruGet, Touched
    <3>2. older \subseteq Key \X Key /\ key[t] \in Key /\ Present \subseteq Key
      BY DEF Inv, StateOK, Present
    <3>3. older' \subseteq Key \X Key
      BY <3>1, <3>2
    <3>. QED  BY <1>3, <3>3 DEF GetLRU, Goto, lruGet
  <2>1. StateOK'
    BY <2>0 DEF Inv, StateOK, Label
  <2>2. CountersOK'
    <3>1. CASE pc' = [pc EXCEPT ![t] = "hit"]
      <4>1. Cardinality(AtHit') = Cardinality(AtHit) + 1
        BY <2>0, <3>1, ArriveAtHit DEF Inv
      <4>2. (\A u \in Thread : ~InClear(u)') => \A u \in Thread : ~InClear(u)
        BY <2>0 DEF Inv, StateOK, InClear
      <4>. QED  BY <2>0, <4>1, <4>2, Countable DEF Inv, StateOK, CountersOK
    <3>2. CASE pc' = [pc EXCEPT ![t] = "miss"]
      BY <2>0, <3>2, CountersKept DEF Inv, StateOK, InClear
    <3>. QED  BY <2>0, <3>1, <3>2
  <2>3. SetRevealsKey'
    BY <2>0 DEF Inv, StateOK, SetRevealsKey
  <2>4. RangeOK' /\ WithinCapacity'
    BY <2>0, MapKept DEF Inv, StateOK
  <2>. QED  BY <2>1, <2>2, <2>3, <2>4 DEF Inv
<1>4. CASE GetHit(t)
  <2>0. pc[t] = "hit" /\ pc' = [pc EXCEPT ![t] = "idle"] /\ hits' = hits + 1
    BY <1>4 DEF GetHit, Goto
  <2>1. StateOK'
    BY <1>4, <2>0 DEF GetHit, Inv, StateOK, Label
  <2>2. CountersOK'
    <3>1. Cardinality(AtHit') = Cardinality(AtHit) - 1
      BY <2>0, LeaveHit DEF Inv
    <3>2. (\A u \in Thread : ~InClear(u)') => \A u \in Thread : ~InClear(u)
      BY <2>0 DEF Inv, StateOK, InClear
    <3>. QED  BY <1>4, <2>0, <3>1, <3>2, Countable DEF GetHit, Inv, StateOK, CountersOK
  <2>3. SetRevealsKey'
    BY <1>4, <2>0 DEF GetHit, Inv, StateOK, SetRevealsKey
  <2>4. RangeOK' /\ WithinCapacity'
    BY <1>4, <2>0, MapKept DEF GetHit, Inv, StateOK
  <2>. QED  BY <2>1, <2>2, <2>3, <2>4 DEF Inv
<1>5. CASE GetMiss(t)
  <2>0. pc[t] = "miss" /\ pc' = [pc EXCEPT ![t] = "idle"]
    BY <1>5 DEF GetMiss, Goto
  <2>1. StateOK'
    BY <1>5, <2>0 DEF GetMiss, Inv, StateOK, Label
  <2>2. CountersOK'
    BY <1>5, <2>0, CountersKept DEF GetMiss, Inv, StateOK, InClear
  <2>3. SetRevealsKey'
    BY <1>5, <2>0 DEF GetMiss, Inv, StateOK, SetRevealsKey
  <2>4. RangeOK' /\ WithinCapacity'
    BY <1>5, <2>0, MapKept DEF GetMiss, Inv, StateOK
  <2>. QED  BY <2>1, <2>2, <2>3, <2>4 DEF Inv
<1>6. CASE IsNegativeCachedDrop(t)
  <2>0. pc[t] = "dropStale" /\ pc' = [pc EXCEPT ![t] = "idle"]
    BY <1>6 DEF IsNegativeCachedDrop, Goto
  <2>1. StateOK'
    BY <1>6, <2>0 DEF IsNegativeCachedDrop, DropEntry, Inv, StateOK, Label, Entry
  <2>2. CountersOK'
    BY <1>6, <2>0, CountersKept DEF IsNegativeCachedDrop, Inv, StateOK, InClear
  <2>3. SetRevealsKey'
    BY <1>6, <2>0 DEF IsNegativeCachedDrop, DropEntry, Inv, StateOK, SetRevealsKey
  <2>4. RangeOK' /\ WithinCapacity'
    BY <1>6, <2>0, MapKept DEF IsNegativeCachedDrop, Inv, StateOK
  <2>. QED  BY <2>1, <2>2, <2>3, <2>4 DEF Inv
<1>7. CASE SetAdd(t)
  <2>0. /\ pc[t] = "add" /\ pc' = [pc EXCEPT ![t] = "idle"]
        /\ lruAdd(key[t], cfg[t]) /\ Unstable
        /\ key[t] \in Key /\ cfg[t] \in Config
    BY <1>7 DEF SetAdd, Goto, Inv, StateOK
  <2>4. RangeOK' /\ stable' \in [Thread -> SUBSET Key]
    BY <1>7, <2>0, UnstableOK DEF SetAdd, Inv, StateOK
  <2>5. /\ lru' \in [Key -> Config \cup {None}] /\ older' \subseteq Key \X Key
        /\ WithinCapacity'
    BY <2>0, AddOK DEF Inv
  <2>1. StateOK'
    BY <1>7, <2>0, <2>4, <2>5 DEF SetAdd, Inv, StateOK, Label
  <2>2. CountersOK'
    BY <1>7, <2>0, CountersKept DEF SetAdd, Inv, StateOK, InClear
  <2>3. SetRevealsKey'
    BY <1>7, <2>0 DEF SetAdd, Inv, StateOK, SetRevealsKey
  <2>. QED  BY <2>1, <2>2, <2>3, <2>4, <2>5 DEF Inv
<1>8. CASE DeleteRemove(t)
  <2>0. /\ pc[t] = "remove" /\ pc' = [pc EXCEPT ![t] = "idle"]
        /\ lru' = [lru EXCEPT ![key[t]] = None] /\ older' \subseteq older
        /\ Unstable
    BY <1>8 DEF DeleteRemove, Goto, lruRemove, Forgotten
  <2>4. RangeOK' /\ stable' \in [Thread -> SUBSET Key]
    BY <1>8, <2>0, UnstableOK DEF DeleteRemove, Inv, StateOK
  <2>5. WithinCapacity'
    BY <2>0, ShrinkOK DEF Inv, StateOK
  <2>1. StateOK'
    BY <1>8, <2>0, <2>4 DEF DeleteRemove, Inv, StateOK, Label
  <2>2. CountersOK'
    BY <1>8, <2>0, CountersKept DEF DeleteRemove, Inv, StateOK, InClear
  <2>3. SetRevealsKey'
    BY <1>8, <2>0 DEF DeleteRemove, Inv, StateOK, SetRevealsKey
  <2>. QED  BY <2>1, <2>2, <2>3, <2>4, <2>5 DEF Inv
<1>9. CASE ClearNegative(t)
  <2>0. /\ pc[t] = "clrNegative" /\ pc' \in {pc, [pc EXCEPT ![t] = "clrHits"]}
        /\ negativeCache' = negativeCache
              \/ \E k \in Key : negativeCache' = [negativeCache EXCEPT ![k] = "none"]
        /\ todo' \in [Thread -> SUBSET Key]
        /\ \A u \in Thread \ {t} : todo'[u] = todo[u]
        /\ UNCHANGED <<lruVars, counters, key, cfg, calls, history>>
    BY <1>9 DEF ClearNegative, DropEntry, Goto, Inv, StateOK
  <2>1. StateOK'
    BY <2>0 DEF Inv, StateOK, Label, Entry
  <2>2. CountersOK'
    BY <2>0, CountersKept DEF Inv, StateOK, InClear
  <2>3. SetRevealsKey'
    BY <2>0 DEF Inv, StateOK, SetRevealsKey
  <2>4. RangeOK' /\ WithinCapacity'
    BY <2>0, MapKept DEF Inv, StateOK
  <2>. QED  BY <2>1, <2>2, <2>3, <2>4 DEF Inv
<1>10. CASE ClearHits(t) \/ ClearMisses(t)
  <2>0. /\ pc[t] \in {"clrHits", "clrMisses"}
        /\ pc' \in {[pc EXCEPT ![t] = "clrMisses"], [pc EXCEPT ![t] = "clrNegHits"]}
        /\ hits' \in Nat /\ misses' \in Nat
        /\ UNCHANGED <<lruVars, negativeCache, negativeHits, key, cfg, todo, calls, history>>
    BY <1>10 DEF ClearHits, ClearMisses, Goto, Inv, StateOK
  <2>1. StateOK'
    BY <2>0 DEF Inv, StateOK, Label
  <2>2. CountersOK'
    BY <2>0 DEF Inv, StateOK, InClear, CountersOK
  <2>3. SetRevealsKey'
    BY <2>0 DEF Inv, StateOK, SetRevealsKey
  <2>4. RangeOK' /\ WithinCapacity'
    BY <2>0, MapKept DEF Inv, StateOK
  <2>. QED  BY <2>1, <2>2, <2>3, <2>4 DEF Inv
<1>11. CASE ClearNegativeHits(t)
  <2>0. pc[t] = "clrNegHits" /\ pc' = [pc EXCEPT ![t] = "idle"] /\ negativeHits' = 0
    BY <1>11 DEF ClearNegativeHits, Goto
  <2>1. StateOK'
    BY <1>11, <2>0 DEF ClearNegativeHits, Inv, StateOK, Label
  <2>2. CountersOK'
    <3>1. Cardinality(AtHit') \in Nat
      <4>1. AtHit' \subseteq Thread
        BY DEF AtHit
      <4>. QED  BY <4>1, CacheAssumption, FS_Subset, FS_CardinalityType
    <3>. QED  BY <2>0, <2>1, <3>1 DEF CountersOK, StateOK
  <2>3. SetRevealsKey'
    BY <1>11, <2>0 DEF ClearNegativeHits, Inv, StateOK, SetRevealsKey
  <2>4. RangeOK' /\ WithinCapacity'
    BY <1>11, <2>0, MapKept DEF ClearNegativeHits, Inv, StateOK
  <2>. QED  BY <2>1, <2>2, <2>3, <2>4 DEF Inv
<1>12. CASE RangePeek(t)
  <2>0. /\ pc[t] = "range" /\ pc' \in {pc, [pc EXCEPT ![t] = "idle"]}
        /\ UNCHANGED <<lruVars, negativeCache, counters, key, cfg, calls, stable, negated>>
    BY <1>12 DEF RangePeek, Goto
  <2>4. /\ todo' \in [Thread -> SUBSET Key] /\ seen' \in [Thread -> SUBSET Key]
        /\ RangeOK'
    <3>1. Present' = Present
      BY <2>0 DEF Present
    <3>2. ASSUME NEW k \in todo[t], pc' = pc,
                 todo' = [todo EXCEPT ![t] = @ \ {k}],
                 seen' = [seen EXCEPT ![t] = @ \cup ({k} \cap Present)]
          PROVE  /\ todo' \in [Thread -> SUBSET Key] /\ seen' \in [Thread -> SUBSET Key]
                 /\ RangeOK'
      <4>1. k \in Key
        BY DEF Inv, StateOK
      <4>. QED  BY <2>0, <3>1, <3>2, <4>1 DEF Inv, StateOK, RangeOK, RangeMissesNothing
    <3>3. ASSUME pc' = [pc EXCEPT ![t] = "idle"], UNCHANGED <<todo, seen>>
          PROVE  /\ todo' \in [Thread -> SUBSET Key] /\ seen' \in [Thread -> SUBSET Key]
                 /\ RangeOK'
      BY <2>0, <3>1, <3>3 DEF Inv, StateOK, RangeOK, RangeMissesNothing
    <3>. QED  BY <1>12, <3>2, <3>3 DEF RangePeek, Goto
  <2>1. StateOK'
    BY <2>0, <2>4 DEF Inv, StateOK, Label
  <2>2. CountersOK'
    BY <2>0, CountersKept DEF Inv, StateOK, InClear
  <2>3. SetRevealsKey'
    BY <2>0 DEF Inv, StateOK, SetRevealsKey
  <2>5. WithinCapacity'
    BY <2>0, ShrinkOK DEF Inv
  <2>. QED  BY <2>1, <2>2, <2>3, <2>4, <2>5 DEF Inv
<1>. QED  BY <1>1, <1>2, <1>3, <1>4, <1>5, <1>6, <1>7, <1>8, <1>9, <1>10, <1>11, <1>12
          DEF Step

(* Every beginning of a method. *)
LEMMA CallKeepsInv ==
    ASSUME Inv, NEW t \in Thread, Call(t)
    PROVE  Inv'
<1>. USE DEF lruVars, counters, history, Start
<1>1. ASSUME NEW k \in Key, Get(t, k) PROVE Inv'
  <2>0. /\ pc[t] = "idle"
        /\ \E l \in {"negHit", "dropExpired", "lruGet"} : pc' = [pc EXCEPT ![t] = l]
    BY <1>1, Zenon DEF Get, Goto
  <2>1. StateOK'
    BY <1>1, <2>0, CacheAssumption DEF Get, Inv, StateOK, Label
  <2>2. CountersOK'
    BY <1>1, <2>0, CountersKept DEF Get, Inv, StateOK, InClear
  <2>3. SetRevealsKey'
    BY <1>1, <2>0 DEF Get, Inv, StateOK, SetRevealsKey
  <2>4. RangeOK' /\ WithinCapacity'
    BY <1>1, <2>0, MapKept DEF Get, Inv, StateOK
  <2>. QED  BY <2>1, <2>2, <2>3, <2>4 DEF Inv
<1>2. ASSUME NEW k \in Key, IsNegativeCached(t, k) PROVE Inv'
  <2>0. /\ pc[t] = "idle"
        /\ \E l \in {"dropStale", "idle"} : pc' = [pc EXCEPT ![t] = l]
    BY <1>2 DEF IsNegativeCached, Goto
  <2>1. StateOK'
    BY <1>2, <2>0, CacheAssumption DEF IsNegativeCached, Inv, StateOK, Label
  <2>2. CountersOK'
    BY <1>2, <2>0, CountersKept DEF IsNegativeCached, Inv, StateOK, InClear
  <2>3. SetRevealsKey'
    BY <1>2, <2>0 DEF IsNegativeCached, Inv, StateOK, SetRevealsKey
  <2>4. RangeOK' /\ WithinCapacity'
    BY <1>2, <2>0, MapKept DEF IsNegativeCached, Inv, StateOK
  <2>. QED  BY <2>1, <2>2, <2>3, <2>4 DEF Inv
<1>3. ASSUME NEW k \in Key, SetNegative(t, k) PROVE Inv'
  <2>1. StateOK'
    BY <1>3, CacheAssumption DEF SetNegative, Inv, StateOK, Entry
  <2>2. CountersOK'
    BY <1>3, CountersKept DEF SetNegative, Inv, InClear
  <2>3. SetRevealsKey'
    BY <1>3 DEF SetNegative, Inv, StateOK, SetRevealsKey
  <2>4. RangeOK' /\ WithinCapacity'
    BY <1>3, MapKept DEF SetNegative, Inv
  <2>. QED  BY <2>1, <2>2, <2>3, <2>4 DEF Inv
<1>4. ASSUME NEW k \in Key, Delete(t, k) PROVE Inv'
  <2>0. pc[t] = "idle" /\ pc' = [pc EXCEPT ![t] = "remove"]
    BY <1>4 DEF Delete, Goto
  <2>1. StateOK'
    BY <1>4, <2>0, CacheAssumption DEF Delete, DropEntry, Inv, StateOK, Label, Entry
  <2>2. CountersOK'
    BY <1>4, <2>0, CountersKept DEF Delete, Inv, StateOK, InClear
  <2>3. SetRevealsKey'
    BY <1>4, <2>0 DEF Delete, DropEntry, Inv, StateOK, SetRevealsKey
  <2>4. RangeOK' /\ WithinCapacity'
    BY <1>4, <2>0, MapKept DEF Delete, Inv, StateOK
  <2>. QED  BY <2>1, <2>2, <2>3, <2>4 DEF Inv
<1>5. ASSUME NEW k \in Key, NEW c \in Config, Set(t, k, c) PROVE Inv'
  <2>0. pc[t] = "idle" /\ pc' = [pc EXCEPT ![t] = "add"]
    BY <1>5 DEF Set, Goto
  <2>1. StateOK'
    BY <1>5, <2>0, CacheAssumption DEF Set, DropEntry, Inv, StateOK, Label, Entry
  <2>2. CountersOK'
    BY <1>5, <2>0, CountersKept DEF Set, Inv, StateOK, InClear
  <2>3. SetRevealsKey'
    BY <1>5, <2>0 DEF Set, DropEntry, Inv, StateOK, SetRevealsKey
  <2>4. RangeOK' /\ WithinCapacity'
    BY <1>5, <2>0, MapKept DEF Set, Inv, StateOK
  <2>. QED  BY <2>1, <2>2, <2>3, <2>4 DEF Inv
<1>6. CASE Clear(t)
  <2>0. /\ pc[t] = "idle" /\ pc' = [pc EXCEPT ![t] = "clrNegative"]
        /\ lru' = [k \in Key |-> None] /\ older' = {} /\ Unstable
        /\ todo' \in [Thread -> SUBSET Key]
        /\ \A u \in Thread \ {t} : todo'[u] = todo[u]
        /\ calls' \in 0..MaxCalls
        /\ UNCHANGED <<negativeCache, counters, key, cfg, seen, negated>>
    BY <1>6, CacheAssumption DEF Clear, Goto, lruPurge, Inv, StateOK
  <2>4. RangeOK' /\ stable' \in [Thread -> SUBSET Key]
    BY <1>6, <2>0, UnstableOK DEF Clear, Inv, StateOK
  <2>5. WithinCapacity'
    BY <2>0, ShrinkOK DEF Inv
  <2>1. StateOK'
    BY <2>0, <2>4 DEF Inv, StateOK, Label
  <2>2. CountersOK'
    BY <1>6, <2>0, CountersKept DEF Clear, Inv, StateOK, InClear
  <2>3. SetRevealsKey'
    BY <1>6, <2>0 DEF Clear, Inv, StateOK, SetRevealsKey
  <2>. QED  BY <2>1, <2>2, <2>3, <2>4, <2>5 DEF Inv
<1>7. CASE RangeKeys(t)
  <2>0. /\ pc[t] = "idle" /\ pc' = [pc EXCEPT ![t] = "range"]
        /\ Present' = Present /\ Present \subseteq Key
    BY <1>7 DEF RangeKeys, Goto, Present
  <2>1. StateOK'
    BY <1>7, <2>0, CacheAssumption DEF RangeKeys, Inv, StateOK, Label
  <2>2. CountersOK'
    BY <1>7, <2>0, CountersKept DEF RangeKeys, Inv, StateOK, InClear
  <2>3. SetRevealsKey'
    BY <1>7, <2>0 DEF RangeKeys, Inv, StateOK, SetRevealsKey
  <2>4. RangeOK'
    BY <1>7, <2>0 DEF RangeKeys, Inv, StateOK, RangeOK, RangeMissesNothing
  <2>5. WithinCapacity'
    BY <2>0 DEF Inv, WithinCapacity
  <2>. QED  BY <2>1, <2>2, <2>3, <2>4, <2>5 DEF Inv
<1>. QED  BY <1>1, <1>2, <1>3, <1>4, <1>5, <1>6, <1>7 DEF Call

LEMMA InvStep == Inv /\ (Act \/ UNCHANGED vars) => Inv'
<1>. SUFFICES ASSUME Inv, Act \/ UNCHANGED vars PROVE Inv'
  OBVIOUS
<1>1. ASSUME NEW k \in Key, Expire(k) PROVE Inv'
  <2>. USE DEF lruVars, counters, history
  <2>1. StateOK'
    BY <1>1 DEF Expire, Inv, StateOK, Entry
  <2>2. CountersOK'
    BY <1>1, CountersKept DEF Expire, Inv, InClear
  <2>3. SetRevealsKey'
    BY <1>1 DEF Expire, Inv, StateOK, SetRevealsKey
  <2>4. RangeOK' /\ WithinCapacity'
    BY <1>1, MapKept DEF Expire, Inv
  <2>. QED  BY <2>1, <2>2, <2>3, <2>4 DEF Inv
<1>2. CASE UNCHANGED vars
  <2>1. StateOK' /\ SetRevealsKey'
    BY <1>2 DEF vars, Inv, StateOK, SetRevealsKey
  <2>2. CountersOK'
    BY <1>2, CountersKept DEF vars, Inv, InClear
  <2>3. RangeOK' /\ WithinCapacity'
    BY <1>2, MapKept DEF vars, Inv
  <2>. QED  BY <2>1, <2>2, <2>3 DEF Inv
<1>. QED  BY <1>1, <1>2, StepKeepsInv, CallKeepsInv DEF Act

-----------------------------------------------------------------------------
(* What a Get may return.                                                   *)

(* The configuration a Get is about to find was shown by its key since the  *)
(* Get began, unless it is one of the doubtful.                             *)
VisibleOK ==
    \A t \in Thread :
        Reading(t) => \/ lru[key[t]] \in visible[t] \cup {None}
                      \/ key[t] \in doubtful

HistoryOK == TypeOK /\ VisibleOK

(* A key gets a configuration from the second step of a Set only. *)
LEMMA OnlySetStores ==
    ASSUME StateOK, Act, NEW k \in Key
    PROVE  \/ lru'[k] \in {lru[k], None}
           \/ /\ negativeCache' = negativeCache
              /\ \E u \in Thread : pc[u] = "add" /\ pc'[u] = "idle" /\ key[u] = k
<1>. USE DEF lruVars, counters, history
<1>1. CASE lru' = lru
  BY <1>1
<1>2. ASSUME NEW t \in Thread, SetAdd(t)
      PROVE  \/ lru'[k] \in {lru[k], None}
             \/ /\ negativeCache' = negativeCache
                /\ \E u \in Thread : pc[u] = "add" /\ pc'[u] = "idle" /\ key[u] = k
  <2>1. /\ pc[t] = "add" /\ pc'[t] = "idle" /\ negativeCache' = negativeCache
        /\ lruAdd(key[t], cfg[t])
    BY <1>2 DEF SetAdd, Goto, StateOK
  <2>2. CASE key[t] = k
    BY <2>1, <2>2
  <2>3. CASE key[t] # k
    BY <2>1, <2>3 DEF lruAdd, StateOK, Present
  <2>. QED  BY <2>2, <2>3
<1>3. ASSUME NEW t \in Thread, DeleteRemove(t) \/ Clear(t)
      PROVE  lru'[k] \in {lru[k], None}
  BY <1>3 DEF DeleteRemove, Clear, lruRemove, lruPurge, StateOK
<1>4. ASSUME NEW t \in Thread, Step(t), ~SetAdd(t), ~DeleteRemove(t)
      PROVE  lru' = lru
  BY <1>4 DEF Step, GetNegativeHit, GetDropExpired, GetLRU, lruGet, GetHit, GetMiss,
     IsNegativeCachedDrop, ClearNegative, ClearHits, ClearMisses, ClearNegativeHits,
     RangePeek
<1>5. ASSUME NEW t \in Thread, Call(t), ~Clear(t)
      PROVE  lru' = lru
  BY <1>5 DEF Call, Get, IsNegativeCached, SetNegative, Delete, Set, RangeKeys
<1>6. ASSUME NEW x \in Key, Expire(x)
      PROVE  lru' = lru
  BY <1>6 DEF Expire
<1>. QED  BY <1>1, <1>2, <1>3, <1>4, <1>5, <1>6 DEF Act

(* A Get comes to the LRU map from its own first step, which found the key  *)
(* not hidden, and its key does not change on the way.                      *)
LEMMA ReadingBegins ==
    ASSUME StateOK, Act, NEW t \in Thread, Reading(t)'
    PROVE  IF Reading(t) THEN key'[t] = key[t]
           ELSE /\ UNCHANGED <<lru, negativeCache>>
                /\ negativeCache[key'[t]] # "live"
<1>. USE DEF lruVars, counters, history, Goto, Reading, StateOK
<1>1. ASSUME NEW u \in Thread, Step(u)
      PROVE  Reading(t) /\ key' = key
  BY <1>1 DEF Step, GetNegativeHit, GetDropExpired, GetLRU, GetHit, GetMiss,
     IsNegativeCachedDrop, ClearNegative, ClearHits, ClearMisses, ClearNegativeHits,
     RangePeek, SetAdd, DeleteRemove
<1>2. ASSUME NEW u \in Thread, NEW k \in Key, Get(u, k), u # t
      PROVE  Reading(t) /\ key'[t] = key[t]
  <2>1. pc'[t] = pc[t] /\ key'[t] = key[t]
    BY <1>2, Zenon DEF Get
  <2>. QED  BY <2>1
<1>3. ASSUME NEW k \in Key, Get(t, k)
      PROVE  /\ ~Reading(t) /\ UNCHANGED <<lru, negativeCache>>
             /\ negativeCache[key'[t]] # "live"
  <2>1. /\ pc[t] = "idle" /\ key'[t] = k /\ UNCHANGED <<lru, negativeCache>>
        /\ pc'[t] = CASE negativeCache[k] = "live"    -> "negHit"
                      [] negativeCache[k] = "expired" -> "dropExpired"
                      [] OTHER                        -> "lruGet"
    BY <1>3, Zenon DEF Get, Start
  <2>. QED  BY <2>1
<1>4. ASSUME NEW u \in Thread, Call(u), \A k \in Key : ~Get(u, k)
      PROVE  Reading(t) /\ key'[t] = key[t]
  BY <1>4 DEF Call, Start, IsNegativeCached, SetNegative, Delete, Set, Clear, RangeKeys
<1>5. ASSUME NEW k \in Key, Expire(k)
      PROVE  Reading(t) /\ key'[t] = key[t]
  BY <1>5 DEF Expire
<1>. QED  BY <1>1, <1>2, <1>3, <1>4, <1>5 DEF Act

LEMMA HistoryInit == Init => HistoryOK
BY InvInit DEF Init, Inv, HistoryOK, TypeOK, VisibleOK, Reading

LEMMA HistoryStep == Inv /\ Inv' /\ HistoryOK /\ [Next]_vars => HistoryOK'
<1>. SUFFICES ASSUME Inv, Inv', HistoryOK, [Next]_vars PROVE HistoryOK'
  OBVIOUS
<1>1. CASE UNCHANGED vars
  BY <1>1 DEF vars, HistoryOK, TypeOK, StateOK, VisibleOK, Reading
<1>2. CASE Act /\ Observe
  <2>0. StateOK /\ StateOK' /\ SetRevealsKey
    BY DEF Inv
  <2>1. TypeOK'
    <3>1. visible' \in [Thread -> SUBSET (Config \cup {None})]
      <4>1. \A t \in Thread : Shown(key[t])' \in Config \cup {None}
        BY <2>0 DEF StateOK, Shown
      <4>. QED  BY <1>2, <4>1 DEF Observe, HistoryOK, TypeOK
    <3>2. doubtful' \subseteq Key
      BY <1>2 DEF Observe
    <3>. QED  BY <2>0, <3>1, <3>2 DEF TypeOK
  <2>2. ASSUME NEW t \in Thread, Reading(t)'
        PROVE  lru'[key'[t]] \in visible'[t] \cup {None} \/ key'[t] \in doubtful'
    <3>0. /\ Shown(key[t])' \in visible'[t]
          /\ Reading(t) => visible[t] \subseteq visible'[t]
          /\ key'[t] \in Key
      BY <1>2, <2>0, <2>2 DEF Observe, StateOK
    <3>1. CASE negativeCache'[key'[t]] # "live"
      BY <3>0, <3>1 DEF Shown
    <3>2. CASE negativeCache'[key'[t]] = "live"
      <4>1. Reading(t) /\ key'[t] = key[t]
        BY <1>2, <2>0, <2>2, <3>2, ReadingBegins
      <4>2. CASE lru'[key[t]] \in {lru[key[t]], None}
        <5>1. key[t] \in doubtful => key'[t] \in doubtful'
          BY <1>2, <3>0, <3>2, <4>1 DEF Observe
        <5>. QED  BY <3>0, <4>1, <4>2, <5>1 DEF HistoryOK, VisibleOK
      <4>3. CASE /\ negativeCache' = negativeCache
                 /\ \E u \in Thread : pc[u] = "add" /\ pc'[u] = "idle" /\ key[u] = key[t]
        <5>1. PICK u \in Thread : pc[u] = "add" /\ pc'[u] = "idle" /\ key[u] = key[t]
          BY <4>3
        <5>2. negated[u]
          BY <2>0, <3>2, <4>1, <4>3, <5>1 DEF SetRevealsKey
        <5>. QED  BY <1>2, <3>0, <3>2, <4>1, <5>1, <5>2 DEF Observe
      <4>. QED  BY <1>2, <2>0, <3>0, <4>1, <4>2, <4>3, OnlySetStores
    <3>. QED  BY <3>1, <3>2
  <2>. QED  BY <2>1, <2>2 DEF HistoryOK, VisibleOK
<1>. QED  BY <1>1, <1>2 DEF Next

-----------------------------------------------------------------------------
(* The theorems.                                                            *)

(* The invariant holds for every number of keys and threads. *)
THEOREM InvHolds == Spec => []Inv
<1>1. Inv /\ [Next]_vars => Inv'
  BY InvStep DEF Next
<1>. QED  BY <1>1, InvInit, PTL DEF Spec

(* So do the types of the histories and what they say of a running Get. *)
THEOREM HistoryHolds == Spec => []HistoryOK
BY HistoryInit, HistoryStep, InvHolds, PTL DEF Spec

(* The parts of the cache and the calls in progress keep their types. *)
THEOREM TypeCorrect == Spec => []TypeOK
<1>1. HistoryOK => TypeOK
  BY DEF HistoryOK
<1>. QED  BY <1>1, HistoryHolds, PTL

(* With no Get or Clear halfway, Stats reports at most as many negative     *)
(* hits as hits.                                                            *)
THEOREM CountersCorrect == Spec => []NegativeHitsAreHits
<1>1. Inv => NegativeHitsAreHits
  <2>. SUFFICES ASSUME Inv, \A t \in Thread : ~InGet(t) /\ ~InClear(t)
                PROVE  negativeHits <= hits
    BY DEF NegativeHitsAreHits
  <2>1. AtHit = {}
    BY DEF AtHit, InGet
  <2>2. Cardinality(AtHit) = 0
    BY <2>1, FS_EmptySet
  <2>. QED  BY <2>2 DEF Inv, CountersOK, StateOK
<1>. QED  BY <1>1, InvHolds, PTL

(* Every configuration a Get returns was what its key showed at some moment *)
(* of that Get, unless a SetNegative overlapped the Set that stored it.     *)
THEOREM GetsReturnVisible == Spec => []GetReturnsVisible
<1>1. HistoryOK => GetReturnsVisible
  BY DEF HistoryOK, VisibleOK, GetReturnsVisible, Reading, Present
<1>. QED  BY <1>1, HistoryHolds, PTL

(* Range hands every key that stays cached to its callback. *)
THEOREM RangeComplete == Spec => []RangeMissesNothing
<1>1. Inv => RangeMissesNothing
  BY DEF Inv, RangeOK
<1>. QED  BY <1>1, InvHolds, PTL

(* However many threads add at the same time, the cache holds at most       *)
(* MaxSize configurations.                                                  *)
THEOREM CapacityCorrect == Spec => []WithinCapacity
<1>1. Inv => WithinCapacity
  BY DEF Inv
<1>. QED  BY <1>1, InvHolds, PTL

-----------------------------------------------------------------------------
(* The refinement: which primitive update each step is.                     *)

(* Counting is the same in the instance. *)
LEMMA AbstractCardinality ==
    ASSUME NEW S PROVE Abstract!Cardinality(S) = Cardinality(S)
BY DEF Cardinality, Abstract!Cardinality

(* Adding to the LRU map is a Put, with the oldest key for the victim. *)
LEMMA AddIsPut ==
    ASSUME StateOK, NEW k \in Key, NEW c \in Config, lruAdd(k, c),
           negativeCache' = negativeCache
    PROVE  Abstract!Put(k, c)
<1>0. Abstract!Cached = Present
  BY DEF Abstract!Cached, Present
<1>1. CASE k \in Present \/ Cardinality(Present) < MaxSize
  <2>1. lru' = [lru EXCEPT ![k] = c]
    BY <1>1, Countable, CacheAssumption DEF lruAdd
  <2>2. lru[k] # None \/ Abstract!Cardinality(Abstract!Cached) < MaxSize
    BY <1>0, <1>1, AbstractCardinality DEF Present
  <2>. QED  BY <2>1, <2>2 DEF Abstract!Put, Abstract!Added
<1>2. CASE ~(k \in Present \/ Cardinality(Present) < MaxSize)
  <2>1. PICK v \in Present : lru' = [lru EXCEPT ![v] = None, ![k] = c]
    BY <1>2 DEF lruAdd
  <2>2. ~(lru[k] # None \/ Abstract!Cardinality(Abstract!Cached) < MaxSize)
    BY <1>0, <1>2, AbstractCardinality DEF Present
  <2>3. v \in Abstract!Cached
    BY <1>0
  <2>. QED  BY <2>1, <2>2, <2>3 DEF Abstract!Put, Abstract!Added
<1>. QED  BY <1>1, <1>2

(* Deleting a negative entry reveals its key, storing one hides it, and so  *)
(* on: a change of one entry of negativeCache is Hide or Reveal.            *)
LEMMA EntryIsHideOrReveal ==
    ASSUME StateOK, NEW k \in Key, NEW e \in Entry, lru' = lru,
           negativeCache' = [negativeCache EXCEPT ![k] = e]
    PROVE  Abstract!Hide(k) \/ Abstract!Reveal(k)
<1>1. CASE e = "live"
  BY <1>1 DEF Abstract!Hide, StateOK
<1>2. CASE e # "live"
  BY <1>2 DEF Abstract!Reveal, StateOK
<1>. QED  BY <1>1, <1>2

(* Every step is a primitive update of the abstract cache, or none. *)
LEMMA StepRefines ==
    StateOK /\ [Next]_vars => [Abstract!CacheNext]_(Abstract!cacheVars)
<1>. SUFFICES ASSUME StateOK, [Next]_vars
              PROVE  Abstract!CacheNext \/ UNCHANGED Abstract!cacheVars
  OBVIOUS
<1>. USE DEF lruVars, counters, history
<1>1. CASE UNCHANGED <<lru, negativeCache>>
  BY <1>1 DEF Abstract!cacheVars
<1>2. ASSUME NEW k \in Key, NEW e \in Entry, lru' = lru,
             negativeCache' = [negativeCache EXCEPT ![k] = e]
      PROVE  Abstract!CacheNext
  BY <1>2, EntryIsHideOrReveal DEF Abstract!CacheNext
<1>3. ASSUME NEW t \in Thread, SetAdd(t) PROVE Abstract!CacheNext
  <2>1. key[t] \in Key /\ cfg[t] \in Config
    BY DEF StateOK
  <2>. QED  BY <1>3, <2>1, AddIsPut DEF SetAdd, Abstract!CacheNext
<1>4. ASSUME NEW t \in Thread, DeleteRemove(t) PROVE Abstract!CacheNext
  <2>1. Abstract!Remove(key[t]) /\ key[t] \in Key
    BY <1>4 DEF DeleteRemove, lruRemove, Abstract!Remove, StateOK
  <2>. QED  BY <2>1 DEF Abstract!CacheNext
<1>5. ASSUME NEW t \in Thread, Clear(t) PROVE Abstract!CacheNext
  <2>1. Abstract!Purge
    BY <1>5 DEF Clear, lruPurge, Abstract!Purge
  <2>. QED  BY <2>1 DEF Abstract!CacheNext
<1>6. ASSUME NEW t \in Thread, GetDropExpired(t) \/ IsNegativeCachedDrop(t)
      PROVE  Abstract!CacheNext
  BY <1>6, <1>2 DEF GetDropExpired, IsNegativeCachedDrop, DropEntry, StateOK, Entry
<1>7. ASSUME NEW t \in Thread, ClearNegative(t)
      PROVE  Abstract!CacheNext \/ UNCHANGED <<lru, negativeCache>>
  BY <1>7, <1>2 DEF ClearNegative, DropEntry, StateOK, Entry
<1>8. ASSUME NEW t \in Thread, NEW k \in Key,
             SetNegative(t, k) \/ Delete(t, k) \/ \E c \in Config : Set(t, k, c)
      PROVE  Abstract!CacheNext
  BY <1>8, <1>2 DEF SetNegative, Delete, Set, DropEntry, Entry
<1>9. ASSUME NEW k \in Key, Expire(k) PROVE Abstract!CacheNext
  BY <1>9, <1>2 DEF Expire, Entry
<1>10. ASSUME NEW t \in Thread,
              \/ GetNegativeHit(t) \/ GetLRU(t) \/ GetHit(t) \/ GetMiss(t)
              \/ ClearHits(t) \/ ClearMisses(t) \/ ClearNegativeHits(t)
              \/ RangePeek(t) \/ RangeKeys(t)
              \/ \E k \in Key : Get(t, k) \/ IsNegativeCached(t, k)
       PROVE  UNCHANGED <<lru, negativeCache>>
  BY <1>10 DEF GetNegativeHit, GetLRU, lruGet, GetHit, GetMiss, ClearHits, ClearMisses,
     ClearNegativeHits, RangePeek, RangeKeys, Get, IsNegativeCached
<1>11. CASE UNCHANGED vars
  BY <1>11 DEF vars, Abstract!cacheVars
<1>. QED  BY <1>1, <1>3, <1>4, <1>5, <1>6, <1>7, <1>8, <1>9, <1>10, <1>11
          DEF Next, Act, Step, Call

(* The concurrent methods implement the bounded map with negative entries   *)
(* that the data sources are modelled with.                                 *)
THEOREM Refinement == Spec => ImplementsBoundedCache
<1>1. Init => Abstract!CacheInit
  BY DEF Init, Abstract!CacheInit
<1>2. TypeOK => StateOK
  BY DEF TypeOK
<1>. QED  BY <1>1, <1>2, StepRefines, TypeCorrect, PTL
          DEF Spec, ImplementsBoundedCache, Abstract!CacheSpec
=============================================================================

----------------------------- MODULE RouteCache -----------------------------
(***************************************************************************)
(* datasource/cache/cache.go: the LRU cache of route configurations that   *)
(* every data source shares between the goroutines of its requests, its    *)
(* watcher and the admin API.                                              *)
(*                                                                         *)
(* No lock covers a whole method.  Each call on the LRU map (golang-lru,   *)
(* itself locked), on the sync.Map of negative entries and on an atomic    *)
(* counter is one step here, and the steps of different threads            *)
(* interleave.  Time only matters as "has the negative entry expired".     *)
(***************************************************************************)
EXTENDS Integers, FiniteSets

CONSTANTS
    Key, Config, None, MaxSize,
    Thread,     \* the goroutines that call the cache
    MaxCalls    \* bound: how many method calls a behaviour makes

ASSUME CacheAssumption ==
    /\ IsFiniteSet(Key) /\ IsFiniteSet(Thread)
    /\ None \notin Config
    /\ MaxSize \in Nat \ {0} /\ MaxCalls \in Nat

VARIABLES
    lru,            \* the values of the LRU map, None where a key is absent
    older,          \* its recency list: pairs <<x, y>>, x used before y
    negativeCache,  \* per key: no entry, one that has expired or a live one
    hits, misses, negativeHits,
    pc, key, cfg, todo,     \* per thread: next step, arguments, keys to visit
    calls,          \* calls made so far (bounds the behaviours)
    seen,           \* history: keys this Range has handed to its callback
    stable,         \* history: keys cached ever since this Range began
    negated,        \* history: a SetNegative of the key overlapped this Set
    visible,        \* history: what a running Get's key showed since it began
    doubtful        \* history: keys whose configuration was hidden when stored

lruVars   == <<lru, older>>
counters  == <<hits, misses, negativeHits>>
history   == <<seen, stable, negated>>
vars == <<lru, older, negativeCache, hits, misses, negativeHits,
          pc, key, cfg, todo, calls, seen, stable, negated, visible, doubtful>>

Entry == {"none", "live", "expired"}

Label == {"idle",
          "negHit", "dropExpired", "lruGet", "hit", "miss",   \* Get
          "dropStale",                                        \* IsNegativeCached
          "add",                                              \* Set
          "remove",                                           \* Delete
          "clrNegative", "clrHits", "clrMisses", "clrNegHits",\* Clear
          "range"}                                            \* Range

(* The values of the cache's parts and of the calls in progress: what is    *)
(* cached is a route, and the counters never go negative.                   *)
StateOK ==
    /\ lru \in [Key -> Config \cup {None}]
    /\ older \subseteq Key \X Key
    /\ negativeCache \in [Key -> Entry]
    /\ hits \in Nat /\ misses \in Nat /\ negativeHits \in Nat
    /\ pc \in [Thread -> Label]
    /\ key \in [Thread -> Key]
    /\ cfg \in [Thread -> Config]
    /\ todo \in [Thread -> SUBSET Key]
    /\ calls \in 0..MaxCalls
    /\ seen \in [Thread -> SUBSET Key]
    /\ stable \in [Thread -> SUBSET Key]
    /\ negated \in [Thread -> BOOLEAN]

TypeOK ==
    /\ StateOK
    /\ visible \in [Thread -> SUBSET (Config \cup {None})]
    /\ doubtful \subseteq Key

Init ==
    /\ lru = [k \in Key |-> None]
    /\ older = {}
    /\ negativeCache = [k \in Key |-> "none"]
    /\ hits = 0 /\ misses = 0 /\ negativeHits = 0
    /\ pc = [t \in Thread |-> "idle"]
    /\ key \in [Thread -> Key]
    /\ cfg \in [Thread -> Config]
    /\ todo = [t \in Thread |-> {}]
    /\ calls = 0
    /\ seen = [t \in Thread |-> {}]
    /\ stable = [t \in Thread |-> {}]
    /\ negated = [t \in Thread |-> FALSE]
    /\ visible = [t \in Thread |-> {}]
    /\ doubtful = {}

-----------------------------------------------------------------------------
(* The LRU map of golang-lru, whose operations run under its own lock.     *)

Present == {k \in Key : lru[k] # None}

(* The recency list after k was used: k comes after all other keys of S. *)
Touched(k, S) == {p \in older : k \notin {p[1], p[2]}}
                     \cup {<<x, k>> : x \in S \ {k}}

(* The recency list without k. *)
Forgotten(k) == {p \in older : k \notin {p[1], p[2]}}

(* Nothing in the cache was used longer ago than v. *)
Oldest(v) == v \in Present /\ \A x \in Present : <<x, v>> \notin older

lruGet(k) == /\ older' = IF k \in Present THEN Touched(k, Present) ELSE older
             /\ UNCHANGED lru

lruAdd(k, c) ==
    \/ /\ k \in Present \/ Cardinality(Present) < MaxSize
       /\ lru' = [lru EXCEPT ![k] = c]
       /\ older' = Touched(k, Present)
    \/ /\ k \notin Present /\ Cardinality(Present) >= MaxSize
       /\ \E v \in Present :
             /\ Oldest(v)
             /\ lru' = [lru EXCEPT ![v] = None, ![k] = c]
             /\ older' = {p \in older : v \notin {p[1], p[2]}}
                            \cup {<<x, k>> : x \in Present \ {v}}

lruRemove(k) == /\ lru' = [lru EXCEPT ![k] = None]
                /\ older' = Forgotten(k)

lruPurge == /\ lru' = [k \in Key |-> None]
            /\ older' = {}

-----------------------------------------------------------------------------
(* Bookkeeping of the threads.                                             *)

Start(t) == pc[t] = "idle" /\ calls < MaxCalls /\ calls' = calls + 1

Goto(t, label) == pc' = [pc EXCEPT ![t] = label]

(* The negative entry of k is deleted by negativeCache.Delete. *)
DropEntry(k) == negativeCache' = [negativeCache EXCEPT ![k] = "none"]

(* A key that leaves the cache is not stable for any running Range. *)
Unstable == stable' = [t \in Thread |-> {k \in stable[t] : lru'[k] # None}]

-----------------------------------------------------------------------------
(* Get: look at the negative entry, then at the LRU map.                   *)
Get(t, k) ==
    /\ Start(t)
    /\ key' = [key EXCEPT ![t] = k]
    /\ Goto(t, CASE negativeCache[k] = "live"    -> "negHit"
                 [] negativeCache[k] = "expired" -> "dropExpired"
                 [] OTHER                        -> "lruGet")
    /\ UNCHANGED <<lruVars, negativeCache, counters, cfg, todo, history>>

(* The entry is live: a negative hit counts as a hit too. *)
GetNegativeHit(t) ==
    /\ pc[t] = "negHit"
    /\ negativeHits' = negativeHits + 1
    /\ Goto(t, "hit")
    /\ UNCHANGED <<lruVars, negativeCache, hits, misses, key, cfg, todo,
                   calls, history>>

(* The entry had expired: delete whatever is there by now. *)
GetDropExpired(t) ==
    /\ pc[t] = "dropExpired"
    /\ DropEntry(key[t])
    /\ Goto(t, "lruGet")
    /\ UNCHANGED <<lruVars, counters, key, cfg, todo, calls, history>>

GetLRU(t) ==
    /\ pc[t] = "lruGet"
    /\ lruGet(key[t])
    /\ Goto(t, IF key[t] \in Present THEN "hit" ELSE "miss")
    /\ UNCHANGED <<negativeCache, counters, key, cfg, todo, calls, history>>

GetHit(t) ==
    /\ pc[t] = "hit"
    /\ hits' = hits + 1
    /\ Goto(t, "idle")
    /\ UNCHANGED <<lruVars, negativeCache, misses, negativeHits, key, cfg, todo,
                   calls, history>>

GetMiss(t) ==
    /\ pc[t] = "miss"
    /\ misses' = misses + 1
    /\ Goto(t, "idle")
    /\ UNCHANGED <<lruVars, negativeCache, hits, negativeHits, key, cfg, todo,
                   calls, history>>

(* IsNegativeCached: an expired entry is deleted, a live one left alone. *)
IsNegativeCached(t, k) ==
    /\ Start(t)
    /\ key' = [key EXCEPT ![t] = k]
    /\ Goto(t, IF negativeCache[k] = "expired" THEN "dropStale" ELSE "idle")
    /\ UNCHANGED <<lruVars, negativeCache, counters, cfg, todo, history>>

IsNegativeCachedDrop(t) ==
    /\ pc[t] = "dropStale"
    /\ DropEntry(key[t])
    /\ Goto(t, "idle")
    /\ UNCHANGED <<lruVars, counters, key, cfg, todo, calls, history>>

(* Broken: a negative entry also drops the configuration it hides. *)
SetNegative_Drops(t, k) ==
    /\ Start(t)
    /\ negativeCache' = [negativeCache EXCEPT ![k] = "live"]
    /\ negated' = [u \in Thread |-> negated[u] \/ (pc[u] = "add" /\ key[u] = k)]
    /\ lruRemove(k)
    /\ Unstable
    /\ UNCHANGED <<counters, pc, key, cfg, todo, seen>>

(* SetNegative: store a fresh entry; a cached configuration stays. *)
SetNegative(t, k) ==
    /\ Start(t)
    /\ negativeCache' = [negativeCache EXCEPT ![k] = "live"]
    /\ negated' = [u \in Thread |-> negated[u] \/ (pc[u] = "add" /\ key[u] = k)]
    /\ UNCHANGED <<lruVars, counters, pc, key, cfg, todo, seen, stable>>

(* The TTL of a negative entry passes. *)
Expire(k) ==
    /\ negativeCache[k] = "live"
    /\ negativeCache' = [negativeCache EXCEPT ![k] = "expired"]
    /\ UNCHANGED <<lruVars, counters, pc, key, cfg, todo, calls, history>>

(* Broken: the negative entry is left behind. *)
Set_KeepsNegative(t, k, c) ==
    /\ Start(t)
    /\ key' = [key EXCEPT ![t] = k]
    /\ cfg' = [cfg EXCEPT ![t] = c]
    /\ negated' = [negated EXCEPT ![t] = FALSE]
    /\ Goto(t, "add")
    /\ UNCHANGED <<lruVars, negativeCache, counters, todo, seen, stable>>

(* Set: delete the negative entry, then add to the LRU map. *)
Set(t, k, c) ==
    /\ Start(t)
    /\ DropEntry(k)
    /\ key' = [key EXCEPT ![t] = k]
    /\ cfg' = [cfg EXCEPT ![t] = c]
    /\ negated' = [negated EXCEPT ![t] = FALSE]
    /\ Goto(t, "add")
    /\ UNCHANGED <<lruVars, counters, todo, seen, stable>>

SetAdd(t) ==
    /\ pc[t] = "add"
    /\ lruAdd(key[t], cfg[t])
    /\ Goto(t, "idle")
    /\ Unstable
    /\ UNCHANGED <<negativeCache, counters, key, cfg, todo, calls, seen, negated>>

(* Delete: delete the negative entry, then remove from the LRU map. *)
Delete(t, k) ==
    /\ Start(t)
    /\ DropEntry(k)
    /\ key' = [key EXCEPT ![t] = k]
    /\ Goto(t, "remove")
    /\ UNCHANGED <<lruVars, counters, cfg, todo, history>>

DeleteRemove(t) ==
    /\ pc[t] = "remove"
    /\ lruRemove(key[t])
    /\ Goto(t, "idle")
    /\ Unstable
    /\ UNCHANGED <<negativeCache, counters, key, cfg, todo, calls, seen, negated>>

(* Clear: purge the map, delete the negative entries one by one (the       *)
(* entries there when sync.Map.Range begins), then zero the three counters *)
(* in the order hits, misses, negativeHits.                                *)
Clear(t) ==
    /\ Start(t)
    /\ lruPurge
    /\ todo' = [todo EXCEPT ![t] = {k \in Key : negativeCache[k] # "none"}]
    /\ Goto(t, "clrNegative")
    /\ Unstable
    /\ UNCHANGED <<negativeCache, counters, key, cfg, seen, negated>>

ClearNegative(t) ==
    /\ pc[t] = "clrNegative"
    /\ \/ \E k \in todo[t] :
             /\ DropEntry(k)
             /\ todo' = [todo EXCEPT ![t] = @ \ {k}]
             /\ UNCHANGED pc
       \/ /\ todo[t] = {}
          /\ Goto(t, "clrHits")
          /\ UNCHANGED <<negativeCache, todo>>
    /\ UNCHANGED <<lruVars, counters, key, cfg, calls, history>>

ClearHits(t) ==
    /\ pc[t] = "clrHits"
    /\ hits' = 0
    /\ Goto(t, "clrMisses")
    /\ UNCHANGED <<lruVars, negativeCache, misses, negativeHits, key, cfg, todo,
                   calls, history>>

ClearMisses(t) ==
    /\ pc[t] = "clrMisses"
    /\ misses' = 0
    /\ Goto(t, "clrNegHits")
    /\ UNCHANGED <<lruVars, negativeCache, hits, negativeHits, key, cfg, todo,
                   calls, history>>

(* Broken: hits are zeroed a second time, negative hits never. *)
ClearNegativeHits_WrongCounter(t) ==
    /\ pc[t] = "clrNegHits"
    /\ hits' = 0
    /\ Goto(t, "idle")
    /\ UNCHANGED <<lruVars, negativeCache, negativeHits, misses, key, cfg, todo,
                   calls, history>>

ClearNegativeHits(t) ==
    /\ pc[t] = "clrNegHits"
    /\ negativeHits' = 0
    /\ Goto(t, "idle")
    /\ UNCHANGED <<lruVars, negativeCache, hits, misses, key, cfg, todo,
                   calls, history>>

(* Range: take the keys once, then Peek at each; a key that has gone by    *)
(* then is skipped, one that is there goes to the callback.  Peek leaves   *)
(* the recency list alone.                                                 *)
RangeKeys(t) ==
    /\ Start(t)
    /\ todo' = [todo EXCEPT ![t] = Present]
    /\ seen' = [seen EXCEPT ![t] = {}]
    /\ stable' = [stable EXCEPT ![t] = Present]
    /\ Goto(t, "range")
    /\ UNCHANGED <<lruVars, negativeCache, counters, key, cfg, negated>>

(* Broken: a key that has gone ends the iteration. *)
RangePeek_StopsAtGap(t) ==
    /\ pc[t] = "range"
    /\ \/ \E k \in todo[t] :
             /\ todo' = [todo EXCEPT ![t] = IF k \in Present THEN @ \ {k} ELSE {}]
             /\ seen' = [seen EXCEPT ![t] = @ \cup ({k} \cap Present)]
             /\ UNCHANGED pc
       \/ /\ todo[t] = {}
          /\ Goto(t, "idle")
          /\ UNCHANGED <<todo, seen>>
    /\ UNCHANGED <<lruVars, negativeCache, counters, key, cfg, calls, stable,
                   negated>>

RangePeek(t) ==
    /\ pc[t] = "range"
    /\ \/ \E k \in todo[t] :
             /\ todo' = [todo EXCEPT ![t] = @ \ {k}]
             /\ seen' = [seen EXCEPT ![t] = @ \cup ({k} \cap Present)]
             /\ UNCHANGED pc
       \/ /\ todo[t] = {}
          /\ Goto(t, "idle")
          /\ UNCHANGED <<todo, seen>>
    /\ UNCHANGED <<lruVars, negativeCache, counters, key, cfg, calls, stable,
                   negated>>

-----------------------------------------------------------------------------
Step(t) ==
    \/ GetNegativeHit(t) \/ GetDropExpired(t) \/ GetLRU(t) \/ GetHit(t)
    \/ GetMiss(t) \/ IsNegativeCachedDrop(t) \/ SetAdd(t) \/ DeleteRemove(t)
    \/ ClearNegative(t) \/ ClearHits(t) \/ ClearMisses(t) \/ ClearNegativeHits(t)
    \/ RangePeek(t)

Call(t) ==
    \/ \E k \in Key : \/ Get(t, k) \/ IsNegativeCached(t, k)
                      \/ SetNegative(t, k) \/ Delete(t, k)
                      \/ \E c \in Config : Set(t, k, c)
    \/ Clear(t) \/ RangeKeys(t)

(* What a lookup of k shows: its configuration unless a live negative entry *)
(* hides it.                                                                *)
Shown(k) == IF negativeCache[k] = "live" THEN None ELSE lru[k]

(* The Gets that have read the negative entry and not yet the LRU map. *)
Reading(t) == pc[t] \in {"dropExpired", "lruGet"}

(* The history of a step: each running Get sees what its key shows after    *)
(* it, and a configuration stored over a negative entry that came between   *)
(* the two steps of its Set is doubtful until the entry goes.               *)
Observe ==
    /\ visible' = [t \in Thread |->
          IF Reading(t)' THEN (IF Reading(t) THEN visible[t] ELSE {})
                                  \cup {Shown(key[t])'}
                         ELSE {}]
    /\ doubtful' = {k \in Key :
          /\ negativeCache'[k] = "live"
          /\ \/ k \in doubtful
             \/ \E t \in Thread : /\ pc[t] = "add" /\ pc'[t] = "idle"
                                  /\ key[t] = k /\ negated[t]}

Act == \/ \E t \in Thread : Step(t) \/ Call(t)
       \/ \E k \in Key : Expire(k)

Next == Act /\ Observe

Spec == Init /\ [][Next]_vars

-----------------------------------------------------------------------------
(* Properties *)

(* The counters Stats reports are consistent once no method is halfway:     *)
(* every negative hit was also counted as a hit, although Get increments    *)
(* the two in separate steps and Clear zeroes them in separate steps.  Zero *)
(* negativeHits first, or count the hit first, and a Clear that overlaps a  *)
(* Get leaves more negative hits than hits for good.                        *)
InGet(t)   == pc[t] = "hit"
InClear(t) == pc[t] \in {"clrMisses", "clrNegHits"}

NegativeHitsAreHits ==
    (\A t \in Thread : ~InGet(t) /\ ~InClear(t)) => negativeHits <= hits

(* Get reads the negative entry and the LRU map in two steps, with other    *)
(* calls between them.  A configuration it returns was nonetheless what its *)
(* key showed at some moment of this Get: Set deletes the negative entry    *)
(* before it adds ("Also clears any negative cache entry for the same       *)
(* key"), so a configuration is never brought in behind an entry that hides *)
(* it, except where a SetNegative fell between the two steps of its Set.    *)
GetReturnsVisible ==
    \A t \in Thread :
        pc[t] = "lruGet" /\ key[t] \in Present
            => lru[key[t]] \in visible[t] \/ key[t] \in doubtful

(* A Range (the admin API's route list) misses no key that stays cached     *)
(* while it runs, though other threads add and delete keys meanwhile.       *)
RangeMissesNothing ==
    \A t \in Thread : pc[t] = "range" => stable[t] \subseteq seen[t] \cup todo[t]

(* Every step of every method is one primitive update of a bounded map with *)
(* a set of negative entries, or changes neither.                           *)
Abstract == INSTANCE BoundedCache
                WITH val <- lru,
                     hidden <- [k \in Key |-> negativeCache[k] = "live"]

ImplementsBoundedCache == Abstract!CacheSpec
=============================================================================

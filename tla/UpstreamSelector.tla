-------------------------- MODULE UpstreamSelector --------------------------
(***************************************************************************)
(* matcher/selector.go: choosing one of several weighted upstreams, and    *)
(* getSelector in matcher.go, which finds the selector to choose with.     *)
(*                                                                         *)
(* RuleMatcher keeps one selector per algorithm and hash key in an LRU     *)
(* cache, so all routes with that algorithm share its counters.  Looking   *)
(* the selector up and adding a new one are two steps: requests that miss  *)
(* at the same time make one each, and the last to add stays.  Pressure of *)
(* other keys may evict it with its counters.                              *)
(*                                                                         *)
(* A request's candidates are the upstreams of its matching rule that are  *)
(* in the pool and available, so the list changes with availability.  The  *)
(* round robin states are atomic or under a mutex: a selection is one      *)
(* step.  The field with the hash ring is read and written without a lock  *)
(* (pointers are not torn): checking it, replacing it and reading it again *)
(* are steps of their own.                                                 *)
(***************************************************************************)
EXTENDS HashRing

CONSTANTS
    Setups,         \* an algorithm, the candidate lists of its requests and
                    \*     how many selections a behaviour makes (a bound)
    Request,        \* requests being handled
    NoHash,         \* the header to hash is missing
    NoRing,         \* the field is nil; a request has no result yet
    MaxEvictions,   \* bound: evictions of the selector
    MaxSelectors    \* bound: selectors made

ASSUME SelectorAssumption ==
    /\ IsFiniteSet(Request) /\ NoRing \notin Lists /\ NoHash \notin Hash
    /\ MaxEvictions \in Nat /\ MaxSelectors \in Nat
    /\ \A s \in Setups : s.lists \subseteq Lists /\ s.selects \in Nat

Selector == 1..MaxSelectors

VARIABLES
    setup,          \* what the requests of the behaviour use
    cached,         \* the selector in selectorCache, or 0
    made, evictions,\* selectors made and evicted so far
    rrIndex,        \* per selector: round robin's selections so far,
    wrrUpstreams,   \*     the list the weighted round robin's state is about,
    wrrCurrent,     \*     its current weights,
    hashRing,       \*     and the list the ring was built from, or NoRing
    pc, list, hash, \* per request: next step, its candidates, its hash,
    sel, result,    \*     the selector it holds and the last address it got
    selects,        \* selections begun (bounds the behaviours)
    rrLength, rrPicked, \* history: per selector, the length of the last list
                        \*     and picks per index since it had that length
    wrrPicked,      \* history: per selector, picks per index since the reset
    overtaken       \* history: requests whose ring another one replaced

rrVars     == <<rrIndex, rrLength, rrPicked>>
wrrVars    == <<wrrUpstreams, wrrCurrent, wrrPicked>>
cacheVars  == <<cached, made, evictions>>
callVars   == <<list, hash, selects>>
vars == <<setup, cached, made, evictions, rrIndex, wrrUpstreams, wrrCurrent,
          hashRing, pc, list, hash, sel, result, selects, rrLength, rrPicked,
          wrrPicked, overtaken>>

Algorithm == setup.algorithm

(* The sums of the first i of n numbers. *)
RunningSum(g, n) ==
    LET sum[i \in 0..n] == IF i = 0 THEN 0 ELSE sum[i - 1] + g[i] IN sum

Weights(L) == [i \in DOMAIN L |-> GetEffectiveWeight(L[i])]

(* The weights up to each candidate, and of all. *)
Cumulative(L) == RunningSum(Weights(L), Len(L))

TotalWeight(L) == Cumulative(L)[Len(L)]

Zero(S) == [i \in S |-> 0]

Init ==
    /\ setup \in Setups
    /\ cached = 0 /\ made = 0 /\ evictions = 0
    /\ rrIndex = [s \in Selector |-> 0]
    /\ wrrUpstreams = [s \in Selector |-> <<>>]
    /\ wrrCurrent = [s \in Selector |-> <<>>]
    /\ hashRing = [s \in Selector |-> NoRing]
    /\ pc = [q \in Request |-> "idle"]
    /\ list = [q \in Request |-> <<>>]
    /\ hash = [q \in Request |-> NoHash]
    /\ sel = [q \in Request |-> 0]
    /\ result = [q \in Request |-> NoRing]
    /\ selects = 0
    /\ rrLength = [s \in Selector |-> 0]
    /\ rrPicked = [s \in Selector |-> <<>>]
    /\ wrrPicked = [s \in Selector |-> <<>>]
    /\ overtaken = {}

-----------------------------------------------------------------------------
(* The algorithms: the index each picks in a list of two or more.          *)

(* Broken: the last candidate never gets its turn. *)
RoundRobinIndex_SkipsLast(s, L) == (rrIndex[s] % (Len(L) - 1)) + 1

(* Round robin: a counter modulo the length of the list at hand. *)
RoundRobinIndex(s, L) == (rrIndex[s] % Len(L)) + 1

selectRoundRobin(s, L) ==
    LET n == IF rrLength[s] = Len(L) THEN rrPicked[s] ELSE Zero(DOMAIN L) IN
    /\ rrIndex' = [rrIndex EXCEPT ![s] = @ + 1]
    /\ rrLength' = [rrLength EXCEPT ![s] = Len(L)]
    /\ rrPicked' = [rrPicked EXCEPT ![s] =
                       [n EXCEPT ![RoundRobinIndex(s, L)] = @ + 1]]
    /\ UNCHANGED wrrVars

(* Smooth weighted round robin: start over unless the list is the one the   *)
(* state is about.                                                          *)
WrrStart(s, L) == IF wrrUpstreams[s] = L THEN wrrCurrent[s] ELSE Zero(DOMAIN L)

WrrPicks(s, L) == IF wrrUpstreams[s] = L THEN wrrPicked[s] ELSE Zero(DOMAIN L)

(* Every current weight grows by the weight, and the first of the largest   *)
(* is picked,                                                               *)
WrrRaised(s, L) ==
    [i \in DOMAIN L |-> WrrStart(s, L)[i] + GetEffectiveWeight(L[i])]

WrrIndex(s, L) ==
    LET raised == WrrRaised(s, L)
    IN CHOOSE i \in DOMAIN L :
          \A j \in DOMAIN L : raised[j] < raised[i] \/ (raised[j] = raised[i] /\ i <= j)

(* Broken: the picked upstream gives up its own weight only. *)
selectWeightedRoundRobin_OwnWeight(s, L) ==
    LET m == WrrIndex(s, L) IN
    /\ wrrUpstreams' = [wrrUpstreams EXCEPT ![s] = L]
    /\ wrrCurrent' = [wrrCurrent EXCEPT ![s] =
                         [WrrRaised(s, L) EXCEPT ![m] = @ - GetEffectiveWeight(L[m])]]
    /\ wrrPicked' = [wrrPicked EXCEPT ![s] = [WrrPicks(s, L) EXCEPT ![m] = @ + 1]]
    /\ UNCHANGED rrVars

(* and gives up the total weight. *)
selectWeightedRoundRobin(s, L) ==
    LET m == WrrIndex(s, L) IN
    /\ wrrUpstreams' = [wrrUpstreams EXCEPT ![s] = L]
    /\ wrrCurrent' = [wrrCurrent EXCEPT ![s] =
                         [WrrRaised(s, L) EXCEPT ![m] = @ - TotalWeight(L)]]
    /\ wrrPicked' = [wrrPicked EXCEPT ![s] = [WrrPicks(s, L) EXCEPT ![m] = @ + 1]]
    /\ UNCHANGED rrVars

(* Least connections: nothing in the repository calls IncrementConn or      *)
(* DecrementConn, so every count is zero, every ratio ties, and the tie     *)
(* goes to the first of the largest weight.                                 *)
LeastConnIndex(L) ==
    LET w == Weights(L)
    IN CHOOSE i \in DOMAIN L :
          \A j \in DOMAIN L : w[j] < w[i] \/ (w[j] = w[i] /\ i <= j)

(* Broken: the boundaries of the ranges are inclusive. *)
WeightedRandomIndex_Inclusive(L, target) ==
    CHOOSE i \in DOMAIN L :
        /\ target <= Cumulative(L)[i]
        /\ \A j \in 1..(i - 1) : target > Cumulative(L)[j]

(* Weighted random: the first candidate whose cumulative weight exceeds the *)
(* random target.                                                           *)
WeightedRandomIndex(L, target) ==
    CHOOSE i \in DOMAIN L :
        /\ target < Cumulative(L)[i]
        /\ \A j \in 1..(i - 1) : target >= Cumulative(L)[j]

selectWeightedRandom(L) ==
    {WeightedRandomIndex(L, target) : target \in 0..(TotalWeight(L) - 1)}

(* The hash algorithms: client address, path or header modulo the length.   *)
hashToIndex(h, n) == (h % n) + 1

selectHeaderHash(L, h) ==
    IF h = NoHash THEN selectWeightedRandom(L) ELSE {hashToIndex(h, Len(L))}

(* What Select may pick from a list, by algorithm. *)
Picks(s, L, h) ==
    CASE Algorithm = "first"                  -> {1}
      [] Algorithm = "round_robin"            -> {RoundRobinIndex(s, L)}
      [] Algorithm = "weighted_round_robin"   -> {WrrIndex(s, L)}
      [] Algorithm \in {"ip_hash", "uri_hash"} -> {hashToIndex(h, Len(L))}
      [] Algorithm = "header_hash"            -> selectHeaderHash(L, h)
      [] Algorithm = "least_conn"             -> {LeastConnIndex(L)}
      [] OTHER                                -> selectWeightedRandom(L)

(* What it does to the selector's state. *)
Advance(s, L) ==
    CASE Algorithm = "round_robin"          -> selectRoundRobin(s, L)
      [] Algorithm = "weighted_round_robin" -> selectWeightedRoundRobin(s, L)
      [] OTHER                              -> UNCHANGED <<rrVars, wrrVars>>

-----------------------------------------------------------------------------
(* The steps of a request.                                                 *)

(* The hashes a request may bring: only the hash algorithms look at one.    *)
Hashes ==
    CASE Algorithm \in {"ip_hash", "uri_hash", "consistent_hash"} -> Hash
      [] Algorithm = "header_hash" -> Hash \cup {NoHash}
      [] OTHER -> {NoHash}

(* selectUpstream: a single candidate is the answer, otherwise getSelector  *)
(* looks into the cache.                                                    *)
Begin(q, L, h) ==
    /\ pc[q] = "idle" /\ selects < setup.selects
    /\ selects' = selects + 1
    /\ \/ /\ Len(L) = 1
          /\ result' = [result EXCEPT ![q] = L[1].address]
          /\ UNCHANGED <<pc, list, hash, sel>>
       \/ /\ Len(L) # 1
          /\ list' = [list EXCEPT ![q] = L]
          /\ hash' = [hash EXCEPT ![q] = h]
          /\ sel' = [sel EXCEPT ![q] = cached]
          /\ pc' = [pc EXCEPT ![q] = IF cached = 0 THEN "create" ELSE "select"]
          /\ UNCHANGED result
    /\ UNCHANGED <<setup, cacheVars, hashRing, rrVars, wrrVars, overtaken>>

(* Broken: the new selector is not put into the cache. *)
CreateSelector_NotCached(q) ==
    /\ pc[q] = "create" /\ made < MaxSelectors
    /\ made' = made + 1
    /\ sel' = [sel EXCEPT ![q] = made + 1]
    /\ pc' = [pc EXCEPT ![q] = "select"]
    /\ UNCHANGED <<setup, cached, evictions, hashRing, callVars, result, rrVars,
                   wrrVars, overtaken>>

(* getSelector after a miss: a new selector is added to the cache, in the   *)
(* place of one that another request may have added since.                  *)
CreateSelector(q) ==
    /\ pc[q] = "create" /\ made < MaxSelectors
    /\ made' = made + 1
    /\ cached' = made + 1
    /\ sel' = [sel EXCEPT ![q] = made + 1]
    /\ pc' = [pc EXCEPT ![q] = "select"]
    /\ UNCHANGED <<setup, evictions, hashRing, callVars, result, rrVars, wrrVars,
                   overtaken>>

(* Other keys push the selector out of the cache; who holds it keeps it. *)
Evict ==
    /\ cached # 0 /\ evictions < MaxEvictions
    /\ cached' = 0
    /\ evictions' = evictions + 1
    /\ UNCHANGED <<setup, made, hashRing, pc, callVars, sel, result, rrVars,
                   wrrVars, overtaken>>

(* The request has its answer: its local variables are gone. *)
Return(q, address) ==
    /\ result' = [result EXCEPT ![q] = address]
    /\ pc' = [pc EXCEPT ![q] = "idle"]
    /\ list' = [list EXCEPT ![q] = <<>>]
    /\ hash' = [hash EXCEPT ![q] = NoHash]
    /\ sel' = [sel EXCEPT ![q] = 0]
    /\ overtaken' = overtaken \ {q}

(* Select, of every algorithm but consistent_hash. *)
Select(q) ==
    /\ pc[q] = "select" /\ Algorithm # "consistent_hash"
    /\ \E i \in Picks(sel[q], list[q], hash[q]) :
          Return(q, list[q][i].address)
    /\ Advance(sel[q], list[q])
    /\ UNCHANGED <<setup, cacheVars, hashRing, selects>>

(* selectConsistentHash: is the ring there and built for my list? *)
SelectCheck(q) ==
    /\ pc[q] = "select" /\ Algorithm = "consistent_hash"
    /\ LET ring == hashRing[sel[q]] IN
       pc' = [pc EXCEPT ![q] = IF ring = NoRing \/ ~Matches(ring, list[q])
                               THEN "store" ELSE "get"]
    /\ UNCHANGED <<setup, cacheVars, hashRing, callVars, sel, result, rrVars,
                   wrrVars, overtaken>>

(* If not, store a ring that is. *)
SelectStore(q) ==
    /\ pc[q] = "store"
    /\ hashRing' = [hashRing EXCEPT ![sel[q]] = list[q]]
    /\ pc' = [pc EXCEPT ![q] = "get"]
    /\ overtaken' = overtaken \cup
          {p \in Request : pc[p] = "get" /\ sel[p] = sel[q] /\ list[p] # list[q]}
    /\ UNCHANGED <<setup, cacheVars, callVars, sel, result, rrVars, wrrVars>>

(* Read the field again and look the key up. *)
SelectGet(q) ==
    /\ pc[q] = "get"
    /\ Return(q, RingGet(hashRing[sel[q]], hash[q]))
    /\ UNCHANGED <<setup, cacheVars, hashRing, selects, rrVars, wrrVars>>

Next ==
    \/ \E q \in Request :
          \/ \E L \in setup.lists, h \in Hashes : Begin(q, L, h)
          \/ CreateSelector(q) \/ Select(q)
          \/ SelectCheck(q) \/ SelectStore(q) \/ SelectGet(q)
    \/ Evict

Spec == Init /\ [][Next]_vars

-----------------------------------------------------------------------------
(* Properties *)

(* The picks of index i by selector s while its lists have had one length.  *)
Turns(s, i) == IF i \in 1..rrLength[s] THEN rrPicked[s][i] ELSE 0

(* Round robin gives turns: as long as the lists that requests bring to a   *)
(* selector keep their length, no position is ever more than one pick ahead *)
(* of another, wherever the counter stood when the length last changed.     *)
EvenTurns ==
    \A s \in 1..made : \A i, j \in 1..rrLength[s] : Turns(s, i) <= Turns(s, j) + 1

(* The race in getSelector and evictions give requests different selectors, *)
(* each beginning at the first candidate.  With lists of one length this    *)
(* costs no position more than one pick per request and eviction epoch: the *)
(* requests that missed at the same time.                                   *)
AllTurns(i) == RunningSum([s \in 1..made |-> Turns(s, i)], made)[made]

SkewIsBounded ==
    \A L \in setup.lists :
        (\A K \in setup.lists : Len(K) = Len(L)) =>
            \A i, j \in 1..Len(L) :
                AllTurns(i) <= AllTurns(j) + Cardinality(Request) * (evictions + 1)

(* Smooth weighted round robin gives every upstream its share: at no moment *)
(* since a selector's list was last reset is an upstream a whole pick ahead *)
(* of the share n * w(i) / W that n picks owe it, and after every period of *)
(* W picks each has exactly its weight in picks.                            *)
SmoothShares ==
    \A s \in 1..made :
    LET L == wrrUpstreams[s]
        p == wrrPicked[s]
        W == TotalWeight(L)
        n == RunningSum(p, Len(L))[Len(L)]
    IN \A i \in DOMAIN L :
          /\ W * p[i] < n * GetEffectiveWeight(L[i]) + W
          /\ \A k \in 0..n : n = k * W => p[i] = k * GetEffectiveWeight(L[i])

(* Of the random targets for a request's list as many pick an upstream as   *)
(* its weight says.                                                         *)
RandomMatchesWeights ==
    Algorithm = "weighted_random" =>
    \A q \in Request : LET L == list[q] IN
        \A i \in DOMAIN L :
            Cardinality({t \in 0..(TotalWeight(L) - 1) : WeightedRandomIndex(L, t) = i})
                = GetEffectiveWeight(L[i])

(* A request gets the owner of its key among its own candidates (or among   *)
(* those of a list with the same hash), however the lists alternate, unless *)
(* another request with other candidates replaced the ring between its      *)
(* check and its lookup.                                                    *)
ResultOwnsKey ==
    [][\A q \in Request :
          pc[q] = "get" /\ pc'[q] = "idle" /\ q \notin overtaken =>
              \E K \in setup.lists : /\ configHash(K) = configHash(list[q])
                                     /\ result'[q] = RingGet(K, hash[q])]_vars

(* Consistent hashing: when an upstream leaves a request's list, the        *)
(* request's key stays where it is unless that upstream served it.          *)
(* (The ring does not depend on the positions in the list.)                  *)
Without(L, a) == [i \in {i \in DOMAIN L : L[i].address # a} |-> L[i]]

OnlyOrphansMove ==
    \A q \in Request : Algorithm = "consistent_hash" /\ pc[q] # "idle" =>
        LET L == list[q]
            h == hash[q]
        IN \A a \in {L[i].address : i \in DOMAIN L} \ {RingGet(L, h)} :
               RingGet(Without(L, a), h) = RingGet(L, h)
=============================================================================

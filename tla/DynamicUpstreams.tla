-------------------------- MODULE DynamicUpstreams --------------------------
(***************************************************************************)
(* dynamic_upstreams.go: the pool of upstreams of one key, made from its   *)
(* route, cached for RefreshInterval and refreshed by one request at a     *)
(* time (singleflight).  Keys do not share state, so one is enough.        *)
(*                                                                         *)
(* The data source is whatever module of this project; here it has a route *)
(* or none, and its Get may fail, also because the request that leads the  *)
(* refresh was cancelled.  Time passes in ticks.                           *)
(***************************************************************************)
EXTENDS RouteConfig, SequencesExt

CONSTANTS
    Routes,             \* the routes the key may have
    Request,            \* requests calling GetUpstreams
    NoRequest,          \* no refresh is in flight
    Err,                \* an error instead of a pool
    RefreshInterval,    \* as configured, in ticks; 0 if not given
    DefaultInterval,    \* five seconds
    MaxChanges          \* bound: changes of the route per behaviour

ASSUME UpstreamsAssumption ==
    /\ RefreshInterval \in Nat /\ DefaultInterval \in Nat \ {0}
    /\ MaxChanges \in Nat /\ NoRequest \notin Request

VARIABLES
    route, changes,     \* the source's route for the key, and its changes
    entry,              \* the cache entry: its pool and its age; or NoConfig
    pc,                 \* per request: next step
    answer,             \* per request: what the source told the leader
    call,               \* singleflight: the request refreshing the key
    result,             \* per request: the pool returned
    via,                \* history: how it was come by
    current             \* history: the routes the key had since the flight began

vars == <<route, changes, entry, pc, answer, call, result, via, current>>

(* Provision: no interval means the default. *)
Interval == IF RefreshInterval = 0 THEN DefaultInterval ELSE RefreshInterval

Init ==
    /\ route \in Routes \cup {NoConfig} /\ changes = 0
    /\ entry = NoConfig
    /\ pc = [r \in Request |-> "idle"]
    /\ answer = [r \in Request |-> NoConfig]
    /\ call = NoRequest
    /\ result = [r \in Request |-> <<>>]
    /\ via = [r \in Request |-> "none"]
    /\ current = {}

-----------------------------------------------------------------------------
(* The upstream addresses of a route, the direct one and then the rules',   *)
(* in order.                                                                *)
AllAddresses(c) ==
    (IF c.upstream # "" THEN <<c.upstream>> ELSE <<>>)
    \o FlattenSeq([i \in DOMAIN c.rules |->
          [j \in DOMAIN c.rules[i].upstreams |-> c.rules[i].upstreams[j].address]])

(* Each address once, where it comes first. *)
configToUpstreams(c) ==
    FoldLeft(LAMBDA pool, a : IF Contains(pool, a) THEN pool ELSE Append(pool, a),
             <<>>, AllAddresses(c))

(* An error is no pool. *)
ASSUME ErrAssumption == Err # <<>> /\ \A c \in Routes : Err # configToUpstreams(c)

(* The cache entry is younger than the interval. *)
Fresh == entry # NoConfig /\ entry.age < Interval

-----------------------------------------------------------------------------
(* GetUpstreams: a fresh entry is the answer. *)
GetUpstreams(r) ==
    /\ pc[r] = "idle"
    /\ IF Fresh
       THEN /\ result' = [result EXCEPT ![r] = entry.pool]
            /\ via' = [via EXCEPT ![r] = "hit"]
            /\ UNCHANGED pc
       ELSE /\ pc' = [pc EXCEPT ![r] = "do"]
            /\ result' = [result EXCEPT ![r] = <<>>]
            /\ via' = [via EXCEPT ![r] = "none"]
    /\ UNCHANGED <<route, changes, entry, answer, call, current>>

(* singleflight.Do: lead the refresh or wait for who does. *)
Do(r) ==
    /\ pc[r] = "do"
    /\ \/ /\ call = NoRequest
          /\ call' = r
          /\ pc' = [pc EXCEPT ![r] = "recheck"]
          /\ current' = {route}
       \/ /\ call # NoRequest
          /\ pc' = [pc EXCEPT ![r] = "wait"]
          /\ UNCHANGED <<call, current>>
    /\ UNCHANGED <<route, changes, entry, answer, result, via>>

(* The refresh ends: leader and followers have the same answer. *)
Finish(r, p, how) ==
    LET party == {r} \cup {s \in Request : pc[s] = "wait"} IN
    /\ result' = [s \in Request |-> IF s \in party THEN p ELSE result[s]]
    /\ via' = [s \in Request |-> IF s \in party THEN how ELSE via[s]]
    /\ pc' = [s \in Request |-> IF s \in party THEN "idle" ELSE pc[s]]
    /\ call' = NoRequest
    /\ answer' = [answer EXCEPT ![r] = NoConfig]

(* Broken: the second look at the cache accepts any entry. *)
Recheck_AnyAge(r) ==
    /\ pc[r] = "recheck"
    /\ IF entry # NoConfig THEN Finish(r, entry.pool, "shared")
       ELSE /\ pc' = [pc EXCEPT ![r] = "fetch"]
            /\ UNCHANGED <<result, via, call, answer>>
    /\ UNCHANGED <<route, changes, entry, current>>

(* The leader looks at the cache again. *)
Recheck(r) ==
    /\ pc[r] = "recheck"
    /\ IF Fresh THEN Finish(r, entry.pool, "hit")
       ELSE /\ pc' = [pc EXCEPT ![r] = "fetch"]
            /\ UNCHANGED <<result, via, call, answer>>
    /\ UNCHANGED <<route, changes, entry, current>>

(* The source answers. *)
Fetch(r) ==
    /\ pc[r] = "fetch"
    /\ answer' = [answer EXCEPT ![r] = route]
    /\ pc' = [pc EXCEPT ![r] = "store"]
    /\ UNCHANGED <<route, changes, entry, call, result, via, current>>

(* Broken: a failure is returned although an old pool is cached. *)
FetchFails_NoStale(r) ==
    /\ pc[r] = "fetch"
    /\ Finish(r, Err, "failed")
    /\ UNCHANGED <<route, changes, entry, current>>

(* The source fails: an old pool, if there is one, is better than none. *)
FetchFails(r) ==
    /\ pc[r] = "fetch"
    /\ Finish(r, IF entry # NoConfig THEN entry.pool ELSE Err, "failed")
    /\ UNCHANGED <<route, changes, entry, current>>

(* A route becomes the cached pool; no route leaves the cache alone. *)
Store(r) ==
    /\ pc[r] = "store"
    /\ IF answer[r] = NoConfig
       THEN /\ Finish(r, <<>>, "shared")
            /\ UNCHANGED entry
       ELSE /\ Finish(r, configToUpstreams(answer[r]), "shared")
            /\ entry' = [pool |-> configToUpstreams(answer[r]), age |-> 0]
    /\ UNCHANGED <<route, changes, current>>

-----------------------------------------------------------------------------
(* The route changes at the source. *)
Change(x) ==
    /\ changes < MaxChanges /\ x # route
    /\ changes' = changes + 1
    /\ route' = x
    /\ current' = IF call # NoRequest THEN current \cup {x} ELSE current
    /\ UNCHANGED <<entry, pc, answer, call, result, via>>

(* Time passes; an entry is no older than one that has to be refreshed. *)
Tick ==
    /\ Fresh
    /\ entry' = [entry EXCEPT !.age = @ + 1]
    /\ UNCHANGED <<route, changes, pc, answer, call, result, via, current>>

Step(r) == Do(r) \/ Recheck(r) \/ Fetch(r) \/ FetchFails(r) \/ Store(r)

Next == \/ \E r \in Request : GetUpstreams(r) \/ Step(r)
        \/ \E x \in Routes \cup {NoConfig} : Change(x)
        \/ Tick

Spec == Init /\ [][Next]_vars

-----------------------------------------------------------------------------
(* Properties *)

(* A pool that was not taken from a fresh entry, and not for want of an     *)
(* answer from the source, is the pool of a route the key had while the     *)
(* refresh ran, for the leader and for everybody who joined it.             *)
FetchedPoolIsCurrent ==
    [][\A r \in Request :
          pc[r] # "idle" /\ pc'[r] = "idle" /\ via'[r] = "shared" =>
             result'[r] \in {IF c = NoConfig THEN <<>> ELSE configToUpstreams(c) :
                                c \in current}]_vars

(* "stale data is better than no data": a request fails only if no pool was *)
(* ever cached for the key.                                                 *)
ErrorOnlyWithoutPool ==
    [][\A r \in Request :
          pc[r] # "idle" /\ pc'[r] = "idle" /\ result'[r] = Err => entry = NoConfig]_vars
=============================================================================

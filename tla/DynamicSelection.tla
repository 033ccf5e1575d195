-------------------------- MODULE DynamicSelection --------------------------
(***************************************************************************)
(* plugin.go: the selection policy.  A request's routing key is looked up  *)
(* in the data source, the matching rule's upstreams are narrowed to those *)
(* in the proxy's pool that are available, one of them is chosen, and      *)
(* whatever fails on the way sends the request to the fallback policy.     *)
(* With instance and version keys the instance key is tried first.         *)
(*                                                                         *)
(* Requests run concurrently and share the index of the pool by address    *)
(* (poolIndex, lastPoolSize), which no lock protects.  The data source and *)
(* the choice among the candidates are abstracted to their outcomes; they  *)
(* have modules of their own.                                              *)
(***************************************************************************)
EXTENDS Integers, Sequences, FiniteSets

CONSTANTS
    Thread,         \* the goroutines handling requests
    Upstream,       \* upstream objects
    Dial,           \* their dial addresses
    CandidateLists, \* the address lists that matching rules yield
    Configs,        \* configurations: is there a data source, which of the "key",
                    \*   "instance" and "version" extractors are there, the
                    \*   pools (sets of upstreams) the proxy passes, and the
                    \*   threads that call Select
    None,           \* no upstream
    MaxSelects      \* bound: calls of Select per behaviour

ASSUME SelectionAssumption ==
    /\ Configs \subseteq [source : BOOLEAN, threads : SUBSET Thread,
                          extractors : SUBSET {"key", "instance", "version"},
                          pools : SUBSET SUBSET Upstream]
    /\ MaxSelects \in Nat /\ None \notin Upstream /\ IsFiniteSet(Upstream)

VARIABLES
    config,         \* the policy and its proxy, fixed when it is provisioned
    poolIndex,      \* address -> upstream, None where there is no entry
    indexed,        \* poolIndex # nil
    lastPoolSize,
    available,      \* the upstreams that are up
    healthy,        \* what the data source's Healthy() says
    pc, pool,       \* per thread: next step, the pool it was given
    ext,            \* the extractor of the current attempt
    health,         \* what Healthy() said before Get
    cands,          \* candidates still to look up
    inPool,         \* some candidate was found in the pool
    usable,         \* the candidates found available
    filling,        \* upstreams this thread has yet to put into the index
    final,          \* the address chosen, when it is being looked up
    first,          \* the failed instance attempt: its key and reason
    result,         \* what Select returned
    records,        \* history: what this Select recorded in the statistics
    attempts,       \* history: the outcome of each attempt of this Select
    selects         \* calls made (bounds the behaviours)

index == <<poolIndex, indexed, lastPoolSize>>
env   == <<config, available, healthy>>
local == <<pool, ext, health, cands, inPool, usable, filling, final, first>>
vars  == <<config, poolIndex, indexed, lastPoolSize, available, healthy, pc, pool,
           ext, health, cands, inPool, usable, filling, final, first, result,
           records, attempts, selects>>

Address == {Dial[u] : u \in Upstream}
           \cup UNION {{c[i] : i \in DOMAIN c} : c \in CandidateLists}

NoAddress == "none"
NoKey     == ""

ASSUME AddressAssumption ==
    CandidateLists \subseteq Seq(Address) /\ NoAddress \notin Address

Reason == {"no_replacer", "no_data_source", "no_key_extractor", "no_key", "error",
           "unhealthy", "no_config", "disabled", "expired", "no_match",
           "not_in_pool", "no_available_upstream"}

Init ==
    /\ config \in Configs
    /\ poolIndex = [a \in Address |-> None] /\ indexed = FALSE /\ lastPoolSize = 0
    /\ available = Upstream /\ healthy = TRUE
    /\ pc = [t \in Thread |-> "idle"]
    /\ pool = [t \in Thread |-> {}]
    /\ ext = [t \in Thread |-> "key"]
    /\ health = [t \in Thread |-> TRUE]
    /\ cands = [t \in Thread |-> <<>>]
    /\ inPool = [t \in Thread |-> FALSE]
    /\ usable = [t \in Thread |-> {}]
    /\ filling = [t \in Thread |-> {}]
    /\ final = [t \in Thread |-> NoAddress]
    /\ first = [t \in Thread |-> [key |-> NoKey, reason |-> "no_key"]]
    /\ result = [t \in Thread |-> None]
    /\ records = [t \in Thread |-> <<>>]
    /\ attempts = [t \in Thread |-> {}]
    /\ selects = 0

Goto(t, label) == pc' = [pc EXCEPT ![t] = label]

-----------------------------------------------------------------------------
(* Ends of Select.                                                         *)

(* Record a hit and return the upstream; a hit of the version key is also   *)
(* recorded as a fallback from the instance key.                            *)
Hit(t, key, u) ==
    /\ records' = [records EXCEPT ![t] =
          @ \o (IF key = "version"
                THEN << <<"instance_fallback", first[t].key, first[t].reason>> >>
                ELSE <<>>)
            \o << <<"hit", key, "hit">> >>]
    /\ result' = [result EXCEPT ![t] = u]
    /\ Goto(t, "idle")

(* Record a miss and let the fallback policy choose: some available         *)
(* upstream of the pool, or none.                                           *)
Miss(t, key, reason, p) ==
    /\ records' = [records EXCEPT ![t] = Append(@, <<"miss", key, reason>>)]
    /\ \E u \in (p \cap available) \cup {None} : result' = [result EXCEPT ![t] = u]
    /\ Goto(t, "idle")

(* The routing mode: instance then version, or the single key. *)
Multi == config.extractors \cap {"instance", "version"} # {}

(* Broken: both failed attempts are counted. *)
Fail_CountsTwice(t, key, reason) ==
    /\ attempts' = [attempts EXCEPT ![t] = @ \cup {<<key, reason>>}]
    /\ \/ /\ ext[t] = "instance"
          /\ first' = [first EXCEPT ![t] = [key |-> key, reason |-> reason]]
          /\ ext' = [ext EXCEPT ![t] = "version"]
          /\ records' = [records EXCEPT ![t] = Append(@, <<"miss", key, reason>>)]
          /\ Goto(t, "extract")
          /\ UNCHANGED result
       \/ /\ ext[t] # "instance"
          /\ Miss(t, key, reason, pool[t])
          /\ UNCHANGED <<first, ext>>

(* Broken: the instance attempt's reason is reported for the version key. *)
Fail_MixesReasons(t, key, reason) ==
    /\ attempts' = [attempts EXCEPT ![t] = @ \cup {<<key, reason>>}]
    /\ \/ /\ ext[t] = "instance"
          /\ first' = [first EXCEPT ![t] = [key |-> key, reason |-> reason]]
          /\ ext' = [ext EXCEPT ![t] = "version"]
          /\ Goto(t, "extract")
          /\ UNCHANGED <<result, records>>
       \/ /\ ext[t] = "version"
          /\ Miss(t, IF key = NoKey THEN first[t].key ELSE key, first[t].reason,
                  pool[t])
          /\ UNCHANGED <<first, ext>>
       \/ /\ ext[t] = "key"
          /\ Miss(t, key, reason, pool[t])
          /\ UNCHANGED <<first, ext>>

(* An attempt failed.  After the instance key the version key is tried;     *)
(* when that fails too, the miss is attributed to the version key, or to    *)
(* the instance key when there is no version key.                           *)
Fail(t, key, reason) ==
    /\ attempts' = [attempts EXCEPT ![t] = @ \cup {<<key, reason>>}]
    /\ \/ /\ ext[t] = "instance"
          /\ first' = [first EXCEPT ![t] = [key |-> key, reason |-> reason]]
          /\ ext' = [ext EXCEPT ![t] = "version"]
          /\ Goto(t, "extract")
          /\ UNCHANGED <<result, records>>
       \/ /\ ext[t] = "version"
          /\ IF key = NoKey THEN Miss(t, first[t].key, first[t].reason, pool[t])
                            ELSE Miss(t, key, reason, pool[t])
          /\ UNCHANGED <<first, ext>>
       \/ /\ ext[t] = "key"
          /\ Miss(t, key, reason, pool[t])
          /\ UNCHANGED <<first, ext>>

-----------------------------------------------------------------------------
(* The key to try first. *)

FirstExtractor == IF Multi THEN "instance" ELSE "key"

(* Select: the conditions that need no attempt. *)
Select(t, p) ==
    /\ pc[t] = "idle" /\ selects < MaxSelects
    /\ t \in config.threads
    /\ selects' = selects + 1
    /\ pool' = [pool EXCEPT ![t] = p]
    /\ ext' = [ext EXCEPT ![t] = FirstExtractor]
    /\ attempts' = [attempts EXCEPT ![t] = {}]
    /\ final' = [final EXCEPT ![t] = NoAddress]
    /\ \/ /\ p # {} /\ config.source /\ config.extractors # {}
          /\ records' = [records EXCEPT ![t] = <<>>]
          /\ result' = [result EXCEPT ![t] = None]
          /\ Goto(t, "extract")
       \/ /\ p = {}
          /\ records' = [records EXCEPT ![t] = <<>>]
          /\ result' = [result EXCEPT ![t] = None]
          /\ UNCHANGED pc
       \/ /\ p # {}
          /\ \E reason \in {"no_replacer"}
                \cup (IF config.source THEN {} ELSE {"no_data_source"})
                \cup (IF config.source /\ config.extractors = {}
                      THEN {"no_key_extractor"} ELSE {}) :
             records' = [records EXCEPT ![t] = << <<"miss", NoKey, reason>> >>]
          /\ \E u \in (p \cap available) \cup {None} :
                result' = [result EXCEPT ![t] = u]
          /\ UNCHANGED pc
    /\ UNCHANGED <<index, env, health, cands, inPool, usable, filling, first>>

(* attempt: extract the key. *)
Extract(t) ==
    /\ pc[t] = "extract"
    /\ \/ /\ ext[t] \notin config.extractors
          /\ Fail(t, NoKey, "no_key_extractor")
       \/ /\ ext[t] \in config.extractors
          /\ \/ Fail(t, NoKey, "no_key")
             \/ /\ Goto(t, "health")
                /\ UNCHANGED <<first, ext, result, records, attempts>>
    /\ UNCHANGED <<index, env, pool, health, cands, inPool, usable, filling, final,
                   selects>>

(* attempt: the health is read before the configuration. *)
ReadHealth(t) ==
    /\ pc[t] = "health"
    /\ health' = [health EXCEPT ![t] = healthy]
    /\ Goto(t, "get")
    /\ UNCHANGED <<index, env, pool, ext, cands, inPool, usable, filling, final,
                   first, result, records, attempts, selects>>

(* attempt: Get, the checks of its answer, and the matching rule. *)
GetConfig(t) ==
    /\ pc[t] = "get"
    /\ \/ /\ \E reason \in {"error", "disabled", "expired", "no_match"} :
                Fail(t, ext[t], reason)
          /\ UNCHANGED <<cands, inPool, usable, filling>>
       \/ /\ Fail(t, ext[t], IF health[t] THEN "no_config" ELSE "unhealthy")
          /\ UNCHANGED <<cands, inPool, usable, filling>>
       \/ \E c \in CandidateLists :
             /\ cands' = [cands EXCEPT ![t] = c]
             /\ inPool' = [inPool EXCEPT ![t] = FALSE]
             /\ usable' = [usable EXCEPT ![t] = {}]
             /\ Goto(t, "next")
             /\ UNCHANGED <<filling, first, ext, result, records, attempts>>
    /\ UNCHANGED <<index, env, pool, health, final, selects>>

(* SelectFromUpstreams: the only candidate, or what the rule's algorithm      *)
(* chooses.  consistent_hash may look the key up in the ring of another list *)
(* (one stored by an overlapping request, or one whose hash collides), so    *)
(* any address some rule names may come back.                                *)
SelectFromUpstreams(t) ==
    IF Cardinality(usable[t]) <= 1 THEN usable[t]
    ELSE UNION {{c[i] : i \in DOMAIN c} : c \in CandidateLists}

(* attempt: look the next candidate up, or choose among those available.    *)
NextCandidate(t) ==
    /\ pc[t] = "next"
    /\ \/ /\ cands[t] # <<>>
          /\ Goto(t, "check")
          /\ UNCHANGED <<final, first, ext, result, records, attempts>>
       \/ /\ cands[t] = <<>> /\ ~inPool[t]
          /\ Fail(t, ext[t], "not_in_pool")
          /\ UNCHANGED final
       \/ /\ cands[t] = <<>> /\ inPool[t] /\ usable[t] = {}
          /\ Fail(t, ext[t], "no_available_upstream")
          /\ UNCHANGED final
       \/ \E a \in SelectFromUpstreams(t) :
             /\ cands[t] = <<>>
             /\ final' = [final EXCEPT ![t] = a]
             /\ Goto(t, "check")
             /\ UNCHANGED <<first, ext, result, records, attempts>>
    /\ UNCHANGED <<index, env, pool, health, cands, inPool, usable, filling, selects>>

-----------------------------------------------------------------------------
(* findUpstreamInPool: the index is rebuilt when it is nil or was built for *)
(* a pool of another size.                                                  *)

(* Broken: only a missing index is built. *)
FindCheck_NeverRebuilds(t) ==
    /\ pc[t] = "check"
    /\ Goto(t, IF ~indexed THEN "make" ELSE "read")
    /\ UNCHANGED <<index, env, local, result, records, attempts, selects>>

FindCheck(t) ==
    /\ pc[t] = "check"
    /\ Goto(t, IF ~indexed \/ Cardinality(pool[t]) # lastPoolSize THEN "make"
                                                                  ELSE "read")
    /\ UNCHANGED <<index, env, local, result, records, attempts, selects>>

(* A new map takes the place of the old one and is then filled in place. *)
FindMake(t) ==
    /\ pc[t] = "make"
    /\ poolIndex' = [a \in Address |-> None]
    /\ indexed' = TRUE
    /\ filling' = [filling EXCEPT ![t] = pool[t]]
    /\ Goto(t, "fill")
    /\ UNCHANGED <<lastPoolSize, env, pool, ext, health, cands, inPool, usable,
                   final, first, result, records, attempts, selects>>

FindFill(t) ==
    /\ pc[t] = "fill"
    /\ \/ \E u \in filling[t] :
             /\ poolIndex' = [poolIndex EXCEPT ![Dial[u]] = u]
             /\ filling' = [filling EXCEPT ![t] = @ \ {u}]
             /\ UNCHANGED <<lastPoolSize, pc>>
       \/ /\ filling[t] = {}
          /\ lastPoolSize' = Cardinality(pool[t])
          /\ Goto(t, "read")
          /\ UNCHANGED <<poolIndex, filling>>
    /\ UNCHANGED <<indexed, env, pool, ext, health, cands, inPool, usable, final,
                   first, result, records, attempts, selects>>

(* The address the thread is looking up. *)
Sought(t) == IF final[t] # NoAddress THEN final[t] ELSE Head(cands[t])

(* The lookup of a candidate: keep it if it is in the pool and available.   *)
FindCandidate(t) ==
    LET u == poolIndex[Sought(t)] IN
    /\ pc[t] = "read" /\ final[t] = NoAddress
    /\ inPool' = [inPool EXCEPT ![t] = @ \/ u # None]
    /\ usable' = [usable EXCEPT ![t] =
                     IF u \in available THEN @ \cup {Sought(t)} ELSE @]
    /\ cands' = [cands EXCEPT ![t] = Tail(@)]
    /\ Goto(t, "next")
    /\ UNCHANGED <<index, env, pool, ext, health, filling, final, first, result,
                   records, attempts, selects>>

(* The lookup of the chosen upstream. *)
FindChosen(t) ==
    LET u == poolIndex[Sought(t)] IN
    /\ pc[t] = "read" /\ final[t] # NoAddress
    /\ final' = [final EXCEPT ![t] = NoAddress]
    /\ \/ /\ u # None
          /\ Hit(t, ext[t], u)
          /\ attempts' = [attempts EXCEPT ![t] = @ \cup {<<ext[t], "hit">>}]
          /\ UNCHANGED <<first, ext>>
       \/ u = None /\ Fail(t, ext[t], "not_in_pool")
    /\ UNCHANGED <<index, env, pool, health, cands, inPool, usable, filling, selects>>

-----------------------------------------------------------------------------
(* Around the policy, upstreams go down and up, and so does the source. *)
Environment ==
    /\ \/ /\ \E u \in Upstream :
                available' = IF u \in available THEN available \ {u}
                                                ELSE available \cup {u}
          /\ UNCHANGED healthy
       \/ healthy' = ~healthy /\ UNCHANGED available
    /\ UNCHANGED <<config, index, pc, local, result, records, attempts, selects>>

Step(t) == \/ Extract(t) \/ ReadHealth(t) \/ GetConfig(t) \/ NextCandidate(t)
           \/ FindCheck(t) \/ FindMake(t) \/ FindFill(t) \/ FindCandidate(t)
           \/ FindChosen(t)

Next == \/ \E t \in Thread : Step(t) \/ \E p \in config.pools : Select(t, p)
        \/ Environment

Spec == Init /\ [][Next]_vars

-----------------------------------------------------------------------------
(* Properties *)

(* The values of the shared index and of the threads' local state; the      *)
(* remembered size is that of some pool.                                    *)
TypeOK ==
    /\ config \in Configs
    /\ poolIndex \in [Address -> Upstream \cup {None}]
    /\ indexed \in BOOLEAN /\ lastPoolSize \in 0..Cardinality(Upstream)
    /\ available \subseteq Upstream /\ healthy \in BOOLEAN
    /\ \A t \in Thread :
          /\ pc[t] \in {"idle", "extract", "health", "get", "next", "check", "make",
                        "fill", "read"}
          /\ pool[t] \in SUBSET Upstream
          /\ ext[t] \in {"key", "instance", "version"}
          /\ usable[t] \subseteq Address /\ filling[t] \subseteq pool[t]
          /\ result[t] \in Upstream \cup {None}

(* Every Select of a non-empty pool records exactly one hit or miss,        *)
(* whichever of its returns it takes and however many attempts it makes.    *)
OneRecordPerSelect ==
    \A t \in Thread :
        Cardinality({i \in DOMAIN records[t] : records[t][i][1] \in {"hit", "miss"}})
            = IF pc[t] = "idle" /\ pool[t] # {} THEN 1 ELSE 0

(* A recorded reason belongs to the key it is recorded for: it is what the  *)
(* attempt with that very key ended with.                                   *)
ReasonBelongsToKey ==
    \A t \in Thread : \A i \in DOMAIN records[t] :
        attempts[t] # {} => <<records[t][i][2], records[t][i][3]>> \in attempts[t]

(* Select returns an upstream of the pool it was given. *)
ResultInPool ==
    \A t \in Thread : pc[t] = "idle" => result[t] \in pool[t] \cup {None}

(* findUpstreamInPool finds what the pool holds: when the lookup of a       *)
(* request that has the index to itself runs, the entry of a pool member's  *)
(* address is that member, however the pool grew or shrank before.          *)
FindsMembers ==
    \A t \in Thread : config.threads = {t} /\ pc[t] = "read" =>
        \A u \in pool[t] : Dial[u] = Sought(t) => poolIndex[Sought(t)] = u
=============================================================================

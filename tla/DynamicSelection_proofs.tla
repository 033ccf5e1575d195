----------------------- MODULE DynamicSelection_proofs ----------------------
(* Proofs about the selection policy, for any upstreams, pools, candidates  *)
(* and number of requests.                                                  *)
EXTENDS DynamicSelection, FiniteSetTheorems, SequenceTheorems, TLAPS

-----------------------------------------------------------------------------
(* The inductive invariant.                                                 *)

Label == {"idle", "extract", "health", "get", "next", "check", "make", "fill", "read"}

Extractor == {"key", "instance", "version"}

(* The types TypeOK leaves open, and what a lookup is about: the address of *)
(* the chosen upstream or the first of the candidates that are left.        *)
LocalOK ==
    /\ pc \in [Thread -> Label] /\ pool \in [Thread -> SUBSET Upstream]
    /\ ext \in [Thread -> Extractor] /\ inPool \in [Thread -> BOOLEAN]
    /\ cands \in [Thread -> Seq(Address)] /\ usable \in [Thread -> SUBSET Address]
    /\ filling \in [Thread -> SUBSET Upstream]
    /\ final \in [Thread -> Address \cup {NoAddress}]
    /\ first = [t \in Thread |-> [key |-> first[t].key, reason |-> first[t].reason]]
    /\ result \in [Thread -> Upstream \cup {None}]
    /\ records = [t \in Thread |-> records[t]]
    /\ attempts = [t \in Thread |-> attempts[t]]

LookupOK(t) ==
    /\ pc[t] \in {"check", "make", "fill", "read"} => final[t] # NoAddress \/ cands[t] # <<>>
    /\ pc[t] # "fill" => filling[t] = {}
    /\ pc[t] # "idle" => t \in config.threads /\ pool[t] \in config.pools /\ pool[t] # {}
    /\ pool[t] # {} => t \in config.threads /\ pool[t] \in config.pools

(* What a Select can have recorded when it returns: a hit, one that came    *)
(* after the instance key failed, or a miss.                                *)
Outcome(r) ==
    \/ \E k, x : r = << <<"hit", k, x>> >> \/ r = << <<"miss", k, x>> >>
    \/ \E k, x, k2, x2 : r = << <<"instance_fallback", k, x>>, <<"hit", k2, x2>> >>

RecordsOK(t) ==
    IF pc[t] = "idle" /\ pool[t] # {} THEN Outcome(records[t]) ELSE records[t] = <<>>

(* The failed instance attempt that the version attempt refers to is one of *)
(* this Select.                                                             *)
FirstOK(t) ==
    pc[t] # "idle" /\ ext[t] = "version" =>
        <<first[t].key, first[t].reason>> \in attempts[t]

(* The index holds upstreams of pool p under their addresses, and all those *)
(* in done.                                                                 *)
IndexHolds(p, done) ==
    /\ \A a \in Address : poolIndex[a] # None => poolIndex[a] \in p /\ Dial[poolIndex[a]] = a
    /\ \A u \in done : poolIndex[Dial[u]] # None

(* The pool of the proxy never changes, or is empty. *)
PoolIsStatic == \E p : config.pools \subseteq {p, {}}

(* Requests come one at a time, and pools of one size are the same pool. *)
OneThread == \E t \in Thread : config.threads = {t}

PoolsTellBySize ==
    \A p, q \in config.pools : Cardinality(p) = Cardinality(q) => p = q

(* With a static pool the index holds members of that pool only, although   *)
(* requests replace and fill it under each other's eyes.                    *)
StaticOK ==
    \A p : config.pools \subseteq {p, {}} =>
        \A a \in Address : poolIndex[a] \in p \cup {None}

(* One request at a time: between two lookups the index is that of a pool   *)
(* of the remembered size.                                                  *)
AloneOK(t) ==
    config.threads = {t} =>
        /\ pc[t] = "fill" => indexed /\ IndexHolds(pool[t], pool[t] \ filling[t])
        /\ indexed /\ pc[t] \notin {"make", "fill"} =>
              \E p \in config.pools : Cardinality(p) = lastPoolSize /\ IndexHolds(p, p)
        /\ pc[t] = "read" => indexed /\ Cardinality(pool[t]) = lastPoolSize

(* ReasonBelongsToKey, and ResultInPool where it can hold. *)
ReasonOK(t) ==
    \A i \in DOMAIN records[t] :
        attempts[t] # {} => <<records[t][i][2], records[t][i][3]>> \in attempts[t]

Steady == PoolIsStatic \/ (OneThread /\ PoolsTellBySize)

ResultOK(t) == Steady /\ pc[t] = "idle" => result[t] \in pool[t] \cup {None}

ThreadOK(t) == LookupOK(t) /\ RecordsOK(t) /\ FirstOK(t) /\ ReasonOK(t) /\ ResultOK(t)

Inv ==
    /\ TypeOK /\ LocalOK /\ StaticOK
    /\ \A t \in Thread : ThreadOK(t) /\ AloneOK(t)

-----------------------------------------------------------------------------
(* Lemmas about records.                                                    *)

(* What is appended to no records is the only one. *)
LEMMA FirstRecord ==
    ASSUME NEW x, NEW y
    PROVE  /\ Append(<<>>, x) = <<x>>
           /\ (<<>> \o <<>>) \o <<x>> = <<x>>
           /\ (<<>> \o <<y>>) \o <<x>> = <<y, x>>
<1>1. Append(<<>>, x) = <<x>>
  OBVIOUS
<1>2. <<>> \o <<>> = <<>> /\ <<>> \o <<x>> = <<x>> /\ <<>> \o <<y>> = <<y>>
  <2>1. <<>> \in Seq({x, y}) /\ <<x>> \in Seq({x, y}) /\ <<y>> \in Seq({x, y})
    OBVIOUS
  <2>. QED  BY <2>1, ConcatEmptySeq
<1>3. <<y>> \o <<x>> = <<y, x>>
  <2>1. <<y>> \in Seq({x, y}) /\ <<x>> \in Seq({x, y})
    OBVIOUS
  <2>2. /\ <<y>> \o <<x>> \in Seq({x, y}) /\ Len(<<y>> \o <<x>>) = 2
        /\ (<<y>> \o <<x>>)[1] = y /\ (<<y>> \o <<x>>)[2] = x
    BY <2>1
  <2>3. <<y, x>> \in Seq({x, y}) /\ Len(<<y, x>>) = 2
        /\ <<y, x>>[1] = y /\ <<y, x>>[2] = x
    OBVIOUS
  <2>4. \A i \in 1..2 : (<<y>> \o <<x>>)[i] = <<y, x>>[i]
    BY <2>2, <2>3
  <2>. QED  BY <2>2, <2>3, <2>4, SeqEqual
<1>. QED  BY <1>1, <1>2, <1>3

(* A thread that does not move keeps what is true of it. *)
LEMMA ThreadKept ==
    ASSUME NEW t \in Thread, ThreadOK(t), config' = config,
           pc'[t] = pc[t], pool'[t] = pool[t], ext'[t] = ext[t], cands'[t] = cands[t],
           filling'[t] = filling[t], final'[t] = final[t], first'[t] = first[t], result'[t] = result[t],
           records'[t] = records[t], attempts'[t] = attempts[t]
    PROVE  ThreadOK(t)'
<1>1. LookupOK(t)' /\ RecordsOK(t)'
  BY DEF ThreadOK, LookupOK, RecordsOK, Outcome
<1>2. FirstOK(t)' /\ ReasonOK(t)'
  BY DEF ThreadOK, FirstOK, ReasonOK
<1>3. ResultOK(t)'
  BY DEF ThreadOK, ResultOK, Steady, PoolIsStatic, OneThread, PoolsTellBySize
<1>. QED  BY <1>1, <1>2, <1>3 DEF ThreadOK

(* The index stays what it is while no thread begins or ends a lookup. *)
LEMMA IndexKept ==
    ASSUME Inv, UNCHANGED <<config, index>>,
           \A t \in Thread :
              \/ pc'[t] = pc[t] /\ pool'[t] = pool[t] /\ filling'[t] = filling[t]
              \/ pc[t] \notin {"make", "fill"} /\ pc'[t] \notin {"make", "fill", "read"}
    PROVE  StaticOK' /\ \A t \in Thread : AloneOK(t)'
<1>1. StaticOK'
  BY DEF Inv, StaticOK, index
<1>2. ASSUME NEW t \in Thread PROVE AloneOK(t)'
  <2>1. AloneOK(t)
    BY DEF Inv
  <2>2. \A p, q : IndexHolds(p, q)' <=> IndexHolds(p, q)
    BY DEF IndexHolds, index
  <2>. QED  BY <2>1, <2>2 DEF AloneOK, index
<1>. QED  BY <1>1, <1>2

-----------------------------------------------------------------------------
(* The invariant holds initially.                                           *)
LEMMA InvInit == Init => Inv
<1>. SUFFICES ASSUME Init PROVE Inv
  OBVIOUS
<1>. USE DEF Init
<1>1. TypeOK
  <2>1. Cardinality(Upstream) \in Nat
    BY SelectionAssumption, FS_CardinalityType
  <2>2. config \in Configs /\ available \subseteq Upstream
    OBVIOUS
  <2>3. poolIndex \in [Address -> Upstream \cup {None}]
    OBVIOUS
  <2>4. indexed \in BOOLEAN /\ healthy \in BOOLEAN
    OBVIOUS
  <2>5. lastPoolSize \in 0..Cardinality(Upstream)
    BY <2>1
  <2>. QED  BY <2>2, <2>3, <2>4, <2>5 DEF TypeOK
<1>2. LocalOK
  <2>1. /\ pc \in [Thread -> Label] /\ pool \in [Thread -> SUBSET Upstream]
        /\ ext \in [Thread -> Extractor] /\ inPool \in [Thread -> BOOLEAN]
        /\ usable \in [Thread -> SUBSET Address]
        /\ filling \in [Thread -> SUBSET Upstream]
    BY DEF Label, Extractor
  <2>2. /\ cands \in [Thread -> Seq(Address)]
        /\ final \in [Thread -> Address \cup {NoAddress}]
        /\ result \in [Thread -> Upstream \cup {None}]
    OBVIOUS
  <2>3. /\ first = [t \in Thread |-> [key |-> first[t].key, reason |-> first[t].reason]]
        /\ records = [t \in Thread |-> records[t]]
        /\ attempts = [t \in Thread |-> attempts[t]]
    OBVIOUS
  <2>. QED  BY <2>1, <2>2, <2>3 DEF LocalOK
<1>3. StaticOK
  BY DEF StaticOK
<1>4. ASSUME NEW t \in Thread PROVE ThreadOK(t) /\ AloneOK(t)
  BY DEF ThreadOK, LookupOK, RecordsOK, FirstOK, ReasonOK, ResultOK, AloneOK
<1>. QED  BY <1>1, <1>2, <1>3, <1>4 DEF Inv

-----------------------------------------------------------------------------
(* Ends of an attempt.                                                      *)

(* The part of LocalOK that the ends of an attempt touch, and the threads   *)
(* they leave alone.                                                        *)
EndOK(t) ==
    /\ pc' \in [Thread -> Label] /\ ext' \in [Thread -> Extractor]
    /\ first' = [d \in Thread |-> [key |-> first'[d].key, reason |-> first'[d].reason]]
    /\ result' \in [Thread -> Upstream \cup {None}]
    /\ records' = [d \in Thread |-> records'[d]]
    /\ attempts' = [d \in Thread |-> attempts'[d]]
    /\ \A d \in Thread \ {t} :
          /\ pc'[d] = pc[d] /\ ext'[d] = ext[d] /\ first'[d] = first[d]
          /\ result'[d] = result[d] /\ records'[d] = records[d]
          /\ attempts'[d] = attempts[d]
    /\ pc'[t] \in {"idle", "extract"}

LEMMA FailKeeps ==
    ASSUME Inv, NEW t \in Thread, NEW key, NEW reason, pc[t] # "idle",
           Fail(t, key, reason), UNCHANGED <<config, pool, available>>,
           filling'[t] = {}
    PROVE  EndOK(t) /\ ThreadOK(t)'
<1>0. /\ ThreadOK(t) /\ records[t] = <<>> /\ pool[t] # {} /\ available \subseteq Upstream
      /\ t \in config.threads /\ pool[t] \in config.pools
  BY DEF Inv, ThreadOK, RecordsOK, LookupOK, TypeOK
<1>1. /\ attempts' = [attempts EXCEPT ![t] = @ \cup {<<key, reason>>}]
      /\ attempts'[t] = attempts[t] \cup {<<key, reason>>}
      /\ attempts' = [d \in Thread |-> attempts'[d]]
      /\ \A d \in Thread \ {t} : attempts'[d] = attempts[d]
  BY DEF Fail, Inv, LocalOK
<1>2. CASE /\ ext[t] = "instance"
           /\ first' = [first EXCEPT ![t] = [key |-> key, reason |-> reason]]
           /\ ext' = [ext EXCEPT ![t] = "version"]
           /\ pc' = [pc EXCEPT ![t] = "extract"]
           /\ UNCHANGED <<result, records>>
  <2>1. /\ pc' \in [Thread -> Label] /\ ext' \in [Thread -> Extractor]
        /\ result' \in [Thread -> Upstream \cup {None}]
        /\ records' = [d \in Thread |-> records'[d]]
        /\ pc'[t] = "extract" /\ ext'[t] = "version" /\ records'[t] = <<>>
    BY <1>0, <1>2 DEF Inv, LocalOK, Label, Extractor
  <2>2. /\ first' = [d \in Thread |-> [key |-> first'[d].key, reason |-> first'[d].reason]]
        /\ first'[t] = [key |-> key, reason |-> reason]
        /\ \A d \in Thread \ {t} : first'[d] = first[d]
    BY <1>2 DEF Inv, LocalOK
  <2>3. EndOK(t)
    BY <1>1, <1>2, <2>1, <2>2 DEF EndOK, Inv, LocalOK
  <2>4. ThreadOK(t)'
    BY <1>0, <1>1, <2>1, <2>2
       DEF ThreadOK, LookupOK, RecordsOK, FirstOK, ReasonOK, ResultOK
  <2>. QED  BY <2>3, <2>4
<1>3. CASE ext[t] # "instance"
  <2>1. PICK k, r : /\ Miss(t, k, r, pool[t]) /\ UNCHANGED <<first, ext>>
                    /\ <<k, r>> \in attempts'[t]
    BY <1>0, <1>1, <1>3 DEF Fail, ThreadOK, FirstOK
  <2>2. PICK u \in (pool[t] \cap available) \cup {None} : result' = [result EXCEPT ![t] = u]
    BY <2>1 DEF Miss
  <2>3. /\ records' = [records EXCEPT ![t] = Append(@, <<"miss", k, r>>)]
        /\ pc' = [pc EXCEPT ![t] = "idle"]
    BY <2>1 DEF Miss, Goto
  <2>4. /\ records'[t] = << <<"miss", k, r>> >>
        /\ records' = [d \in Thread |-> records'[d]]
        /\ \A d \in Thread \ {t} : records'[d] = records[d]
    BY <1>0, <2>3, FirstRecord DEF Inv, LocalOK
  <2>5. /\ pc' \in [Thread -> Label] /\ pc'[t] = "idle"
        /\ result' \in [Thread -> Upstream \cup {None}] /\ result'[t] = u
        /\ \A d \in Thread \ {t} : pc'[d] = pc[d] /\ result'[d] = result[d]
    BY <1>0, <2>2, <2>3 DEF Inv, LocalOK, Label
  <2>6. EndOK(t)
    BY <1>1, <2>1, <2>4, <2>5 DEF EndOK, Inv, LocalOK
  <2>7. RecordsOK(t)' /\ ReasonOK(t)'
    <3>1. Outcome(records'[t])
      BY <2>4 DEF Outcome
    <3>2. \A i \in DOMAIN records'[t] : records'[t][i] = <<"miss", k, r>>
      BY <2>4
    <3>. QED  BY <1>0, <2>1, <2>5, <3>1, <3>2 DEF RecordsOK, ReasonOK
  <2>8. LookupOK(t)' /\ FirstOK(t)' /\ ResultOK(t)'
    BY <1>0, <2>2, <2>5 DEF LookupOK, FirstOK, ResultOK
  <2>. QED  BY <2>6, <2>7, <2>8 DEF ThreadOK
<1>. QED  BY <1>2, <1>3 DEF Fail, Goto

(* An attempt that fails leaves the invariant true. *)
LEMMA FailStep ==
    ASSUME Inv, NEW t \in Thread, NEW key, NEW reason,
           pc[t] \notin {"idle", "make", "fill"}, Fail(t, key, reason),
           UNCHANGED <<index, env, pool, cands, inPool, usable, filling>>,
           final' = final \/ final' = [final EXCEPT ![t] = NoAddress]
    PROVE  Inv'
<1>1. EndOK(t) /\ ThreadOK(t)'
  <2>1. filling'[t] = {}
    BY DEF Inv, ThreadOK, LookupOK
  <2>. QED  BY <2>1, FailKeeps DEF env
<1>2. LocalOK'
  BY <1>1 DEF EndOK, Inv, LocalOK
<1>3. TypeOK'
  BY <1>2 DEF Inv, TypeOK, LocalOK, Label, Extractor, index, env
<1>4. ASSUME NEW d \in Thread \ {t} PROVE ThreadOK(d)'
  BY <1>1, ThreadKept DEF EndOK, Inv, LocalOK, env
<1>5. StaticOK' /\ \A d \in Thread : AloneOK(d)'
  BY <1>1, IndexKept DEF EndOK, env
<1>. QED  BY <1>1, <1>2, <1>3, <1>4, <1>5 DEF Inv

(* So does a step to another label of the attempt, lookups aside. *)
LEMMA MoveStep ==
    ASSUME Inv, NEW t \in Thread, NEW label \in {"health", "get", "next", "check"},
           pc[t] \notin {"idle", "make", "fill"}, Goto(t, label),
           UNCHANGED <<index, env, pool, ext, filling, first, result, records, attempts>>,
           cands' \in [Thread -> Seq(Address)], inPool' \in [Thread -> BOOLEAN],
           usable' \in [Thread -> SUBSET Address],
           final' \in [Thread -> Address \cup {NoAddress}],
           \A d \in Thread \ {t} : cands'[d] = cands[d] /\ final'[d] = final[d],
           label = "check" => final'[t] # NoAddress \/ cands'[t] # <<>>
    PROVE  Inv'
<1>1. /\ pc' \in [Thread -> Label] /\ pc'[t] = label
      /\ \A d \in Thread \ {t} : pc'[d] = pc[d]
  BY DEF Goto, Inv, LocalOK, Label
<1>2. LocalOK'
  BY <1>1 DEF Inv, LocalOK
<1>3. TypeOK'
  BY <1>2 DEF Inv, TypeOK, LocalOK, Label, Extractor, index, env
<1>4. ASSUME NEW d \in Thread \ {t} PROVE ThreadOK(d)'
  BY <1>1, ThreadKept DEF Inv, env
<1>5. ThreadOK(t)'
  <2>1. ThreadOK(t)
    BY DEF Inv
  <2>. QED  BY <1>1, <2>1
            DEF ThreadOK, LookupOK, RecordsOK, FirstOK, ReasonOK, ResultOK, env
<1>6. StaticOK' /\ \A d \in Thread : AloneOK(d)'
  BY <1>1, IndexKept DEF env
<1>. QED  BY <1>2, <1>3, <1>4, <1>5, <1>6 DEF Inv

-----------------------------------------------------------------------------
(* Every step keeps the invariant.                                          *)
LEMMA SelectKeeps ==
    ASSUME Inv, NEW t \in Thread, NEW p \in config.pools, Select(t, p)
    PROVE  Inv'
<1>0. /\ pc[t] = "idle" /\ t \in config.threads
      /\ pool' = [pool EXCEPT ![t] = p]
      /\ ext' = [ext EXCEPT ![t] = FirstExtractor]
      /\ attempts' = [attempts EXCEPT ![t] = {}]
      /\ final' = [final EXCEPT ![t] = NoAddress]
      /\ UNCHANGED <<index, env, health, cands, inPool, usable, filling, first>>
  BY DEF Select
<1>1. p \subseteq Upstream /\ FirstExtractor \in {"instance", "key"}
  BY SelectionAssumption DEF Inv, TypeOK, FirstExtractor
<1>2. /\ pool' \in [Thread -> SUBSET Upstream] /\ pool'[t] = p
      /\ ext' \in [Thread -> Extractor] /\ ext'[t] # "version"
      /\ attempts' = [d \in Thread |-> attempts'[d]] /\ attempts'[t] = {}
      /\ final' \in [Thread -> Address \cup {NoAddress}]
      /\ \A d \in Thread \ {t} : /\ pool'[d] = pool[d] /\ ext'[d] = ext[d]
                                  /\ attempts'[d] = attempts[d] /\ final'[d] = final[d]
  BY <1>0, <1>1 DEF Inv, LocalOK, Extractor
<1>u. PICK u \in p \cup {None} : \E r :
         /\ result' = [result EXCEPT ![t] = u]
         /\ records' = [records EXCEPT ![t] = r]
         /\ \/ p # {} /\ r = <<>> /\ pc' = [pc EXCEPT ![t] = "extract"]
            \/ p = {} /\ r = <<>> /\ pc' = pc
            \/ p # {} /\ pc' = pc /\ \E x : r = << <<"miss", NoKey, x>> >>
  <2>1. CASE /\ p # {} /\ records' = [records EXCEPT ![t] = <<>>]
             /\ result' = [result EXCEPT ![t] = None] /\ pc' = [pc EXCEPT ![t] = "extract"]
    BY <2>1
  <2>2. CASE /\ p = {} /\ records' = [records EXCEPT ![t] = <<>>]
             /\ result' = [result EXCEPT ![t] = None] /\ pc' = pc
    BY <2>2
  <2>3. CASE /\ p # {} /\ pc' = pc
             /\ \E x : records' = [records EXCEPT ![t] = << <<"miss", NoKey, x>> >>]
             /\ \E u \in p \cup {None} : result' = [result EXCEPT ![t] = u]
    BY <2>3
  <2>. QED  BY <2>1, <2>2, <2>3 DEF Select, Goto
<1>3. PICK r :
         /\ result' = [result EXCEPT ![t] = u]
         /\ records' = [records EXCEPT ![t] = r]
         /\ \/ p # {} /\ r = <<>> /\ pc' = [pc EXCEPT ![t] = "extract"]
            \/ p = {} /\ r = <<>> /\ pc' = pc
            \/ p # {} /\ pc' = pc /\ \E x : r = << <<"miss", NoKey, x>> >>
  BY <1>u
<1>4. /\ result' \in [Thread -> Upstream \cup {None}] /\ result'[t] = u
      /\ records' = [d \in Thread |-> records'[d]] /\ records'[t] = r
      /\ pc' \in [Thread -> Label]
      /\ \/ p # {} /\ r = <<>> /\ pc'[t] = "extract"
         \/ p = {} /\ r = <<>> /\ pc'[t] = "idle"
         \/ p # {} /\ pc'[t] = "idle" /\ \E x : r = << <<"miss", NoKey, x>> >>
      /\ \A d \in Thread \ {t} : /\ result'[d] = result[d] /\ records'[d] = records[d]
                                  /\ pc'[d] = pc[d]
  <2>1. /\ result' \in [Thread -> Upstream \cup {None}] /\ result'[t] = u
        /\ records' = [d \in Thread |-> records'[d]] /\ records'[t] = r
        /\ \A d \in Thread \ {t} : result'[d] = result[d] /\ records'[d] = records[d]
    BY <1>1, <1>3 DEF Inv, LocalOK
  <2>2. pc' = pc \/ pc' = [pc EXCEPT ![t] = "extract"]
    BY <1>3
  <2>3. pc' \in [Thread -> Label] /\ \A d \in Thread \ {t} : pc'[d] = pc[d]
    BY <2>2 DEF Inv, LocalOK, Label
  <2>. QED  BY <1>0, <1>3, <2>1, <2>3 DEF Inv, LocalOK
<1>5. LocalOK'
  BY <1>0, <1>2, <1>4 DEF Inv, LocalOK
<1>6. filling'[t] = {}
  BY <1>0 DEF Inv, ThreadOK, LookupOK
<1>7. TypeOK'
  BY <1>0, <1>2, <1>5, <1>6 DEF Inv, TypeOK, LocalOK, Label, Extractor, index, env
<1>8. ASSUME NEW d \in Thread \ {t} PROVE ThreadOK(d)'
  BY <1>0, <1>2, <1>4, ThreadKept DEF Inv, env
<1>9. ThreadOK(t)'
  <2>1. LookupOK(t)' /\ FirstOK(t)' /\ ReasonOK(t)' /\ ResultOK(t)'
    BY <1>0, <1>2, <1>4, <1>6 DEF LookupOK, FirstOK, ReasonOK, ResultOK, env
  <2>2. RecordsOK(t)'
    BY <1>2, <1>4 DEF RecordsOK, Outcome
  <2>. QED  BY <2>1, <2>2 DEF ThreadOK
<1>10. StaticOK' /\ \A d \in Thread : AloneOK(d)'
  BY <1>0, <1>2, <1>4, IndexKept DEF env
<1>. QED  BY <1>5, <1>7, <1>8, <1>9, <1>10 DEF Inv

LEMMA ExtractKeeps ==
    ASSUME Inv, NEW t \in Thread, Extract(t)
    PROVE  Inv'
<1>0. /\ pc[t] = "extract"
      /\ UNCHANGED <<index, env, pool, health, cands, inPool, usable, filling, final>>
  BY DEF Extract
<1>1. CASE \E reason : Fail(t, NoKey, reason)
  BY <1>0, <1>1, FailStep
<1>2. CASE Goto(t, "health") /\ UNCHANGED <<first, ext, result, records, attempts>>
  BY <1>0, <1>2, MoveStep DEF Inv, LocalOK
<1>. QED  BY <1>1, <1>2 DEF Extract

LEMMA ReadHealthKeeps ==
    ASSUME Inv, NEW t \in Thread, ReadHealth(t)
    PROVE  Inv'
BY MoveStep DEF ReadHealth, Inv, LocalOK

LEMMA GetConfigKeeps ==
    ASSUME Inv, NEW t \in Thread, GetConfig(t)
    PROVE  Inv'
<1>0. pc[t] = "get" /\ UNCHANGED <<index, env, pool, health, final>>
  BY DEF GetConfig
<1>1. CASE /\ \E reason : Fail(t, ext[t], reason)
           /\ UNCHANGED <<cands, inPool, usable, filling>>
  BY <1>0, <1>1, FailStep
<1>2. CASE \E c \in CandidateLists :
             /\ cands' = [cands EXCEPT ![t] = c]
             /\ inPool' = [inPool EXCEPT ![t] = FALSE]
             /\ usable' = [usable EXCEPT ![t] = {}]
             /\ Goto(t, "next")
             /\ UNCHANGED <<filling, first, ext, result, records, attempts>>
  <2>1. PICK c \in Seq(Address) : cands' = [cands EXCEPT ![t] = c]
    BY <1>2, AddressAssumption
  <2>2. /\ cands' \in [Thread -> Seq(Address)]
        /\ \A d \in Thread \ {t} : cands'[d] = cands[d]
    BY <2>1 DEF Inv, LocalOK
  <2>3. inPool' \in [Thread -> BOOLEAN] /\ usable' \in [Thread -> SUBSET Address]
    BY <1>2 DEF Inv, LocalOK
  <2>. QED  BY <1>0, <1>2, <2>2, <2>3, MoveStep DEF Inv, LocalOK
<1>. QED  BY <1>1, <1>2 DEF GetConfig

LEMMA NextCandidateKeeps ==
    ASSUME Inv, NEW t \in Thread, NextCandidate(t)
    PROVE  Inv'
<1>0. pc[t] = "next" /\ UNCHANGED <<index, env, pool, health, cands, inPool, usable, filling>>
  BY DEF NextCandidate
<1>1. CASE \E reason : Fail(t, ext[t], reason) /\ UNCHANGED final
  BY <1>0, <1>1, FailStep
<1>2. CASE /\ cands[t] # <<>> /\ Goto(t, "check")
           /\ UNCHANGED <<final, first, ext, result, records, attempts>>
  BY <1>0, <1>2, MoveStep DEF Inv, LocalOK
<1>3. CASE \E a \in SelectFromUpstreams(t) :
             /\ final' = [final EXCEPT ![t] = a] /\ Goto(t, "check")
             /\ UNCHANGED <<first, ext, result, records, attempts>>
  <2>0. SelectFromUpstreams(t) \subseteq Address
    BY DEF SelectFromUpstreams, Address, Inv, LocalOK
  <2>1. PICK a \in Address : final' = [final EXCEPT ![t] = a]
    BY <1>3, <2>0
  <2>2. /\ final' \in [Thread -> Address \cup {NoAddress}]
        /\ final'[t] # NoAddress
        /\ \A d \in Thread \ {t} : final'[d] = final[d]
    BY <2>1, AddressAssumption DEF Inv, LocalOK
  <2>. QED  BY <1>0, <1>3, <2>2, MoveStep DEF Inv, LocalOK
<1>. QED  BY <1>1, <1>2, <1>3 DEF NextCandidate

(* The address a thread looks up is one. *)
LEMMA SoughtIsAddress ==
    ASSUME Inv, NEW t \in Thread, pc[t] \in {"check", "make", "fill", "read"}
    PROVE  Sought(t) \in Address
<1>1. CASE final[t] # NoAddress
  BY <1>1 DEF Inv, LocalOK, Sought
<1>2. CASE final[t] = NoAddress
  <2>1. cands[t] \in Seq(Address) /\ cands[t] # <<>>
    BY <1>2 DEF Inv, LocalOK, ThreadOK, LookupOK
  <2>. QED  BY <1>2, <2>1 DEF Sought
<1>. QED  BY <1>1, <1>2

LEMMA FindCandidateKeeps ==
    ASSUME Inv, NEW t \in Thread, FindCandidate(t)
    PROVE  Inv'
<1>0. /\ pc[t] = "read" /\ final[t] = NoAddress
      /\ inPool' = [inPool EXCEPT ![t] = @ \/ poolIndex[Sought(t)] # None]
      /\ usable' = [usable EXCEPT ![t] =
                       IF poolIndex[Sought(t)] \in available THEN @ \cup {Sought(t)} ELSE @]
      /\ cands' = [cands EXCEPT ![t] = Tail(@)]
      /\ Goto(t, "next")
      /\ UNCHANGED <<index, env, pool, ext, health, filling, final, first, result,
                     records, attempts>>
  BY DEF FindCandidate
<1>1. cands[t] \in Seq(Address) /\ cands[t] # <<>> /\ Tail(cands[t]) \in Seq(Address)
  <2>1. cands[t] \in Seq(Address) /\ cands[t] # <<>>
    BY <1>0 DEF Inv, LocalOK, ThreadOK, LookupOK
  <2>. QED  BY <2>1
<1>2. /\ cands' \in [Thread -> Seq(Address)]
      /\ \A d \in Thread \ {t} : cands'[d] = cands[d]
  BY <1>0, <1>1 DEF Inv, LocalOK
<1>3. inPool' \in [Thread -> BOOLEAN]
  BY <1>0 DEF Inv, LocalOK
<1>4. usable' \in [Thread -> SUBSET Address]
  <2>1. Sought(t) \in Address
    BY <1>0, SoughtIsAddress
  <2>. QED  BY <1>0, <2>1 DEF Inv, LocalOK
<1>. QED  BY <1>0, <1>2, <1>3, <1>4, MoveStep DEF Inv, LocalOK

(* What the index holds for the pool of a request, where it can be relied   *)
(* on: a member of that pool.                                               *)
LEMMA EntryInPool ==
    ASSUME Inv, Steady, NEW t \in Thread, pc[t] = "read", NEW a \in Address
    PROVE  poolIndex[a] \in pool[t] \cup {None}
<1>0. t \in config.threads /\ pool[t] \in config.pools /\ pool[t] # {} /\ AloneOK(t)
  BY DEF Inv, ThreadOK, LookupOK
<1>1. CASE PoolIsStatic
  <2>1. PICK p : config.pools \subseteq {p, {}}
    BY <1>1 DEF PoolIsStatic
  <2>2. pool[t] = p
    BY <1>0, <2>1
  <2>. QED  BY <2>1, <2>2 DEF Inv, StaticOK
<1>2. CASE OneThread /\ PoolsTellBySize
  <2>1. config.threads = {t}
    BY <1>0, <1>2 DEF OneThread
  <2>2. PICK p \in config.pools : Cardinality(p) = Cardinality(pool[t]) /\ IndexHolds(p, p)
    BY <1>0, <2>1 DEF AloneOK
  <2>3. p = pool[t]
    BY <1>0, <1>2, <2>2 DEF PoolsTellBySize
  <2>. QED  BY <2>2, <2>3 DEF IndexHolds
<1>. QED  BY <1>1, <1>2 DEF Steady

LEMMA FindChosenKeeps ==
    ASSUME Inv, NEW t \in Thread, FindChosen(t)
    PROVE  Inv'
<1>. DEFINE u == poolIndex[Sought(t)]
<1>0. /\ pc[t] = "read"
      /\ final' = [final EXCEPT ![t] = NoAddress]
      /\ UNCHANGED <<index, env, pool, health, cands, inPool, usable, filling>>
  BY DEF FindChosen
<1>1. CASE Fail(t, ext[t], "not_in_pool")
  BY <1>0, <1>1, FailStep
<1>2. CASE /\ u # None /\ Hit(t, ext[t], u)
           /\ attempts' = [attempts EXCEPT ![t] = @ \cup {<<ext[t], "hit">>}]
           /\ UNCHANGED <<first, ext>>
  <2>0. /\ ThreadOK(t) /\ records[t] = <<>> /\ pool[t] # {}
        /\ t \in config.threads /\ pool[t] \in config.pools
    BY <1>0 DEF Inv, ThreadOK, RecordsOK, LookupOK
  <2>1. u \in Upstream \cup {None} /\ (Steady => u \in pool[t] \cup {None})
    BY <1>0, SoughtIsAddress, EntryInPool DEF Inv, TypeOK
  <2>. DEFINE fb == <<"instance_fallback", first[t].key, first[t].reason>>
              hit == <<"hit", ext[t], "hit">>
  <2>2. /\ result' = [result EXCEPT ![t] = u] /\ pc' = [pc EXCEPT ![t] = "idle"]
        /\ records' = [records EXCEPT ![t] =
              @ \o (IF ext[t] = "version" THEN <<fb>> ELSE <<>>) \o <<hit>>]
    BY <1>2 DEF Hit, Goto
  <2>. HIDE DEF u
  <2>3. /\ result' \in [Thread -> Upstream \cup {None}] /\ result'[t] = u
        /\ pc' \in [Thread -> Label] /\ pc'[t] = "idle"
        /\ \A d \in Thread \ {t} : pc'[d] = pc[d] /\ result'[d] = result[d]
    BY <2>1, <2>2 DEF Inv, LocalOK, Label
  <2>4. /\ records' = [d \in Thread |-> records'[d]]
        /\ \A d \in Thread \ {t} : records'[d] = records[d]
        /\ records'[t] = (<<>> \o (IF ext[t] = "version" THEN <<fb>> ELSE <<>>)) \o <<hit>>
    BY <2>0, <2>2 DEF Inv, LocalOK
  <2>5. /\ ext[t] = "version" => records'[t] = <<fb, hit>>
        /\ ext[t] # "version" => records'[t] = <<hit>>
    <3>. HIDE DEF fb, hit
    <3>. QED  BY <2>4, FirstRecord
  <2>6. /\ attempts' = [d \in Thread |-> attempts'[d]]
        /\ attempts'[t] = attempts[t] \cup {<<ext[t], "hit">>}
        /\ \A d \in Thread \ {t} : attempts'[d] = attempts[d]
    BY <1>2 DEF Inv, LocalOK
  <2>7. /\ final' \in [Thread -> Address \cup {NoAddress}]
        /\ \A d \in Thread \ {t} : final'[d] = final[d]
    BY <1>0 DEF Inv, LocalOK
  <2>8. LocalOK'
    BY <1>0, <1>2, <2>3, <2>4, <2>6, <2>7 DEF Inv, LocalOK
  <2>9. TypeOK'
    BY <1>0, <2>8 DEF Inv, TypeOK, LocalOK, Label, Extractor, index, env
  <2>10. ASSUME NEW d \in Thread \ {t} PROVE ThreadOK(d)'
    BY <1>0, <1>2, <2>3, <2>4, <2>6, <2>7, ThreadKept DEF Inv, env
  <2>11. RecordsOK(t)'
    BY <1>0, <2>0, <2>3, <2>5 DEF RecordsOK, Outcome
  <2>12. ReasonOK(t)'
    <3>1. CASE ext[t] = "version"
      <4>1. <<first[t].key, first[t].reason>> \in attempts'[t]
        BY <1>0, <2>0, <2>6, <3>1 DEF ThreadOK, FirstOK
      <4>2. \A i \in DOMAIN records'[t] : records'[t][i] = fb \/ records'[t][i] = hit
        BY <2>5, <3>1
      <4>. QED  BY <2>6, <4>1, <4>2 DEF ReasonOK
    <3>2. CASE ext[t] # "version"
      <4>1. \A i \in DOMAIN records'[t] : records'[t][i] = hit
        BY <2>5, <3>2
      <4>. QED  BY <2>6, <4>1 DEF ReasonOK
    <3>. QED  BY <3>1, <3>2
  <2>13. LookupOK(t)' /\ FirstOK(t)' /\ ResultOK(t)'
    BY <1>0, <2>0, <2>1, <2>3
       DEF ThreadOK, LookupOK, FirstOK, ResultOK, Steady, PoolIsStatic, OneThread,
           PoolsTellBySize, env
  <2>14. StaticOK' /\ \A d \in Thread : AloneOK(d)'
    BY <1>0, <2>3, IndexKept DEF env
  <2>. QED  BY <2>8, <2>9, <2>10, <2>11, <2>12, <2>13, <2>14 DEF Inv, ThreadOK
<1>. QED  BY <1>1, <1>2 DEF FindChosen

(* A step of a lookup: it touches nothing of the threads but the label of   *)
(* one and what it has yet to put into the index.                           *)
LEMMA LookupStep ==
    ASSUME Inv, NEW t \in Thread, NEW label \in {"make", "fill", "read"},
           pc[t] \in {"check", "make", "fill"}, Goto(t, label),
           filling' \in [Thread -> SUBSET Upstream], filling'[t] \subseteq pool[t],
           \A d \in Thread \ {t} : filling'[d] = filling[d],
           label # "fill" => filling'[t] = {},
           UNCHANGED <<env, pool, ext, cands, inPool, usable, final, first, result,
                       records, attempts>>
    PROVE  /\ LocalOK' /\ \A d \in Thread : ThreadOK(d)'
           /\ \A d \in Thread : filling'[d] \subseteq pool'[d]
           /\ pc'[t] = label
           /\ \A d \in Thread : config.threads = {d} => d = t
           /\ pool[t] \in config.pools /\ pool[t] # {}
<1>1. /\ pc' \in [Thread -> Label] /\ pc'[t] = label
      /\ \A d \in Thread \ {t} : pc'[d] = pc[d]
  BY DEF Goto, Inv, LocalOK, Label
<1>2. LocalOK'
  BY <1>1 DEF Inv, LocalOK
<1>3. ASSUME NEW d \in Thread \ {t} PROVE ThreadOK(d)'
  BY <1>1, ThreadKept DEF Inv, env
<1>4. ThreadOK(t)
  BY DEF Inv
<1>5. ThreadOK(t)'
  BY <1>1, <1>4 DEF ThreadOK, LookupOK, RecordsOK, FirstOK, ReasonOK, ResultOK, env
<1>6. t \in config.threads /\ pool[t] \in config.pools /\ pool[t] # {}
  BY <1>4 DEF ThreadOK, LookupOK
<1>7. \A d \in Thread \ {t} : filling'[d] \subseteq pool'[d]
  BY DEF Inv, TypeOK
<1>. QED  BY <1>1, <1>2, <1>3, <1>5, <1>6, <1>7

LEMMA FindCheckKeeps ==
    ASSUME Inv, NEW t \in Thread, FindCheck(t)
    PROVE  Inv'
<1>0. /\ pc[t] = "check" /\ filling[t] = {} /\ filling[t] \subseteq pool[t]
      /\ UNCHANGED <<index, env, local, result, records, attempts>>
  BY DEF FindCheck, Inv, ThreadOK, LookupOK
<1>1. PICK label \in {"make", "read"} :
         /\ Goto(t, label)
         /\ label = "read" => indexed /\ Cardinality(pool[t]) = lastPoolSize
  BY DEF FindCheck
<1>2. /\ LocalOK' /\ \A d \in Thread : ThreadOK(d)'
      /\ \A d \in Thread : filling'[d] \subseteq pool'[d]
      /\ pc'[t] = label
      /\ \A d \in Thread : config.threads = {d} => d = t
  BY <1>0, <1>1, LookupStep DEF local, Inv, LocalOK
<1>3. TypeOK'
  BY <1>0, <1>2 DEF Inv, TypeOK, LocalOK, Label, Extractor, index, env
<1>4. StaticOK'
  BY <1>0 DEF Inv, StaticOK, index, env
<1>5. AloneOK(t)'
  <2>1. \A p, q : IndexHolds(p, q)' <=> IndexHolds(p, q)
    BY <1>0 DEF IndexHolds, index
  <2>. QED  BY <1>0, <1>1, <1>2, <2>1 DEF Inv, AloneOK, index, env, local
<1>6. ASSUME NEW d \in Thread, d # t PROVE AloneOK(d)'
  BY <1>0, <1>2, <1>6 DEF AloneOK, env
<1>. QED  BY <1>2, <1>3, <1>4, <1>5, <1>6 DEF Inv

LEMMA FindMakeKeeps ==
    ASSUME Inv, NEW t \in Thread, FindMake(t)
    PROVE  Inv'
<1>0. /\ pc[t] = "make" /\ Goto(t, "fill")
      /\ poolIndex' = [a \in Address |-> None] /\ indexed' = TRUE
      /\ filling' = [filling EXCEPT ![t] = pool[t]]
      /\ UNCHANGED <<lastPoolSize, env, pool, ext, cands, inPool, usable,
                     final, first, result, records, attempts>>
  BY DEF FindMake
<1>1. /\ filling' \in [Thread -> SUBSET Upstream] /\ filling'[t] = pool[t]
      /\ \A d \in Thread \ {t} : filling'[d] = filling[d]
  BY <1>0 DEF Inv, LocalOK
<1>2. /\ LocalOK' /\ \A d \in Thread : ThreadOK(d)'
      /\ \A d \in Thread : filling'[d] \subseteq pool'[d]
      /\ pc'[t] = "fill"
      /\ \A d \in Thread : config.threads = {d} => d = t
  BY <1>0, <1>1, LookupStep
<1>3. TypeOK'
  BY <1>0, <1>2 DEF Inv, TypeOK, LocalOK, Label, Extractor, env
<1>4. StaticOK'
  BY <1>0 DEF StaticOK
<1>5. AloneOK(t)'
  BY <1>0, <1>1, <1>2 DEF AloneOK, IndexHolds
<1>6. ASSUME NEW d \in Thread, d # t PROVE AloneOK(d)'
  BY <1>0, <1>2, <1>6 DEF AloneOK, env
<1>. QED  BY <1>2, <1>3, <1>4, <1>5, <1>6 DEF Inv

LEMMA FindFillKeeps ==
    ASSUME Inv, NEW t \in Thread, FindFill(t)
    PROVE  Inv'
<1>0. /\ pc[t] = "fill" /\ filling[t] \subseteq pool[t] /\ pool[t] \subseteq Upstream
      /\ UNCHANGED <<indexed, env, pool, ext, cands, inPool, usable, final,
                     first, result, records, attempts>>
  BY DEF FindFill, Inv, TypeOK
<1>1. ASSUME NEW u \in filling[t],
             poolIndex' = [poolIndex EXCEPT ![Dial[u]] = u],
             filling' = [filling EXCEPT ![t] = @ \ {u}],
             UNCHANGED <<lastPoolSize, pc>>
      PROVE  Inv'
  <2>1. /\ filling' \in [Thread -> SUBSET Upstream] /\ filling'[t] = filling[t] \ {u}
        /\ \A d \in Thread \ {t} : filling'[d] = filling[d]
    BY <1>1 DEF Inv, LocalOK
  <2>2. Goto(t, "fill")
    BY <1>0, <1>1 DEF Goto, Inv, LocalOK
  <2>3. /\ LocalOK' /\ \A d \in Thread : ThreadOK(d)'
        /\ \A d \in Thread : filling'[d] \subseteq pool'[d]
        /\ pc'[t] = "fill"
        /\ \A d \in Thread : config.threads = {d} => d = t
        /\ pool[t] \in config.pools /\ pool[t] # {}
    BY <1>0, <2>1, <2>2, LookupStep
  <2>4. /\ u \in pool[t] /\ u \in Upstream /\ Dial[u] \in Address /\ u # None
        /\ poolIndex \in [Address -> Upstream \cup {None}]
    BY <1>0, <1>1, SelectionAssumption DEF Address, Inv, TypeOK
  <2>5. /\ poolIndex' \in [Address -> Upstream \cup {None}]
        /\ poolIndex'[Dial[u]] = u
        /\ \A a \in Address : a # Dial[u] => poolIndex'[a] = poolIndex[a]
    BY <1>1, <2>4
  <2>6. TypeOK'
    BY <1>0, <1>1, <2>3, <2>5 DEF Inv, TypeOK, LocalOK, Label, Extractor, env
  <2>7. StaticOK'
    BY <1>0, <2>3, <2>4, <2>5 DEF Inv, StaticOK, env
  <2>8. AloneOK(t)'
    <3>1. \A v \in pool[t] : Dial[v] \in Address
      BY <1>0 DEF Address
    <3>2. config.threads = {t} => indexed /\ IndexHolds(pool[t], pool[t] \ filling[t])
      BY <1>0 DEF Inv, AloneOK
    <3>3. config.threads = {t} => IndexHolds(pool[t], pool[t] \ filling[t])'
      BY <1>0, <2>1, <2>4, <2>5, <3>1, <3>2 DEF IndexHolds
    <3>. QED  BY <1>0, <2>3, <3>2, <3>3 DEF AloneOK, env
  <2>9. ASSUME NEW d \in Thread, d # t PROVE AloneOK(d)'
    BY <1>0, <2>3, <2>9 DEF AloneOK, env
  <2>. QED  BY <2>3, <2>6, <2>7, <2>8, <2>9 DEF Inv
<1>2. CASE /\ filling[t] = {} /\ lastPoolSize' = Cardinality(pool[t])
           /\ Goto(t, "read") /\ UNCHANGED <<poolIndex, filling>>
  <2>1. /\ LocalOK' /\ \A d \in Thread : ThreadOK(d)'
        /\ \A d \in Thread : filling'[d] \subseteq pool'[d]
        /\ pc'[t] = "read"
        /\ \A d \in Thread : config.threads = {d} => d = t
        /\ pool[t] \in config.pools
    BY <1>0, <1>2, LookupStep DEF Inv, LocalOK
  <2>2. lastPoolSize' \in 0..Cardinality(Upstream)
    <3>1. /\ Cardinality(pool[t]) \in Nat /\ Cardinality(Upstream) \in Nat
          /\ Cardinality(pool[t]) <= Cardinality(Upstream)
      BY <1>0, SelectionAssumption, FS_Subset, FS_CardinalityType
    <3>. QED  BY <1>2, <3>1
  <2>3. TypeOK'
    BY <1>0, <1>2, <2>1, <2>2 DEF Inv, TypeOK, LocalOK, Label, Extractor, env
  <2>4. StaticOK'
    BY <1>0, <1>2 DEF Inv, StaticOK, env
  <2>5. AloneOK(t)'
    <3>1. config.threads = {t} => IndexHolds(pool[t], pool[t])
      <4>1. pool[t] \ filling[t] = pool[t]
        BY <1>2
      <4>. QED  BY <1>0, <4>1 DEF Inv, AloneOK
    <3>2. config.threads = {t} => \A p : p = pool[t] => IndexHolds(p, p)'
      BY <1>0, <1>2, <3>1 DEF IndexHolds
    <3>3. config.threads = {t} => indexed
      BY <1>0 DEF Inv, AloneOK
    <3>4. config.threads = {t} =>
             \E p \in config.pools : Cardinality(p) = lastPoolSize' /\ IndexHolds(p, p)'
      BY <1>2, <2>1, <3>2
    <3>5. /\ config' = config /\ pc'[t] = "read"
          /\ config.threads = {t} => indexed' /\ Cardinality(pool'[t]) = lastPoolSize'
      BY <1>0, <1>2, <2>1, <3>3 DEF env
    <3>. QED  BY <3>4, <3>5 DEF AloneOK
  <2>6. ASSUME NEW d \in Thread, d # t PROVE AloneOK(d)'
    BY <1>0, <2>1, <2>6 DEF AloneOK, env
  <2>. QED  BY <2>1, <2>3, <2>4, <2>5, <2>6 DEF Inv
<1>. QED  BY <1>1, <1>2 DEF FindFill

LEMMA InvStep == Inv /\ [Next]_vars => Inv'
<1>. SUFFICES ASSUME Inv, [Next]_vars PROVE Inv'
  OBVIOUS
<1>1. ASSUME NEW t \in Thread, Step(t) PROVE Inv'
  BY <1>1, ExtractKeeps, ReadHealthKeeps, GetConfigKeeps, NextCandidateKeeps,
     FindCheckKeeps, FindMakeKeeps, FindFillKeeps, FindCandidateKeeps, FindChosenKeeps
     DEF Step
<1>2. CASE Environment \/ UNCHANGED vars
  <2>1. /\ available' \subseteq Upstream /\ healthy' \in BOOLEAN
        /\ UNCHANGED <<config, index, pc, local, result, records, attempts>>
    BY <1>2 DEF Environment, vars, index, local, Inv, TypeOK
  <2>2. TypeOK' /\ LocalOK'
    BY <2>1 DEF Inv, TypeOK, LocalOK, index, local
  <2>3. ASSUME NEW t \in Thread PROVE ThreadOK(t)'
    BY <2>1, ThreadKept DEF Inv, local
  <2>4. StaticOK' /\ \A t \in Thread : AloneOK(t)'
    BY <2>1, IndexKept DEF local
  <2>. QED  BY <2>2, <2>3, <2>4 DEF Inv
<1>. QED  BY <1>1, <1>2, SelectKeeps DEF Next

THEOREM InvHolds == Spec => []Inv
BY InvInit, InvStep, PTL DEF Spec

-----------------------------------------------------------------------------
(* What the invariant says.                                                 *)

(* The policy's index and its requests hold values of their types, although *)
(* requests replace the index under each other's eyes.                      *)
THEOREM TypeCorrect == Spec => []TypeOK
<1>1. Inv => TypeOK
  BY DEF Inv
<1>. QED  BY <1>1, InvHolds, PTL

(* Whatever way a Select of a non-empty pool returns, through one attempt   *)
(* or two, it is counted as one hit or one miss.                            *)
THEOREM RecordedOnce == Spec => []OneRecordPerSelect
<1>1. ASSUME NEW r, Outcome(r)
      PROVE  Cardinality({i \in DOMAIN r : r[i][1] \in {"hit", "miss"}}) = 1
  <2>1. CASE \E k, x : r = << <<"hit", k, x>> >> \/ r = << <<"miss", k, x>> >>
    <3>1. {i \in DOMAIN r : r[i][1] \in {"hit", "miss"}} = {1}
      BY <2>1
    <3>. QED  BY <3>1, FS_Singleton
  <2>2. CASE \E k, x, k2, x2 : r = << <<"instance_fallback", k, x>>, <<"hit", k2, x2>> >>
    <3>1. {i \in DOMAIN r : r[i][1] \in {"hit", "miss"}} = {2}
      BY <2>2
    <3>. QED  BY <3>1, FS_Singleton
  <2>. QED  BY <1>1, <2>1, <2>2 DEF Outcome
<1>2. ASSUME NEW r, r = <<>>
      PROVE  Cardinality({i \in DOMAIN r : r[i][1] \in {"hit", "miss"}}) = 0
  <2>1. {i \in DOMAIN r : r[i][1] \in {"hit", "miss"}} = {}
    BY <1>2
  <2>. QED  BY <2>1, FS_EmptySet
<1>3. Inv => OneRecordPerSelect
  BY <1>1, <1>2 DEF Inv, ThreadOK, RecordsOK, OneRecordPerSelect
<1>. QED  BY <1>3, InvHolds, PTL

(* The statistics never attribute the reason of one attempt to the key of   *)
(* the other.                                                               *)
THEOREM ReasonsCorrect == Spec => []ReasonBelongsToKey
<1>1. Inv => ReasonBelongsToKey
  BY DEF Inv, ThreadOK, ReasonOK, ReasonBelongsToKey
<1>. QED  BY <1>1, InvHolds, PTL

(* Select returns a member of the pool it was given if the pool is static,  *)
(* however many requests overlap, or if requests come one at a time and no  *)
(* two pools have the same size.  Without the condition it does not: the    *)
(* index is rebuilt only when the size of the pool changes.                 *)
THEOREM ResultsInPool == Spec => [](Steady => ResultInPool)
<1>1. Inv => (Steady => ResultInPool)
  BY DEF Inv, ThreadOK, ResultOK, ResultInPool
<1>. QED  BY <1>1, InvHolds, PTL

(* The members of a pool have different addresses. *)
DistinctAddresses ==
    \A p \in config.pools : \A u, v \in p : Dial[u] = Dial[v] => u = v

(* A request that has the index to itself finds every member of its pool    *)
(* under its address, however the pool grew or shrank before.               *)
THEOREM MembersFound == Spec => [](PoolsTellBySize /\ DistinctAddresses => FindsMembers)
<1>1. Inv => (PoolsTellBySize /\ DistinctAddresses => FindsMembers)
  <2>. SUFFICES ASSUME Inv, PoolsTellBySize, DistinctAddresses,
                       NEW t \in Thread, config.threads = {t}, pc[t] = "read",
                       NEW u \in pool[t], Dial[u] = Sought(t)
                PROVE  poolIndex[Sought(t)] = u
    BY DEF FindsMembers
  <2>1. pool[t] \in config.pools /\ AloneOK(t)
    BY DEF Inv, ThreadOK, LookupOK
  <2>2. PICK p \in config.pools : Cardinality(p) = Cardinality(pool[t]) /\ IndexHolds(p, p)
    BY <2>1 DEF AloneOK
  <2>3. p = pool[t]
    BY <2>1, <2>2 DEF PoolsTellBySize
  <2>4. Sought(t) \in Address
    BY SoughtIsAddress
  <2>5. poolIndex[Sought(t)] \in pool[t] /\ Dial[poolIndex[Sought(t)]] = Dial[u]
    BY <2>2, <2>3, <2>4 DEF IndexHolds
  <2>. QED  BY <2>1, <2>5 DEF DistinctAddresses
<1>. QED  BY <1>1, InvHolds, PTL
=============================================================================

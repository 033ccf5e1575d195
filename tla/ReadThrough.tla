---------------------------- MODULE ReadThrough -----------------------------
(***************************************************************************)
(* What the data sources other than etcd have in common: requests read     *)
(* routes through a cache and fetch a missing one under singleflight,      *)
(* while a background goroutine brings the cache up to date (a file source *)
(* has everything in memory and fetches nothing).  The modules of the      *)
(* sources say how each of them loads, fetches, follows its store and      *)
(* shuts down; module Sources composes them.                               *)
(*                                                                         *)
(* A method of the cache is one step (module RouteCache splits it).  A     *)
(* read of the store and what is done with the answer are two steps;       *)
(* anything may happen in between.  A nil configuration in the cache       *)
(* cannot be told from a missing one by a reader and is None here.  The    *)
(* last error, kept for diagnosis only, is left out.                       *)
(***************************************************************************)
EXTENDS Store, Sequences

CONSTANTS
    Reader,     \* goroutines calling Get
    NoReader,   \* no fetch is in flight
    Initial,    \* the routes a store may hold at first
    MaxEvents   \* bound: changes and failures of the store, and clearings
                \* of the cache, together

ASSUME ReaderAssumption == NoReader \notin Reader
ASSUME InitialAssumption == Initial \subseteq Config
ASSUME MaxEventsNat == MaxEvents \in Nat

VARIABLES
    changedAt,  \* per key: the version of its last change (updated_at)
    kind,       \* which source this is, and in which mode
    phase,      \* its life: "new", "loaded", "up", "closing", "closed"
    healthy,
    pc, key,    \* per reader: next step of its Get, the key asked for
    resp,       \* per reader: the answer to its fetch
    call,       \* singleflight: the reader fetching a key, if any
    wpc,        \* where the background goroutine is
    queue,      \* notifications on their way to it
    snap,       \* what it has read from the store last
    todo,       \* keys it still has to deal with
    got,        \* keys it has found, or the key in hand
    cursor,     \* the index or time it has caught up with
    faults,     \* failures and clearings so far (bounds the behaviours)
    asof,       \* history: the newest version applied to a key
    regressed,  \* history: keys last given an older answer, or none, for good
    missedAt,   \* history: the version of a change nobody reported
    cutOff      \* history: this refresh did not see all rows

storeVars   == <<store, writes>>
readerVars  == <<pc, key, resp, call>>
workVars    == <<queue, snap, todo, got, cursor>>
historyVars == <<asof, regressed, missedAt, cutOff>>
vars == <<val, hidden, store, writes, changedAt, kind, phase, healthy,
          pc, key, resp, call, wpc, queue, snap, todo, got, cursor, faults,
          asof, regressed, missedAt, cutOff>>

-----------------------------------------------------------------------------
(* The store, its versions and its failures.                               *)

Snapshot == [content |-> store, version |-> writes, stamp |-> changedAt]

NoSnapshot == [content |-> [k \in Key |-> Absent], version |-> 0,
               stamp |-> [k \in Key |-> 0]]

NoAnswer == [content |-> Absent, version |-> 0]

StoreInit == /\ store \in [Key -> {Absent} \cup Initial]
             /\ writes = 0

(* A change of the store is its next version.  Only changes that can matter *)
(* to the source are considered.                                            *)
Write(k, x) == /\ writes + faults < MaxEvents
               /\ phase \in {"loaded", "up"}
               /\ Overwrite(k, x)
               /\ changedAt' = [changedAt EXCEPT ![k] = writes + 1]

(* The largest of the versions S, or t if that is larger. *)
Latest(S, t) == CHOOSE v \in S \cup {t} : \A w \in S \cup {t} : w <= v

Fault == writes + faults < MaxEvents /\ faults' = faults + 1

(* A failure counts as a fault while the source is up; afterwards its       *)
(* contexts are cancelled and its client is closed.                         *)
Failing == IF phase = "up" THEN Fault
                           ELSE UNCHANGED faults

-----------------------------------------------------------------------------
(* The cache, with the version of what is put into it.                     *)

(* The goroutine applies to k what version v said.  It may fall behind an   *)
(* answer that a request has cached, but is expected to catch up.           *)
Applied(k, v) ==
    /\ asof' = [asof EXCEPT ![k] = IF v > @ THEN v ELSE @]
    /\ regressed' = IF v < asof[k] THEN regressed ELSE regressed \ {k}

(* Somebody applies to k what version v said, and will not look again. *)
AppliedOnce(k, v) ==
    /\ asof' = [asof EXCEPT ![k] = IF v > @ THEN v ELSE @]
    /\ regressed' = IF v < asof[k] THEN regressed \cup {k} ELSE regressed \ {k}

(* cache.Set of a configuration. *)
Assign(k, c) == /\ val' \in Added(k, c)
                /\ hidden' = [hidden EXCEPT ![k] = FALSE]

(* cache.Delete, and cache.Set of a nil configuration. *)
Drop(k) == /\ val' = [val EXCEPT ![k] = None]
           /\ hidden' = [hidden EXCEPT ![k] = FALSE]

Set(k, c, v) == Assign(k, c) /\ Applied(k, v)

Unset(k, v) == Drop(k) /\ Applied(k, v)

Keep == UNCHANGED <<cacheVars, asof, regressed>>

(* The initial load of the keys S into the empty cache. *)
Load(S) == LET good == {k \in S : store[k] \in Config} IN
    /\ \E T \in SUBSET good :
          /\ T = good \/ (T # good /\ Cardinality(T) = MaxSize)
          /\ Cardinality(T) <= MaxSize
          /\ val' = [k \in Key |-> IF k \in T THEN store[k] ELSE None]
    /\ asof' = [k \in Key |-> writes]
    /\ UNCHANGED <<hidden, regressed>>

-----------------------------------------------------------------------------
(* Get.  Each source composes its Get from these steps.                    *)

(* What the steps of a Get leave alone, and those of the goroutine. *)
ReaderFrame == UNCHANGED <<storeVars, changedAt, kind, phase, wpc, workVars,
                           missedAt, cutOff>>
WorkFrame   == UNCHANGED <<storeVars, changedAt, kind, phase, readerVars>>

Leading == {"recheck", "fetch", "fill"}

(* Try the cache; a hit is the answer.  Gets in progress outlive Cleanup,   *)
(* but none begins after it.                                                *)
GetCache(r, k) ==
    /\ phase = "up" /\ pc[r] = "idle"
    /\ key' = [key EXCEPT ![r] = k]
    /\ pc' = [pc EXCEPT ![r] = IF Lookup(k) # None THEN "idle" ELSE "negative"]
    /\ ReaderFrame /\ Keep /\ UNCHANGED <<healthy, resp, call, faults>>

(* Check the negative cache; an entry means nil. *)
GetNegative(r) ==
    /\ pc[r] = "negative"
    /\ pc' = [pc EXCEPT ![r] = IF hidden[key[r]] THEN "idle" ELSE "gate"]
    /\ ReaderFrame /\ Keep /\ UNCHANGED <<healthy, key, resp, call, faults>>

(* If unhealthy, don't try to fetch. *)
GetGate(r) ==
    /\ pc[r] = "gate"
    /\ pc' = [pc EXCEPT ![r] = IF healthy THEN "do" ELSE "idle"]
    /\ ReaderFrame /\ Keep /\ UNCHANGED <<healthy, key, resp, call, faults>>

(* singleflight.Do: lead the fetch of the key, or wait for who does. *)
GetDo(r) ==
    /\ pc[r] = "do"
    /\ IF call[key[r]] = NoReader
       THEN /\ call' = [call EXCEPT ![key[r]] = r]
            /\ pc' = [pc EXCEPT ![r] = "recheck"]
       ELSE /\ pc' = [pc EXCEPT ![r] = "wait"]
            /\ UNCHANGED call
    /\ ReaderFrame /\ Keep /\ UNCHANGED <<healthy, key, resp, faults>>

(* The fetch that r leads is over, for its followers too. *)
Finish(r) ==
    /\ pc' = [s \in Reader |->
                 IF s = r \/ (pc[s] = "wait" /\ key[s] = key[r]) THEN "idle"
                                                                 ELSE pc[s]]
    /\ call' = [call EXCEPT ![key[r]] = NoReader]
    /\ resp' = [resp EXCEPT ![r] = NoAnswer]
    /\ UNCHANGED key

(* The leader looks at the cache again. *)
GetRecheck(r) ==
    /\ pc[r] = "recheck"
    /\ IF Lookup(key[r]) # None
       THEN Finish(r)
       ELSE /\ pc' = [pc EXCEPT ![r] = "fetch"]
            /\ UNCHANGED <<key, resp, call>>
    /\ ReaderFrame /\ Keep /\ UNCHANGED <<healthy, faults>>

(* The store answers the leader's read. *)
GetFetch(r) ==
    /\ pc[r] = "fetch"
    /\ resp' = [resp EXCEPT ![r] = [content |-> store[key[r]],
                                    version |-> writes]]
    /\ pc' = [pc EXCEPT ![r] = "fill"]
    /\ ReaderFrame /\ Keep /\ UNCHANGED <<healthy, key, call, faults>>

(* The read fails (timeout, cancelled request, closed client), which some   *)
(* sources take as a sign of bad health.                                    *)
GetFails(r, health) ==
    /\ pc[r] = "fetch"
    /\ Failing
    /\ healthy' = health
    /\ Finish(r)
    /\ ReaderFrame /\ Keep

(* The leader deals with the answer: a missing key (and any text in         *)
(* asMissing) becomes a negative entry, a configuration is cached, a text   *)
(* in asNil is cached as nil, any other text leaves the cache alone.        *)
GetFill(r, asMissing, asNil) ==
    LET k == key[r]  x == resp[r].content  v == resp[r].version IN
    /\ pc[r] = "fill"
    /\ \/ /\ x \in {Absent} \cup asMissing
          /\ Hide(k)
          /\ UNCHANGED <<asof, regressed>>
       \/ /\ x \in Config
          /\ Assign(k, ParseRouteConfig(x).config) /\ AppliedOnce(k, v)
       \/ x \in asNil /\ Drop(k) /\ AppliedOnce(k, v)
       \/ x \in {Blank, Bad} \ (asMissing \cup asNil) /\ Keep
    /\ Finish(r)
    /\ ReaderFrame /\ UNCHANGED <<healthy, faults>>

(* The steps of a Get up to the fetch. *)
GetSteps(r) == GetNegative(r) \/ GetGate(r) \/ GetDo(r) \/ GetRecheck(r)

-----------------------------------------------------------------------------
(* A refresh from an answer that lists the whole store: every key of the   *)
(* answer is parsed and cached, then the cached keys it does not have are  *)
(* deleted.                                                                *)

(* Begin to work through the keys S of the answer a. *)
BeginSweep(a, S) ==
    /\ snap' = a
    /\ todo' = S
    /\ got' = {}
    /\ cutOff' = FALSE
    /\ wpc' = "apply"

(* Parse and cache one key; the texts in asSeen count as found, the text    *)
(* of a configuration always does, and those in asNil are cached as nil.    *)
SweepApply(k, asSeen, asNil) ==
    LET x == snap.content[k] IN
    /\ wpc = "apply" /\ k \in todo
    /\ todo' = todo \ {k}
    /\ got' = IF x \in Config \cup asSeen THEN got \cup {k} ELSE got
    /\ \/ x \in Config /\ Set(k, ParseRouteConfig(x).config, snap.version)
       \/ x \in asNil /\ Unset(k, snap.version)
       \/ x \notin Config \cup asNil /\ Keep
    /\ WorkFrame
    /\ UNCHANGED <<healthy, wpc, queue, snap, cursor, faults, missedAt, cutOff>>

(* Broken: the sweep also takes what was found. *)
SweepBegin_All ==
    /\ wpc = "apply" /\ todo = {}
    /\ wpc' = "sweep"
    /\ todo' = Cached
    /\ asof' = [k \in Key |-> IF k \notin got /\ snap.version > asof[k]
                              THEN snap.version ELSE asof[k]]
    /\ WorkFrame
    /\ UNCHANGED <<cacheVars, healthy, queue, snap, got, cursor, faults,
                   regressed, missedAt, cutOff>>

(* All keys are done: take the keys of the cache to delete the others. *)
SweepBegin ==
    /\ wpc = "apply" /\ todo = {}
    /\ wpc' = "sweep"
    /\ todo' = Cached \ got
    /\ asof' = [k \in Key |-> IF k \notin got /\ snap.version > asof[k]
                              THEN snap.version ELSE asof[k]]
    /\ WorkFrame
    /\ UNCHANGED <<cacheVars, healthy, queue, snap, got, cursor, faults,
                   regressed, missedAt, cutOff>>

SweepDelete(k) ==
    /\ wpc = "sweep" /\ k \in todo
    /\ todo' = todo \ {k}
    /\ Unset(k, snap.version)
    /\ WorkFrame
    /\ UNCHANGED <<healthy, wpc, queue, snap, got, cursor, faults, missedAt,
                   cutOff>>

(* The refresh is over; the goroutine goes on at the given label. *)
SweepEnd(label) ==
    /\ wpc = "sweep" /\ todo = {}
    /\ wpc' = label
    /\ snap' = NoSnapshot /\ got' = {} /\ cutOff' = FALSE
    /\ Keep /\ WorkFrame
    /\ UNCHANGED <<queue, todo, cursor, faults, missedAt>>

-----------------------------------------------------------------------------
(* The rest of a source's life.                                            *)

(* The goroutine goes from one label to another and changes nothing else. *)
WorkGoto(from, to) ==
    /\ wpc = from
    /\ wpc' = to
    /\ Keep /\ WorkFrame
    /\ UNCHANGED <<healthy, workVars, faults, missedAt, cutOff>>

(* Cleanup cancels the goroutine and waits for it. *)
CleanupBegins ==
    /\ phase = "up"
    /\ phase' = "closing"
    /\ Keep
    /\ UNCHANGED <<storeVars, changedAt, kind, healthy, readerVars, wpc,
                   workVars, faults, missedAt, cutOff>>

CleanupEnds ==
    /\ phase = "closing" /\ wpc \in {"off", "done"}
    /\ phase' = "closed"
    /\ Keep
    /\ UNCHANGED <<storeVars, changedAt, kind, healthy, readerVars, wpc,
                   workVars, faults, missedAt, cutOff>>

(* AdminClearCache drops the entries of both caches. *)
AdminClearCache ==
    /\ phase = "up" /\ Fault
    /\ val' = [k \in Key |-> None]
    /\ hidden' = [k \in Key |-> FALSE]
    /\ UNCHANGED <<storeVars, changedAt, kind, phase, healthy, readerVars, wpc,
                   workVars, historyVars>>

(* A negative entry reaches its TTL. *)
Expire(k) ==
    /\ hidden[k]
    /\ Reveal(k)
    /\ UNCHANGED <<storeVars, changedAt, kind, phase, healthy, readerVars, wpc,
                   workVars, faults, historyVars>>

(* A change of the store that nobody is told about. *)
SilentWrite(k, x) ==
    /\ Write(k, x)
    /\ UNCHANGED <<cacheVars, kind, phase, healthy, readerVars, wpc, workVars,
                   faults, historyVars>>
=============================================================================

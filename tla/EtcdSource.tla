----------------------------- MODULE EtcdSource -----------------------------
(***************************************************************************)
(* datasource/etcd/etcd.go: requests read routes through the cache and,    *)
(* when it misses, fetch them from etcd, one fetch per key at a time       *)
(* (singleflight); a watcher goroutine applies etcd's change events to the *)
(* same cache and reports the health of the connection.                    *)
(*                                                                         *)
(* A method of the cache is one step here (module RouteCache splits it).   *)
(* A fetch is two: etcd answers, and later the answer is cached; anything  *)
(* may happen in between.                                                  *)
(***************************************************************************)
EXTENDS Backend, Sequences

CONSTANTS
    Reader,     \* goroutines calling Get
    NoReader,   \* no fetch is in flight
    MaxBackoff  \* maxBackoff of watchLoop, in seconds

ASSUME ReaderAssumption == NoReader \notin Reader
ASSUME BackoffAssumption == MaxBackoff \in Nat \ {0}

VARIABLES
    phase,      \* life of the module: "new", "up", "closed"
    healthy, lastError,
    wpc,        \* where watchLoop is
    backoff,    \* its backoff, in seconds
    events,     \* events etcd has sent on the watch channel
    pc, key,    \* per reader: next step of its Get, the key asked for
    resp,       \* per reader: what etcd answered to its fetch
    res,        \* per reader: what singleflight.Do hands it
    call,       \* singleflight: the reader fetching a key, if any
    missed,     \* history: keys changed while nobody watched them
    touched,    \* history: the watcher updated the key since the fetch
    raced       \* history: keys filled with an answer older than an event

watchVars  == <<wpc, backoff, events>>
readerVars == <<pc, key, resp, res, call>>
vars == <<val, hidden, store, writes, lastGood, phase, healthy, lastError,
          wpc, backoff, events, pc, key, resp, res, call,
          missed, touched, raced>>

Event == [key : Key, content : Content]

Result == [config : Config \cup {None}, err : BOOLEAN]

NoResult == [config |-> None, err |-> FALSE]

Leading == {"recheck", "fetch", "fill"}
Label   == Leading \cup {"idle", "gate", "do", "wait", "return"}

(* The values of the cache, the watch stream, the watcher and the readers;  *)
(* the backoff stays within one second and one minute.                      *)
TypeOK ==
    /\ CacheTypeOK /\ StoreTypeOK
    /\ phase \in {"new", "up", "closed"}
    /\ healthy \in BOOLEAN /\ lastError \in BOOLEAN
    /\ wpc \in {"off", "loop", "call", "watching", "backoff", "done"}
    /\ backoff \in 1..MaxBackoff
    /\ events \in Seq(Event)
    /\ pc \in [Reader -> Label]
    /\ key \in [Reader -> Key]
    /\ resp \in [Reader -> Content]
    /\ res \in [Reader -> Result]
    /\ call \in [Key -> Reader \cup {NoReader}]
    /\ missed \subseteq Key /\ raced \subseteq Key
    /\ touched \in [Reader -> BOOLEAN]

Init ==
    /\ CacheInit /\ StoreInit
    /\ phase = "new"
    /\ healthy = FALSE /\ lastError = FALSE
    /\ wpc = "off" /\ backoff = 1 /\ events = <<>>
    /\ pc = [r \in Reader |-> "idle"]
    /\ key \in [Reader -> Key]
    /\ resp = [r \in Reader |-> Absent]
    /\ res = [r \in Reader |-> NoResult]
    /\ call = [k \in Key |-> NoReader]
    /\ missed = {} /\ raced = {}
    /\ touched = [r \in Reader |-> FALSE]

-----------------------------------------------------------------------------
(* Provision: load a snapshot of the prefix into the empty cache, set the  *)
(* health from the outcome, start the watcher.  Texts that do not parse    *)
(* and blank ones are skipped; what exceeds the cache is evicted again.    *)

Loaded(S) == [k \in Key |-> IF k \in S THEN ParseRouteConfig(store[k]).config
                                       ELSE None]

initialLoad ==
    LET good == {k \in Key : store[k] \in Config} IN
    \E S \in SUBSET good :
        /\ S = good \/ (S # good /\ Cardinality(S) = MaxSize)
        /\ Cardinality(S) <= MaxSize
        /\ val' = Loaded(S)
        /\ UNCHANGED hidden

Provision ==
    /\ phase = "new"
    /\ phase' = "up"
    /\ \/ initialLoad /\ healthy' = TRUE /\ lastError' = FALSE
       \/ healthy' = FALSE /\ lastError' = TRUE /\ UNCHANGED cacheVars
    /\ wpc' = "loop"
    /\ UNCHANGED <<storeVars, backoff, events, readerVars, missed,
                   touched, raced>>

(* Cleanup: cancel the watcher and close the client, waiting for neither. *)
Cleanup ==
    /\ phase = "up"
    /\ phase' = "closed"
    /\ UNCHANGED <<cacheVars, storeVars, healthy, lastError, watchVars,
                   readerVars, missed, touched, raced>>

(* AdminClearCache drops the entries of both caches. *)
AdminClearCache ==
    /\ phase = "up"
    /\ val' = [k \in Key |-> None]
    /\ hidden' = [k \in Key |-> FALSE]
    /\ UNCHANGED <<storeVars, phase, healthy, lastError, watchVars, readerVars,
                   missed, touched, raced>>

(* A negative entry reaches its TTL. *)
Expire(k) ==
    /\ hidden[k]
    /\ Reveal(k)
    /\ UNCHANGED <<storeVars, phase, healthy, lastError, watchVars, readerVars,
                   missed, touched, raced>>

(* A route changes in etcd; the event goes to the watch, if there is one. *)
EtcdChange(k, x) ==
    /\ Change(k, x)
    /\ IF wpc = "watching"
       THEN /\ events' = Append(events, [key |-> k, content |-> x])
            /\ UNCHANGED missed
       ELSE /\ missed' = IF phase = "new" THEN missed ELSE missed \cup {k}
            /\ UNCHANGED events
    /\ UNCHANGED <<cacheVars, phase, healthy, lastError, wpc, backoff,
                   readerVars, touched, raced>>

-----------------------------------------------------------------------------
(* The watcher.                                                            *)

(* The cache operations as the source calls them. *)
Set(k, c) == /\ val' \in Added(k, c)
             /\ hidden' = [hidden EXCEPT ![k] = FALSE]

Delete(k) == /\ val' = [val EXCEPT ![k] = None]
             /\ hidden' = [hidden EXCEPT ![k] = FALSE]

(* watchLoop: the head of the loop looks at the context. *)
WatchLoop ==
    /\ wpc = "loop"
    /\ wpc' = IF phase = "closed" THEN "done" ELSE "call"
    /\ UNCHANGED <<cacheVars, storeVars, phase, healthy, lastError, backoff,
                   events, readerVars, missed, touched, raced>>

(* Broken: a new watch does not report healthy. *)
WatchCall_SilentHealth ==
    /\ wpc = "call"
    /\ wpc' = "watching"
    /\ events' = <<>>
    /\ UNCHANGED <<cacheVars, storeVars, phase, healthy, lastError, backoff,
                   readerVars, missed, touched, raced>>

(* watch: subscribe from now on, with no revision, and report healthy. *)
WatchCall ==
    /\ wpc = "call"
    /\ wpc' = "watching"
    /\ healthy' = TRUE
    /\ events' = <<>>
    /\ UNCHANGED <<cacheVars, storeVars, phase, lastError, backoff, readerVars,
                   missed, touched, raced>>

(* Broken: delete events are ignored. *)
ApplyEvent_NoDelete(e) ==
    LET p == ParseRouteConfig(e.content) IN
    \/ p.config # None /\ Set(e.key, p.config)
    \/ p.config = None /\ UNCHANGED cacheVars

(* Broken: a put that does not parse is never got past. *)
ApplyEvent_BadBlocks(e) ==
    LET p == ParseRouteConfig(e.content) IN
    \/ e.content = Absent /\ Delete(e.key)
    \/ e.content # Absent /\ p.config # None /\ Set(e.key, p.config)
    \/ e.content # Absent /\ p.config = None /\ ~p.err /\ UNCHANGED cacheVars

(* watch: one event.  A put that does not parse, or parses to nil, leaves  *)
(* the cache as it is.                                                     *)
ApplyEvent(e) ==
    LET p == ParseRouteConfig(e.content) IN
    \/ e.content = Absent /\ Delete(e.key)
    \/ e.content # Absent /\ p.config # None /\ Set(e.key, p.config)
    \/ e.content # Absent /\ p.config = None /\ UNCHANGED cacheVars

Effective(e) == e.content \in Config \cup {Absent}

WatchEvent ==
    /\ wpc = "watching" /\ events # <<>>
    /\ LET e == Head(events) IN
       /\ ApplyEvent(e)
       /\ IF Effective(e)
          THEN /\ missed' = missed \ {e.key}
               /\ raced' = raced \ {e.key}
               /\ touched' = [r \in Reader |->
                      touched[r] \/ (pc[r] = "fill" /\ key[r] = e.key)]
          ELSE UNCHANGED <<missed, raced, touched>>
    /\ events' = Tail(events)
    /\ UNCHANGED <<storeVars, phase, healthy, lastError, wpc, backoff,
                   readerVars>>

(* watch returns an error: unhealthy until the next attempt.  Events that  *)
(* were not read yet are lost.                                             *)
WatchFail ==
    /\ wpc = "watching" /\ phase = "up"
    /\ wpc' = "backoff"
    /\ healthy' = FALSE
    /\ events' = <<>>
    /\ missed' = missed \cup {events[i].key : i \in DOMAIN events}
    /\ UNCHANGED <<cacheVars, storeVars, phase, lastError, backoff,
                   readerVars, touched, raced>>

(* Broken: the backoff is not capped. *)
WatchRetry_NoCap ==
    /\ wpc = "backoff" /\ phase = "up"
    /\ wpc' = "loop"
    /\ backoff' = 2 * backoff
    /\ UNCHANGED <<cacheVars, storeVars, phase, healthy, lastError, events,
                   readerVars, missed, touched, raced>>

(* The backoff timer fires, and the backoff doubles. *)
WatchRetry ==
    /\ wpc = "backoff" /\ phase = "up"
    /\ wpc' = "loop"
    /\ backoff' = IF 2 * backoff > MaxBackoff THEN MaxBackoff ELSE 2 * backoff
    /\ UNCHANGED <<cacheVars, storeVars, phase, healthy, lastError, events,
                   readerVars, missed, touched, raced>>

(* Broken: the backoff wait does not listen to the context. *)
WatchExit_NotWhileWaiting ==
    /\ phase = "closed" /\ wpc = "watching"
    /\ wpc' = "done"
    /\ UNCHANGED <<cacheVars, storeVars, phase, healthy, lastError, backoff,
                   events, readerVars, missed, touched, raced>>

(* The context is cancelled while watching or waiting: watchLoop returns. *)
WatchExit ==
    /\ phase = "closed" /\ wpc \in {"watching", "backoff"}
    /\ wpc' = "done"
    /\ UNCHANGED <<cacheVars, storeVars, phase, healthy, lastError, backoff,
                   events, readerVars, missed, touched, raced>>

-----------------------------------------------------------------------------
(* Get.                                                                    *)

(* Broken: the followers are not woken. *)
Finish_LeaderOnly(r, c, e) ==
    /\ res' = [res EXCEPT ![r] = [config |-> c, err |-> e]]
    /\ pc' = [pc EXCEPT ![r] = "return"]
    /\ call' = [call EXCEPT ![key[r]] = NoReader]
    /\ resp' = [resp EXCEPT ![r] = Absent]
    /\ touched' = [touched EXCEPT ![r] = FALSE]

(* The fetch of key[r] that r leads ends with (c, e), for its followers as  *)
(* for itself, and the key is free again.                                   *)
Finish(r, c, e) ==
    LET party == {r} \cup {s \in Reader : pc[s] = "wait" /\ key[s] = key[r]} IN
    /\ res' = [s \in Reader |->
                  IF s \in party THEN [config |-> c, err |-> e] ELSE res[s]]
    /\ pc' = [s \in Reader |-> IF s \in party THEN "return" ELSE pc[s]]
    /\ call' = [call EXCEPT ![key[r]] = NoReader]
    /\ resp' = [resp EXCEPT ![r] = Absent]
    /\ touched' = [touched EXCEPT ![r] = FALSE]

(* Try the cache; a hit is the answer, and the Get is over. *)
GetCache(r, k) ==
    /\ phase # "new" /\ pc[r] = "idle"
    /\ key' = [key EXCEPT ![r] = k]
    /\ pc' = [pc EXCEPT ![r] = IF Lookup(k) # None THEN "idle" ELSE "gate"]
    /\ UNCHANGED <<cacheVars, storeVars, phase, healthy, lastError, watchVars,
                   resp, res, call, missed, touched, raced>>

(* If unhealthy, don't try to fetch: the answer is nil. *)
GetGate(r) ==
    /\ pc[r] = "gate"
    /\ pc' = [pc EXCEPT ![r] = IF healthy THEN "do" ELSE "idle"]
    /\ UNCHANGED <<cacheVars, storeVars, phase, healthy, lastError, watchVars,
                   key, resp, res, call, missed, touched, raced>>

(* Broken: every reader fetches for itself. *)
GetDo_NoCoalescing(r) ==
    /\ pc[r] = "do"
    /\ call' = [call EXCEPT ![key[r]] = r]
    /\ pc' = [pc EXCEPT ![r] = "recheck"]
    /\ UNCHANGED <<cacheVars, storeVars, phase, healthy, lastError, watchVars,
                   key, resp, res, missed, touched, raced>>

(* singleflight.Do: lead the fetch of the key, or wait for who does. *)
GetDo(r) ==
    /\ pc[r] = "do"
    /\ IF call[key[r]] = NoReader
       THEN /\ call' = [call EXCEPT ![key[r]] = r]
            /\ pc' = [pc EXCEPT ![r] = "recheck"]
       ELSE /\ pc' = [pc EXCEPT ![r] = "wait"]
            /\ UNCHANGED call
    /\ UNCHANGED <<cacheVars, storeVars, phase, healthy, lastError, watchVars,
                   key, resp, res, missed, touched, raced>>

(* The leader looks at the cache again. *)
GetRecheck(r) ==
    /\ pc[r] = "recheck"
    /\ IF Lookup(key[r]) # None
       THEN Finish(r, Lookup(key[r]), FALSE)
       ELSE /\ pc' = [pc EXCEPT ![r] = "fetch"]
            /\ UNCHANGED <<resp, res, call, touched>>
    /\ UNCHANGED <<cacheVars, storeVars, phase, healthy, lastError, watchVars,
                   key, missed, raced>>

(* etcd answers the leader's read. *)
GetFetch(r) ==
    /\ pc[r] = "fetch" /\ phase = "up"
    /\ resp' = [resp EXCEPT ![r] = store[key[r]]]
    /\ touched' = [touched EXCEPT ![r] = FALSE]
    /\ pc' = [pc EXCEPT ![r] = "fill"]
    /\ UNCHANGED <<cacheVars, storeVars, phase, healthy, lastError, watchVars,
                   key, res, call, missed, raced>>

(* The read fails: timeout, cancelled request, closed client. *)
GetFetchFails(r) ==
    /\ pc[r] = "fetch"
    /\ lastError' = TRUE
    /\ Finish(r, None, TRUE)
    /\ UNCHANGED <<cacheVars, storeVars, phase, healthy, watchVars, key,
                   missed, raced>>

(* The leader caches the answer: a missing key as a negative entry, a       *)
(* configuration as such; a text that does not parse is an error.           *)
GetFill(r) ==
    LET p == ParseRouteConfig(resp[r]) IN
    /\ pc[r] = "fill"
    /\ \/ /\ resp[r] = Absent
          /\ Hide(key[r])
          /\ Finish(r, None, FALSE)
          /\ UNCHANGED <<lastError, raced>>
       \/ /\ resp[r] # Absent /\ p.err
          /\ lastError' = TRUE
          /\ Finish(r, None, TRUE)
          /\ UNCHANGED <<cacheVars, raced>>
       \/ /\ resp[r] # Absent /\ ~p.err /\ p.config # None
          /\ Set(key[r], p.config)
          /\ raced' = IF touched[r] THEN raced \cup {key[r]} ELSE raced
          /\ Finish(r, p.config, FALSE)
          /\ UNCHANGED lastError
       \/ /\ resp[r] # Absent /\ ~p.err /\ p.config = None
          /\ Finish(r, None, FALSE)
          /\ UNCHANGED <<cacheVars, lastError, raced>>
    /\ UNCHANGED <<storeVars, phase, healthy, watchVars, key, missed>>

(* After Do: success clears the last error. *)
GetReturn(r) ==
    /\ pc[r] = "return"
    /\ lastError' = (lastError /\ res[r].err)
    /\ pc' = [pc EXCEPT ![r] = "idle"]
    /\ res' = [res EXCEPT ![r] = NoResult]
    /\ UNCHANGED <<cacheVars, storeVars, phase, healthy, watchVars, key, resp,
                   call, missed, touched, raced>>

-----------------------------------------------------------------------------
Get(r) == \/ GetGate(r) \/ GetDo(r) \/ GetRecheck(r) \/ GetFetch(r)
          \/ GetFetchFails(r) \/ GetFill(r) \/ GetReturn(r)

Watcher == WatchLoop \/ WatchCall \/ WatchEvent \/ WatchRetry \/ WatchExit

Next ==
    \/ Provision \/ Cleanup \/ AdminClearCache
    \/ Watcher \/ WatchFail
    \/ \E k \in Key : \/ Expire(k)
                      \/ \E x \in Content : EtcdChange(k, x)
                      \/ \E r \in Reader : GetCache(r, k)
    \/ \E r \in Reader : Get(r)

Spec == Init /\ [][Next]_vars

(* A request's Get keeps running (RequestTimeout ends a fetch that hangs),  *)
(* and so does the watcher goroutine; time passes.                          *)
FairSpec == /\ Spec
            /\ WF_vars(Watcher)
            /\ \A r \in Reader : WF_vars(Get(r))
            /\ \A k \in Key : WF_vars(Expire(k))

-----------------------------------------------------------------------------
(* Properties *)

(* Singleflight: at most one reader works on the fetch of a key, it is the  *)
(* one the group has registered, and whoever waits, waits for a reader that *)
(* is really at work.                                                       *)
FlightOK ==
    /\ \A r \in Reader : pc[r] \in Leading => call[key[r]] = r
    /\ \A k \in Key : call[k] # NoReader =>
          pc[call[k]] \in Leading /\ key[call[k]] = k
    /\ \A r \in Reader : pc[r] = "wait" => call[key[r]] # NoReader

(* The source only reports unhealthy while no watch is established: as soon *)
(* as events flow again the health gate is open again.                      *)
UnhealthyOnlyWithoutWatch ==
    ~healthy => wpc \in {"off", "loop", "call", "backoff", "done"}

(* A cached route is the newest configuration its key has had since it was  *)
(* created, and gone once the key was deleted, when the watcher has read    *)
(* all its events, except for two holes of the code: changes made while no  *)
(* watch was established are never caught up with (missed), and a fetch     *)
(* answered before an event and cached after it undoes the event (raced).   *)
Pending(k) == \E i \in DOMAIN events : events[i].key = k

Coherent ==
    phase = "up" =>
        \A k \in Key : Pending(k) \/ k \in missed \/ k \in raced
                         \/ val[k] \in {None, lastGood[k]}

(* Why Coherent holds: the newest effective event of a key still in the     *)
(* channel carries its newest configuration; without such an event neither  *)
(* the cache nor an answer about to be cached is behind the store.          *)
EffectivePending(k) ==
    \E i \in DOMAIN events : events[i].key = k /\ Effective(events[i])

Newest(i) ==
    /\ Effective(events[i])
    /\ \A j \in DOMAIN events :
          j > i /\ events[j].key = events[i].key => ~Effective(events[j])

Outcome(x) == IF x = Absent THEN None ELSE x

StoreRemembered == \A k \in Key : store[k] \in Config => lastGood[k] = store[k]

NewIsBlank ==
    phase = "new" => /\ wpc = "off"
                     /\ \A k \in Key : val[k] = None
                     /\ \A r \in Reader : pc[r] = "idle"

EventsOnlyWhileWatching ==
    phase # "closed" /\ wpc # "watching" => events = <<>>

EventsEndGood ==
    phase = "up" =>
        \A i \in DOMAIN events :
            Newest(i) => Outcome(events[i].content) = lastGood[events[i].key]

CacheIsGood ==
    phase = "up" =>
        \A k \in Key : ~EffectivePending(k) /\ k \notin missed \cup raced
                         => val[k] \in {None, lastGood[k]}

AnswersAreGood ==
    phase = "up" =>
        \A r \in Reader :
            /\ pc[r] = "fill" /\ resp[r] \in Config /\ ~touched[r]
            /\ key[r] \notin missed /\ ~EffectivePending(key[r])
            => resp[r] = lastGood[key[r]]

CoherenceInvariant ==
    /\ StoreRemembered /\ NewIsBlank /\ EventsOnlyWhileWatching
    /\ EventsEndGood /\ CacheIsGood /\ AnswersAreGood

(* Every Get returns: no follower waits for a fetch nobody makes. *)
GetReturns == \A r \in Reader : pc[r] # "idle" ~> pc[r] = "idle"

(* An unhealthy source that is not closed becomes healthy again. *)
HealthRecovers == (phase = "up" /\ ~healthy) ~> (healthy \/ phase = "closed")

(* The watcher goroutine ends after Cleanup, which does not wait for it. *)
WatcherStops == (phase = "closed") ~> (wpc = "done")

(* Once nothing changes any more all events are applied, and no negative    *)
(* entry hides a route that exists, however its fetch and the event that    *)
(* reported the route were ordered.                                         *)
RoutesSettle ==
    \A k \in Key :
        <>[](phase = "up" => /\ ~Pending(k)
                             /\ store[k] \in Config => ~hidden[k])
=============================================================================

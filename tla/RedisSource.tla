---------------------------- MODULE RedisSource -----------------------------
(***************************************************************************)
(* datasource/redis/redis.go: a subscriber goroutine is told which key has *)
(* changed, by keyspace notifications or on a channel of the operators,    *)
(* and reads the key again.  Redis delivers at most once: a notification   *)
(* is lost when nobody is subscribed, while the client reconnects, when    *)
(* its buffer is full, or because the operation that made the change has   *)
(* no notification that handleMessage knows.                               *)
(***************************************************************************)
EXTENDS ReadThrough

(* Get: texts that do not parse, and blank ones, are not cached. *)
Get(r) ==
    \/ GetSteps(r)
    \/ phase # "closed" /\ GetFetch(r)
    \/ GetFails(r, healthy)
    \/ GetFill(r, {}, {})

(* initialLoad: a batch of keys whose MGET fails is skipped; a SCAN or PING *)
(* that fails ends it with what was loaded until then.                      *)
initialLoad(S, ok) ==
    /\ Load(S)
    /\ healthy' = ok
    /\ IF S = Key /\ ok THEN UNCHANGED faults
                        ELSE Fault

Provision ==
    /\ phase = "new"
    /\ phase' = "up"
    /\ wpc' = "loop"
    /\ \E S \in SUBSET Key, ok \in BOOLEAN : initialLoad(S, ok)
    /\ UNCHANGED <<storeVars, changedAt, kind, readerVars, workVars, missedAt,
                   cutOff>>

(* Cleanup cancels the subscriber and closes the client, without waiting. *)
Cleanup ==
    /\ phase = "up"
    /\ phase' = "closed"
    /\ Keep
    /\ UNCHANGED <<storeVars, changedAt, kind, healthy, readerVars, wpc,
                   workVars, faults, missedAt, cutOff>>

(* A route changes; the notification is on its way to the subscriber, or    *)
(* nobody will hear of the change.                                          *)
RedisWrite(k, x) ==
    /\ Write(k, x)
    /\ \/ /\ wpc \in {"listen", "apply"}
          /\ queue' = Append(queue, [key |-> k, version |-> writes + 1,
                                     op |-> IF x = Absent THEN "del" ELSE "set"])
          /\ UNCHANGED missedAt
       \/ /\ missedAt' = [missedAt EXCEPT ![k] = writes + 1]
          /\ UNCHANGED queue
    /\ UNCHANGED <<cacheVars, kind, phase, healthy, readerVars, wpc, snap, todo,
                   got, cursor, faults, asof, regressed, cutOff>>

-----------------------------------------------------------------------------
(* subscribeLoop and subscribe.                                            *)

subscribeLoop == WorkGoto("loop", IF phase = "up" THEN "call" ELSE "done")

(* The subscription is confirmed. *)
Subscribed ==
    /\ wpc = "call" /\ phase = "up"
    /\ wpc' = "listen"
    /\ healthy' = TRUE
    /\ Keep /\ WorkFrame
    /\ UNCHANGED <<workVars, faults, missedAt, cutOff>>

(* The changes notified in q will not be applied. *)
Lost(q) == missedAt' = [k \in Key |->
    Latest({q[i].version : i \in {j \in DOMAIN q : q[j].key = k}}, missedAt[k])]

(* The subscription fails or its channel closes: unhealthy until the next.  *)
SubscribeFails ==
    /\ wpc \in {"call", "listen"} /\ phase = "up" /\ Failing
    /\ wpc' = "backoff"
    /\ healthy' = FALSE
    /\ queue' = <<>>
    /\ Lost(queue)
    /\ Keep /\ WorkFrame
    /\ UNCHANGED <<snap, todo, got, cursor, cutOff>>

(* The backoff is over. *)
SubscribeRetry == phase = "up" /\ WorkGoto("backoff", "loop")

(* The context is cancelled. *)
SubscribeExit ==
    /\ phase # "up"
    /\ wpc \in {"call", "listen", "backoff"}
    /\ WorkGoto(wpc, "done")

-----------------------------------------------------------------------------
(* handleMessage and refreshKey.                                           *)

(* A message: a deletion is applied at once; otherwise the key is read       *)
(* again, and left as it is if that fails.                                   *)
handleMessage ==
    LET m == Head(queue) IN
    /\ wpc = "listen" /\ queue # <<>>
    /\ queue' = Tail(queue)
    /\ \/ /\ m.op = "del"
          /\ Unset(m.key, m.version)
          /\ UNCHANGED <<wpc, snap, got, missedAt, faults>>
       \/ /\ m.op = "set" /\ phase # "closed"
          /\ snap' = Snapshot /\ got' = {m.key} /\ wpc' = "apply"
          /\ Keep /\ UNCHANGED <<missedAt, faults>>
       \/ /\ m.op = "set" /\ Failing
          /\ Lost(<<m>>)
          /\ Keep /\ UNCHANGED <<wpc, snap, got>>
    /\ WorkFrame
    /\ UNCHANGED <<healthy, todo, cursor, cutOff>>

(* The rest of refreshKey: a missing key is deleted, a configuration is     *)
(* cached, any other text leaves the cache alone.                           *)
refreshKey(k) ==
    LET x == snap.content[k] IN
    /\ wpc = "apply" /\ k \in got
    /\ \/ x = Absent /\ Unset(k, snap.version)
       \/ x \in Config /\ Set(k, ParseRouteConfig(x).config, snap.version)
       \/ x \in {Blank, Bad} /\ Keep
    /\ wpc' = "listen"
    /\ snap' = NoSnapshot /\ got' = {}
    /\ WorkFrame
    /\ UNCHANGED <<healthy, queue, todo, cursor, faults, missedAt, cutOff>>

-----------------------------------------------------------------------------
Background ==
    \/ subscribeLoop \/ Subscribed \/ SubscribeRetry \/ SubscribeExit
    \/ handleMessage
    \/ \E k \in Key : refreshKey(k)

Next ==
    \/ Provision \/ Cleanup
    \/ \E k \in Key, x \in Content : RedisWrite(k, x)
    \/ SubscribeFails \/ Background
    \/ \E r \in Reader : Get(r)
=============================================================================

---------------------------- MODULE ConsulSource ----------------------------
(***************************************************************************)
(* datasource/consul/consul.go: a watcher goroutine asks Consul for the    *)
(* whole prefix, and Consul answers once its index differs from the one    *)
(* the watcher knows (a blocking query) or WaitTime has passed.  Neither   *)
(* that query nor the read of a Get can be cancelled.                      *)
(*                                                                         *)
(* The index of version v is v + 1; zero, the zero value of lastIndex, is  *)
(* the index of no version.                                                *)
(***************************************************************************)
EXTENDS ReadThrough

Index == writes + 1

(* Get: texts that do not parse, and blank ones, are not cached. *)
Get(r) ==
    \/ GetSteps(r)
    \/ GetFetch(r)
    \/ GetFails(r, healthy)
    \/ GetFill(r, {}, {})

(* initialLoad: the index the list is from, and its routes. *)
initialLoad ==
    \/ /\ Load(Key)
       /\ cursor' = Index
       /\ healthy' = TRUE
       /\ UNCHANGED faults
    \/ /\ Fault
       /\ healthy' = FALSE
       /\ Keep /\ UNCHANGED cursor

Provision ==
    /\ phase = "new"
    /\ phase' = "up"
    /\ wpc' = "loop"
    /\ initialLoad
    /\ UNCHANGED <<storeVars, changedAt, kind, readerVars, queue, snap, todo,
                   got, missedAt, cutOff>>

Cleanup == CleanupBegins \/ CleanupEnds

-----------------------------------------------------------------------------
(* Broken: a failed watch is not followed by a healthy one. *)
watchLoop_SilentHealth ==
    /\ wpc = "loop"
    /\ wpc' = IF phase = "up" THEN "head" ELSE "done"
    /\ Keep /\ WorkFrame
    /\ UNCHANGED <<healthy, workVars, faults, missedAt, cutOff>>

(* watchLoop and the beginning of watch, which reports healthy before it    *)
(* has asked anything.                                                      *)
watchLoop ==
    /\ wpc = "loop"
    /\ wpc' = IF phase = "up" THEN "head" ELSE "done"
    /\ healthy' = IF phase = "up" THEN TRUE ELSE healthy
    /\ Keep /\ WorkFrame
    /\ UNCHANGED <<workVars, faults, missedAt, cutOff>>

(* The head of watch's loop looks at the context. *)
WatchHead == WorkGoto("head", IF phase = "up" THEN "query" ELSE "done")

(* The blocking query answers with a new index. *)
WatchAnswer ==
    /\ wpc = "query" /\ cursor # Index
    /\ BeginSweep(Snapshot, {k \in Key : store[k] # Absent})
    /\ cursor' = Index
    /\ Keep /\ WorkFrame
    /\ UNCHANGED <<healthy, queue, faults, missedAt>>

(* Broken: a query that waited in vain is asked again at once. *)
WatchTimeout_NoHead ==
    /\ cursor = Index
    /\ WorkGoto("query", "query")

(* WaitTime has passed and the index is the same. *)
WatchTimeout ==
    /\ cursor = Index
    /\ WorkGoto("query", "head")

(* The query fails: unhealthy and backoff, or the end of the goroutine. *)
WatchFails ==
    /\ wpc = "query" /\ Failing
    /\ wpc' = IF phase = "up" THEN "backoff" ELSE "done"
    /\ healthy' = IF phase = "up" THEN FALSE ELSE healthy
    /\ Keep /\ WorkFrame
    /\ UNCHANGED <<workVars, missedAt, cutOff>>

WatchRetry == WorkGoto("backoff", IF phase = "up" THEN "loop" ELSE "done")

(* watch: a text that does not parse leaves the route that is cached, and   *)
(* what is not in the answer is deleted.                                    *)
WatchApply ==
    \/ \E k \in Key : SweepApply(k, {Blank, Bad}, {}) \/ SweepDelete(k)
    \/ SweepBegin
    \/ SweepEnd("head") /\ UNCHANGED healthy

-----------------------------------------------------------------------------
Background == \/ watchLoop \/ WatchHead \/ WatchAnswer \/ WatchTimeout
              \/ WatchRetry \/ WatchApply

Next ==
    \/ Provision \/ Cleanup
    \/ \E k \in Key, x \in Content : SilentWrite(k, x)
    \/ Background \/ WatchFails
    \/ \E r \in Reader : Get(r)
=============================================================================

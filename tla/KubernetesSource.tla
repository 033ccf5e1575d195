-------------------------- MODULE KubernetesSource --------------------------
(***************************************************************************)
(* datasource/kubernetes/kubernetes.go: the routes are the entries of one  *)
(* ConfigMap, or of the maps a label selects (kind "kubernetesLabel"); a   *)
(* watcher goroutine gets the whole map with every change of it.  A watch  *)
(* without a resource version begins with an event for the map as it is,   *)
(* if it exists; it ends when the API server closes it.                    *)
(*                                                                         *)
(* A map without entries may as well not exist: wherever the two differ    *)
(* (which event tells, whether a read fails) both are possible.  With a    *)
(* label the keys stand for those of one of the selected maps; no other    *)
(* map has them.  Get reads the map named in the configuration all the     *)
(* same, which may be that one, another without these keys, or none.       *)
(***************************************************************************)
EXTENDS ReadThrough

Labelled == kind = "kubernetesLabel"

Empty == \A k \in Key : store[k] = Absent

Present == {k \in Key : store[k] # Absent}

(* An event: what it says, the entries it comes with, the map it leaves. *)
Event(t, S, a) == [type |-> t, data |-> S, answer |-> a]

(* The map does not exist: the read fails like any other. *)
GetNotFound(r) ==
    /\ pc[r] = "fetch" /\ (Empty \/ Labelled)
    /\ healthy' = FALSE
    /\ Finish(r)
    /\ ReaderFrame /\ Keep /\ UNCHANGED faults

(* The map named is not the one the label selects: it has no such key. *)
GetElsewhere(r) ==
    /\ pc[r] = "fetch" /\ Labelled
    /\ Hide(key[r])
    /\ Finish(r)
    /\ ReaderFrame /\ UNCHANGED <<healthy, faults, asof, regressed>>

(* Get: a failed read means unhealthy, until the next watch begins; a blank *)
(* text is cached as nil, one that does not parse is not cached.            *)
Get(r) ==
    \/ GetSteps(r)
    \/ GetFetch(r)
    \/ GetFails(r, FALSE) \/ GetNotFound(r) \/ GetElsewhere(r)
    \/ GetFill(r, {}, {Blank})

initialLoad ==
    \/ Load(Key) /\ healthy' = TRUE /\ UNCHANGED faults
    \/ Keep /\ healthy' = FALSE /\ Empty /\ ~Labelled /\ UNCHANGED faults
    \/ Keep /\ healthy' = FALSE /\ Fault

Provision ==
    /\ phase = "new"
    /\ phase' = "up"
    /\ wpc' = "loop"
    /\ initialLoad
    /\ UNCHANGED <<storeVars, changedAt, kind, readerVars, workVars, missedAt,
                   cutOff>>

Cleanup == CleanupBegins \/ CleanupEnds

(* With a label, an event that brings a map does not tell what it lacks. *)
Unnoticed(a) == [k \in Key |-> IF Labelled /\ a.content[k] = Absent
                               THEN a.stamp[k] ELSE missedAt[k]]

(* An entry of the map changes; the watcher, if there is one, gets the map. *)
(* The map may be deleted with its last entries.  With a label, an entry    *)
(* that is only removed is not missed by handleConfigMapUpdate.             *)
MapWrite(k, x) ==
    LET a == [content |-> store', version |-> writes', stamp |-> changedAt']
        left == {j \in Key : store'[j] # Absent} IN
    /\ Write(k, x)
    /\ \/ /\ wpc \in {"listen", "apply", "sweep"}
          /\ \/ /\ queue' = Append(queue, Event("modified", left, a))
                /\ missedAt' = Unnoticed(a)
             \/ /\ left = {}
                /\ queue' = Append(queue, Event("deleted", Present, a))
                /\ UNCHANGED missedAt
       \/ /\ wpc \notin {"listen", "apply", "sweep"}
          /\ UNCHANGED <<queue, missedAt>>
    /\ UNCHANGED <<cacheVars, kind, phase, healthy, readerVars, wpc, snap, todo,
                   got, cursor, faults, asof, regressed, cutOff>>

-----------------------------------------------------------------------------
watchConfigMaps == WorkGoto("loop", IF phase = "up" THEN "call" ELSE "done")

(* A watch begins.  If the map does not exist there is no event, and what   *)
(* is cached stays.                                                         *)
WatchBegins ==
    /\ wpc = "call" /\ phase = "up"
    /\ wpc' = "listen"
    /\ healthy' = TRUE
    /\ \/ queue' = <<Event("added", Present, Snapshot)>> /\ missedAt' = Unnoticed(Snapshot)
       \/ Empty /\ queue' = <<>> /\ missedAt' = changedAt
    /\ Keep /\ WorkFrame
    /\ UNCHANGED <<snap, todo, got, cursor, faults, cutOff>>

(* No watch can be had: unhealthy, and a sleep that nothing interrupts. *)
WatchFails ==
    /\ wpc = "call" /\ Failing
    /\ wpc' = "sleep"
    /\ healthy' = FALSE
    /\ Keep /\ WorkFrame
    /\ UNCHANGED <<workVars, missedAt, cutOff>>

WatchRetry == WorkGoto("sleep", "loop")

(* The watch ends: its channel is closed, or an error event comes.  Events  *)
(* not read yet are lost, and a new watch begins at once.                   *)
WatchEnds ==
    /\ wpc = "listen" /\ phase = "up" /\ Failing
    /\ wpc' = "loop"
    /\ healthy' \in {healthy, FALSE}
    /\ queue' = <<>>
    /\ Keep /\ WorkFrame
    /\ UNCHANGED <<snap, todo, got, cursor, missedAt, cutOff>>

(* The context is cancelled. *)
WatchCancelled == phase # "up" /\ WorkGoto("listen", "loop")

(* The next event: begin to apply the map, or to delete its entries. *)
handleWatchEvents ==
    LET e == Head(queue) IN
    /\ wpc = "listen" /\ queue # <<>>
    /\ queue' = Tail(queue)
    /\ snap' = e.answer
    /\ todo' = e.data
    /\ got' = {}
    /\ cutOff' = FALSE
    /\ wpc' = IF e.type = "deleted" THEN "sweep" ELSE "apply"
    /\ Keep /\ WorkFrame
    /\ UNCHANGED <<healthy, cursor, faults, missedAt>>

(* With a label nothing is deleted: a key may be in another map. *)
UpdateEnds ==
    /\ wpc = "apply" /\ todo = {} /\ Labelled
    /\ wpc' = "listen"
    /\ snap' = NoSnapshot /\ got' = {}
    /\ Keep /\ WorkFrame
    /\ UNCHANGED <<healthy, queue, todo, cursor, faults, missedAt, cutOff>>

(* handleConfigMapUpdate deletes the keys it could not parse with those     *)
(* that have gone; handleConfigMapDelete deletes the entries of the map.    *)
handleConfigMap ==
    \/ \E k \in Key : SweepApply(k, {Blank}, {Blank}) \/ SweepDelete(k)
    \/ SweepBegin /\ ~Labelled
    \/ UpdateEnds
    \/ SweepEnd("listen") /\ UNCHANGED healthy

-----------------------------------------------------------------------------
Background ==
    \/ watchConfigMaps \/ WatchBegins \/ WatchRetry \/ WatchCancelled
    \/ phase # "up" /\ WatchFails
    \/ handleWatchEvents \/ handleConfigMap

Next ==
    \/ Provision \/ Cleanup
    \/ \E k \in Key, x \in Content : MapWrite(k, x)
    \/ Background \/ WatchFails \/ WatchEnds
    \/ \E r \in Reader : Get(r)
=============================================================================

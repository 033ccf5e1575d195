-------------------------- MODULE ZookeeperSource ---------------------------
(***************************************************************************)
(* datasource/zookeeper/zookeeper.go: a goroutine watches the children of  *)
(* the base path and starts, with every list of them it gets, a goroutine  *)
(* per child that watches it; a third follows the state of the session.    *)
(*                                                                         *)
(* ZooKeeper, as the code uses it: a watch fires once; watches survive a   *)
(* connection that is lost and found again, and all fire when the session  *)
(* has expired; a request without a connection fails or waits for one.     *)
(* cursor is 1 while there is a connection, queue has the session events,  *)
(* and cutOff says that Provision has the last word on health.  Session    *)
(* events may be handled after Cleanup, when nobody asks for the health.   *)
(***************************************************************************)
EXTENDS Goroutines

Connected == cursor = 1

NoEvent == [type |-> "none", version |-> 0]

(* watchNode(k), about to read its node. *)
Watcher(k) == [key |-> k, at |-> "get", answer |-> NoAnswer, event |-> NoEvent]

(* Its watch is set and has not fired yet. *)
Armed(t) == /\ t.at \in {"apply", "wait"} /\ t.answer.content # Absent
            /\ t.event = NoEvent

(* It will deal with the next change of its node, whatever that is. *)
Following(t) == t.at = "get" \/ Armed(t) \/ t.event.type \in {"changed", "lost"}

(* Who will learn of a change of k after this step: its watchers, or those  *)
(* that the next list of the children starts, if k is on it.                *)
WillSee(k) ==
    \/ \E t \in BagToSet(tasks') : t.key = k /\ Following(t)
    \/ wpc' # "wait" /\ store'[k] # Absent

(* The event e happens to all watches of the keys S that are set. *)
Fire(S, e) == BagOfAll(LAMBDA t : IF t.key \in S /\ Armed(t)
                                  THEN [t EXCEPT !.event = e] ELSE t, tasks)

(* A request gets no answer. *)
RequestFails == IF Connected THEN Failing ELSE UNCHANGED faults

-----------------------------------------------------------------------------
(* A Get without a connection fails like any other. *)
GetNoServer(r) ==
    /\ pc[r] = "fetch" /\ ~Connected
    /\ Finish(r)
    /\ ReaderFrame /\ Keep /\ UNCHANGED <<healthy, faults>>

(* Get: a failed read does not change health; a blank text is cached as     *)
(* nil, one that does not parse is not cached.                              *)
Get(r) ==
    /\ \/ GetSteps(r)
       \/ Connected /\ phase # "closed" /\ GetFetch(r)
       \/ GetFails(r, healthy) \/ GetNoServer(r)
       \/ GetFill(r, {}, {Blank})
    /\ UNCHANGED tasks

(* initialLoad: a child that cannot be read is skipped; a list that cannot  *)
(* be had, or a timeout, is an error.                                       *)
initialLoad(S, ok) ==
    /\ Load(S)
    /\ IF S = Key /\ ok THEN UNCHANGED faults ELSE Fault
    /\ wpc' = IF ok THEN "ok" ELSE "failed"

(* Provision connects, starts handleSessionEvents and loads. *)
Provision ==
    /\ phase = "new"
    /\ phase' = "loaded"
    /\ \E S \in SUBSET Key, ok \in BOOLEAN :
          /\ initialLoad(S, ok)
          /\ \/ cursor' = 1 /\ queue' = <<"connected">>
             \/ cursor' = 0 /\ queue' = <<>> /\ S = {} /\ ~ok
    /\ UNCHANGED <<storeVars, changedAt, kind, healthy, readerVars, snap, todo,
                   got, missedAt, cutOff, tasks>>

(* Then it sets the health by the outcome of the load, whatever the session *)
(* has become meanwhile, and starts watchChildren.                          *)
ProvisionEnds ==
    /\ phase = "loaded"
    /\ phase' = "up"
    /\ healthy' = (wpc = "ok")
    /\ cutOff' = (wpc = "failed" /\ Connected /\ queue = <<>>)
    /\ wpc' = "loop"
    /\ Keep
    /\ UNCHANGED <<storeVars, changedAt, kind, readerVars, workVars, faults,
                   missedAt, tasks>>

(* Cleanup waits for watchChildren, but not for the watchers of nodes. *)
Cleanup == (CleanupBegins \/ CleanupEnds) /\ UNCHANGED tasks

-----------------------------------------------------------------------------
(* The route of a key is created, changed or deleted. *)
NodeWrite(k, x) ==
    LET type == IF x = Absent THEN "deleted" ELSE "changed" IN
    /\ Write(k, x)
    /\ tasks' = Fire({k}, [type |-> type, version |-> writes + 1])
    /\ wpc' = IF wpc = "wait" /\ Absent \in {store[k], x} THEN "fired" ELSE wpc
    /\ missedAt' = IF WillSee(k) THEN missedAt
                                 ELSE [missedAt EXCEPT ![k] = writes + 1]
    /\ UNCHANGED <<cacheVars, kind, phase, healthy, readerVars, workVars,
                   faults, asof, regressed, cutOff>>

(* The connection breaks. *)
SessionLost ==
    /\ phase \in {"loaded", "up"} /\ Connected /\ Fault
    /\ cursor' = 0
    /\ queue' = Append(queue, "disconnected")
    /\ Keep
    /\ UNCHANGED <<storeVars, changedAt, kind, phase, healthy, readerVars, wpc,
                   snap, todo, got, missedAt, cutOff, tasks>>

(* There is a connection again, in the old session or in a new one. *)
SessionBack ==
    /\ phase \in {"loaded", "up", "closing"} /\ ~Connected
    /\ cursor' = 1
    /\ queue' = Append(queue, "connected")
    /\ \/ UNCHANGED <<wpc, tasks>>
       \/ /\ tasks' = Fire(Key, [type |-> "lost", version |-> 0])
          /\ wpc' = IF wpc = "wait" THEN "fired" ELSE wpc
    /\ Keep
    /\ UNCHANGED <<storeVars, changedAt, kind, phase, healthy, readerVars,
                   snap, todo, got, faults, missedAt, cutOff>>

handleSessionEvents ==
    /\ queue # <<>>
    /\ queue' = Tail(queue)
    /\ healthy' = (Head(queue) = "connected")
    /\ Keep
    /\ UNCHANGED <<storeVars, changedAt, kind, phase, readerVars, wpc, snap,
                   todo, got, cursor, faults, missedAt, cutOff, tasks>>

-----------------------------------------------------------------------------
(* watchChildren *)

ChildrenHead == WorkGoto("loop", IF phase = "up" THEN "call" ELSE "done")

(* ChildrenW lists the children and sets a watch; each gets a watcher, even *)
(* if it has one already.                                                   *)
ChildrenListed ==
    /\ wpc = "call" /\ Connected
    /\ wpc' = "wait"
    /\ Start({Watcher(k) : k \in {j \in Key : store[j] # Absent}})
    /\ Keep /\ WorkFrame
    /\ UNCHANGED <<healthy, workVars, faults, missedAt, cutOff>>

(* The base path does not exist (yet). *)
ChildrenNoNode == /\ Connected /\ \A k \in Key : store[k] = Absent
                  /\ WorkGoto("call", "sleep")

ChildrenFails ==
    /\ wpc = "call" /\ RequestFails
    /\ wpc' = "sleep"
    /\ Keep /\ WorkFrame
    /\ UNCHANGED <<healthy, workVars, missedAt, cutOff>>

ChildrenRetry == WorkGoto("sleep", "loop")

(* The list has changed, or the session has expired. *)
ChildrenEvent == Connected /\ WorkGoto("fired", "loop")

ChildrenCancelled == /\ phase # "up" /\ wpc \in {"wait", "fired"}
                     /\ WorkGoto(wpc, "done")

watchChildren ==
    \/ ChildrenListed
    \/ /\ \/ ChildrenHead \/ ChildrenNoNode \/ ChildrenRetry \/ ChildrenEvent
          \/ ChildrenCancelled
       /\ UNCHANGED tasks

-----------------------------------------------------------------------------
(* watchNode *)

NodeCancelled(t) ==
    /\ phase # "up" /\ t.at \in {"get", "wait"}
    /\ End(t)
    /\ Keep /\ WorkFrame
    /\ UNCHANGED <<healthy, wpc, workVars, faults, missedAt, cutOff>>

(* GetW reads the node and sets a watch, if there is a node. *)
NodeGet(t) ==
    /\ t.at = "get" /\ Connected /\ phase # "closed"
    /\ Become(t, [t EXCEPT !.at = "apply", !.event = NoEvent,
                           !.answer = [content |-> store[t.key],
                                       version |-> writes]])
    /\ Keep /\ WorkFrame
    /\ UNCHANGED <<healthy, wpc, workVars, faults, missedAt, cutOff>>

(* GetW fails, and the node is watched no more. *)
NodeGetFails(t) ==
    /\ t.at = "get" /\ RequestFails
    /\ End(t)
    /\ missedAt' = IF \/ \E u \in BagToSet(tasks') : u.key = t.key /\ Following(u)
                      \/ wpc # "wait" /\ store[t.key] # Absent
                   THEN missedAt
                   ELSE [missedAt EXCEPT ![t.key] = changedAt[t.key]]
    /\ Keep /\ WorkFrame
    /\ UNCHANGED <<healthy, wpc, workVars, cutOff>>

(* The answer of GetW is cached; a text that does not parse leaves what is  *)
(* cached.  Without a node the key is deleted and the watcher ends.         *)
NodeApply(t) ==
    LET k == t.key  x == t.answer.content  v == t.answer.version IN
    /\ t.at = "apply"
    /\ \/ x = Absent /\ Unset(k, v) /\ End(t)
       \/ /\ x # Absent
          /\ \/ x \in Config /\ Set(k, ParseRouteConfig(x).config, v)
             \/ x = Blank /\ Unset(k, v)
             \/ x = Bad /\ Keep
          /\ Become(t, [t EXCEPT !.at = "wait"])
    /\ WorkFrame
    /\ UNCHANGED <<healthy, wpc, workVars, faults, missedAt, cutOff>>

(* The watch has fired: the node is gone, or is read again. *)
NodeEvent(t) ==
    /\ t.at = "wait" /\ t.event # NoEvent /\ Connected
    /\ \/ t.event.type = "deleted" /\ Unset(t.key, t.event.version) /\ End(t)
       \/ t.event.type # "deleted" /\ Keep /\ Become(t, Watcher(t.key))
    /\ WorkFrame
    /\ UNCHANGED <<healthy, wpc, workVars, faults, missedAt, cutOff>>

watchNode(t) == \/ NodeCancelled(t) \/ NodeGet(t) \/ NodeApply(t) \/ NodeEvent(t)
                \/ (phase # "up" \/ ~Connected) /\ NodeGetFails(t)

-----------------------------------------------------------------------------
Next ==
    \/ Provision \/ ProvisionEnds \/ Cleanup
    \/ \E k \in Key, x \in Content : NodeWrite(k, x)
    \/ SessionLost \/ SessionBack \/ handleSessionEvents
    \/ watchChildren
    \/ ChildrenFails /\ UNCHANGED tasks
    \/ \E t \in Tasks : watchNode(t) \/ NodeGetFails(t)
    \/ \E r \in Reader : Get(r)
=============================================================================

----------------------------- MODULE FileSource -----------------------------
(***************************************************************************)
(* datasource/file/file.go: the routes are the files of a directory, or    *)
(* the members of one JSON file.  All of them are in memory: a Get is a    *)
(* lookup and changes nothing.  A change starts a timer, each further one  *)
(* starts it anew, and when it fires all is loaded again, in a goroutine   *)
(* of its own.  Without fsnotify the watch loop polls instead.             *)
(*                                                                         *)
(* fsnotify, as the code uses it: a watch of a file ends with the file     *)
(* itself, when it is replaced.  cursor is 1 while the timer runs, queue   *)
(* has the events.  A member of a JSON file is never blank.                *)
(***************************************************************************)
EXTENDS Goroutines

IsDir == kind = "fileDir"

Present == {k \in Key : store[k] # Absent}

Unread == -1        \* the version of a file that could not be read

(* loadAll, about to begin: keys still to be read, keys read but not        *)
(* stored, loadedKeys, and what was read in which version.                  *)
loadAll == [at |-> "begin", todo |-> {}, read |-> {}, loaded |-> {},
            text |-> [k \in Key |-> Absent], version |-> [k \in Key |-> 0]]

(* The cache is a sync.Map without a bound. *)
StoreRoute(k, c) == val' = [val EXCEPT ![k] = c] /\ UNCHANGED hidden

(* The first load, before anybody else is there.  The files S of the        *)
(* directory cannot be read and are skipped; an error leaves the cache      *)
(* empty.  The health is set here only.                                     *)
FirstLoad(S, ok) ==
    /\ val' = [k \in Key |-> IF store[k] \in Config /\ k \notin S
                             THEN store[k] ELSE None]
    /\ healthy' = ok
    /\ regressed' = S
    /\ IF S = {} /\ ok THEN UNCHANGED faults ELSE Fault
    /\ UNCHANGED <<hidden, asof>>

Provision ==
    /\ phase = "new"
    /\ phase' = "up"
    /\ wpc' \in {"off", "start"}
    /\ \E S \in SUBSET Key, ok \in BOOLEAN :
          /\ IF ok THEN IsDir \/ S = {} ELSE S = Key
          /\ FirstLoad(S, ok)
    /\ UNCHANGED <<storeVars, changedAt, kind, readerVars, workVars, missedAt,
                   cutOff, tasks>>

(* Cleanup waits for watchLoop, but not for a reload it has started. *)
Cleanup == (CleanupBegins \/ CleanupEnds) /\ UNCHANGED tasks

(* AdminClearCache: what is cleared is gone until a reload. *)
ClearAll ==
    /\ phase = "up" /\ Fault
    /\ val' = [k \in Key |-> None]
    /\ regressed' = Key
    /\ UNCHANGED <<hidden, storeVars, changedAt, kind, phase, healthy,
                   readerVars, wpc, workVars, asof, missedAt, cutOff,
                   tasks>>

-----------------------------------------------------------------------------
(* A route changes: the directory tells, and the file does, unless it was   *)
(* replaced before.                                                         *)
FileWrite(k, x) ==
    /\ IsDir \/ x # Blank
    /\ Write(k, x)
    /\ \/ /\ wpc = "watch"
          /\ queue' = Append(queue, "event")
          /\ wpc' = "watch" \/ (~IsDir /\ wpc' = "deaf")
          /\ UNCHANGED missedAt
       \/ /\ wpc # "watch"
          /\ missedAt' = IF wpc = "deaf"
                         THEN [missedAt EXCEPT ![k] = writes + 1] ELSE missedAt
          /\ UNCHANGED <<queue, wpc>>
    /\ UNCHANGED <<cacheVars, kind, phase, healthy, readerVars, snap, todo, got,
                   cursor, faults, asof, regressed, cutOff, tasks>>

(* The kernel drops events: an error, which watchLoop only logs. *)
EventsLost ==
    /\ wpc = "watch" /\ phase = "up" /\ queue # <<>>
    /\ Fault
    /\ queue' = <<>>
    /\ missedAt' = changedAt
    /\ Keep /\ WorkFrame
    /\ UNCHANGED <<healthy, wpc, snap, todo, got, cursor, cutOff, tasks>>

-----------------------------------------------------------------------------
(* watchLoop and pollLoop *)

(* The watch begins, after the first load; or there is none, and it polls. *)
WatchBegins ==
    /\ wpc = "start"
    /\ \/ wpc' = "watch" /\ missedAt' = changedAt
       \/ wpc' = "tick" /\ UNCHANGED missedAt
    /\ Keep /\ WorkFrame
    /\ UNCHANGED <<healthy, workVars, faults, cutOff, tasks>>

(* An event (re)starts the timer. *)
WatchEvent ==
    /\ wpc \in {"watch", "deaf"} /\ queue # <<>>
    /\ queue' = Tail(queue)
    /\ cursor' = 1
    /\ Keep /\ WorkFrame
    /\ UNCHANGED <<healthy, wpc, snap, todo, got, faults, missedAt, cutOff,
                   tasks>>

(* The timer fires, which its Stop cannot take back. *)
TimerFires ==
    /\ cursor = 1
    /\ cursor' = 0
    /\ Start({loadAll})
    /\ Keep /\ WorkFrame
    /\ UNCHANGED <<healthy, wpc, queue, snap, todo, got, faults, missedAt,
                   cutOff>>

(* The context is cancelled: the timer is stopped. *)
WatchExit ==
    /\ phase # "up" /\ wpc \in {"watch", "deaf"}
    /\ wpc' = "done"
    /\ cursor' = 0
    /\ Keep /\ WorkFrame
    /\ UNCHANGED <<healthy, queue, snap, todo, got, faults, missedAt, cutOff,
                   tasks>>

PollExit == phase # "up" /\ WorkGoto("tick", "done") /\ UNCHANGED tasks

(* The ticker fires, and pollLoop itself runs loadAll. *)
PollBegins == WorkGoto("tick", "polling") /\ Start({loadAll})

PollEnds == tasks = EmptyBag /\ WorkGoto("polling", "tick") /\ UNCHANGED tasks

-----------------------------------------------------------------------------
(* loadAll: loadDirectory or loadSingleFile *)

TaskFrame == /\ WorkFrame
             /\ UNCHANGED <<healthy, wpc, workVars, cutOff>>

(* ReadDir lists the names; ReadFile reads the members at once. *)
LoadBegins(t) ==
    /\ t.at = "begin"
    /\ Become(t, [t EXCEPT !.at = "load",
                           !.todo = IF IsDir THEN Present ELSE {},
                           !.read = IF IsDir THEN {} ELSE Present,
                           !.text = IF IsDir THEN @ ELSE store,
                           !.version = [k \in Key |-> writes]])
    /\ Keep /\ TaskFrame /\ UNCHANGED <<faults, missedAt>>

(* The directory or the file cannot be read, or is not a JSON object: what  *)
(* is cached stays, and nothing tries again but the next poll or event.     *)
LoadFails(t) ==
    /\ t.at = "begin" /\ Failing
    /\ End(t)
    /\ missedAt' = IF wpc = "polling" THEN missedAt ELSE changedAt
    /\ Keep /\ TaskFrame

(* loadDirectory reads the next file: its text, or an error. *)
ReadFile(t, k) ==
    /\ t.at = "load" /\ t.read = {} /\ k \in t.todo
    /\ \/ /\ Become(t, [t EXCEPT !.todo = @ \ {k}, !.read = {k},
                                 !.text[k] = store[k], !.version[k] = writes])
          /\ UNCHANGED faults
       \/ /\ Become(t, [t EXCEPT !.todo = @ \ {k}, !.version[k] = Unread])
          /\ phase = "up" /\ Fault
    /\ Keep /\ TaskFrame /\ UNCHANGED missedAt

(* A configuration is stored, anything else is skipped. *)
LoadStores(t, k) ==
    LET good == t.text[k] \in Config IN
    /\ t.at = "load" /\ k \in t.read
    /\ Become(t, [t EXCEPT !.read = @ \ {k},
                           !.loaded = IF good THEN @ \cup {k} ELSE @])
    /\ \/ /\ good
          /\ StoreRoute(k, ParseRouteConfig(t.text[k]).config)
          /\ AppliedOnce(k, t.version[k])
       \/ ~good /\ Keep
    /\ TaskFrame /\ UNCHANGED <<faults, missedAt>>

(* All are read: go through the cache for keys that were not loaded. *)
LoadSweeps(t) ==
    /\ t.at = "load" /\ t.read = {} /\ t.todo = {}
    /\ Become(t, [t EXCEPT !.at = "sweep", !.todo = Key \ t.loaded])
    /\ Keep /\ TaskFrame /\ UNCHANGED <<faults, missedAt>>

LoadDeletes(t, k) ==
    /\ t.at = "sweep" /\ k \in t.todo
    /\ Become(t, [t EXCEPT !.todo = @ \ {k}])
    /\ StoreRoute(k, None)
    /\ AppliedOnce(k, t.version[k])
    /\ TaskFrame /\ UNCHANGED <<faults, missedAt>>

LoadEnds(t) ==
    /\ t.at = "sweep" /\ t.todo = {}
    /\ End(t)
    /\ Keep /\ TaskFrame /\ UNCHANGED <<faults, missedAt>>

Reload(t) ==
    \/ LoadBegins(t) \/ LoadSweeps(t) \/ LoadEnds(t)
    \/ \E k \in Key : ReadFile(t, k) \/ LoadStores(t, k) \/ LoadDeletes(t, k)

-----------------------------------------------------------------------------
watchLoop == \/ WatchBegins \/ WatchEvent \/ TimerFires \/ WatchExit
             \/ PollExit \/ PollBegins \/ PollEnds

Next ==
    \/ Provision \/ Cleanup \/ ClearAll
    \/ \E k \in Key, x \in Content : FileWrite(k, x)
    \/ EventsLost \/ watchLoop
    \/ \E t \in Tasks : Reload(t) \/ LoadFails(t)
=============================================================================

----------------------------- MODULE HttpSource -----------------------------
(***************************************************************************)
(* datasource/http/http.go: a route is the answer of an HTTP endpoint.     *)
(* With a refresh interval a goroutine fetches every cached key again and  *)
(* checks the endpoint's health; without one, neither ever happens after   *)
(* Provision, and what is cached stays (CacheTTL is not used).             *)
(*                                                                         *)
(* The attempts of fetch are one step: their outcome is what the endpoint  *)
(* says at some moment between the first and the last of them, or an error.*)
(***************************************************************************)
EXTENDS ReadThrough

(* Get: 404 and a blank body are cached as missing; an answer that does not *)
(* parse is an error.                                                       *)
Get(r) ==
    \/ GetSteps(r)
    \/ GetFetch(r)
    \/ GetFails(r, healthy)
    \/ GetFill(r, {Blank}, {})

(* Provision checks the health of the endpoint and starts the refresh loop  *)
(* if there is an interval.                                                 *)
Provision ==
    /\ phase = "new"
    /\ phase' = "up"
    /\ wpc' \in {"off", "tick"}
    /\ \/ healthy' = TRUE /\ UNCHANGED faults
       \/ healthy' = FALSE /\ Fault
    /\ Keep
    /\ UNCHANGED <<storeVars, changedAt, kind, readerVars, workVars, missedAt,
                   cutOff>>

Cleanup == CleanupBegins \/ CleanupEnds

-----------------------------------------------------------------------------
(* The context is cancelled. *)
RefreshExit == phase # "up" /\ WorkGoto("tick", "done")

(* The ticker fires: refresh all cached keys. *)
refreshLoop ==
    /\ wpc = "tick"
    /\ wpc' = "refresh"
    /\ todo' = Cached
    /\ Keep /\ WorkFrame
    /\ UNCHANGED <<healthy, queue, snap, got, cursor, faults, missedAt, cutOff>>

(* fetch of the next key succeeds, or fails and the key is left alone. *)
RefreshFetch(k) ==
    /\ wpc = "refresh" /\ k \in todo
    /\ todo' = todo \ {k}
    /\ \/ /\ phase = "up"
          /\ snap' = Snapshot /\ got' = {k} /\ wpc' = "apply"
          /\ UNCHANGED faults
       \/ Failing /\ UNCHANGED <<snap, got, wpc>>
    /\ Keep /\ WorkFrame
    /\ UNCHANGED <<healthy, queue, cursor, missedAt, cutOff>>

(* refreshCache caches the configuration it got, deletes the key if there   *)
(* is none, and keeps what it has if the answer does not parse.             *)
RefreshApply(k) ==
    LET x == snap.content[k] IN
    /\ wpc = "apply" /\ k \in got
    /\ \/ x \in Config /\ Set(k, ParseRouteConfig(x).config, snap.version)
       \/ x \in {Absent, Blank} /\ Unset(k, snap.version)
       \/ x = Bad /\ Keep
    /\ wpc' = "refresh"
    /\ snap' = NoSnapshot /\ got' = {}
    /\ WorkFrame
    /\ UNCHANGED <<healthy, queue, todo, cursor, faults, missedAt, cutOff>>

(* doHealthCheck ends the refresh. *)
doHealthCheck ==
    /\ wpc = "refresh" /\ todo = {}
    /\ wpc' = "tick"
    /\ \/ healthy' = TRUE /\ UNCHANGED faults
       \/ healthy' = FALSE /\ Failing
    /\ Keep /\ WorkFrame
    /\ UNCHANGED <<workVars, missedAt, cutOff>>

-----------------------------------------------------------------------------
Background == \/ RefreshExit \/ refreshLoop \/ doHealthCheck
              \/ \E k \in Key : RefreshFetch(k) \/ RefreshApply(k)

Next ==
    \/ Provision \/ Cleanup
    \/ \E k \in Key, x \in Content : SilentWrite(k, x)
    \/ Background
    \/ \E r \in Reader : Get(r)
=============================================================================

----------------------------- MODULE SqlSource ------------------------------
(***************************************************************************)
(* datasource/sql/sql.go: a goroutine polls the table, either all of it    *)
(* (refreshFull, which also deletes what has gone) or the rows changed     *)
(* since a cursor (refreshIncremental), with a full refresh instead when   *)
(* its interval, if there is one, has passed.                              *)
(*                                                                         *)
(* A row is stamped with the version that changed it last, as the column   *)
(* updated_at must be for the incremental mode; stamps differ, so the key  *)
(* that breaks ties in the cursor plays no part.  In the incremental modes *)
(* deletion is soft: the row stays, stamped, with deleted_at set.          *)
(* A row that rows.Scan rejects is skipped like one that does not parse:   *)
(* Bad stands for both.                                                    *)
(***************************************************************************)
EXTENDS ReadThrough

ZeroTime == -1      \* the zero value of incCursorTime

Incremental == kind = "sqlIncremental"

(* Get: a failed query means unhealthy; a blank text is cached as nil, one  *)
(* that does not parse is not cached.                                       *)
Get(r) ==
    \/ GetSteps(r)
    \/ phase # "closed" /\ GetFetch(r)
    \/ GetFails(r, FALSE)
    \/ GetFill(r, {}, {Blank})

(* initialLoad: the rows until the iteration ends or breaks off. *)
initialLoad(S) ==
    /\ Load(S)
    /\ IF S = Key THEN UNCHANGED faults
                  ELSE Fault

(* Provision reports healthy once the database was pinged, whatever becomes *)
(* of the load.                                                             *)
Provision ==
    /\ phase = "new"
    /\ phase' = IF Incremental THEN "loaded" ELSE "up"
    /\ wpc' = IF Incremental THEN "off" ELSE "tick"
    /\ cursor' = ZeroTime
    /\ healthy' = TRUE
    /\ \E S \in SUBSET Key : initialLoad(S)
    /\ UNCHANGED <<storeVars, changedAt, kind, readerVars, queue, snap, todo,
                   got, missedAt, cutOff>>

(* The rows the table has: those of present keys, and soft-deleted ones. *)
Rows == {k \in Key : store[k] # Absent \/ changedAt[k] > 0}

(* initIncrementalCursor: start at the newest row.  What changed since the  *)
(* load will not be seen.                                                   *)
initIncrementalCursor ==
    /\ phase = "loaded"
    /\ phase' = "up"
    /\ wpc' = "tick"
    /\ \/ /\ cursor' = Latest({changedAt[k] : k \in Rows}, ZeroTime)
          /\ missedAt' = changedAt
          /\ UNCHANGED faults
       \/ /\ Fault
          /\ UNCHANGED <<cursor, missedAt>>
    /\ Keep
    /\ UNCHANGED <<storeVars, changedAt, kind, healthy, readerVars, queue, snap,
                   todo, got, cutOff>>

Cleanup == CleanupBegins \/ CleanupEnds

-----------------------------------------------------------------------------
(* pollLoop and refreshOnce.                                               *)

PollExit == phase # "up" /\ WorkGoto("tick", "done")

(* The query of either refresh fails: unhealthy until the next poll. *)
QueryFails ==
    /\ wpc = "tick" /\ Failing
    /\ healthy' = FALSE
    /\ Keep /\ WorkFrame
    /\ UNCHANGED <<wpc, workVars, missedAt, cutOff>>

(* refreshFull, in both modes: the query for all rows that are not deleted. *)
FullQuery ==
    /\ wpc = "tick" /\ phase = "up"
    /\ BeginSweep(Snapshot, {k \in Key : store[k] # Absent})
    /\ Keep /\ WorkFrame
    /\ UNCHANGED <<healthy, queue, cursor, faults, missedAt>>

(* The iteration over the rows breaks off: rows.Next says there are no more. *)
RowsBreakOff ==
    /\ wpc \in {"apply", "rows"} /\ ~cutOff
    /\ Failing
    /\ todo' = {}
    /\ cutOff' = TRUE
    /\ Keep /\ WorkFrame
    /\ UNCHANGED <<healthy, wpc, queue, snap, got, cursor, missedAt>>

(* Blank texts are cached as nil and count as seen; a text that does not     *)
(* parse does not count, and its key is deleted with those that have gone.   *)
(* Only then rows.Err tells whether the iteration was complete.              *)
refreshFull ==
    \/ \E k \in Key : SweepApply(k, {Blank}, {Blank}) \/ SweepDelete(k)
    \/ SweepBegin
    \/ SweepEnd("tick") /\ healthy' = ~cutOff

(* refreshIncremental: the query for the rows after the cursor. *)
IncrementalQuery ==
    /\ Incremental /\ wpc = "tick" /\ phase = "up"
    /\ snap' = Snapshot
    /\ todo' = {k \in Rows : changedAt[k] > cursor}
    /\ got' = {}
    /\ cutOff' = FALSE
    /\ wpc' = "rows"
    /\ Keep /\ WorkFrame
    /\ UNCHANGED <<healthy, queue, cursor, faults, missedAt>>

(* One row, in the order of the stamps.  A row that does not parse does not  *)
(* move the cursor.                                                          *)
IncrementalRow(k) ==
    LET x == snap.content[k] IN
    /\ wpc = "rows" /\ k \in todo
    /\ \A j \in todo : snap.stamp[k] <= snap.stamp[j]
    /\ todo' = todo \ {k}
    /\ \/ x \in {Absent, Blank} /\ Unset(k, snap.version) /\ got' = got \cup {k}
       \/ x \in Config /\ Set(k, ParseRouteConfig(x).config, snap.version)
                       /\ got' = got \cup {k}
       \/ x = Bad /\ Keep /\ UNCHANGED got
    /\ WorkFrame
    /\ UNCHANGED <<healthy, wpc, queue, snap, cursor, faults, missedAt, cutOff>>

(* Broken: the cursor moves although the iteration broke off. *)
IncrementalEnd_CursorFirst ==
    /\ wpc = "rows" /\ todo = {}
    /\ wpc' = "tick"
    /\ healthy' = ~cutOff
    /\ cursor' = snap.version
    /\ snap' = NoSnapshot /\ got' = {} /\ cutOff' = FALSE
    /\ Keep /\ WorkFrame
    /\ UNCHANGED <<queue, todo, faults, missedAt>>

(* The cursor moves to the newest row, unless the iteration broke off. *)
IncrementalEnd ==
    /\ wpc = "rows" /\ todo = {}
    /\ wpc' = "tick"
    /\ healthy' = ~cutOff
    /\ cursor' = IF cutOff THEN cursor
                           ELSE Latest({snap.stamp[k] : k \in got}, cursor)
    /\ snap' = NoSnapshot /\ got' = {} /\ cutOff' = FALSE
    /\ Keep /\ WorkFrame
    /\ UNCHANGED <<queue, todo, faults, missedAt>>

-----------------------------------------------------------------------------
Background ==
    \/ PollExit \/ FullQuery \/ refreshFull
    \/ IncrementalQuery \/ IncrementalEnd
    \/ \E k \in Key : IncrementalRow(k)

Next ==
    \/ Provision \/ initIncrementalCursor \/ Cleanup
    \/ \E k \in Key, x \in Content : SilentWrite(k, x)
    \/ Background \/ QueryFails \/ RowsBreakOff
    \/ \E r \in Reader : Get(r)
=============================================================================

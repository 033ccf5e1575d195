------------------------------ MODULE Backend -------------------------------
(***************************************************************************)
(* The store with a memory of the routes it had, to say what a source that *)
(* ignores unusable texts should serve.                                    *)
(***************************************************************************)
EXTENDS Store

VARIABLE
    lastGood    \* history: the newest configuration k had since it last
                \* came into being, None when k is absent

storeVars == <<store, writes, lastGood>>

StoreTypeOK ==
    /\ store \in [Key -> Content]
    /\ writes \in 0..MaxWrites
    /\ lastGood \in [Key -> Config \cup {None}]

StoreInit ==
    /\ store \in [Key -> {Absent} \cup Config]
    /\ writes = 0
    /\ lastGood = [k \in Key |-> IF store[k] = Absent THEN None ELSE store[k]]

(* The text under k becomes x. *)
Change(k, x) ==
    /\ Overwrite(k, x)
    /\ lastGood' = [lastGood EXCEPT ![k] = CASE x \in Config -> x
                                             [] x = Absent   -> None
                                             [] OTHER        -> @]
=============================================================================

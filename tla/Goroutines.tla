----------------------------- MODULE Goroutines -----------------------------
(***************************************************************************)
(* The goroutines that a data source starts in passing and then forgets:   *)
(* nothing limits their number, and Cleanup does not wait for them.        *)
(***************************************************************************)
EXTENDS ReadThrough, Bags

VARIABLE
    tasks       \* a bag of records, one for each such goroutine

sourceVars == <<vars, tasks>>

Tasks == BagToSet(tasks)

Start(S) == tasks' = tasks (+) SetToBag(S)

Become(t, u) == tasks' = (tasks (-) SetToBag({t})) (+) SetToBag({u})

End(t) == tasks' = tasks (-) SetToBag({t})
=============================================================================

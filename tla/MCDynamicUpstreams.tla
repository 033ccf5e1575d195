------------------------- MODULE MCDynamicUpstreams -------------------------
(* Small instances of DynamicUpstreams. *)
EXTENDS DynamicUpstreams, TLC

Rule(addresses) ==
    [match |-> <<>>, priority |-> 0, algorithm |-> "",
     upstreams |-> [i \in DOMAIN addresses |->
                       [address |-> addresses[i], weight |-> 1]]]

One   == Simple("a")
Twice == [Simple("a") EXCEPT !.rules = <<Rule(<<"b", "a">>), Rule(<<"c", "b">>)>>]
Off   == [Simple("d") EXCEPT !.enabled = "no"]

AllRoutes == {One, Twice, Off}

Alike == Permutations(Request)
=============================================================================

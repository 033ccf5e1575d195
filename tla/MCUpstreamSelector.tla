------------------------- MODULE MCUpstreamSelector -------------------------
(* A small instance of UpstreamSelector: every algorithm, with one list,     *)
(* lists of one length or lists that change.  Requests are alike.            *)
EXTENDS UpstreamSelector, TLC

CONSTANTS r1, r2

MCSymmetry == Permutations({r1, r2})

U(a, w) == [address |-> a, weight |-> w]

(* Candidates that come and go, one weight left at its default. *)
Changing == {<<U("a", 3), U("b", 2), U("c", 0)>>, <<U("a", 3), U("b", 2)>>,
             <<U("a", 1), U("b", 2)>>, <<U("c", 1)>>}

OneList == {<<U("a", 5), U("b", 1), U("c", 2)>>}

OneLength == {<<U("a", 1), U("b", 1)>>, <<U("a", 1), U("c", 1)>>}

(* The ring: five virtual nodes per weight of ten, on forty-one positions   *)
(* without collisions.  The lists share upstreams, and the last two have    *)
(* the same hash: here the number of candidates and the sum of the weights. *)
RingLists == {<<U("a", 1), U("b", 4), U("c", 8)>>, <<U("d", 2), U("b", 4), U("e", 6)>>,
              <<U("c", 6), U("a", 4), U("b", 2)>>}

MCFnv(x) == <<Len(x), LET sum[i \in 0..Len(x)] ==
                              IF i = 0 THEN 0 ELSE sum[i - 1] + x[i][2]
                      IN sum[Len(x)]>>

MCLists == Changing \cup OneList \cup OneLength \cup RingLists

Setup(a, lists, n) == [algorithm |-> a, lists |-> lists, selects |-> n]

MCSetups ==
    {Setup(a, Changing, 3) : a \in {"weighted_random", "header_hash", "ip_hash",
                                   "uri_hash", "least_conn", "first"}}
    \cup {Setup("weighted_round_robin", OneList, 9),
          Setup("weighted_round_robin", Changing, 5),
          Setup("round_robin", OneLength, 8), Setup("round_robin", Changing, 6),
          Setup("consistent_hash", RingLists, 4)}

Start == [a \in {"a", "b", "c", "d", "e"} |->
             CASE a = "a" -> 5 [] a = "b" -> 17 [] a = "c" -> 2
               [] a = "d" -> 9 [] OTHER   -> 24]

MCNodeHash == [a \in {"a", "b", "c", "d", "e"} |->
                  [j \in 0..4 |-> (Start[a] + 9 * j) % 41]]
=============================================================================

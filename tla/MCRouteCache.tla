---------------------------- MODULE MCRouteCache ----------------------------
(* A small instance of RouteCache.  Keys, configurations and goroutines     *)
(* are alike: none of them is named by the specification.                   *)
EXTENDS RouteCache, TLC

CONSTANTS k1, k2, k3, c1, c2, t1, t2, t3

MCSymmetry == Permutations({k1, k2, k3}) \cup Permutations({c1, c2})
                  \cup Permutations({t1, t2, t3})
=============================================================================

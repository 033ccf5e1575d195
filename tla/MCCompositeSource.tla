-------------------------- MODULE MCCompositeSource -------------------------
(* Small instances of CompositeSource. *)
EXTENDS CompositeSource

Rule(p) == [match |-> <<>>, upstreams |-> <<>>, priority |-> p, algorithm |-> ""]

(* Routes that give different fields: a direct upstream, rules, both. *)
Direct == [Simple("a") EXCEPT !.version = 2, !.ttl = 7]
Ruled  == [Simple("") EXCEPT !.rules = <<Rule(9), Rule(4)>>, !.enabled = "no",
                             !.version = 3, !.updatedAt = 5]
Both   == [Simple("b") EXCEPT !.rules = <<Rule(6)>>, !.algorithm = "first",
                              !.enabled = "yes", !.version = 1]

ThreeSources == [i \in Source |-> CASE i = 1 -> {Direct, Both}
                                    [] i = 2 -> {Ruled}
                                    [] OTHER -> {Both}]

Modes == {"failover", "merge", "priority", "first"}

(* Every mode, one call; and two calls that share a cached result. *)
OneCall  == [mode : Modes, parallel : BOOLEAN, cacheResults : {FALSE}, calls : {{"c1"}}]
TwoCalls == [mode : {"first", "failover"}, parallel : {FALSE},
             cacheResults : {TRUE}, calls : {{"c1", "c2"}}]

MCSettings == OneCall \cup TwoCalls
=============================================================================

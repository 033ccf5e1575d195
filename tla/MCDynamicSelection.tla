------------------------- MODULE MCDynamicSelection -------------------------
(* Small instances of DynamicSelection. *)
EXTENDS DynamicSelection

MCDial == [u \in Upstream |->
              CASE u = "ua" -> "a" [] u = "ub" -> "b" [] OTHER -> "c"]

(* The upstreams of a static configuration. *)
StaticPool == {{"ua", "ub"}}

(* Dynamic upstreams: the pool has one, two or no members. *)
Resizing == {{"ua"}, {"ua", "ub"}, {}}

(* Dynamic upstreams: one member is replaced by another. *)
Replacing == {{"ua", "ub"}, {"ua", "uc"}}

(* The upstreams of the matching rule: none, some outside the pool. *)
MCCandidates == {<<>>, <<"a", "c">>, <<"b", "a">>}

(* Every configuration, one request at a time, with a pool that is resized; *)
Sequential == [source : BOOLEAN, threads : {{"t1"}}, pools : {Resizing},
               extractors : SUBSET {"key", "instance", "version"}]

(* and requests that overlap on a static pool. *)
Overlapping == [source : {TRUE}, threads : {Thread}, pools : {StaticPool},
                extractors : {{"key"}}]

Both == Sequential \cup Overlapping

(* One request at a time, with a pool that changes at the same size. *)
SameSize == [source : {TRUE}, threads : {{"t1"}}, pools : {Replacing},
             extractors : {{"key"}}]
=============================================================================

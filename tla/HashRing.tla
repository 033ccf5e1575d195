------------------------------ MODULE HashRing ------------------------------
(***************************************************************************)
(* The ring of the consistent_hash algorithm of matcher/selector.go, as a  *)
(* function of the candidate list it is built from.  UpstreamSelector has  *)
(* the unsynchronised field that holds it.                                 *)
(***************************************************************************)
EXTENDS Integers, Sequences, FiniteSets

CONSTANTS
    Lists,          \* the candidate lists requests may bring
    virtualNodes,   \* virtual nodes per upstream of weight 10
    NodeHash,       \* the hash of virtual node j of an address: NodeHash[a][j]
    HashMod,        \* hashes are below HashMod (2^32 in the code)
    Hash,           \* the hashes of the request attributes algorithms look at
    Fnv(_)          \* the hash of a list's addresses and weights

ASSUME RingAssumption ==
    /\ virtualNodes \in Nat \ {0} /\ HashMod \in Nat \ {0}
    /\ Hash \subseteq 0..(HashMod - 1)
    /\ \A L \in Lists :
          /\ Len(L) \in Nat \ {0} /\ DOMAIN L = 1..Len(L)
          /\ \A i \in DOMAIN L : L[i].weight \in Int

(* A weight that is zero or negative counts as one. *)
GetEffectiveWeight(u) == IF u.weight <= 0 THEN 1 ELSE u.weight

(* The number of virtual nodes grows with the weight, from one up. *)
NumNodes(u) ==
    LET n == (virtualNodes * GetEffectiveWeight(u)) \div 10
    IN IF n < 1 THEN 1 ELSE n

ASSUME HashAssumption ==
    \A L \in Lists : \A i \in DOMAIN L : \A j \in 0..(NumNodes(L[i]) - 1) :
        NodeHash[L[i].address][j] \in 0..(HashMod - 1)

(* The nodes of the ring: hash and upstream address. *)
NewConsistentHashRing(L) ==
    UNION {{[hash |-> NodeHash[L[i].address][j], address |-> L[i].address] :
               j \in 0..(NumNodes(L[i]) - 1)} : i \in DOMAIN L}

First(S) == CHOOSE n \in S : \A m \in S : n.hash <= m.hash

(* Broken: plain hashing modulo the number of upstreams. *)
RingGet_Modulo(L, h) ==
    L[CHOOSE i \in DOMAIN L :
         Cardinality({j \in DOMAIN L : j < i}) = h % Cardinality(DOMAIN L)].address

(* Get: the first node at or after the key's hash, wrapping around. *)
RingGet(L, h) ==
    LET ring  == NewConsistentHashRing(L)
        after == {n \in ring : n.hash >= h}
    IN IF after = {} THEN First(ring).address ELSE First(after).address

(* computeUpstreamsHash: one 32-bit hash of the addresses and the low two   *)
(* bytes of the weights.  Different lists may have the same.                *)
configHash(L) == Fnv([i \in DOMAIN L |-> <<L[i].address, L[i].weight % 65536>>])

(* Broken: only the number of upstreams is compared. *)
Matches_LengthOnly(ring, L) == Len(ring) = Len(L)

(* Was the ring built for a list with the hash of this one? *)
Matches(ring, L) == configHash(ring) = configHash(L)
=============================================================================

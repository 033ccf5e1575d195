---------------------------- MODULE BoundedCache ----------------------------
(***************************************************************************)
(* What every data source relies on in its RouteCache (datasource/cache):  *)
(* a map from keys to configurations that holds at most MaxSize of them    *)
(* and may forget any one of them to make room for another, beside a set   *)
(* of negative entries that hide a key from readers until they expire.     *)
(*                                                                         *)
(* The operators with primed variables are the primitive updates; module   *)
(* RouteCache shows that the concurrent methods of the Go code, step by    *)
(* step, do nothing else, and the data-source modules compose them.        *)
(***************************************************************************)
EXTENDS Integers, FiniteSets

CONSTANTS
    Key,        \* the keys routes are stored under
    Config,     \* the parsed route configurations
    None,       \* a nil *RouteConfig
    MaxSize     \* the capacity of the LRU cache

ASSUME KeyFinite     == IsFiniteSet(Key)
ASSUME NoneNotConfig == None \notin Config
ASSUME MaxSizePos    == MaxSize \in Nat \ {0}

VARIABLES
    val,        \* val[k]: the configuration cached under k, or None
    hidden      \* hidden[k]: k has a negative entry that has not expired

cacheVars == <<val, hidden>>

CacheTypeOK ==
    /\ val \in [Key -> Config \cup {None}]
    /\ hidden \in [Key -> BOOLEAN]

CacheInit ==
    /\ val = [k \in Key |-> None]
    /\ hidden = [k \in Key |-> FALSE]

Cached == {k \in Key : val[k] # None}

-----------------------------------------------------------------------------
(* What a lookup answers: a negative entry wins over a cached value. *)
Lookup(k) == IF hidden[k] THEN None ELSE val[k]

(* The values a map may have after adding c under k: nothing is forgotten  *)
(* when k is already there or there is room, and one other key otherwise.  *)
Added(k, c) ==
    IF val[k] # None \/ Cardinality(Cached) < MaxSize
    THEN {[val EXCEPT ![k] = c]}
    ELSE {[val EXCEPT ![v] = None, ![k] = c] : v \in Cached}

Put(k, c) == val' \in Added(k, c) /\ UNCHANGED hidden

Remove(k) == val' = [val EXCEPT ![k] = None] /\ UNCHANGED hidden

Purge == val' = [k \in Key |-> None] /\ UNCHANGED hidden

Hide(k) == hidden' = [hidden EXCEPT ![k] = TRUE] /\ UNCHANGED val

Reveal(k) == hidden' = [hidden EXCEPT ![k] = FALSE] /\ UNCHANGED val

-----------------------------------------------------------------------------
CacheNext ==
    \/ \E k \in Key : \/ \E c \in Config : Put(k, c)
                      \/ Remove(k)
                      \/ Hide(k)
                      \/ Reveal(k)
    \/ Purge

CacheSpec == CacheInit /\ [][CacheNext]_cacheVars
=============================================================================

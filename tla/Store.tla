------------------------------- MODULE Store --------------------------------
(***************************************************************************)
(* The store a data source reads routes from, as the data sources use it,  *)
(* and what parsing makes of its contents (datasource/types.go).           *)
(*                                                                         *)
(* The text under a key is abstracted to what ParseRouteConfig tells       *)
(* apart: a configuration, a blank text (parses to nil), or a text it      *)
(* rejects.  Operators put the route there, replace it and delete it.      *)
(***************************************************************************)
EXTENDS BoundedCache

CONSTANTS
    Absent,     \* the key does not exist in the store
    Blank,      \* empty text: ParseRouteConfig returns nil, nil
    Bad,        \* text ParseRouteConfig returns an error for
    MaxWrites   \* bound: how often a behaviour changes the store

ASSUME ContentsDistinct ==
    /\ Absent \notin Config /\ Blank \notin Config /\ Bad \notin Config
    /\ Absent # Blank /\ Absent # Bad /\ Blank # Bad
ASSUME MaxWritesNat == MaxWrites \in Nat

VARIABLES
    store,      \* store[k]: the text under k
    writes      \* changes made so far (bounds the behaviours)

Content == Config \cup {Absent, Blank, Bad}

(* Somebody writes x under k, or deletes k (x = Absent). *)
Overwrite(k, x) ==
    /\ writes < MaxWrites
    /\ writes' = writes + 1
    /\ x # store[k]
    /\ store' = [store EXCEPT ![k] = x]

-----------------------------------------------------------------------------
(* ParseRouteConfig of a text that exists. *)
ParseRouteConfig(x) ==
    [config |-> IF x \in Config THEN x ELSE None, err |-> x = Bad]
=============================================================================

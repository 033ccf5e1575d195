---------------------------- MODULE RouteConfig -----------------------------
(***************************************************************************)
(* datasource/types.go and matcher/matcher.go as functions: what a text    *)
(* parses to, and which rule of a route matches a request.                 *)
(*                                                                         *)
(* A route is a record                                                     *)
(*   upstream   the direct upstream, "" if there is none                   *)
(*   rules      a sequence of rules, each with its match conditions, its   *)
(*              weighted upstreams, its priority and its algorithm         *)
(*   algorithm  "" if not given; AlgorithmKey, Fallback and Description    *)
(*              are texts treated alike and are left out                   *)
(*   enabled    "unset", "yes" or "no"                                     *)
(*   ttl, updatedAt, version   naturals, 0 if not given                    *)
(*                                                                         *)
(* The conditions of a rule map placeholders to the set of values they     *)
(* accept: one value for an exact condition, the language of the pattern   *)
(* for a regular expression, nothing for a pattern that does not compile.  *)
(***************************************************************************)
EXTENDS Integers, Sequences, FiniteSets

CONSTANTS
    NoConfig,   \* a nil *RouteConfig
    Malformed   \* a text the JSON or YAML decoder rejects

-----------------------------------------------------------------------------
(* Parsing.  A text is known by what detectFormat looks at and by what its  *)
(* decoder makes of it.                                                     *)

(* Broken: an opening bracket is not taken for JSON. *)
detectFormat_NoBracket(text) ==
    IF text.first \in {"{", "quote"} THEN "json"
    ELSE IF \/ text.newline
            \/ text.colonSpace /\ ~text.scheme /\ text.keyed /\ ~text.isHostPort
         THEN "yaml" ELSE "simple"

(* detectFormat: JSON by its first character, YAML by a line break or by    *)
(* "key: value" on a line that is neither a URL nor host: port.             *)
detectFormat(text) ==
    IF text.first \in {"{", "[", "quote"} THEN "json"
    ELSE IF \/ text.newline
            \/ text.colonSpace /\ ~text.scheme /\ text.keyed /\ ~text.isHostPort
         THEN "yaml" ELSE "simple"

(* A route that is only an upstream address. *)
Simple(address) ==
    [upstream |-> address, rules |-> <<>>, algorithm |-> "", enabled |-> "unset",
     ttl |-> 0, updatedAt |-> 0, version |-> 0]

GetEffectiveWeight(u) == IF u.weight <= 0 THEN 1 ELSE u.weight

(* The orders sort.Slice may leave rules in: by falling priority, rules of  *)
(* equal priority in any order.                                             *)
SortedBy(s, Before(_, _)) ==
    {t \in {[i \in DOMAIN s |-> s[p[i]]] :
               p \in {f \in [DOMAIN s -> DOMAIN s] :
                         \A i, j \in DOMAIN s : i # j => f[i] # f[j]}} :
        \A i, j \in DOMAIN t : i < j => ~Before(t[j], t[i])}

(* Broken: sorted with the lowest priority first. *)
SortedRules_LowestFirst(rules) ==
    SortedBy(rules, LAMBDA x, y : x.priority < y.priority)

SortedRules(rules) == SortedBy(rules, LAMBDA x, y : x.priority > y.priority)

(* Weights that are not positive become 1. *)
DefaultWeights(rule) ==
    [rule EXCEPT !.upstreams =
        [i \in DOMAIN rule.upstreams |->
            [rule.upstreams[i] EXCEPT !.weight = GetEffectiveWeight(rule.upstreams[i])]]]

normalizeConfig(c) ==
    {[c EXCEPT !.rules = [i \in DOMAIN rules |-> DefaultWeights(rules[i])]] :
        rules \in SortedRules(c.rules)}

(* The outcomes of ParseRouteConfigWithFormat: a configuration and an error *)
(* flag.  A JSON string is an upstream address; a structured text must name *)
(* an upstream or a rule.                                                   *)
Parsed(c) == [config |-> c, err |-> FALSE]

JSONString(text) == text.first = "quote" /\ text.json # Malformed

ParseRouteConfigWithFormat(text, format) ==
    LET decoded == IF format = "json" THEN text.json ELSE text.yaml
        valid   == decoded # Malformed /\ (decoded.upstream # "" \/ decoded.rules # <<>>)
    IN IF format \notin {"json", "yaml"} THEN {Parsed(Simple(text.trimmed))}
       ELSE IF format = "json" /\ JSONString(text) THEN {Parsed(Simple(text.json))}
       ELSE IF valid THEN {Parsed(c) : c \in normalizeConfig(decoded)}
       ELSE {[config |-> NoConfig, err |-> TRUE]}

(* ParseRouteConfig, which every data source uses: a blank text is no route *)
(* and no error, and the format is detected.                                *)
ParseRouteConfig(text) ==
    IF text.blank THEN {Parsed(NoConfig)}
                  ELSE ParseRouteConfigWithFormat(text, detectFormat(text))

-----------------------------------------------------------------------------
(* Matching.  A request gives placeholders values: the replacer's where it  *)
(* knows the placeholder, else the request's own for the common ones, else  *)
(* the empty text.                                                          *)
resolvePlaceholder(request, p) ==
    IF p \in DOMAIN request.repl THEN request.repl[p]
    ELSE IF p \in DOMAIN request.raw THEN request.raw[p] ELSE ""

(* All conditions hold; a rule without conditions always matches. *)
matchConditions(request, match) ==
    \A p \in DOMAIN match : resolvePlaceholder(request, p) \in match[p]

(* The outcome of MatchResult: the candidates and the algorithm. *)
Or(x, default) == IF x = "" THEN default ELSE x

(* A nil result: no upstreams, and not even the default algorithm. *)
NoMatch == [upstreams |-> <<>>, algorithm |-> ""]

DefaultAlgorithm(c) == Or(c.algorithm, "weighted_random")

(* Simple mode when there are no rules, else the first rule that matches. *)
MatchResult(request, c) ==
    LET matching == {i \in DOMAIN c.rules :
                        matchConditions(request, c.rules[i].match)}
    IN IF c.upstream # "" /\ c.rules = <<>>
       THEN [upstreams |-> <<[address |-> c.upstream, weight |-> 1]>>,
             algorithm |-> DefaultAlgorithm(c)]
       ELSE IF matching = {} THEN NoMatch
       ELSE LET i == CHOOSE i \in matching : \A j \in matching : i <= j
            IN [upstreams |-> c.rules[i].upstreams,
                algorithm |-> Or(c.rules[i].algorithm, DefaultAlgorithm(c))]
=============================================================================

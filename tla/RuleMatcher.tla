---------------------------- MODULE RuleMatcher -----------------------------
(***************************************************************************)
(* The way of a route from its text to a decision: a data source parses    *)
(* the text when it loads or refreshes the key, keeping the old route when *)
(* the new text does not parse, and requests are matched against whatever  *)
(* route is cached.                                                        *)
(***************************************************************************)
EXTENDS RouteConfig

CONSTANTS
    Text,       \* the texts somebody may store under the key
    Request,    \* the requests
    NoText,     \* nothing stored yet
    MaxLoads    \* bound: texts loaded per behaviour

ASSUME MatcherAssumption == MaxLoads \in Nat /\ NoText \notin Text

(* What the decoders deliver: configurations with a list of rules, each with *)
(* a list of upstreams.                                                      *)
IsRule(r) ==
    /\ r = [match |-> r.match, upstreams |-> r.upstreams,
            priority |-> r.priority, algorithm |-> r.algorithm]
    /\ r.priority \in Int
    /\ r.upstreams = [i \in 1..Len(r.upstreams) |->
                         [address |-> r.upstreams[i].address,
                          weight  |-> r.upstreams[i].weight]]

IsConfig(c) ==
    /\ c = [upstream |-> c.upstream, rules |-> c.rules, algorithm |-> c.algorithm,
            enabled |-> c.enabled, ttl |-> c.ttl, updatedAt |-> c.updatedAt,
            version |-> c.version]
    /\ Len(c.rules) \in Nat
    /\ c.rules = [i \in 1..Len(c.rules) |-> c.rules[i]]
    /\ \A i \in DOMAIN c.rules : IsRule(c.rules[i])

ASSUME TextAssumption ==
    \A text \in Text :
        /\ text.first \in {"{", "[", "quote", "other"}
        /\ text.first # "quote" =>
              \A c \in {text.json, text.yaml} : c = Malformed \/ IsConfig(c)

(* A string inside a JSON text is shorter than the text, so that no address  *)
(* it names is the text itself.                                              *)
ASSUME WholeAssumption ==
    \A text \in Text :
        /\ text.first = "quote" => text.json # text.trimmed
        /\ text.first \in {"{", "["} /\ text.json # Malformed =>
              /\ text.json.upstream # text.trimmed
              /\ \A i \in DOMAIN text.json.rules :
                    \A k \in DOMAIN text.json.rules[i].upstreams :
                        text.json.rules[i].upstreams[k].address # text.trimmed

VARIABLES
    config,     \* the cached route, or NoConfig
    source,     \* history: the text it was parsed from, or NoText
    request,    \* history: the last request matched
    result,     \* what MatchResult returned for it
    matched,    \* history: the route it was matched against
    loads       \* loads so far (bounds the behaviours)

vars == <<config, source, request, result, matched, loads>>

Init ==
    /\ config = NoConfig /\ source = NoText
    /\ request \in Request
    /\ result = NoMatch /\ matched = NoText
    /\ loads = 0

(* A data source loads the key: a text that does not parse, or is blank,    *)
(* leaves the route as it is.                                               *)
Load(text) ==
    /\ loads < MaxLoads
    /\ loads' = loads + 1
    /\ \E p \in ParseRouteConfig(text) :
          IF p.err \/ p.config = NoConfig
          THEN UNCHANGED <<config, source>>
          ELSE config' = p.config /\ source' = text
    /\ UNCHANGED <<request, result, matched>>

(* A request is matched against the cached route. *)
Match(r) ==
    /\ config # NoConfig
    /\ request' = r
    /\ result' = MatchResult(r, config)
    /\ matched' = source
    /\ UNCHANGED <<config, source, loads>>

Next == \/ \E text \in Text : Load(text)
        \/ \E r \in Request : Match(r)

Spec == Init /\ [][Next]_vars

-----------------------------------------------------------------------------
(* Properties *)

(* What a text in JSON or YAML says, as its author wrote it: no sorting, no *)
(* defaults.                                                                *)
Written(text) == IF text.first = "other" THEN text.yaml ELSE text.json

Structured(text) == text.first # "quote" /\ Written(text) # Malformed

(* "Higher priority rules are evaluated first": when rules of a structured  *)
(* route match, the answer comes from one with the highest priority among   *)
(* all matching rules of the text, in whatever order they were written, and *)
(* when none matches there is no answer.                                    *)
BestRuleMatches ==
    matched # NoText /\ Structured(matched) /\ Written(matched).rules # <<>> =>
        LET rules == Written(matched).rules
            fits  == {i \in DOMAIN rules : matchConditions(request, rules[i].match)}
            Addresses(us) == [i \in DOMAIN us |-> us[i].address]
        IN IF fits = {} THEN result = NoMatch
           ELSE \E i \in fits :
                   /\ \A j \in fits : rules[j].priority <= rules[i].priority
                   /\ result # NoMatch
                   /\ Addresses(result.upstreams) = Addresses(rules[i].upstreams)

(* "do NOT silently treat it as a simple upstream": a text that begins like *)
(* JSON is never used as an address itself.                                 *)
NoRawTextAsUpstream ==
    result # NoMatch /\ matched # NoText /\ matched.first # "other" =>
        \A i \in DOMAIN result.upstreams :
            result.upstreams[i].address # matched.trimmed
=============================================================================

------------------------- MODULE RuleMatcher_proofs -------------------------
(* Proofs about the way of a route from its text to a decision, for any     *)
(* texts, any number of rules and any requests.                             *)
EXTENDS RuleMatcher, FiniteSetTheorems, NaturalsInduction, WellFoundedInduction,
        TLAPS

(* A text without JSON's first character that says rules is long or keyed   *)
(* enough for detectFormat to take it for YAML.  It fails for rules on one  *)
(* line with the scheme of a URL among them, which the code takes for an    *)
(* address.                                                                 *)
RulesAreDetected ==
    \A text \in Text :
        text.first = "other" /\ text.yaml # Malformed /\ text.yaml.rules # <<>> =>
            detectFormat(text) = "yaml"

(* c is a route the text parses to. *)
ParsedFrom(c, text) ==
    /\ text \in Text /\ c # NoConfig
    /\ \E p \in ParseRouteConfig(text) : ~p.err /\ p.config = c

(* The inductive invariant: the cached route was parsed from its text, and  *)
(* the last result came from a route that was parsed from the text matched. *)
Inv ==
    /\ config # NoConfig => ParsedFrom(config, source)
    /\ matched # NoText =>
          \E p \in ParseRouteConfig(matched) :
             ParsedFrom(p.config, matched) /\ result = MatchResult(request, p.config)

Addresses(us) == [i \in DOMAIN us |-> us[i].address]

-----------------------------------------------------------------------------
(* Parsing.                                                                 *)

(* What ParseRouteConfig makes of a text. *)
LEMMA Outcomes ==
    ASSUME NEW text, NEW c, ParsedFrom(c, text)
    PROVE  \/ text.first = "other" /\ detectFormat(text) = "simple"
              /\ c = Simple(text.trimmed)
           \/ text.first = "quote" /\ text.json # Malformed /\ c = Simple(text.json)
           \/ text.first \in {"{", "["} /\ text.json # Malformed
              /\ c \in normalizeConfig(text.json)
           \/ text.first = "other" /\ detectFormat(text) = "yaml"
              /\ text.yaml # Malformed /\ c \in normalizeConfig(text.yaml)
<1>1. PICK p \in ParseRouteConfig(text) : ~p.err /\ p.config = c
  BY DEF ParsedFrom
<1>2. text.first \in {"{", "[", "quote", "other"} /\ text \in Text
  BY TextAssumption DEF ParsedFrom
<1>3. ~text.blank
  <2>1. CASE text.blank
    BY <1>1, <2>1 DEF ParseRouteConfig, Parsed, ParsedFrom
  <2>. QED  BY <2>1
<1>. DEFINE format == detectFormat(text)
<1>4. p \in ParseRouteConfigWithFormat(text, format)
  BY <1>1, <1>3 DEF ParseRouteConfig
<1>5. /\ text.first # "other" <=> format = "json"
      /\ format \in {"json", "yaml", "simple"}
  BY <1>2 DEF detectFormat
<1>. HIDE DEF format
<1>6. CASE format = "simple"
  <2>1. p = Parsed(Simple(text.trimmed))
    BY <1>4, <1>6 DEF ParseRouteConfigWithFormat
  <2>2. c = Simple(text.trimmed) /\ text.first = "other"
    BY <1>1, <1>2, <1>5, <1>6, <2>1 DEF Parsed
  <2>. QED  BY <1>6, <2>2 DEF format
<1>7. CASE format = "json" /\ JSONString(text)
  BY <1>1, <1>2, <1>4, <1>5, <1>7 DEF ParseRouteConfigWithFormat, Parsed, JSONString
<1>8. CASE format \in {"json", "yaml"} /\ ~(format = "json" /\ JSONString(text))
  <2>. DEFINE d == IF format = "json" THEN text.json ELSE text.yaml
              valid == d # Malformed /\ (d.upstream # "" \/ d.rules # <<>>)
  <2>0. p \in IF valid THEN {Parsed(x) : x \in normalizeConfig(d)}
                       ELSE {[config |-> NoConfig, err |-> TRUE]}
    BY <1>4, <1>8 DEF ParseRouteConfigWithFormat
  <2>1. d # Malformed /\ p \in {Parsed(x) : x \in normalizeConfig(d)}
    <3>1. p # [config |-> NoConfig, err |-> TRUE]
      BY <1>1
    <3>. QED  BY <2>0, <3>1
  <2>2. c \in normalizeConfig(d)
    BY <1>1, <2>1 DEF Parsed
  <2>3. CASE format = "json"
    BY <1>2, <1>5, <1>8, <2>1, <2>2, <2>3 DEF JSONString
  <2>4. CASE format = "yaml"
    BY <1>2, <1>5, <1>8, <2>1, <2>2, <2>4 DEF format
  <2>. QED  BY <1>8, <2>3, <2>4
<1>. QED  BY <1>5, <1>6, <1>7, <1>8

(* Default weights change nothing but weights. *)
LEMMA KeepsRule ==
    ASSUME NEW r, IsRule(r)
    PROVE  /\ DefaultWeights(r).match = r.match
           /\ Addresses(DefaultWeights(r).upstreams) = Addresses(r.upstreams)
<1>. DEFINE us == [i \in DOMAIN r.upstreams |->
                      [r.upstreams[i] EXCEPT !.weight = GetEffectiveWeight(r.upstreams[i])]]
<1>1. DefaultWeights(r).match = r.match /\ DefaultWeights(r).upstreams = us
  BY DEF DefaultWeights, IsRule
<1>2. ASSUME NEW i \in DOMAIN r.upstreams
      PROVE  us[i].address = r.upstreams[i].address
  <2>1. r.upstreams[i] = [address |-> r.upstreams[i].address,
                          weight  |-> r.upstreams[i].weight]
    BY DEF IsRule
  <2>. QED  BY <2>1
<1>. QED  BY <1>1, <1>2 DEF Addresses

(* normalizeConfig permutes the rules into falling priority. *)
Permutes(f, c, d) ==
    /\ f \in [DOMAIN d.rules -> DOMAIN d.rules]
    /\ \A i, j \in DOMAIN d.rules : i # j => f[i] # f[j]
    /\ \A i \in DOMAIN d.rules :
          /\ c.rules[i].match = d.rules[f[i]].match
          /\ Addresses(c.rules[i].upstreams) = Addresses(d.rules[f[i]].upstreams)
    /\ \A i, j \in DOMAIN d.rules :
          i < j => d.rules[f[j]].priority <= d.rules[f[i]].priority

LEMMA Normalized ==
    ASSUME NEW d, IsConfig(d), NEW c \in normalizeConfig(d)
    PROVE  /\ c.upstream = d.upstream
           /\ DOMAIN c.rules = DOMAIN d.rules
           /\ c.rules = <<>> <=> d.rules = <<>>
           /\ \E f : Permutes(f, c, d)
<1>. DEFINE s == d.rules
            Orders == {f \in [DOMAIN s -> DOMAIN s] :
                          \A i, j \in DOMAIN s : i # j => f[i] # f[j]}
<1>1. PICK rules \in SortedRules(s) :
          c = [d EXCEPT !.rules = [i \in DOMAIN rules |-> DefaultWeights(rules[i])]]
  BY DEF normalizeConfig
<1>2. PICK f \in Orders :
          /\ rules = [i \in DOMAIN s |-> s[f[i]]]
          /\ \A i, j \in DOMAIN rules : i < j => ~(rules[j].priority > rules[i].priority)
  BY DEF SortedRules, SortedBy
<1>3. c.upstream = d.upstream /\ c.rules = [i \in DOMAIN s |-> DefaultWeights(s[f[i]])]
  BY <1>1, <1>2 DEF IsConfig
<1>4. c.rules = <<>> <=> d.rules = <<>>
  <2>1. s = <<>> <=> DOMAIN s = {}
    BY DEF IsConfig
  <2>2. c.rules = <<>> <=> DOMAIN s = {}
    BY <1>3
  <2>. QED  BY <2>1, <2>2
<1>5. \A i \in DOMAIN s : f[i] \in DOMAIN s /\ IsRule(s[f[i]]) /\ s[f[i]].priority \in Int
  BY <1>2 DEF IsConfig, IsRule
<1>6. \A i \in DOMAIN s :
          /\ c.rules[i].match = s[f[i]].match
          /\ Addresses(c.rules[i].upstreams) = Addresses(s[f[i]].upstreams)
  BY <1>3, <1>5, KeepsRule
<1>7. \A i, j \in DOMAIN s : i < j => s[f[j]].priority <= s[f[i]].priority
  <2>. TAKE i, j \in DOMAIN s
  <2>1. rules[i] = s[f[i]] /\ rules[j] = s[f[j]] /\ DOMAIN rules = DOMAIN s
    BY <1>2
  <2>2. s[f[i]].priority \in Int /\ s[f[j]].priority \in Int
    BY <1>5
  <2>3. i < j => ~(s[f[j]].priority > s[f[i]].priority)
    BY <1>2, <2>1
  <2>. QED  BY <2>2, <2>3
<1>8. Permutes(f, c, d)
  BY <1>2, <1>6, <1>7 DEF Permutes
<1>. QED  BY <1>3, <1>4, <1>8

-----------------------------------------------------------------------------
(* Matching.                                                                *)

(* A non-empty set of naturals has a least member. *)
LEMMA LeastExists ==
    ASSUME NEW S \in SUBSET Nat, S # {}
    PROVE  \E i \in S : \A j \in S : i <= j
<1>1. PICK i \in S : \A j \in S : ~(<<j, i>> \in OpToRel(<, Nat))
  BY NatLessThanWellFounded, WFMin
<1>2. \A j \in S : j < i => <<j, i>> \in OpToRel(<, Nat)
  BY DEF OpToRel
<1>3. \A j \in S : ~(j < i)
  BY <1>1, <1>2, Zenon
<1>. QED  BY <1>3

(* A permutation leaves no rule out. *)
LEMMA Onto ==
    ASSUME NEW c, NEW d, IsConfig(d), NEW f, Permutes(f, c, d), NEW j \in DOMAIN d.rules
    PROVE  \E i \in DOMAIN d.rules : f[i] = j
<1>. DEFINE S == DOMAIN d.rules
<1>1. f \in [S -> S] /\ \A i, k \in S : i # k => f[i] # f[k]
  BY DEF Permutes
<1>2. IsFiniteSet(S)
  <2>1. S = 1..Len(d.rules) /\ Len(d.rules) \in Nat
    BY DEF IsConfig
  <2>. QED  BY <2>1, FS_Interval
<1>. HIDE DEF S
<1>3. f \in Injection(S, S)
  BY <1>1 DEF Injection, IsInjective
<1>4. f \in Surjection(S, S)
  BY <1>2, <1>3, FS_Injection
<1>. QED  BY <1>4 DEF Surjection, S

(* The best rule of d that fits the request decides. *)
Best(r, d, res) ==
    LET fits == {i \in DOMAIN d.rules : matchConditions(r, d.rules[i].match)}
    IN IF fits = {} THEN res = NoMatch
       ELSE \E i \in fits :
               /\ \A j \in fits : d.rules[j].priority <= d.rules[i].priority
               /\ res # NoMatch
               /\ Addresses(res.upstreams) = Addresses(d.rules[i].upstreams)

LEMMA FirstIsBest ==
    ASSUME NEW d, IsConfig(d), d.rules # <<>>, NEW c \in normalizeConfig(d), NEW r
    PROVE  Best(r, d, MatchResult(r, c))
<1>. DEFINE fits == {i \in DOMAIN d.rules : matchConditions(r, d.rules[i].match)}
            matching == {i \in DOMAIN c.rules : matchConditions(r, c.rules[i].match)}
            res == MatchResult(r, c)
            m == CHOOSE i \in matching : \A j \in matching : i <= j
<1>1. DOMAIN c.rules = DOMAIN d.rules /\ c.rules # <<>>
  BY Normalized
<1>2. PICK f : Permutes(f, c, d)
  BY Normalized
<1>3. \A i \in DOMAIN d.rules : /\ f[i] \in DOMAIN d.rules
                                /\ i \in matching <=> f[i] \in fits
  BY <1>1, <1>2 DEF Permutes
<1>4. CASE fits = {}
  <2>1. matching = {}
    BY <1>1, <1>3, <1>4
  <2>2. res = NoMatch
    BY <1>1, <2>1 DEF MatchResult
  <2>. QED  BY <1>4, <2>2 DEF Best
<1>5. CASE fits # {}
  <2>1. \A j \in fits : \E i \in matching : f[i] = j
    <3>. TAKE j \in fits
    <3>1. PICK i \in DOMAIN d.rules : f[i] = j
      BY <1>2, Onto
    <3>. QED  BY <1>3, <3>1
  <2>2. matching # {}
    BY <1>5, <2>1
  <2>3. matching \in SUBSET Nat
    BY <1>1 DEF IsConfig
  <2>4. m \in matching /\ \A j \in matching : m <= j
    <3>1. \E i \in matching : \A j \in matching : i <= j
      BY <2>2, <2>3, LeastExists
    <3>. QED  BY <3>1
  <2>5. res = [upstreams |-> c.rules[m].upstreams,
               algorithm |-> Or(c.rules[m].algorithm, DefaultAlgorithm(c))]
    BY <1>1, <2>2 DEF MatchResult
  <2>6. res # NoMatch
    <3>1. DefaultAlgorithm(c) # ""
      BY DEF Or, DefaultAlgorithm
    <3>2. Or(c.rules[m].algorithm, DefaultAlgorithm(c)) # ""
      BY <3>1 DEF Or
    <3>. HIDE DEF m, res
    <3>3. res.algorithm # ""
      BY <2>5, <3>2
    <3>4. NoMatch.algorithm = ""
      BY DEF NoMatch
    <3>. QED  BY <3>3, <3>4
  <2>. HIDE DEF m, res, matching, fits
  <2>7. m \in DOMAIN d.rules /\ f[m] \in fits
    BY <1>1, <1>3, <2>4 DEF matching
  <2>8. Addresses(res.upstreams) = Addresses(d.rules[f[m]].upstreams)
    BY <1>2, <2>5, <2>7 DEF Permutes
  <2>9. ASSUME NEW j \in fits
        PROVE  d.rules[j].priority <= d.rules[f[m]].priority
    <3>1. PICK i \in matching : f[i] = j
      BY <2>1
    <3>2. i \in DOMAIN d.rules /\ i \in Nat /\ m \in Nat /\ m <= i
      BY <1>1, <2>3, <2>4 DEF matching
    <3>3. CASE i = m
      <4>1. d.rules[j].priority \in Int
        BY DEF fits, IsConfig, IsRule
      <4>. QED  BY <3>1, <3>3, <4>1
    <3>4. CASE m < i
      BY <1>2, <2>7, <3>1, <3>2, <3>4 DEF Permutes
    <3>. QED  BY <3>2, <3>3, <3>4
  <2>. QED  BY <1>5, <2>6, <2>7, <2>8, <2>9 DEF Best, fits, res
<1>. QED  BY <1>4, <1>5

-----------------------------------------------------------------------------
LEMMA InvHolds == Spec => []Inv
<1>1. Init => Inv
  BY DEF Init, Inv
<1>2. Inv /\ [Next]_vars => Inv'
  <2>. SUFFICES ASSUME Inv, [Next]_vars PROVE Inv'
    OBVIOUS
  <2>1. CASE UNCHANGED vars
    BY <2>1 DEF vars, Inv
  <2>2. ASSUME NEW text \in Text, Load(text)
        PROVE  Inv'
    <3>1. PICK p \in ParseRouteConfig(text) :
              IF p.err \/ p.config = NoConfig
              THEN UNCHANGED <<config, source>>
              ELSE config' = p.config /\ source' = text
      BY <2>2 DEF Load
    <3>2. UNCHANGED <<request, result, matched>>
      BY <2>2 DEF Load
    <3>3. (config # NoConfig => ParsedFrom(config, source))'
      BY <3>1 DEF Inv, ParsedFrom
    <3>. QED  BY <3>2, <3>3 DEF Inv
  <2>3. ASSUME NEW r \in Request, Match(r)
        PROVE  Inv'
    <3>1. ParsedFrom(config, source) /\ UNCHANGED <<config, source>>
      BY <2>3 DEF Match, Inv
    <3>2. PICK p \in ParseRouteConfig(source) : ~p.err /\ p.config = config
      BY <3>1 DEF ParsedFrom
    <3>3. matched' = source /\ result' = MatchResult(r, config) /\ request' = r
      BY <2>3 DEF Match
    <3>. QED  BY <3>1, <3>2, <3>3 DEF Inv
  <2>. QED  BY <2>1, <2>2, <2>3 DEF Next
<1>. QED  BY <1>1, <1>2, PTL DEF Spec

(* For any texts, rules and requests: of the rules of a structured route    *)
(* that match, one of the highest priority decides, provided detectFormat   *)
(* recognises texts with rules for what they are.                           *)
THEOREM BestRules == RulesAreDetected => (Spec => []BestRuleMatches)
<1>. SUFFICES ASSUME RulesAreDetected
              PROVE  Spec => []BestRuleMatches
  OBVIOUS
<1>1. Inv => BestRuleMatches
  <2>. SUFFICES ASSUME Inv, matched # NoText, Structured(matched),
                       Written(matched).rules # <<>>
                PROVE  Best(request, Written(matched), result)
    BY DEF BestRuleMatches, Best, Addresses
  <2>1. PICK p \in ParseRouteConfig(matched) :
            ParsedFrom(p.config, matched) /\ result = MatchResult(request, p.config)
    BY DEF Inv
  <2>2. matched \in Text /\ IsConfig(Written(matched))
    BY <2>1, TextAssumption DEF ParsedFrom, Structured, Written
  <2>3. p.config \in normalizeConfig(Written(matched))
    <3>1. CASE matched.first = "other"
      <4>1. detectFormat(matched) = "yaml"
        BY <2>2, <3>1 DEF RulesAreDetected, Structured, Written
      <4>. QED  BY <2>1, <3>1, <4>1, Outcomes DEF Written
    <3>2. CASE matched.first # "other"
      BY <2>1, <3>2, Outcomes DEF Written, Structured
    <3>. QED  BY <3>1, <3>2
  <2>. QED  BY <2>1, <2>2, <2>3, FirstIsBest
<1>. QED  BY <1>1, InvHolds, PTL

-----------------------------------------------------------------------------
(* For any texts and requests: a text that begins like JSON is never used   *)
(* as an address itself, whether or not it can be decoded.                  *)
THEOREM NoRawText == Spec => []NoRawTextAsUpstream
<1>1. Inv => NoRawTextAsUpstream
  <2>. SUFFICES ASSUME Inv, result # NoMatch, matched # NoText, matched.first # "other",
                       NEW k \in DOMAIN result.upstreams
                PROVE  result.upstreams[k].address # matched.trimmed
    BY DEF NoRawTextAsUpstream
  <2>1. PICK p \in ParseRouteConfig(matched) :
            ParsedFrom(p.config, matched) /\ result = MatchResult(request, p.config)
    BY DEF Inv
  <2>. DEFINE c == p.config
              matching == {i \in DOMAIN c.rules : matchConditions(request, c.rules[i].match)}
              m == CHOOSE i \in matching : \A j \in matching : i <= j
  <2>2. matched \in Text
    BY <2>1 DEF ParsedFrom
  <2>. HIDE DEF c
  <2>3. CASE c.upstream # "" /\ c.rules = <<>>
    <3>1. result.upstreams = <<[address |-> c.upstream, weight |-> 1]>>
      BY <2>1, <2>3 DEF MatchResult, c
    <3>2. result.upstreams[k].address = c.upstream
      BY <3>1
    <3>3. c.upstream # matched.trimmed
      <4>1. CASE matched.first = "quote"
        <5>1. c = Simple(matched.json)
          BY <2>1, <4>1, Outcomes DEF c
        <5>. QED  BY <2>2, <4>1, <5>1, WholeAssumption DEF Simple
      <4>2. CASE matched.first # "quote"
        <5>1. matched.first \in {"{", "["} /\ matched.json # Malformed
              /\ c \in normalizeConfig(matched.json)
          BY <2>1, <4>2, Outcomes DEF c
        <5>2. IsConfig(matched.json)
          BY <2>2, <4>2, <5>1, TextAssumption
        <5>3. c.upstream = matched.json.upstream
          BY <5>1, <5>2, Normalized
        <5>. QED  BY <2>2, <5>1, <5>3, WholeAssumption
      <4>. QED  BY <4>1, <4>2
    <3>. QED  BY <3>2, <3>3
  <2>4. CASE ~(c.upstream # "" /\ c.rules = <<>>)
    <3>1. matching # {} /\ result.upstreams = c.rules[m].upstreams
      BY <2>1, <2>4 DEF MatchResult, c
    <3>2. /\ matched.first \in {"{", "["} /\ matched.json # Malformed
          /\ c \in normalizeConfig(matched.json)
      <4>1. CASE matched.first = "quote"
        <5>1. c = Simple(matched.json)
          BY <2>1, <4>1, Outcomes DEF c
        <5>2. DOMAIN c.rules = {}
          <6>1. c.rules = <<>>
            BY <5>1 DEF Simple
          <6>. QED  BY <6>1
        <5>. QED  BY <3>1, <5>2
      <4>. QED  BY <2>1, <4>1, Outcomes DEF c
    <3>3. IsConfig(matched.json)
      BY <2>2, <3>2, TextAssumption
    <3>4. PICK f : Permutes(f, c, matched.json)
      BY <3>2, <3>3, Normalized
    <3>5. DOMAIN c.rules = DOMAIN matched.json.rules
      BY <3>2, <3>3, Normalized
    <3>6. m \in matching
      <4>1. matching \in SUBSET Nat
        BY <3>3, <3>5 DEF IsConfig
      <4>2. \E i \in matching : \A j \in matching : i <= j
        BY <3>1, <4>1, LeastExists
      <4>. QED  BY <4>2
    <3>. HIDE DEF m
    <3>7. /\ f[m] \in DOMAIN matched.json.rules
          /\ Addresses(c.rules[m].upstreams) = Addresses(matched.json.rules[f[m]].upstreams)
      BY <3>4, <3>5, <3>6 DEF Permutes
    <3>8. /\ k \in DOMAIN matched.json.rules[f[m]].upstreams
          /\ result.upstreams[k].address = matched.json.rules[f[m]].upstreams[k].address
      BY <3>1, <3>7 DEF Addresses
    <3>. QED  BY <2>2, <3>2, <3>7, <3>8, WholeAssumption
  <2>. QED  BY <2>3, <2>4
<1>. QED  BY <1>1, InvHolds, PTL
=============================================================================

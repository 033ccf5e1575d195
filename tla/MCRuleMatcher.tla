--------------------------- MODULE MCRuleMatcher ----------------------------
(* A small instance of RuleMatcher: texts of every kind detectFormat tells  *)
(* apart, among them routes whose rules are written out of order.           *)
EXTENDS RuleMatcher

Us(a, w) == <<[address |-> a, weight |-> w]>>

Rule(match, us, priority) ==
    [match |-> match, upstreams |-> us, priority |-> priority, algorithm |-> ""]

Plain == [blank |-> FALSE, first |-> "other", newline |-> FALSE,
          colonSpace |-> FALSE, scheme |-> FALSE, keyed |-> TRUE,
          isHostPort |-> FALSE, trimmed |-> "text", json |-> Malformed,
          yaml |-> Malformed]

Rules == {<<Rule(<<>>, Us("any", 0), 0),
            Rule([v |-> {"v2"}], Us("two", 3), 5),
            Rule([v |-> {"v1", "v2"}, m |-> {"GET"}], Us("get", 0), 10)>>,
          <<Rule([v |-> {"v1"}], Us("one", -2), 3),
            Rule([m |-> {""}], Us("bad", 1), 3)>>,
          <<>>}

Routes == {[Simple(a) EXCEPT !.rules = rs] : a \in {"", "direct"}, rs \in Rules}

MCText ==
    {Plain, [Plain EXCEPT !.blank = TRUE], [Plain EXCEPT !.isHostPort = TRUE,
                                                         !.colonSpace = TRUE]}
    \cup {[Plain EXCEPT !.first = "quote", !.json = j] : j \in {Malformed, "quoted", ""}}
    \cup {[Plain EXCEPT !.first = f, !.json = Malformed] : f \in {"{", "["}}
    \cup {[Plain EXCEPT !.first = "{", !.json = c] : c \in Routes}
    \cup {[Plain EXCEPT !.newline = n, !.colonSpace = ~n, !.yaml = c] :
             n \in BOOLEAN, c \in Routes \cup {Malformed}}

MCRequest ==
    {[repl |-> [v |-> x], raw |-> [m |-> y]] : x \in {"v1", "v2", ""},
                                               y \in {"GET", "PUT"}}
    \cup {[repl |-> <<>>, raw |-> [m |-> "GET"]]}
=============================================================================

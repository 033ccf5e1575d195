\* Every text, then another, matched by every request in between.
SPECIFICATION Spec
CONSTANTS
    NoConfig = NoConfig
    Malformed = Malformed
    NoText = NoText
    Text <- MCText
    Request <- MCRequest
    MaxLoads = 2
INVARIANTS BestRuleMatches NoRawTextAsUpstream
CHECK_DEADLOCK FALSE

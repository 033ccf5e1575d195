\* Two requests and two keys; time for two refreshes after the first.
SPECIFICATION FairSpec
CONSTANTS
    k1 = k1  k2 = k2
    Kid = {k1, k2}
    NoKid = NoKid
    Malformed = Malformed
    NoTag = NoTag
    NoToken = NoToken
    Request = {r1, r2}
    NoRequest = NoRequest
    Token <- MCToken
    Config <- MCConfig
    Refresh = 1
    MaxTime = 3
INVARIANTS KeysAreAsAnswered PublishedKeyIsFound
PROPERTIES RefreshRate RequestsEnd

----------------------------- MODULE GatewayJWT -----------------------------
(***************************************************************************)
(* gateway_jwt.go: a handler that lets requests with a valid token pass,   *)
(* and the cache of the public keys tokens are verified with (jwksCache).  *)
(* The keys are fetched again when a token names a key the cache does not  *)
(* have, by one request at a time and not more often than Refresh allows.  *)
(*                                                                         *)
(* A document of the endpoint is the set of the key ids it has, or         *)
(* Malformed if parseJWKSKeysByKID rejects it (one key it cannot read is   *)
(* enough).  A key is its id.  The validators ETag and Last-Modified are   *)
(* one tag, which tells documents apart.  A token is what ServeHTTP tells  *)
(* apart: its key id, who signed it, and what else is wrong with it.       *)
(***************************************************************************)
EXTENDS Integers, FiniteSets

CONSTANTS
    Request,    \* goroutines serving requests
    NoRequest,
    Kid,        \* the key ids
    NoKid,      \* a token without the header kid
    Malformed,
    NoTag,      \* an answer without validators
    Token,      \* the tokens considered
    NoToken,
    Config,     \* the configurations of the handler considered
    Refresh,    \* JWKSRefreshInterval
    MaxTime     \* bound on the clock

Document == {Malformed} \cup SUBSET Kid

Usable(d) == d # Malformed /\ d # {}

(* What may be wrong with a token: it does not parse or its algorithm is    *)
(* not allowed; it is not valid at this time; issuer or audience are others *)
(* than configured; a claim is missing, or leaves a placeholder in a key.   *)
Defect == {"form", "time", "issuer", "audience", "claim"}

Source == {"allowed", "other"}          \* by RemoteAddr
Cert   == {"none", "verified", "listed"}

ASSUME RequestAssumption == NoRequest \notin Request
ASSUME KidAssumption ==
    /\ IsFiniteSet(Kid) /\ NoKid \notin Kid
    /\ \A d \in SUBSET Kid : d # Malformed
    /\ \A d \in Document : d # NoTag
ASSUME TokenAssumption ==
    /\ NoToken \notin Token
    /\ Token \subseteq [kid : Kid \cup {NoKid}, signer : Kid, defects : SUBSET Defect]
ASSUME ConfigAssumption ==
    Config \subseteq [sources : BOOLEAN, mtls : {"off", "verified", "listed"},
                      optional : BOOLEAN,
                      checked : SUBSET {"issuer", "audience"}]
ASSUME TimeAssumption == Refresh \in Nat \ {0} /\ MaxTime \in Nat \ {0}

VARIABLES
    conf,           \* the configuration of this handler
    clock,
    doc,            \* what the endpoint publishes
    since,          \* since[k]: k has been published since, or Never
    keysByKID, etag, lastFetched, nextRefreshAt,    \* jwksCache
    refreshMu,      \* who holds the mutex
    pc,             \* per request: its next step, or how it was answered
    token, now,     \* per request: locals
    answer,         \* per request: the endpoint's answer
    began,          \* history, per request: when it began
    confirmed       \* history: the document the last successful refresh
                    \* was answered with, or told not to have changed

cache == <<keysByKID, etag, lastFetched, nextRefreshAt, confirmed>>
local == <<token, now, answer, began>>
vars == <<conf, clock, doc, since, cache, refreshMu, pc, local>>

ZeroTime == 0
Never == -1
NoAnswer == [status |-> "none", doc |-> {}]

Returned == {"forbidden", "unauthorized", "passed", "routed"}
Labels == {"idle", "lookup", "lock", "fetch", "store", "again"}
              \cup Returned

TypeOK ==
    /\ conf \in Config
    /\ clock \in 1..MaxTime
    /\ doc \in Document
    /\ since \in [Kid -> 0..MaxTime \cup {Never}]
    /\ keysByKID \in SUBSET Kid
    /\ etag \in {NoTag} \cup Document
    /\ lastFetched \in 0..MaxTime
    /\ nextRefreshAt \in 0..(MaxTime + Refresh)
    /\ refreshMu \in Request \cup {NoRequest}
    /\ pc \in [Request -> Labels]
    /\ token \in [Request -> {NoToken} \cup Token]
    /\ now \in [Request -> 0..MaxTime]
    /\ answer \in [Request -> [status : {"none", "200", "304"}, doc : Document]]
    /\ began \in [Request -> 0..MaxTime]
    /\ confirmed \in Document

Init ==
    /\ conf \in Config
    /\ clock = 1
    /\ doc \in Document
    /\ since = [k \in Kid |-> IF doc # Malformed /\ k \in doc THEN 0 ELSE Never]
    /\ keysByKID = {} /\ etag = NoTag
    /\ lastFetched = ZeroTime /\ nextRefreshAt = ZeroTime
    /\ refreshMu = NoRequest
    /\ pc = [r \in Request |-> "idle"]
    /\ token = [r \in Request |-> NoToken]
    /\ now = [r \in Request |-> ZeroTime]
    /\ answer = [r \in Request |-> NoAnswer]
    /\ began = [r \in Request |-> ZeroTime]
    /\ confirmed = {}

-----------------------------------------------------------------------------
(* The endpoint and the clock *)

Publish(d) ==
    /\ d # doc
    /\ doc' = d
    /\ since' = [k \in Kid |-> IF d = Malformed \/ k \notin d THEN Never
                               ELSE IF since[k] # Never THEN since[k] ELSE clock]
    /\ UNCHANGED <<conf, clock, cache, refreshMu, pc, local>>

Tick == /\ clock < MaxTime
        /\ clock' = clock + 1
        /\ UNCHANGED <<conf, doc, since, cache, refreshMu, pc, local>>

-----------------------------------------------------------------------------
(* Refresh *)

(* An answer to a refresh that began at time t is stored. *)
Stored(d, t) ==
    /\ keysByKID' = d
    /\ etag' \in {d, NoTag}
    /\ lastFetched' = t
    /\ nextRefreshAt' = t + Refresh
    /\ confirmed' = d

(* Provision refreshes once; its error is the end of the module. *)
Provision ==
    /\ keysByKID = {} /\ Usable(doc)
    /\ Stored(doc, clock)
    /\ UNCHANGED <<conf, clock, doc, since, refreshMu, pc, local>>

(* Broken: a refresh is due when the interval is about to end. *)
shouldRefresh_Inclusive(t) == nextRefreshAt = ZeroTime \/ t >= nextRefreshAt

shouldRefresh(t) == nextRefreshAt = ZeroTime \/ t > nextRefreshAt

Goto(r, label) == pc' = [pc EXCEPT ![r] = label]

(* The request is answered; the locals of its goroutine are gone. *)
Answer(r, how) ==
    /\ how \in Returned
    /\ Goto(r, how)
    /\ token' = [token EXCEPT ![r] = NoToken]
    /\ now' = [now EXCEPT ![r] = ZeroTime]
    /\ began' = [began EXCEPT ![r] = ZeroTime]
    /\ answer' = [answer EXCEPT ![r] = NoAnswer]

(* Take refreshMu and see whether a refresh is due; if not, release it. *)
RefreshLock(r) ==
    /\ pc[r] = "lock" /\ refreshMu = NoRequest
    /\ IF shouldRefresh(clock)
       THEN /\ refreshMu' = r /\ Goto(r, "fetch")
            /\ now' = [now EXCEPT ![r] = clock]
       ELSE UNCHANGED <<refreshMu, now>> /\ Goto(r, "again")
    /\ UNCHANGED <<conf, clock, doc, since, cache, token, answer, began>>

(* The endpoint answers with its document, or that it still is the one the  *)
(* tag is of.                                                               *)
RefreshFetch(r) ==
    /\ pc[r] = "fetch"
    /\ \E status \in {"200", "304"} :
          /\ status = "304" => etag = doc
          /\ answer' = [answer EXCEPT ![r] = [status |-> status, doc |-> doc]]
    /\ Goto(r, "store")
    /\ UNCHANGED <<conf, clock, doc, since, cache, refreshMu, token, now, began>>

(* Broken: the mutex is released where the refresh succeeds only. *)
Reject_KeepsLock(r) == Answer(r, "unauthorized") /\ UNCHANGED <<cache, refreshMu>>

(* Broken: after a failed refresh the next one is put off too. *)
Reject_PutsOff(r) ==
    /\ Answer(r, "unauthorized")
    /\ refreshMu' = NoRequest
    /\ nextRefreshAt' = now[r] + Refresh
    /\ UNCHANGED <<keysByKID, etag, lastFetched, confirmed>>

(* Refresh returns an error, which ends the request; refreshMu is released  *)
(* and the cache is as before.                                              *)
Reject(r) ==
    /\ Answer(r, "unauthorized")
    /\ refreshMu' = NoRequest
    /\ UNCHANGED cache

(* No answer (timeout, cancelled request), or another status. *)
RefreshFails(r) ==
    /\ pc[r] = "fetch"
    /\ Reject(r)
    /\ UNCHANGED <<conf, clock, doc, since>>

(* Broken: the tag is remembered before the document has been parsed. *)
RefreshUseless_TagFirst(r) ==
    /\ pc[r] = "store" /\ answer[r].status = "200" /\ ~Usable(answer[r].doc)
    /\ Answer(r, "unauthorized")
    /\ refreshMu' = NoRequest
    /\ etag' = answer[r].doc
    /\ UNCHANGED <<conf, clock, doc, since, keysByKID, lastFetched, nextRefreshAt, confirmed>>

(* The document cannot be parsed, or has no keys. *)
RefreshUseless(r) ==
    /\ pc[r] = "store" /\ answer[r].status = "200" /\ ~Usable(answer[r].doc)
    /\ Reject(r)
    /\ UNCHANGED <<conf, clock, doc, since>>

(* The document has not been modified, or its keys replace those cached. *)
RefreshStore(r) ==
    LET d == answer[r].doc IN
    /\ pc[r] = "store"
    /\ \/ /\ answer[r].status = "304"
          /\ lastFetched' = now[r]
          /\ nextRefreshAt' = now[r] + Refresh
          /\ confirmed' = d
          /\ UNCHANGED <<keysByKID, etag>>
       \/ answer[r].status = "200" /\ Usable(d) /\ Stored(d, now[r])
    /\ refreshMu' = NoRequest
    /\ now' = [now EXCEPT ![r] = ZeroTime]
    /\ answer' = [answer EXCEPT ![r] = NoAnswer]
    /\ Goto(r, "again")
    /\ UNCHANGED <<conf, clock, doc, since, token, began>>

-----------------------------------------------------------------------------
(* ServeHTTP and KeyForToken *)

(* The source of a request is not allowed, or its client certificate is     *)
(* missing or not one of those listed.                                      *)
Forbidden(source, cert) ==
    \/ conf.sources /\ source # "allowed"
    \/ conf.mtls # "off" /\ cert = "none"
    \/ conf.mtls = "listed" /\ cert # "listed"

(* A request without a token, or with another prefix before it. *)
ServeMissing(r, source, cert) ==
    /\ pc[r] = "idle" /\ keysByKID # {}
    /\ Answer(r, CASE Forbidden(source, cert) -> "forbidden"
                   [] conf.optional           -> "passed"
                   [] OTHER                   -> "unauthorized")
    /\ UNCHANGED <<conf, clock, doc, since, cache, refreshMu>>

(* A request with the token t, which is parsed before its key is sought. *)
ServeHTTP(r, t, source, cert) ==
    /\ pc[r] = "idle" /\ keysByKID # {}
    /\ \/ Forbidden(source, cert) /\ Answer(r, "forbidden")
       \/ /\ ~Forbidden(source, cert) /\ "form" \in t.defects
          /\ Answer(r, "unauthorized")
       \/ /\ ~Forbidden(source, cert) /\ "form" \notin t.defects
          /\ token' = [token EXCEPT ![r] = t]
          /\ began' = [began EXCEPT ![r] = clock]
          /\ Goto(r, "lookup")
          /\ UNCHANGED <<now, answer>>
    /\ UNCHANGED <<conf, clock, doc, since, cache, refreshMu>>

(* The signature and the claims are checked with the key, and the request   *)
(* goes on with the routing keys in its variables.                          *)
Verify(r, key) ==
    LET t == token[r]
        ignored == {"issuer", "audience"} \ conf.checked IN
    Answer(r, IF t.signer = key /\ t.defects \subseteq ignored
              THEN "routed" ELSE "unauthorized")

(* KeyForToken: the key is cached, or a refresh is tried; without kid the   *)
(* key is the one there is, if there is one only.                           *)
KeyForToken(r) ==
    LET kid == token[r].kid IN
    /\ pc[r] = "lookup"
    /\ \/ kid \in keysByKID /\ Verify(r, kid)
       \/ kid \in Kid \ keysByKID /\ Goto(r, "lock") /\ UNCHANGED local
       \/ \E k \in keysByKID : kid = NoKid /\ keysByKID = {k} /\ Verify(r, k)
       \/ kid = NoKid /\ Cardinality(keysByKID) # 1 /\ Answer(r, "unauthorized")
    /\ UNCHANGED <<conf, clock, doc, since, cache, refreshMu>>

(* After the refresh, whoever made it. *)
KeyAgain(r) ==
    LET kid == token[r].kid IN
    /\ pc[r] = "again"
    /\ \/ kid \in keysByKID /\ Verify(r, kid)
       \/ kid \notin keysByKID /\ Answer(r, "unauthorized")
    /\ UNCHANGED <<conf, clock, doc, since, cache, refreshMu>>

(* The handler has returned, and the next request is served. *)
Return(r) ==
    /\ pc[r] \in Returned
    /\ Goto(r, "idle")
    /\ UNCHANGED <<conf, clock, doc, since, cache, refreshMu, local>>

-----------------------------------------------------------------------------
Step(r) == \/ KeyForToken(r) \/ RefreshFetch(r) \/ RefreshFails(r)
           \/ RefreshStore(r) \/ RefreshUseless(r) \/ KeyAgain(r) \/ Return(r)

Serve(r) == \E source \in Source, cert \in Cert :
                \/ ServeMissing(r, source, cert)
                \/ \E t \in Token : ServeHTTP(r, t, source, cert)

Next == \/ Provision \/ Tick
        \/ \E d \in Document : Publish(d)
        \/ \E r \in Request : Serve(r) \/ RefreshLock(r) \/ Step(r)

Spec == Init /\ [][Next]_vars

(* A request goes on (Timeout ends a fetch that hangs), and the mutex is    *)
(* fair: sync.Mutex lets nobody wait for ever.                              *)
FairSpec == Spec /\ \A r \in Request : WF_vars(Step(r)) /\ SF_vars(RefreshLock(r))

-----------------------------------------------------------------------------
(* Properties *)

(* The cached keys are those of the document that the endpoint had when it  *)
(* answered the last successful refresh, also where it only said that the   *)
(* document has not changed: the tag sent is always the tag of the keys.    *)
KeysAreAsAnswered == keysByKID = confirmed

(* Two successful refreshes are more than Refresh apart, however many       *)
(* requests ask for keys at the same time.                                  *)
RefreshRate ==
    [][lastFetched # ZeroTime /\ lastFetched' # lastFetched
          => lastFetched' > lastFetched + Refresh]_vars

(* A key that has been published for longer than Refresh when a request     *)
(* begins is found by it, or its refresh fails: no such kid is "unknown".   *)
PublishedKeyIsFound ==
    \A r \in Request :
        pc[r] = "again" /\ token[r].kid \notin keysByKID =>
            \/ since[token[r].kid] = Never
            \/ since[token[r].kid] >= began[r] - Refresh

(* Every request is answered: no way out of a refresh keeps the mutex. *)
RequestsEnd == \A r \in Request : pc[r] # "idle" ~> pc[r] = "idle"
=============================================================================

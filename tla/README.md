# A TLA+ model of caddy-dynamic-routing

The plugin chooses the upstream of a proxied request from a *route* that
operators keep in an external store. This directory models the parts of it that
decide where a request goes, checks them with TLC on small instances, and proves
most of the safety properties with TLAPS for every size.

## The system

| part | state it keeps | operations | what makes it hard |
|---|---|---|---|
| route cache (`datasource/cache`) | LRU map, negative entries with a TTL, counters | Get, Set, SetNegative, Delete, Clear, Range | no method is atomic; request goroutines, the watcher and the admin API share it |
| data sources (`datasource/etcd`, `redis`, ...) | a route cache, a health flag, the last error, a connection | Provision, Get, a background goroutine that follows the store, Cleanup, AdminClearCache | fetches race with change notifications; lost notifications; backoff; shutdown |
| composite source (`datasource/composite`) | a result cache | Get in four modes, sequential or parallel | goroutines that outlive the call, answers out of order, deadlines |
| routes and rules (`datasource/types.go`, `matcher/matcher.go`) | none (parsed configurations) | ParseRouteConfig, MatchResult | guessing the format, priorities, defaults |
| selectors (`matcher/selector.go`, `getSelector`) | a bounded cache of selectors; per selector round robin counters, current weights, the hash ring | getSelector, Select with nine algorithms | shared by all routes of an algorithm; a selector may be made twice, or evicted with its counters; the ring has no lock |
| selection policy (`plugin.go`) | index of the pool by address | Select | unlocked index; two attempts, a dozen early returns, one record each |
| dynamic upstreams (`dynamic_upstreams.go`) | pool per key with its age | GetUpstreams | singleflight, stale answers, cancelled leaders |
| JWT gateway (`gateway_jwt.go`) | the public keys by id, their validators, the time of the next refresh | ServeHTTP, KeyForToken, Refresh | refresh storms, one mutex with many ways out, conditional requests |
| event bus, admin API, metrics, tracing, extractor, Caddyfile | handlers, registries, counters | publish, list, clear, count | (see *What is not modelled*) |

A request enters `DynamicSelection.Select`, which extracts a key, asks its data
source (`Get`), matches the request against the rules (`MatchResult`), keeps the
candidates that are in the proxy's pool and available, and lets an
`UpstreamSelector` choose. A data source answers from its `RouteCache`; on a miss
one of the requests fetches the key (singleflight) while a background goroutine
applies the store's changes to the same cache. `CompositeSource` combines several
data sources; `DynamicUpstreams` turns a route into the proxy's pool. In front of the
proxy `GatewayJWT` may verify a token and leave routing keys in variables, from which
the selection policy extracts its key.

## Modules

| module | models | state and actions |
|---|---|---|
| `BoundedCache` | what the sources rely on in the cache | `val`, `hidden`; primitive updates |
| `RouteCache` | `cache.go` | one action per call on the LRU map, the `sync.Map` or a counter |
| `Store`, `Backend` | the external store and `ParseRouteConfig`'s three outcomes; `Backend` adds the history the etcd properties need | `store`, `lastGood` |
| `EtcdSource` | `etcd.go` | the Get of each reader (`GetCache` ... `GetReturn`), the watcher (`WatchLoop`, `WatchCall`, `WatchEvent`, `WatchFail`, `WatchRetry`, `WatchExit`), `Provision`, `Cleanup`, `AdminClearCache` |
| `ReadThrough` | what the next seven have in common | the steps of a Get (`GetCache` ... `GetFill`), a refresh from a complete answer (`BeginSweep`, `SweepApply`, `SweepBegin`, `SweepDelete`, `SweepEnd`), shutdown |
| `RedisSource` | `redis.go` | `Provision`, `subscribeLoop`, `Subscribed`, `SubscribeFails`, `handleMessage`, `refreshKey`, `Cleanup` |
| `ConsulSource` | `consul.go` | `Provision`, `watchLoop`, `WatchHead`, `WatchAnswer`, `WatchTimeout`, `WatchFails`, `WatchApply`, `Cleanup` |
| `HttpSource` | `http.go` | `Provision`, `refreshLoop`, `RefreshFetch`, `RefreshApply`, `doHealthCheck`, `Cleanup` |
| `SqlSource` | `sql.go` | `Provision`, `initIncrementalCursor`, `FullQuery`, `refreshFull`, `IncrementalQuery`, `IncrementalRow`, `IncrementalEnd`, `RowsBreakOff`, `Cleanup` |
| `KubernetesSource` | `kubernetes.go`, one ConfigMap by name or by label | `Provision`, `WatchBegins`, `WatchEnds`, `handleWatchEvents`, `handleConfigMap`, `GetElsewhere`, `UpdateEnds`, `Cleanup` |
| `Goroutines` | goroutines that a source starts and forgets | `tasks`, a bag of records; `Start`, `Become`, `End` |
| `ZookeeperSource` | `zookeeper.go` | `Provision`, `ProvisionEnds`, `handleSessionEvents`, `watchChildren` (`ChildrenHead` ...), `watchNode` (`NodeGet`, `NodeApply`, `NodeEvent` ...), `Cleanup` |
| `FileSource` | `file.go`, a directory or one file | `Provision`, `ClearAll`, `watchLoop` (`WatchEvent`, `TimerFires`, `PollBegins` ...), a reload in steps (`LoadBegins`, `ReadFile`, `LoadStores`, `LoadDeletes` ...), `Cleanup` |
| `Sources` | any of these seven under the same requests and failures | their `Next`, chosen by `kind` |
| `GatewayJWT` | `gateway_jwt.go` | `ServeHTTP`, `ServeMissing`, `KeyForToken`, `KeyAgain`; `RefreshLock`, `RefreshFetch`, `RefreshFails`, `RefreshUseless`, `RefreshStore`; the endpoint's `Publish` |
| `RouteConfig` | `types.go`, `matcher.go` as operators | `detectFormat`, `ParseRouteConfig`, `normalizeConfig`, `MatchResult` |
| `RuleMatcher` | a route from its text to a decision | `Load`, `Match` |
| `HashRing` | the ring of `selector.go` as a function of a list | `NewConsistentHashRing`, `RingGet`, `Matches` |
| `UpstreamSelector` | `getSelector` and `selector.go` | `Begin` (`selectUpstream` and the look into the cache), `CreateSelector`, `Evict`, `Select`; the ring in `SelectCheck`, `SelectStore`, `SelectGet` |
| `DynamicSelection` | `plugin.go` | `Select`, `Extract`, `ReadHealth`, `GetConfig`, `NextCandidate`, `FindCheck` ... `FindChosen` |
| `CompositeSource` | `composite.go` | `GetCached`, `AskSource`; `Spawn` (the loop with `wg.Add` and `go`), `GoCall`, `GoSend`, `GoDone` (the deferred `wg.Done`), `CloseChannel` (`wg.Wait` and `close`); `Collect`, `CollectEnd`, `Finish` |
| `DynamicUpstreams` | `dynamic_upstreams.go` | `GetUpstreams`, `Do`, `Recheck`, `Fetch`, `FetchFails`, `Store` |

The theorems about a module `M` are in `M_proofs` (`EtcdSource`, `RouteCache`,
`GatewayJWT`, `RuleMatcher`, `UpstreamSelector` together with `HashRing`,
`DynamicSelection`, `CompositeSource`, `DynamicUpstreams`). `Range` of the cache is
`RangeKeys` in the model, since the library has a `Range`.

Each `MC*` module gives the constants of one of them small values. Definitions
whose comment begins with *Broken* are deliberate mistakes; the project's mutants
put them in the place of the real definition and TLC must object.

## What makes each part correct

* **Route cache.** Whatever the threads interleave, each step of a method is a step
  of the bounded map `BoundedCache` (`ImplementsBoundedCache`), which is all the
  sources rely on. `Get` looks at the negative entry and at the map in two steps,
  but the route it returns was what the key showed at some moment of that `Get`
  (`GetReturnsVisible`): a `Set` clears the negative entry before it adds. Exempt are
  keys for which a `SetNegative` fell between the two steps of a `Set`, which leaves a
  live negative entry and a new route side by side. `Range` visits every entry that was there all along
  (`RangeMissesNothing`); the hit counters stay consistent under a concurrent
  `Clear` (`NegativeHitsAreHits`).
* **etcd source.** One fetch per key at a time and no follower waits for nobody
  (`FlightOK`); unhealthy only without a watch (`UnhealthyOnlyWithoutWatch`); the
  cache agrees with etcd up to the events not yet delivered and two named holes
  (`Coherent`); every `Get` returns, health comes back, the watcher stops, no
  event stays unapplied and no negative entry hides a route for good
  (`GetReturns`, `HealthRecovers`, `WatcherStops`, `RoutesSettle`).
* **The other sources.** Once the store is quiet the cache comes to agree with it
  (`EventuallyCoherent`) up to changes that were never reported and answers to
  requests, or of overlapping reloads, cached after newer ones; what the background
  goroutine itself falls behind it must make good. No negative entry hides a route
  for good. A goroutine takes a route out only if what it read has no such route
  (`OnlyGoneIsTaken`); `Cleanup` ends and leaves no goroutine (`CleanupCompletes`);
  health comes back (`HealthRecovers`).
* **JWT gateway.** The cached keys are those of the document that the endpoint last
  confirmed, also by saying that nothing has changed (`KeysAreAsAnswered`); a key
  published for longer than the refresh interval is never unknown, whichever request
  refreshed, and a refresh that failed does not put off the next
  (`PublishedKeyIsFound`); successful refreshes are more than the interval apart
  however many requests ask (`RefreshRate`); no way out of a refresh keeps the mutex,
  so that every request is answered (`RequestsEnd`).
* **Routes and rules.** Of the rules whose conditions hold, the one of the highest
  priority decides (`BestRuleMatches`); text that looks like JSON and cannot be
  read is never taken for an address (`NoRawTextAsUpstream`).
* **Selectors.** Round robin gives turns: while the lists brought to a selector keep
  their length, no position is more than one pick ahead of another, wherever the counter
  stood when the length last changed (`EvenTurns`). Requests that miss the selector
  together make one each, and an eviction lets this happen again; with lists of one
  length this puts no position more than one pick per request and eviction ahead
  (`SkewIsBounded`). Weighted round robin is never a whole pick ahead of an upstream's
  share and gives each exactly its weight over every period (`SmoothShares`); the random
  draw has the odds of the weights (`RandomMatchesWeights`); the ring answers with the
  owner of the key in the list of the request, or in one with the same 32-bit hash, unless
  another request replaced the ring between check and lookup (`ResultOwnsKey`), and an
  upstream that leaves moves only its own keys (`OnlyOrphansMove`).
* **Selection policy.** The upstream comes from the pool of the request
  (`ResultInPool`), members of a pool are found in it once it was resized
  (`FindsMembers`), and each Select leaves one record, with a reason that belongs
  to the key it names (`OneRecordPerSelect`, `ReasonBelongsToKey`).
* **Composite.** Which source answers faster never matters (`FirstSourceWins`,
  `MergeKeepsOrder`); nothing is sent on a closed channel, because every goroutine is counted
  before it starts and the one that closes is started after the last of them
  (`NoSendOnClosed`); every call returns and no goroutine stays behind (`GetReturns`,
  `NoGoroutineLeft`).
* **Dynamic upstreams.** A pool that was just fetched belongs to a route the key had
  during the refresh (`FetchedPoolIsCurrent`); an error is returned only if no pool
  was ever cached (`ErrorOnlyWithoutPool`).

## Runs

| run | instance | question |
|---|---|---|
| `route_cache` | 3 goroutines, 4 calls, 3 keys, 2 configurations, room for 2 | Three goroutines make four calls of the methods in any order, three keys and room for two: the interleaved steps are primitive updates of a bounded map, the counters stay consistent, Get returns only what the cache showed while it ran, and Range misses nothing. |
| `etcd_source` | 1 key, 1 configuration, 2 readers, 2 changes, fairness | Two readers and the watcher on one key while the store changes twice: one fetch per key, health follows the watch, the cache is behind the store only in the two ways the code allows; every Get returns, health recovers, the watcher ends after Cleanup, no event stays unapplied and no negative entry hides a route for good. |
| `selector` | every algorithm, lists of up to 3 upstreams, 2 racing requests, 1 eviction | Each algorithm with changing candidate lists, two requests that race to make the selector and to replace its hash ring, and an eviction of the selector: turns, shares, odds and owners are what the algorithm promises, and selectors made twice skew the turns by a bounded number only. |
| `selection_policy` | every configuration of extractors; one request with a pool that is resized, two with a static one | Every configuration of extractors with a pool that is resized, and two requests at once on a static pool: each Select is recorded once, for the right key and reason, and returns a member of its pool. |
| `rule_matcher` | every text of the bounded grammar, every request | Texts of every format, well-formed or not, loaded one after another and matched by every request: the matching rule of the highest priority decides, and JSON-like text is never an address. |
| `composite_source` | 4 modes, 3 sources, 2 calls, fairness | Every mode over three sources that answer in any order, with deadlines, and two calls sharing a cached result: the order of arrival never matters, nothing panics, every call and goroutine ends. |
| `dynamic_upstreams` | 1 key, 3 requests, a route that changes | Three requests refresh the pool of a key whose route changes: a fetched pool belongs to a route the key had during the refresh, and an error means that no pool was ever cached. |
| `data_sources` | 10 kinds, 1 key, 1 configuration, 1 reader, 2 changes or failures, fairness | Each of the seven other sources, three of them in two modes, with a request and any two of changes, failures and clearings in every order: the cache settles on what the store says, a refresh takes out only what has gone, Cleanup ends with no goroutine left, health comes back. |
| `gateway_jwt` | 2 requests, 2 keys, 4 tokens, 3 points of time, fairness | Two requests with tokens for cached, new and unknown keys while the endpoint changes its document at will and fails at will: the keys are those last confirmed, a published key is found in time, refreshes keep their distance, every request is answered. |
| `sql_outage` | `sqlFull`, 1 key, 1 failure (violation) | A full refresh of the SQL source whose rows break off deletes the routes it did not reach. |
| `selection_replaced` | a pool whose member is replaced (violation) | A pool in which one member is replaced by another keeps the index of the old pool, and Select returns an upstream that is not in the pool it was given. |
| `composite_rules` | 2 sources with rules (violation) | Rules merged from two sources are appended without sorting, so a rule of low priority precedes one of high priority. |

**Bounds.** `MaxWrites`, `MaxCalls`, `MaxEvents`, `MaxSelects`, `MaxTime` and the like
end behaviours that would otherwise go on forever; each is named in the module that
uses it. A race between a fetch and the watcher needs one key, two goroutines that
share it, and two changes of the store: one to make the answer of the fetch old, one
more for what the watcher has still to deliver. A text may be a configuration, blank,
unreadable or absent, so that two changes tell old from new with one configuration.
A second and third key are there where eviction, or what happens to other keys, is
the question (`route_cache`). In `data_sources` changes and failures of the store and
clearings of the cache share one bound (`MaxEvents`): any two of them occur, in either
order, at every point of a refresh, a fetch or a start, and one reader races with the
background goroutines; followers of a fetch run the same code as in the etcd source,
where two readers are checked. In `gateway_jwt` the interval is one unit: keys are
loaded at time 1, at 2 a refresh is not due and at 3 it is; one request can fail or be
overtaken while the other waits for the mutex, and the endpoint may publish any
document, readable or not, at any time.
Symmetry is used in runs without liveness properties only, over sets whose members
the modules compare for equality alone.

## Fairness

Fairness is assumed only of what the code itself keeps running.

* `EtcdSource!FairSpec`: the watcher goroutine and each `Get` take their next step,
  and the clock reaches the TTL of a negative entry.
  A fetch ends because `Get` runs it under `RequestTimeout`
  (`context.WithTimeout`); a watch attempt ends because the client reports it or
  the context is cancelled; the backoff timer fires. No fairness on the store, on
  the operators or on `Cleanup`.
  Both the fetch of a Get and a watch attempt may instead fail, so no answer of
  etcd is assumed.
* `Sources!FairSpec`: the goroutines of the source, those it started in passing and
  each `Get` take their next step, timers fire and negative entries expire,
  `Cleanup` returns once what it waits for has ended, and a `select` with both its
  ticker and the cancelled context ready time after time takes the context at last
  (strong fairness of the exits of the HTTP refresh loop and of the poll loop of the
  file source; Go chooses among ready cases at random). A ZooKeeper connection that
  was lost is found again (`SessionBack`; the client library retries for ever).
  Failures are never fair: they may happen, up to `MaxEvents`, or not.
* `GatewayJWT!FairSpec`: a request takes its next step (`JWKSTimeout` ends a fetch that
  hangs), and a request that waits for `refreshMu`, which others take again and again,
  gets it at last (strong fairness; `sync.Mutex` hands the lock to a waiter that has
  starved for a millisecond).
* `CompositeSource!FairSpec`: the call and the goroutines it started run, and a
  source answers, at the latest with the error of the context it was given.

## Proofs

Every theorem holds for all values of the constants (any number of keys, goroutines,
requests, sources, upstreams, any weights, capacities and bounds), under the named
assumptions of the modules, which TLC evaluates in the run of the module. They say
that reserved values (`None`, `Err`, `NoRequest`, ...) are none of the ordinary ones,
that bounds are numbers, and what shape the data has; each of the sections below names
those that say more. A theorem with a condition in front holds where the condition
does; the conditions are predicates that the instance of the run satisfies as well,
unless it says otherwise.

The proofs have one shape: an inductive invariant, checked by TLC first, one lemma per
action that it is kept, and theorems that read the properties off it.

### etcd source (`EtcdSource_proofs`)

`EtcdTypeCorrect` (`TypeOK`), `EtcdSingleflight` (`FlightOK`), `EtcdHealth`
(`UnhealthyOnlyWithoutWatch`), `EtcdCoherent` (`Coherent`).

`Coherent` is not inductive: a state in which an event that has been read last
does not carry the newest configuration, or in which an answer about to be cached
is older than what the watcher has applied, satisfies it and has a successor that
does not. `CoherenceInvariant` adds what rules these states out:

* `StoreRemembered`: the history variable `lastGood` is what the store says;
* `NewIsBlank`: before `Provision` nothing is cached, watched or asked;
* `EventsOnlyWhileWatching`: there are undelivered events only during a watch;
* `EventsEndGood`: the last effective event of a key carries its newest state;
* `CacheIsGood`: with no effective event under way, the cache is not behind;
* `AnswersAreGood`: nor is an answer about to be cached, unless an event was
  applied since it was given.

### Route cache (`RouteCache_proofs`)

`TypeCorrect`, `CountersCorrect` (`NegativeHitsAreHits`), `GetsReturnVisible`
(`GetReturnsVisible`), `RangeComplete` (`RangeMissesNothing`), `CapacityCorrect` (at most
`MaxSize` entries) and `Refinement`: `Spec` implements `BoundedCache`.

The counters need `CountersOK`: unless a `Clear` is between zeroing the hits and zeroing
the negative hits, the negative hits not yet counted as hits are at most the Gets that
are about to count them. What a `Get` returns rests on what its history has seen: while it
is between its looks, what its key shows is in `visible`, a key with a live negative entry
has no `Set` halfway unless it is `doubtful`, and so a route that comes into the map
meanwhile is shown at once. `RangeOK` says that what is stable for a `Range` is cached and
is visited or still to be visited. The refinement maps the steps one by one; a step that
only counts, or returns, is a stutter.

### JWT gateway (`GatewayJWT_proofs`)

`TypeCorrect`, `KeysCorrect` (`KeysAreAsAnswered`), `PublishedKeysFound`
(`PublishedKeyIsFound`), `RefreshesAreRare` (`RefreshRate`).

The invariant adds: the mutex is held from the decision to refresh to its end
(`MutexHolder`); the tag kept is none or that of the cached keys, so that "not modified"
is said of them (`TagIsOfKeys`); the next refresh is due one interval after the last,
and who refreshes found it over (`TimesOK`); a key published since before the last
refresh is cached, and one published since before a running refresh is in its answer
(`OldKeysKnown`); and a request that looks its key up again began no later than an
interval after the last refresh (`BeganOK`).

### Composite (`CompositeSource_proofs`)

`TypeCorrect` (`TypeOK`), `SendsAreSafe` (`NoSendOnClosed`), `FirstWins`
(`FirstSourceWins`), `MergesAll` (the result of merge mode is the merge of the answers of
all sources) and `MergeInOrder` (`MergeKeepsOrder`: what that merge has in its fields).

`CountInv` is what makes the close safe: the WaitGroup is the number of goroutines
started and not yet returned, and before the loop is over the channel is open. The
invariant follows a call through its two ways: asked one by one, nobody before
`at` had a route (`AskOK`); asked all at once, who has sent is done and who is done has
sent, unless the call is late (`ChannelOK`); a result that was picked is from the first
source with a route and no answer that counts can change any more (`PickOK`); a result
that was merged is made of the answers of all sources (`MergeOK`). What the loop of
`Merged` computes is proved by induction over the sources (`MergedUpTo`).
`RouteAssumption`: the rules of a route are a sequence, its TTL and version numbers.

### Selection policy (`DynamicSelection_proofs`)

`TypeCorrect`, `RecordedOnce` (`OneRecordPerSelect`), `ReasonsCorrect`
(`ReasonBelongsToKey`), and, with conditions, `ResultsInPool` and `MembersFound`.

`ResultInPool` is false in general (`selection_replaced`). It is proved for a *steady*
policy: the pool is static, with any number of requests overlapping in the index, or
requests come one at a time and no two pools have the same size. `StaticOK` says that
the index has members of the static pool only; `AloneOK` that between two lookups of a
lone request the index is complete for a pool of the remembered size. `MembersFound`
needs moreover that no two members of a pool share an address.

### Dynamic upstreams (`DynamicUpstreams_proofs`)

`RefreshedByOne` (at most one request refreshes a key, the one singleflight knows), and
the action properties `FetchedPools` (`FetchedPoolIsCurrent`) and `StaleBeforeError`
(`ErrorOnlyWithoutPool`).

### Routes and rules (`RuleMatcher_proofs`)

`NoRawText` (`NoRawTextAsUpstream`) and, under `RulesAreDetected`, `BestRules`
(`BestRuleMatches`). The latter rests on what the stable sort returns: a permutation of
the rules with no rule before one of higher priority (lemmas on `SortedRules`), and on
what `DefaultWeights` leaves alone. `RulesAreDetected` says that YAML text with rules
is detected as YAML; it excludes rules on one line with a `://` in them (see *Observed*).
`TextAssumption` gives the shape of what the decoders deliver, `WholeAssumption` says
that a string inside a JSON text is not the whole text.

### Selectors and the ring (`UpstreamSelector_proofs`)

`TurnsAreTaken` (`EvenTurns`), `SkewBounded` (`SkewIsBounded`), `SharesAreSmooth`
(`SmoothShares`), `OddsAreWeights` (`RandomMatchesWeights`), the action property
`OwnersCorrect` (`ResultOwnsKey`), and `OrphansOnly`
(`NoCollisions => (Spec => []OnlyOrphansMove)`).

Round robin rests on `InTurn`: ordered by when its turn comes next, counted from where
the counter stands, a position that comes later has as many picks as one that comes
earlier, or one more. A pick of the first moves it to the end. It holds for any counter
when the picks are counted from zero, so a change of length needs no assumption.
`MadeOK` bounds the selectors: with an empty cache at most one per request and eviction
was made; with a selector in it, those made and those about to be made are at most one
per request more. Each contributes one pick to the skew.

Smooth weighted round robin rests on `WrrOK`: with `n` picks since the last reset,
total weight `W` and the weight `w(i)`, every current weight is `n * w(i) - W * picked(i)`,
all of them add up to zero and each is above `-W`. The largest raised weight is
positive because the raised weights add up to `W`, so the one that gives up `W` stays
above `-W`. At a multiple of `W` every current weight is a multiple of `W` above `-W`,
hence not negative, hence zero.

`RingOK` says of a request past its check and not overtaken that the ring of its selector
has the hash of its list. `NoCollisions`: virtual nodes
of different upstreams have different hashes; with equal ones the winner depends on
the order after sorting, which an upstream that leaves may change for keys not its own.

### Induction

The theorems of the library that state induction have an operator as a parameter, which
the provers cannot instantiate. Where loops need it (sums of weights, the largest current weight, the merge of
routes), the proofs use that
a non-empty set of numbers has a least element: `WFMin` and
`NatLessThanWellFounded` take a set, so that the counterexamples to what is claimed are
put in a set whose least element is refuted (lemma `UpTo`). The recursive functions
`RunningSum` and `Merged` are shown to satisfy their equations the same
way.

## Only model-checked

* Liveness: the provers have neither fairness nor `ENABLED`. This is `GetReturns`,
  `HealthRecovers`, `WatcherStops`, `RoutesSettle`, `EventuallyCoherent`,
  `CleanupCompletes`, `RequestsEnd`, `NoGoroutineLeft`.
* `OnlyGoneIsTaken` and the rest of `Sources`, whose state is that of seven components.
* That the conditions of the proofs are needed is shown by `selection_replaced`.

## Findings

Three runs end in a violation, each of a sentence of the repository:

* `sql_outage` -- a full refresh of the SQL source deletes the keys it has not seen
  and only then asks whether the rows ended with an error; a connection lost in
  between empties the cache, though `datasource.go:23` has an unhealthy source serve
  what is cached.
* `selection_replaced` -- the index of the pool is rebuilt only when the size of the
  pool differs from that of the pool it was built from, so after one member was replaced by another
  the policy returns an upstream that is not in the pool it was given.
* `composite_rules` -- the rules of a merged configuration are appended source by
  source and not sorted again, so the first rule that matches need not be the one
  of highest priority.

## Observed while modelling, without a run

* The comment at `etcd.go:367` says "Reset backoff on successful watch", but `watch`
  returns only with an error, so the reset is never reached and each reconnect of a
  long-lived process waits longer, up to a minute. Redis and Consul alike.
* A Get of the Kubernetes source that fails, even because its request was cancelled,
  makes the source unhealthy for as long as the current watch lives. With a label
  selector a Get asks for `ConfigMapName` all the same, so a route of a selected map
  that is not in the cache (evicted, cleared) is answered as missing; and an entry
  that is removed from a selected map stays cached until the map is deleted.
* ZooKeeper: `Provision` sets the health by the outcome of its load after the session
  events may have set it, so a load that failed leaves a connected source unhealthy
  until the session changes. Every list of the children starts a watcher per child,
  also for those that have one. A watcher whose read fails ends, and its key is
  followed by nobody until the list changes.
* File: a timer that has fired is not stopped by the next event, so two reloads may
  overlap and the older one have the last word; a change between the first load and
  the start of the watch, and one whose reload fails, is not seen until the next
  event; a watched file that is replaced (renamed over) loses its watch;
  `AdminClearCache` empties the source until the next reload; the health is set by the
  first load only.
* JWT gateway: only a token with an unknown key id leads to a refresh, so the refresh
  interval is a minimum and not a period; a refresh that fails is not rate limited
  (every such request fetches, one after another); one key that cannot be read rejects
  the whole document.
* The HTTP source without a refresh interval neither refreshes a cached route nor
  ever sets its health back after a failed first check.
* SQL: `poll_interval` 0 becomes the default of 30 seconds, so polling cannot be
  disabled; the incremental cursor starts at the newest row at the time it is
  read, after the load, and skips what changed in between; a row whose text does
  not parse is deleted from the cache by a full refresh and kept by an incremental.
* A leader whose fetch found no key may put its negative entry after the watcher
  has cached the route; until the TTL passes the route is hidden, though the cache has it.
* The Get of the etcd source never calls `IsNegativeCached`, so a negative entry
  does not spare it the fetch.
* A text on one line that contains `://` is never detected as YAML (`types.go:178`), so `upstream: http://host:80` in YAML, or rules in
  YAML's flow style that name a URL, are taken as a whole for an address.
* Smooth weighted round robin never lets an upstream get a whole pick ahead of its share,
  but with many upstreams one may fall more than a pick behind (with the weights
  1, 1, 1, 5, 5, 5, for example) until the period ends.
* Round robin counters belong to the algorithm, not to the route: two routes of the
  same algorithm advance each other's, and lists whose lengths alternate may give a
  position no turn at all.
* Nothing in the repository calls `IncrementConn` or `DecrementConn` (`selector.go:252`),
  so `least_conn` sees no connections and always picks the first of the upstreams with
  the largest weight.
* `getSelector` (`matcher.go:102`) looks up and adds without a lock, so the first requests
  of an algorithm may each begin with the first upstream.
* The field `hashRing` has no lock; a `Select` may use the ring another call has just
  built for other upstreams, and look up an upstream that is not among its candidates.
* While the first request fills the index of the pool, a concurrent one may miss a
  member of it. A Go map accessed concurrently may also abort the process; such an
  execution is a prefix of one that is modelled.
* A composite in parallel priority mode drops answers that arrive after the context
  ended even if they are complete (`late`).
* `dynamic_upstreams.go:43` describes a zero refresh interval, which lines 77-79
  replace by the default; `GetUpstreams` does not ignore disabled configurations.
* `CacheTTL` of the HTTP source is read from the configuration and never used; the
  Cleanup of the Consul source waits for a blocking query that it does not cancel.

## What is not modelled

* The administration API, metrics, tracing and the Caddyfile parsers: formatting and
  counting, with no state that a route depends on.
* The key extractor: placeholder replacement of Caddy, one step of
  `DynamicSelection`.
* Reading YAML, TOML and JSON: `ParseRouteConfig` is modelled by its outcomes.
* The clients of the stores, TLS and authentication options: libraries.
* The hash functions: the places of the nodes on the ring and of the keys are
  constants of `HashRing`, with one small assignment in the instance, in which
  nodes of different upstreams alternate and one key lies beyond the last node.
* The event bus: handlers are appended under a lock and never removed, and a publish
  calls a copy of the list; no order of calls leaves it in another state.
* The admin registry: a map from names to sources under a mutex, with one write at
  `Provision` and one at `Cleanup`.
* Several ConfigMaps that have the same key, with a label selector: deleting one of
  them takes the key out of the cache although another has it. `KubernetesSource`
  follows the keys of one map.
* Signatures, claims and the formats of keys in the JWT gateway: libraries, and checks
  of one request; a token is what the handler tells apart. A key that changes under
  the same id is not modelled either.
* What go-zookeeper and fsnotify do is taken from how the sources use them, and stated
  at the head of the two modules.
* Rows of a SQL table that share a time stamp, or become visible out of the order of
  their stamps: `SqlSource` takes the column to be strictly increasing. A row that cannot
  be scanned (a NULL) is `Bad` there, like one that does not parse; a soft-deleted row with
  a NULL text, whose deletion an incremental refresh therefore skips, is not modelled.
* The connection counts of `least_conn`, which nothing changes.

## Plan

Done: the survey, the cache and its abstraction, the etcd source, the seven other
sources, selection, composition, upstreams, the JWT gateway; the safety properties of
all of them but `Sources` as theorems.

Next: whether the negative entries and the sweeps of `ReadThrough` have an invariant
that all seven sources share; that the recency relation of the cache is a total order, so
that exactly one entry is evicted; weaker conditions for the theorems that have one.

Order of proof work: an inductive invariant is first checked by TLC as an invariant
of the run of its module, then proved.

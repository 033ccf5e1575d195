-------------------------- MODULE CompositeSource ---------------------------
(***************************************************************************)
(* datasource/composite/composite.go: one data source made of several.     *)
(*                                                                         *)
(* Each member of Call is one call of Get for the same key.  It asks the   *)
(* sources one after the other, or all at once through goroutines that     *)
(* send their answers on a buffered channel, and combines the answers as   *)
(* the mode says.  A source may answer anything at any time: a route, nil  *)
(* or an error.  The deadline of a call may pass while it runs.            *)
(***************************************************************************)
EXTENDS RouteConfig, SequencesExt

CONSTANTS
    N,          \* the number of sources
    Routes,     \* per source: the routes it may answer with
    Settings,   \* the settings checked: mode, parallel, cacheResults, and the
                \*   calls that are made under them
    Call,       \* the calls of Get
    Err,        \* a source's Get returned an error
    Skipped,    \* an unhealthy source that was not asked
    Unasked     \* a source that has not answered yet

ASSUME CompositeAssumption ==
    /\ N \in Nat \ {0}
    /\ Settings \subseteq [mode : {"failover", "merge", "priority", "first"},
                           parallel : BOOLEAN, cacheResults : BOOLEAN,
                           calls : SUBSET Call]
    /\ \A i \in 1..N : Routes[i] \cap {NoConfig, Err, Skipped, Unasked} = {}
    /\ Err # NoConfig /\ Skipped \notin {NoConfig, Err}
    /\ Unasked \notin {NoConfig, Err, Skipped}

Source == 1..N

AllRoutes == UNION {Routes[i] : i \in Source}
AllRules  == UNION {{c.rules[j] : j \in DOMAIN c.rules} : c \in AllRoutes}

ASSUME RouteAssumption ==
    \A c \in AllRoutes :
        c.rules \in Seq(AllRules) /\ c.ttl \in Int /\ c.version \in Int

VARIABLES
    setting,        \* the settings of this composite source
    cache, fresh,   \* the cached result, or NoConfig, and: its TTL has not passed
    lastError,      \* the last Get failed
    pc,             \* per call: its next step
    at,             \* per call: the source it asks next
    got,            \* per call and source: the source's answer
    goroutine,      \* per call and source: "off", "calling", "sending", "sent", "done"
    wg,             \* per call: the counter of its WaitGroup
    channel,        \* per call: the results channel, as indices of sources
    closed,         \* per call: the channel is closed
    received,       \* per call: the results taken from the channel
    cancelled,      \* per call: its context is done
    late,           \* history: the calls whose deadline passed
    result          \* per call: what it returns

calls == <<at, got, goroutine, wg, channel, closed, received, cancelled, late>>
vars  == <<setting, cache, fresh, lastError, pc, at, got, goroutine, wg, channel,
           closed, received, cancelled, late, result>>

Parallel == setting.parallel /\ setting.mode \in {"merge", "priority"}

IsRoute(a) == a \notin {NoConfig, Err, Skipped, Unasked}

Init ==
    /\ setting \in Settings
    /\ cache = NoConfig /\ fresh = FALSE /\ lastError = FALSE
    /\ pc = [c \in Call |-> "new"]
    /\ at = [c \in Call |-> 1]
    /\ got = [c \in Call |-> [i \in Source |-> Unasked]]
    /\ goroutine = [c \in Call |-> [i \in Source |-> "off"]]
    /\ wg = [c \in Call |-> 0]
    /\ channel = [c \in Call |-> <<>>]
    /\ closed = [c \in Call |-> FALSE]
    /\ received = [c \in Call |-> {}]
    /\ cancelled = [c \in Call |-> FALSE]
    /\ late = {}
    /\ result = [c \in Call |-> NoConfig]

-----------------------------------------------------------------------------
(* Combining routes.                                                       *)

(* mergeConfig: src takes precedence where it says something, its rules are *)
(* appended.                                                                *)
mergeConfig(dst, src) ==
    [upstream  |-> Or(src.upstream, dst.upstream),
     rules     |-> dst.rules \o src.rules,
     algorithm |-> Or(src.algorithm, dst.algorithm),
     enabled   |-> IF src.enabled # "unset" THEN src.enabled ELSE dst.enabled,
     ttl       |-> IF src.ttl > 0 THEN src.ttl ELSE dst.ttl,
     updatedAt |-> dst.updatedAt,
     version   |-> IF src.version > dst.version THEN src.version ELSE dst.version]

(* Merging goes through the sources in S in their order: the first route is *)
(* copied, each later one merged into it.                                   *)
Merged(answers, S) ==
    LET routes == {i \in S : IsRoute(answers[i])}
        merged[i \in 0..N] ==
            IF i = 0 THEN NoConfig
            ELSE IF i \notin routes THEN merged[i - 1]
            ELSE IF \A j \in routes : i <= j THEN answers[i]
            ELSE mergeConfig(merged[i - 1], answers[i])
    IN merged[N]

(* Broken: merged from the last source to the first. *)
MergedResults_LastFirst(c) ==
    Merged([i \in Source |-> got[c][N + 1 - i]], {N + 1 - i : i \in received[c]})

(* What getMergeParallel makes of the results it has received. *)
MergedResults(c) == Merged(got[c], received[c])

(* The route of the first source in S that answered with one. *)
FirstRoute(answers, S) ==
    LET routes == {i \in S : IsRoute(answers[i])} IN
    IF routes = {} THEN NoConfig
    ELSE answers[CHOOSE i \in routes : \A j \in routes : i <= j]

-----------------------------------------------------------------------------
(* Get: the cache first, then the mode's own way.                          *)

Goto(c, label) == pc' = [pc EXCEPT ![c] = label]

(* The result is known; what is left is to cache it and to return. *)
Combined(c, x) ==
    /\ result' = [result EXCEPT ![c] = x]
    /\ Goto(c, "finish")

Begin(c) == Goto(c, IF Parallel THEN "spawn" ELSE "ask")

GetCached(c) ==
    /\ pc[c] = "new" /\ c \in setting.calls
    /\ \/ /\ setting.cacheResults /\ cache # NoConfig /\ fresh
          /\ result' = [result EXCEPT ![c] = cache]
          /\ Goto(c, "done")
       \/ /\ setting.cacheResults /\ cache # NoConfig /\ ~fresh
          /\ Goto(c, "drop")
          /\ UNCHANGED result
       \/ /\ ~setting.cacheResults \/ cache = NoConfig
          /\ Begin(c)
          /\ UNCHANGED result
    /\ UNCHANGED <<setting, cache, fresh, lastError, calls>>

(* An expired entry is deleted, whatever is there by now. *)
DropExpired(c) ==
    /\ pc[c] = "drop"
    /\ cache' = NoConfig
    /\ Begin(c)
    /\ UNCHANGED <<setting, fresh, lastError, calls, result>>

(* Broken: a partial answer is cached although the Get failed. *)
Finish_CachesAlways(c) ==
    /\ pc[c] = "finish"
    /\ IF setting.cacheResults /\ result[c] # NoConfig
       THEN cache' = result[c] /\ fresh' = TRUE
       ELSE UNCHANGED <<cache, fresh>>
    /\ lastError' = (result[c] = Err)
    /\ Goto(c, "done")
    /\ UNCHANGED <<setting, calls, result>>

(* Cache a route, note the error, return. *)
Finish(c) ==
    /\ pc[c] = "finish"
    /\ IF setting.cacheResults /\ IsRoute(result[c])
       THEN cache' = result[c] /\ fresh' = TRUE
       ELSE UNCHANGED <<cache, fresh>>
    /\ lastError' = (result[c] = Err)
    /\ Goto(c, "done")
    /\ UNCHANGED <<setting, calls, result>>

-----------------------------------------------------------------------------
(* One source after the other.                                             *)

(* What source i may answer: its routes, nil, or an error. *)
Answer(i) == Routes[i] \cup {NoConfig, Err}

(* The modes' loops: the outcome after source i answered a. *)
Answered(c, i, a) ==
    \/ /\ setting.mode = "first"
       /\ Combined(c, a)
    \/ /\ setting.mode \in {"failover", "priority"} /\ IsRoute(a)
       /\ Combined(c, a)
    \/ /\ setting.mode \in {"failover", "priority"} /\ ~IsRoute(a)
       /\ IF i = N THEN Combined(c, NoConfig) ELSE Goto(c, "ask") /\ UNCHANGED result
    \/ /\ setting.mode = "merge"
       /\ IF i = N THEN Combined(c, Merged([got[c] EXCEPT ![i] = a], Source))
                   ELSE Goto(c, "ask") /\ UNCHANGED result

AskSource(c) ==
    LET i == at[c] IN
    /\ pc[c] = "ask"
    /\ \E a \in Answer(i) \cup (IF setting.mode = "failover" THEN {Skipped} ELSE {}) :
          /\ got' = [got EXCEPT ![c][i] = a]
          /\ Answered(c, i, a)
    /\ at' = [at EXCEPT ![c] = i + 1]
    /\ UNCHANGED <<setting, cache, fresh, lastError, goroutine, wg, channel, closed,
                   received, cancelled, late>>

-----------------------------------------------------------------------------
(* All at once: one goroutine per source, and one that closes the channel. *)

(* The loop that starts them: each is counted before it runs, and those     *)
(* started run while the loop goes on.  After the last one comes the        *)
(* goroutine that waits for all and closes the channel.                     *)
Spawn(c) ==
    LET i == at[c] IN
    /\ pc[c] = "spawn"
    /\ wg' = [wg EXCEPT ![c] = @ + 1]
    /\ goroutine' = [goroutine EXCEPT ![c][i] = "calling"]
    /\ at' = [at EXCEPT ![c] = i + 1]
    /\ Goto(c, IF i = N THEN "collect" ELSE "spawn")
    /\ UNCHANGED <<setting, cache, fresh, lastError, got, channel, closed, received,
                   cancelled, late, result>>

GoCall(c, i) ==
    /\ goroutine[c][i] = "calling"
    /\ \E a \in Answer(i) : got' = [got EXCEPT ![c][i] = a]
    /\ goroutine' = [goroutine EXCEPT ![c][i] = "sending"]
    /\ UNCHANGED <<setting, cache, fresh, lastError, pc, at, wg, channel, closed,
                   received, cancelled, result, late>>

(* Broken: the channel has no buffer and nobody listens to the context. *)
GoSend_Unbuffered(c, i) ==
    /\ goroutine[c][i] = "sending"
    /\ pc[c] = "collect" /\ channel[c] = <<>>
    /\ channel' = [channel EXCEPT ![c] = Append(@, i)]
    /\ goroutine' = [goroutine EXCEPT ![c][i] = "sent"]
    /\ UNCHANGED <<setting, cache, fresh, lastError, pc, at, got, wg, closed,
                   received, cancelled, result, late>>

(* The channel has room for every source.  In priority mode a done context  *)
(* competes with the send, and the answer may be dropped.                   *)
GoSend(c, i) ==
    /\ goroutine[c][i] = "sending"
    /\ \/ /\ Len(channel[c]) < N
          /\ channel' = [channel EXCEPT ![c] = Append(@, i)]
       \/ /\ setting.mode = "priority" /\ cancelled[c]
          /\ UNCHANGED channel
    /\ goroutine' = [goroutine EXCEPT ![c][i] = "sent"]
    /\ UNCHANGED <<setting, cache, fresh, lastError, pc, at, got, wg, closed,
                   received, cancelled, result, late>>

(* The deferred wg.Done, when the goroutine returns. *)
GoDone(c, i) ==
    /\ goroutine[c][i] = "sent"
    /\ goroutine' = [goroutine EXCEPT ![c][i] = "done"]
    /\ wg' = [wg EXCEPT ![c] = @ - 1]
    /\ UNCHANGED <<setting, cache, fresh, lastError, pc, at, got, channel, closed,
                   received, cancelled, result, late>>

(* Broken: the goroutine that closes is started before the loop. *)
CloseChannel_BeforeLoop(c) ==
    /\ pc[c] # "new" /\ Parallel
    /\ wg[c] = 0 /\ ~closed[c]
    /\ closed' = [closed EXCEPT ![c] = TRUE]
    /\ UNCHANGED <<setting, cache, fresh, lastError, pc, at, got, goroutine, wg,
                   channel, received, cancelled, result, late>>

(* Broken: the channel is closed when N answers went through it. *)
CloseChannel_CountsAnswers(c) ==
    /\ ~closed[c]
    /\ Cardinality(received[c]) + Len(channel[c]) = N
    /\ closed' = [closed EXCEPT ![c] = TRUE]
    /\ UNCHANGED <<setting, cache, fresh, lastError, pc, at, got, goroutine, wg,
                   channel, received, cancelled, result, late>>

(* Started after the loop: wg.Wait, then close. *)
CloseChannel(c) ==
    /\ Parallel /\ at[c] = N + 1
    /\ wg[c] = 0 /\ ~closed[c]
    /\ closed' = [closed EXCEPT ![c] = TRUE]
    /\ UNCHANGED <<setting, cache, fresh, lastError, pc, at, got, goroutine, wg,
                   channel, received, cancelled, result, late>>

(* Broken: the first route to arrive wins. *)
Decided_FirstToArrive(c, R) == {i \in R : IsRoute(got[c][i])} # {}

(* getPriorityParallel's look at its results R after each one: source 1 has *)
(* answered with a route, or all have answered.                             *)
Decided(c, R) ==
    LET routes == {i \in R : IsRoute(got[c][i])} IN
    1 \in routes \/ (Cardinality(R) = N /\ routes # {})

(* Take a result from the channel; return when the call is decided.        *)
Collect(c) ==
    /\ pc[c] = "collect" /\ channel[c] # <<>>
    /\ channel' = [channel EXCEPT ![c] = Tail(@)]
    /\ received' = [received EXCEPT ![c] = @ \cup {Head(channel[c])}]
    /\ IF setting.mode = "priority" /\ Decided(c, received'[c])
       THEN /\ Combined(c, FirstRoute(got[c], received'[c]))
            /\ cancelled' = [cancelled EXCEPT ![c] = TRUE]
       ELSE UNCHANGED <<pc, result, cancelled>>
    /\ UNCHANGED <<setting, cache, fresh, lastError, at, got, goroutine, wg, closed, late>>

(* The channel is closed and drained. *)
CollectEnd(c) ==
    /\ pc[c] = "collect" /\ channel[c] = <<>> /\ closed[c]
    /\ Combined(c, IF setting.mode = "merge" THEN MergedResults(c)
                                             ELSE FirstRoute(got[c], received[c]))
    /\ cancelled' = [cancelled EXCEPT ![c] = TRUE]
    /\ UNCHANGED <<setting, cache, fresh, lastError, at, got, goroutine, wg, channel,
                   closed, received, late>>

-----------------------------------------------------------------------------
(* Around the calls: the deadline of a call passes, the cached result       *)
(* reaches its TTL, and AdminClearCache deletes it.                         *)
Deadline(c) ==
    /\ ~cancelled[c] /\ pc[c] \in {"ask", "spawn", "collect"}
    /\ cancelled' = [cancelled EXCEPT ![c] = TRUE]
    /\ late' = late \cup {c}
    /\ UNCHANGED <<setting, cache, fresh, lastError, pc, at, got, goroutine, wg,
                   channel, closed, received, result>>

Expire ==
    /\ fresh
    /\ fresh' = FALSE
    /\ UNCHANGED <<setting, cache, lastError, pc, calls, result>>

AdminClearCache ==
    /\ cache # NoConfig
    /\ cache' = NoConfig
    /\ UNCHANGED <<setting, fresh, lastError, pc, calls, result>>

Step(c) == \/ GetCached(c) \/ DropExpired(c) \/ Finish(c) \/ AskSource(c)
           \/ Spawn(c) \/ Collect(c) \/ CollectEnd(c)

Goroutine(c, i) == GoCall(c, i) \/ GoSend(c, i) \/ GoDone(c, i)

Go(c) == CloseChannel(c) \/ \E i \in Source : Goroutine(c, i)

Next == \/ \E c \in Call : Step(c) \/ Go(c) \/ Deadline(c)
        \/ Expire \/ AdminClearCache

Spec == Init /\ [][Next]_vars

(* A call and its goroutines keep running; every source answers in the end, *)
(* with an error at the latest when the context it was given is done.       *)
FairSpec == Spec /\ \A c \in Call :
                       /\ WF_vars(Step(c)) /\ WF_vars(CloseChannel(c))
                       /\ \A i \in Source : WF_vars(Goroutine(c, i))

-----------------------------------------------------------------------------
(* Properties *)

(* The values Get and its goroutines can hold; the cache has a route or     *)
(* nothing, never an error.                                                 *)
TypeOK ==
    /\ setting \in Settings
    /\ fresh \in BOOLEAN /\ lastError \in BOOLEAN
    /\ cache = NoConfig \/ IsRoute(cache)
    /\ at \in [Call -> 1..(N + 1)]
    /\ got \in [Call -> [Source -> AllRoutes \cup {NoConfig, Err, Skipped, Unasked}]]
    /\ wg \in [Call -> 0..N]
    /\ channel \in [Call -> Seq(Source)] /\ received \in [Call -> SUBSET Source]
    /\ closed \in [Call -> BOOLEAN] /\ cancelled \in [Call -> BOOLEAN]

(* "ModePriority uses the first data source that returns a result", and so  *)
(* does failover among the healthy ones: the result is the route of a       *)
(* source all of whose predecessors were asked (or skipped as unhealthy)    *)
(* and had none, and there is no result only if no source had a route.      *)
(* In parallel this must not depend on who answers first.  A call whose     *)
(* deadline passed is exempt: its goroutines may drop their answers.        *)
Combines(c) ==
    pc[c] = "finish" /\ setting.mode \in {"failover", "priority"} /\ c \notin late

FirstSourceWins ==
    \A c \in Call : Combines(c) =>
        IF result[c] = NoConfig
        THEN \A i \in Source : ~IsRoute(got[c][i])
        ELSE \E i \in Source :
                /\ got[c][i] = result[c]
                /\ \A j \in 1..(i - 1) : got[c][j] \in {NoConfig, Err, Skipped}

(* Merging, one by one or in parallel: every field is the one of the last   *)
(* source that gave it (a TTL counts if it is positive), the rules are all  *)
(* rules in the order of the sources, the version is the highest; answers   *)
(* that arrive out of order make no difference.                             *)
LastGiven(values, none) ==
    LET given == {i \in DOMAIN values : values[i] # none}
    IN IF given = {} THEN none ELSE values[CHOOSE i \in given : \A j \in given : j <= i]

Positive(ttl) == IF ttl > 0 THEN ttl ELSE 0

MergeKeepsOrder ==
    \A c \in Call : pc[c] = "finish" /\ setting.mode = "merge" =>
        LET R == {i \in Source : IsRoute(got[c][i])}
            m == result[c]
        IN IF R = {} THEN m = NoConfig
           ELSE /\ m.upstream = LastGiven([i \in R |-> got[c][i].upstream], "")
                /\ m.algorithm = LastGiven([i \in R |-> got[c][i].algorithm], "")
                /\ m.enabled = LastGiven([i \in R |-> got[c][i].enabled], "unset")
                /\ Positive(m.ttl) = LastGiven([i \in R |-> Positive(got[c][i].ttl)], 0)
                /\ m.rules = FlattenSeq([i \in Source |->
                                            IF i \in R THEN got[c][i].rules ELSE <<>>])
                /\ \A i \in R : got[c][i].version <= m.version
                /\ \E i \in R : got[c][i].version = m.version

(* Nobody sends on a closed channel (that panics): the WaitGroup's counter  *)
(* reaches zero, with the loop over, only when every goroutine has sent or  *)
(* dropped its answer, and it may do so long after Get has returned early.  *)
NoSendOnClosed ==
    \A c \in Call : closed[c] =>
        \A i \in Source : goroutine[c][i] \notin {"off", "calling", "sending"}

(* Every Get returns, in every mode and whenever its deadline passes.       *)
GetReturns == \A c \in Call : pc[c] # "new" ~> pc[c] = "done"

(* The goroutines a Get started end, those too whose answer nobody waits    *)
(* for any more.                                                            *)
NoGoroutineLeft ==
    \A c \in Call : \A i \in Source :
        goroutine[c][i] # "off" ~> goroutine[c][i] = "done"

-----------------------------------------------------------------------------
(* Claims of the repository that the code does not meet. *)

(* matcher.go: "evaluate rules (already sorted by priority)". *)
RulesSorted ==
    \A c \in Call : IsRoute(result[c]) =>
        \A i, j \in DOMAIN result[c].rules :
            i < j => result[c].rules[i].priority >= result[c].rules[j].priority
=============================================================================

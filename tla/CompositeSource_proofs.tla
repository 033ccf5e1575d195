----------------------- MODULE CompositeSource_proofs -----------------------
(* Proofs about the composite data source, for any number of sources and    *)
(* calls, and any routes the sources answer with.                           *)
EXTENDS CompositeSource, FiniteSetTheorems, SequenceTheorems, TLAPS

-----------------------------------------------------------------------------
(* The inductive invariant.                                                 *)

(* The types; a result is any value, and the counter comes with CountInv. *)
Types ==
    /\ setting \in Settings
    /\ fresh \in BOOLEAN /\ lastError \in BOOLEAN
    /\ cache = NoConfig \/ IsRoute(cache)
    /\ at \in [Call -> 1..(N + 1)]
    /\ got \in [Call -> [Source -> AllRoutes \cup {NoConfig, Err, Skipped, Unasked}]]
    /\ channel \in [Call -> Seq(Source)] /\ received \in [Call -> SUBSET Source]
    /\ closed \in [Call -> BOOLEAN] /\ cancelled \in [Call -> BOOLEAN]

ControlOK ==
    /\ pc \in [Call -> {"new", "drop", "ask", "spawn", "collect", "finish", "done"}]
    /\ goroutine \in [Call -> [Source -> {"off", "calling", "sending", "sent", "done"}]]
    /\ result = [c \in Call |-> result[c]]

(* A call that has not begun, and the ways it can go from there: one source *)
(* after the other without goroutines, or all at once.                      *)
BeginsOK(c) ==
    /\ pc[c] \in {"new", "drop", "ask"} =>
          /\ at[c] \in Source
          /\ \A i \in Source : goroutine[c][i] = "off"
          /\ \A i \in at[c]..N : got[c][i] = Unasked
          /\ channel[c] = <<>> /\ received[c] = {}
    /\ pc[c] \in {"new", "drop"} => at[c] = 1 /\ c \notin late /\ ~cancelled[c]
    /\ pc[c] = "ask" => ~Parallel
    /\ pc[c] \in {"spawn", "collect"} => Parallel

(* The failed answers, and the sources whose answer is final. *)
NoRoute == {NoConfig, Err, Skipped}

Settled(c, i) == goroutine[c][i] \in {"off", "sent", "done"}

(* Asked one after the other, nobody had a route so far. *)
AskOK(c) ==
    pc[c] = "ask" /\ setting.mode \in {"failover", "priority"} =>
        \A i \in 1..(at[c] - 1) : got[c][i] \in NoRoute

(* The sources whose answers went into the channel. *)
Elements(s) == {s[i] : i \in DOMAIN s}

Sent(c) == received[c] \cup Elements(channel[c])

(* Asked all at once: who has sent is through, who is through has sent      *)
(* unless its call was late or no longer needs it, and answers are answers. *)
Through(c, i) == goroutine[c][i] \in {"sent", "done"}

ChannelOK(c) ==
    /\ \A i \in Sent(c) : Through(c, i)
    /\ \A i \in Source : goroutine[c][i] \in {"sending", "sent", "done"} =>
                             got[c][i] \in Answer(i)
    /\ pc[c] = "spawn" => received[c] = {}
    /\ pc[c] \in {"spawn", "collect"} =>
          /\ cancelled[c] => c \in late
          /\ \A i \in Source : Through(c, i) /\ (setting.mode = "merge" \/ c \notin late)
                                  => i \in Sent(c)

(* x is the route of the first source that has one, or no source has one,   *)
(* and no answer that counts can change any more.                           *)
IsPick(c, x) ==
    IF x = NoConfig
    THEN \A i \in Source : ~IsRoute(got[c][i]) /\ Settled(c, i)
    ELSE \E i \in Source :
            /\ got[c][i] = x /\ Settled(c, i)
            /\ \A j \in 1..(i - 1) : got[c][j] \in NoRoute /\ Settled(c, j)

PickOK(c) == Combines(c) => IsPick(c, result[c])

(* The result of merging is made of the answers of all the sources. *)
MergeOK(c) ==
    pc[c] = "finish" /\ setting.mode = "merge" =>
        /\ result[c] = Merged(got[c], Source)
        /\ \A i \in Source : Settled(c, i)

CallOK(c) == BeginsOK(c) /\ AskOK(c) /\ ChannelOK(c) /\ PickOK(c) /\ MergeOK(c)

Inv == Types /\ ControlOK /\ \A c \in Call : CallOK(c)

(* The WaitGroup counts the goroutines that run; the loop has started those *)
(* before at[c] and none after, and the channel is closed when all are done.*)
Running(c) == {i \in Source : goroutine[c][i] \in {"calling", "sending", "sent"}}

CountOK(c) ==
    /\ wg[c] = Cardinality(Running(c))
    /\ pc[c] \in {"new", "drop"} => at[c] = 1
    /\ pc[c] \in {"new", "drop", "spawn"} =>
          at[c] \in Source /\ ~closed[c] /\ \A i \in at[c]..N : goroutine[c][i] = "off"
    /\ pc[c] = "ask" => ~Parallel /\ at[c] \in Source
    /\ Parallel => \A i \in 1..(at[c] - 1) : goroutine[c][i] # "off"
    /\ closed[c] => \A i \in Source : goroutine[c][i] = "done"

CountTypes ==
    /\ pc \in [Call -> {"new", "drop", "ask", "spawn", "collect", "finish", "done"}]
    /\ goroutine \in [Call -> [Source -> {"off", "calling", "sending", "sent", "done"}]]
    /\ at \in [Call -> 1..(N + 1)]
    /\ wg \in [Call -> Int] /\ closed \in [Call -> BOOLEAN]

CountInv == CountTypes /\ \A c \in Call : CountOK(c)

(* Whatever the order in which the answers arrive, merging combines all of  *)
(* them in the order of the sources.                                        *)
MergesAllAnswers ==
    \A c \in Call : pc[c] = "finish" /\ setting.mode = "merge" =>
        result[c] = Merged(got[c], Source)

-----------------------------------------------------------------------------
(* Lemmas about the operators.                                              *)

(* A non-empty set of sources has a first one. *)
LEMMA FirstExists ==
    ASSUME NEW S \in SUBSET Source, S # {}
    PROVE  \E i \in S : \A j \in S : i <= j
<1>1. S \subseteq Nat
  BY CompositeAssumption DEF Source
<1>2. PICK i \in S : \A j \in S : ~(<<j, i>> \in OpToRel(<, Nat))
  BY <1>1, NatLessThanWellFounded, WFMin
<1>3. \A j \in S : j < i => <<j, i>> \in OpToRel(<, Nat)
  BY <1>1 DEF OpToRel
<1>4. \A j \in S : ~(j < i)
  BY <1>2, <1>3, Zenon
<1>. QED  BY <1>1, <1>4

(* What FirstRoute returns. *)
LEMMA FirstRouteIsFirst ==
    ASSUME NEW answers, NEW S \in SUBSET Source
    PROVE  \/ /\ FirstRoute(answers, S) = NoConfig
              /\ \A i \in S : ~IsRoute(answers[i])
           \/ \E i \in S : /\ FirstRoute(answers, S) = answers[i] /\ IsRoute(answers[i])
                           /\ \A j \in S : j < i => ~IsRoute(answers[j])
<1>. DEFINE routes == {i \in S : IsRoute(answers[i])}
            f == CHOOSE i \in routes : \A j \in routes : i <= j
<1>1. CASE routes = {}
  BY <1>1 DEF FirstRoute
<1>2. CASE routes # {}
  <2>1. \E i \in routes : \A j \in routes : i <= j
    BY <1>2, FirstExists
  <2>2. f \in routes /\ \A j \in routes : f <= j
    BY <2>1, Zenon
  <2>3. FirstRoute(answers, S) = answers[f]
    BY <1>2 DEF FirstRoute
  <2>4. f \in S /\ IsRoute(answers[f]) /\ \A j \in S : IsRoute(answers[j]) => f <= j
    BY <2>2
  <2>. HIDE DEF f, routes
  <2>5. S \subseteq Int
    BY CompositeAssumption DEF Source
  <2>6. \A j \in S : j < f => ~IsRoute(answers[j])
    BY <2>4, <2>5
  <2>. QED  BY <2>3, <2>4, <2>6
<1>. QED  BY <1>1, <1>2

(* An answer is a route or a failure, and can be stored. *)
LEMMA AnswerType ==
    ASSUME NEW i \in Source, NEW a \in Answer(i)
    PROVE  /\ a \in AllRoutes \cup {NoConfig, Err, Skipped, Unasked}
           /\ a # Unasked
           /\ ~IsRoute(a) => a \in {NoConfig, Err}
<1>1. Routes[i] \subseteq AllRoutes
  BY DEF AllRoutes
<1>2. Unasked \notin Routes[i] /\ Unasked \notin {NoConfig, Err}
  BY CompositeAssumption DEF Source
<1>3. \A r \in Routes[i] : IsRoute(r)
  BY CompositeAssumption DEF Source, IsRoute
<1>. QED  BY <1>1, <1>2, <1>3 DEF Answer

(* The failures are no routes. *)
LEMMA NoRouteFacts ==
    /\ \A a \in NoRoute : ~IsRoute(a)
    /\ ~IsRoute(NoConfig) /\ ~IsRoute(Err) /\ ~IsRoute(Unasked)
BY DEF NoRoute, IsRoute

(* Sending and receiving. *)
LEMMA AppendElements ==
    ASSUME NEW S, NEW s \in Seq(S), NEW x \in S
    PROVE  /\ Append(s, x) \in Seq(S)
           /\ Elements(Append(s, x)) = Elements(s) \cup {x}
<1>. USE DEF Elements
<1>1. /\ Append(s, x) \in Seq(S) /\ Len(Append(s, x)) = Len(s) + 1 /\ Len(s) \in Nat
      /\ \A i \in 1..Len(s) : Append(s, x)[i] = s[i]
      /\ Append(s, x)[Len(s) + 1] = x
      /\ DOMAIN s = 1..Len(s) /\ DOMAIN Append(s, x) = 1..(Len(s) + 1)
  OBVIOUS
<1>2. \A i \in 1..(Len(s) + 1) : i \in 1..Len(s) \/ i = Len(s) + 1
  BY <1>1
<1>3. Len(s) + 1 \in 1..(Len(s) + 1) /\ 1..Len(s) \subseteq 1..(Len(s) + 1)
  BY <1>1
<1>. QED  BY <1>1, <1>2, <1>3

LEMMA TailElements ==
    ASSUME NEW S, NEW s \in Seq(S), s # <<>>
    PROVE  /\ Tail(s) \in Seq(S) /\ Head(s) \in S
           /\ Elements(s) = {Head(s)} \cup Elements(Tail(s))
<1>. USE DEF Elements
<1>1. /\ Tail(s) \in Seq(S) /\ Head(s) = s[1] /\ Len(s) \in Nat /\ Len(s) >= 1
      /\ DOMAIN s = 1..Len(s) /\ DOMAIN Tail(s) = 1..(Len(s) - 1)
      /\ \A i \in 1..(Len(s) - 1) : Tail(s)[i] = s[i + 1]
  OBVIOUS
<1>2. \A i \in 1..Len(s) : i = 1 \/ (i - 1 \in 1..(Len(s) - 1) /\ s[i] = Tail(s)[i - 1])
  BY <1>1
<1>3. \A i \in 1..(Len(s) - 1) : i + 1 \in 1..Len(s)
  BY <1>1
<1>4. 1 \in 1..Len(s) /\ Head(s) \in S
  BY <1>1
<1>5. ASSUME NEW x \in {s[i] : i \in DOMAIN s}
      PROVE  x \in {Head(s)} \cup {Tail(s)[i] : i \in DOMAIN Tail(s)}
  <2>1. PICK i \in 1..Len(s) : x = s[i]
    BY <1>1
  <2>2. CASE i = 1
    BY <2>1, <2>2, <1>1
  <2>3. CASE i # 1
    <3>1. i - 1 \in DOMAIN Tail(s) /\ x = Tail(s)[i - 1]
      BY <2>1, <2>3, <1>1, <1>2
    <3>. QED  BY <3>1
  <2>. QED  BY <2>2, <2>3
<1>6. ASSUME NEW x \in {Head(s)} \cup {Tail(s)[i] : i \in DOMAIN Tail(s)}
      PROVE  x \in {s[i] : i \in DOMAIN s}
  <2>1. CASE x = Head(s)
    BY <2>1, <1>1, <1>4
  <2>2. CASE x # Head(s)
    <3>1. PICK i \in 1..(Len(s) - 1) : x = Tail(s)[i]
      BY <2>2, <1>1
    <3>2. i + 1 \in DOMAIN s /\ x = s[i + 1]
      BY <3>1, <1>1, <1>3
    <3>. QED  BY <3>2
  <2>. QED  BY <2>1, <2>2
<1>. QED  BY <1>1, <1>4, <1>5, <1>6

LEMMA NoElements == Elements(<<>>) = {}
BY DEF Elements

(* What is true of a call stays true while only other calls move. *)
LEMMA CallKept ==
    ASSUME NEW c \in Call, CallOK(c), setting' = setting,
           pc'[c] = pc[c], at'[c] = at[c], got'[c] = got[c],
           goroutine'[c] = goroutine[c], channel'[c] = channel[c],
           received'[c] = received[c], cancelled'[c] = cancelled[c],
           c \in late' <=> c \in late, result'[c] = result[c]
    PROVE  CallOK(c)'
<1>1. BeginsOK(c)' /\ AskOK(c)'
  BY DEF CallOK, BeginsOK, AskOK, Parallel
<1>2. ChannelOK(c)'
  BY DEF CallOK, ChannelOK, Through, Sent
<1>3. PickOK(c)'
  BY DEF CallOK, PickOK, IsPick, Combines, Settled
<1>4. MergeOK(c)'
  BY DEF CallOK, MergeOK, Settled
<1>. QED  BY <1>1, <1>2, <1>3, <1>4 DEF CallOK

(* A finished call has nothing left to say. *)
LEMMA DoneOK ==
    ASSUME NEW c \in Call, CallOK(c), setting' = setting, pc'[c] = "done",
           got'[c] = got[c], goroutine'[c] = goroutine[c],
           channel'[c] = channel[c], received'[c] = received[c]
    PROVE  CallOK(c)'
<1>1. ChannelOK(c)'
  BY DEF CallOK, ChannelOK, Through, Sent
<1>. QED  BY <1>1 DEF CallOK, BeginsOK, AskOK, PickOK, Combines, MergeOK

LEMMA SourceFacts == 1 \in Source /\ N \in Source /\ Source \subseteq Nat
BY CompositeAssumption DEF Source

-----------------------------------------------------------------------------
(* The counting of goroutines.                                              *)

LEMMA SourceIsFinite == IsFiniteSet(Source) /\ Cardinality(Source) = N
BY CompositeAssumption, FS_Interval DEF Source

(* The counter is at most the number of sources, and never negative (that   *)
(* panics).                                                                 *)
LEMMA CountersFit ==
    ASSUME CountInv
    PROVE  wg \in [Call -> 0..N]
<1>1. ASSUME NEW c \in Call PROVE wg[c] \in 0..N
  <2>1. Running(c) \subseteq Source
    BY DEF Running
  <2>2. Cardinality(Running(c)) \in Nat /\ Cardinality(Running(c)) <= N
    BY <2>1, SourceIsFinite, FS_Subset, FS_CardinalityType
  <2>. QED  BY <2>2, CompositeAssumption DEF CountInv, CountOK
<1>. QED  BY <1>1 DEF CountInv, CountTypes

LEMMA CountInit == Init => CountInv
<1>. SUFFICES ASSUME Init PROVE CountInv
  OBVIOUS
<1>1. CountTypes
  BY CompositeAssumption DEF Init, CountTypes
<1>2. ASSUME NEW c \in Call PROVE CountOK(c)
  <2>1. Running(c) = {}
    BY DEF Init, Running
  <2>2. Cardinality(Running(c)) = 0
    BY <2>1, FS_EmptySet
  <2>3. \A i \in 1..N : i \in Source
    BY DEF Source
  <2>. QED  BY <2>2, <2>3, SourceFacts DEF Init, CountOK
<1>. QED  BY <1>1, <1>2 DEF CountInv

(* What a call counts stays true while only other calls move. *)
LEMMA CountKept ==
    ASSUME NEW c \in Call, CountOK(c), setting' = setting,
           pc'[c] = pc[c], at'[c] = at[c], goroutine'[c] = goroutine[c],
           wg'[c] = wg[c], closed'[c] = closed[c]
    PROVE  CountOK(c)'
<1>1. Running(c)' = Running(c)
  BY DEF Running
<1>. QED  BY <1>1 DEF CountOK, Parallel

(* A step on the way to the result, or after it, starts no goroutine. *)
LEMMA CountMoves ==
    ASSUME CountInv, NEW c \in Call, NEW l \in {"drop", "ask", "spawn", "finish", "done"},
           pc' = [pc EXCEPT ![c] = l], UNCHANGED <<setting, goroutine, wg, closed>>,
           l \in {"drop", "spawn"} => pc[c] \in {"new", "drop"} /\ at' = at,
           l = "ask" => ~Parallel /\ at'[c] \in Source,
           \/ at' = at
           \/ ~Parallel /\ at' \in [Call -> 1..(N + 1)]
              /\ \A d \in Call \ {c} : at'[d] = at[d]
    PROVE  CountInv'
<1>1. CountTypes'
  BY DEF CountInv, CountTypes
<1>2. pc'[c] = l /\ \A d \in Call \ {c} : pc'[d] = pc[d]
  BY DEF CountInv, CountTypes
<1>3. ASSUME NEW d \in Call \ {c} PROVE CountOK(d)'
  <2>1. at'[d] = at[d] /\ CountOK(d)
    BY DEF CountInv
  <2>. QED  BY <1>2, <2>1, CountKept
<1>4. CountOK(c)'
  <2>1. Running(c)' = Running(c)
    BY DEF Running
  <2>. QED  BY <1>2, <2>1 DEF CountInv, CountOK, Parallel
<1>. QED  BY <1>1, <1>3, <1>4 DEF CountInv

(* A goroutine goes on; those that are counted stay the same. *)
LEMMA CountGoes ==
    ASSUME CountInv, NEW c \in Call, NEW i \in Source, NEW l \in {"sending", "sent"},
           goroutine[c][i] \in {"calling", "sending"},
           goroutine' = [goroutine EXCEPT ![c][i] = l],
           UNCHANGED <<setting, pc, at, wg, closed>>
    PROVE  CountInv'
<1>1. CountTypes'
  BY DEF CountInv, CountTypes
<1>2. \A k \in Source : goroutine'[c][k] = IF k = i THEN l ELSE goroutine[c][k]
  BY DEF CountInv, CountTypes
<1>3. ASSUME NEW d \in Call \ {c} PROVE CountOK(d)'
  BY CountKept DEF CountInv, CountTypes
<1>4. CountOK(c)'
  <2>1. Running(c)' = Running(c)
    BY <1>2 DEF Running
  <2>2. \A k \in at[c]..N : pc[c] \in {"new", "drop", "spawn"} => k \in Source /\ k # i
    BY CompositeAssumption DEF CountInv, CountOK, CountTypes, Source
  <2>3. \A k \in 1..(at[c] - 1) : k \in Source
    BY CompositeAssumption DEF CountInv, CountTypes, Source
  <2>. QED  BY <1>2, <2>1, <2>2, <2>3 DEF CountInv, CountOK, Parallel
<1>. QED  BY <1>1, <1>3, <1>4 DEF CountInv

(* The loop counts a goroutine and starts it. *)
LEMMA CountSpawn ==
    ASSUME CountInv, NEW c \in Call, Spawn(c)
    PROVE  CountInv'
<1>. DEFINE i == at[c]
<1>0. /\ pc[c] = "spawn" /\ i \in Source /\ ~closed[c]
      /\ \A k \in i..N : goroutine[c][k] = "off"
      /\ wg' = [wg EXCEPT ![c] = @ + 1]
      /\ goroutine' = [goroutine EXCEPT ![c][i] = "calling"]
      /\ at' = [at EXCEPT ![c] = i + 1]
      /\ pc' = [pc EXCEPT ![c] = IF i = N THEN "collect" ELSE "spawn"]
      /\ UNCHANGED <<setting, closed>>
  BY DEF Spawn, Goto, CountInv, CountOK
<1>1. CountTypes'
  <2>1. i + 1 \in 1..(N + 1)
    BY <1>0, CompositeAssumption DEF Source
  <2>. QED  BY <1>0, <2>1 DEF CountInv, CountTypes
<1>2. /\ \A k \in Source : goroutine'[c][k] = IF k = i THEN "calling" ELSE goroutine[c][k]
      /\ at'[c] = i + 1 /\ wg'[c] = wg[c] + 1
      /\ pc'[c] = IF i = N THEN "collect" ELSE "spawn"
  BY <1>0 DEF CountInv, CountTypes
<1>3. ASSUME NEW d \in Call \ {c} PROVE CountOK(d)'
  BY <1>0, CountKept DEF CountInv, CountTypes
<1>4. CountOK(c)'
  <2>1. Running(c)' = Running(c) \cup {i} /\ i \notin Running(c)
    <3>1. i \in i..N /\ goroutine[c][i] = "off"
      BY <1>0, CompositeAssumption DEF Source
    <3>. QED  BY <1>0, <1>2, <3>1 DEF Running
  <2>2. Cardinality(Running(c)') = Cardinality(Running(c)) + 1
    <3>1. IsFiniteSet(Running(c))
      BY SourceIsFinite, FS_Subset DEF Running
    <3>. QED  BY <2>1, <3>1, FS_AddElement
  <2>3. \A k \in (i + 1)..N : k \in Source /\ k # i /\ k \in i..N
    BY <1>0, CompositeAssumption DEF Source
  <2>4. i # N => i + 1 \in Source
    BY <1>0, CompositeAssumption DEF Source
  <2>5. \A k \in 1..i : k \in Source /\ (k = i \/ k \in 1..(i - 1))
    BY <1>0, CompositeAssumption DEF Source
  <2>6. (i + 1) - 1 = i
    BY <1>0, SourceFacts
  <2>. QED  BY <1>0, <1>2, <2>2, <2>3, <2>4, <2>5, <2>6 DEF CountInv, CountOK, Parallel
<1>. QED  BY <1>1, <1>3, <1>4 DEF CountInv

(* A goroutine returns and is no longer counted. *)
LEMMA CountDone ==
    ASSUME CountInv, NEW c \in Call, NEW i \in Source, GoDone(c, i)
    PROVE  CountInv'
<1>0. /\ goroutine[c][i] = "sent"
      /\ goroutine' = [goroutine EXCEPT ![c][i] = "done"]
      /\ wg' = [wg EXCEPT ![c] = @ - 1]
      /\ UNCHANGED <<setting, pc, at, closed>>
  BY DEF GoDone
<1>1. CountTypes'
  BY <1>0 DEF CountInv, CountTypes
<1>2. /\ \A k \in Source : goroutine'[c][k] = IF k = i THEN "done" ELSE goroutine[c][k]
      /\ wg'[c] = wg[c] - 1
  BY <1>0 DEF CountInv, CountTypes
<1>3. ASSUME NEW d \in Call \ {c} PROVE CountOK(d)'
  BY <1>0, CountKept DEF CountInv, CountTypes
<1>4. CountOK(c)'
  <2>1. Running(c)' = Running(c) \ {i} /\ i \in Running(c)
    BY <1>0, <1>2 DEF Running
  <2>2. Cardinality(Running(c)') = Cardinality(Running(c)) - 1
    <3>1. IsFiniteSet(Running(c))
      BY SourceIsFinite, FS_Subset DEF Running
    <3>. QED  BY <2>1, <3>1, FS_RemoveElement
  <2>3. \A k \in at[c]..N : pc[c] \in {"new", "drop", "spawn"} => k \in Source /\ k # i
    BY <1>0, CompositeAssumption DEF CountInv, CountOK, CountTypes, Source
  <2>4. \A k \in 1..(at[c] - 1) : k \in Source
    BY CompositeAssumption DEF CountInv, CountTypes, Source
  <2>. QED  BY <1>0, <1>2, <2>2, <2>3, <2>4 DEF CountInv, CountOK, Parallel
<1>. QED  BY <1>1, <1>3, <1>4 DEF CountInv

(* After the loop, with nothing left to count, everyone is done. *)
LEMMA CountClose ==
    ASSUME CountInv, NEW c \in Call, CloseChannel(c)
    PROVE  CountInv'
<1>0. /\ Parallel /\ at[c] = N + 1 /\ wg[c] = 0
      /\ closed' = [closed EXCEPT ![c] = TRUE]
      /\ UNCHANGED <<setting, pc, at, goroutine, wg>>
  BY DEF CloseChannel
<1>1. CountTypes'
  BY <1>0 DEF CountInv, CountTypes
<1>2. ASSUME NEW d \in Call \ {c} PROVE CountOK(d)'
  BY <1>0, CountKept DEF CountInv, CountTypes
<1>3. CountOK(c)'
  <2>1. Running(c) = {}
    <3>1. IsFiniteSet(Running(c)) /\ Cardinality(Running(c)) = 0
      BY <1>0, SourceIsFinite, FS_Subset DEF Running, CountInv, CountOK
    <3>. QED  BY <3>1, FS_EmptySet
  <2>2. \A i \in Source : i \in 1..(at[c] - 1)
    BY <1>0, CompositeAssumption DEF Source
  <2>3. \A i \in Source : goroutine[c][i] = "done"
    <3>. SUFFICES ASSUME NEW i \in Source PROVE goroutine[c][i] = "done"
      OBVIOUS
    <3>1. goroutine[c][i] # "off"
      BY <1>0, <2>2 DEF CountInv, CountOK
    <3>2. goroutine[c][i] \notin {"calling", "sending", "sent"}
      BY <2>1 DEF Running
    <3>3. goroutine[c][i] \in {"off", "calling", "sending", "sent", "done"}
      BY DEF CountInv, CountTypes
    <3>. QED  BY <3>1, <3>2, <3>3
  <2>4. pc[c] \notin {"new", "drop", "spawn"}
    BY <1>0, CompositeAssumption DEF CountInv, CountOK, Source
  <2>5. Running(c)' = Running(c)
    BY <1>0 DEF Running
  <2>. QED  BY <1>0, <2>3, <2>4, <2>5 DEF CountInv, CountOK, Parallel
<1>. QED  BY <1>1, <1>2, <1>3 DEF CountInv

LEMMA CountStep == CountInv /\ [Next]_vars => CountInv'
<1>. SUFFICES ASSUME CountInv, [Next]_vars PROVE CountInv'
  OBVIOUS
<1>1. ASSUME NEW c \in Call, GetCached(c) \/ DropExpired(c) PROVE CountInv'
  <2>1. PICK l \in {"drop", "ask", "spawn", "done"} :
          /\ pc' = [pc EXCEPT ![c] = l] /\ pc[c] \in {"new", "drop"}
          /\ l = "ask" => ~Parallel
          /\ UNCHANGED <<setting, at, goroutine, wg, closed>>
    BY <1>1 DEF GetCached, DropExpired, Begin, Goto, calls
  <2>2. at'[c] \in Source
    BY <2>1 DEF CountInv, CountOK
  <2>. QED  BY <2>1, <2>2, CountMoves
<1>2. ASSUME NEW c \in Call, Finish(c) PROVE CountInv'
  BY <1>2, CountMoves DEF Finish, Goto, calls
<1>3. ASSUME NEW c \in Call, AskSource(c) PROVE CountInv'
  <2>1. PICK l \in {"ask", "finish"} : pc' = [pc EXCEPT ![c] = l] /\ (l = "ask" => at[c] # N)
    BY <1>3 DEF AskSource, Answered, Combined, Goto
  <2>2. /\ pc[c] = "ask" /\ at' = [at EXCEPT ![c] = at[c] + 1]
        /\ UNCHANGED <<setting, goroutine, wg, closed>>
    BY <1>3 DEF AskSource
  <2>3. at[c] \in Source /\ ~Parallel
    BY <2>2 DEF CountInv, CountOK
  <2>4. at[c] + 1 \in 1..(N + 1) /\ (l = "ask" => at[c] + 1 \in Source)
    BY <2>1, <2>3, CompositeAssumption DEF Source
  <2>5. /\ at' \in [Call -> 1..(N + 1)] /\ at'[c] = at[c] + 1
        /\ \A d \in Call \ {c} : at'[d] = at[d]
    BY <2>2, <2>4 DEF CountInv, CountTypes
  <2>. QED  BY <2>1, <2>2, <2>3, <2>4, <2>5, CountMoves
<1>4. ASSUME NEW c \in Call, Collect(c) \/ CollectEnd(c) PROVE CountInv'
  <2>1. /\ pc' = pc \/ pc' = [pc EXCEPT ![c] = "finish"]
        /\ UNCHANGED <<setting, at, goroutine, wg, closed>>
    BY <1>4 DEF Collect, CollectEnd, Combined, Goto
  <2>2. CASE pc' = [pc EXCEPT ![c] = "finish"]
    BY <2>1, <2>2, CountMoves
  <2>3. CASE pc' = pc
    BY <2>1, <2>3, CountKept DEF CountInv, CountTypes
  <2>. QED  BY <2>1, <2>2, <2>3
<1>5. ASSUME NEW c \in Call, NEW i \in Source, GoCall(c, i) \/ GoSend(c, i) PROVE CountInv'
  <2>1. PICK l \in {"sending", "sent"} :
          /\ goroutine[c][i] \in {"calling", "sending"}
          /\ goroutine' = [goroutine EXCEPT ![c][i] = l]
          /\ UNCHANGED <<setting, pc, at, wg, closed>>
    BY <1>5 DEF GoCall, GoSend
  <2>. QED  BY <2>1, CountGoes
<1>6. CASE (\E c \in Call : Deadline(c)) \/ Expire \/ AdminClearCache \/ UNCHANGED vars
  <2>1. UNCHANGED <<setting, pc, at, goroutine, wg, closed>>
    BY <1>6 DEF Deadline, Expire, AdminClearCache, vars, calls
  <2>. QED  BY <2>1, CountKept DEF CountInv, CountTypes
<1>. QED  BY <1>1, <1>2, <1>3, <1>4, <1>5, <1>6, CountSpawn, CountDone, CountClose
          DEF Next, Step, Go, Goroutine

THEOREM CountInvHolds == Spec => []CountInv
BY CountInit, CountStep, PTL DEF Spec

-----------------------------------------------------------------------------
(* The answers: the invariant holds initially and every step keeps it.      *)
LEMMA InvInit == Init => Inv
<1>. SUFFICES ASSUME Init PROVE Inv
  OBVIOUS
<1>. USE DEF Init
<1>1. Types
  <2>1. channel \in [Call -> Seq(Source)]
    BY EmptySeq
  <2>2. at \in [Call -> 1..(N + 1)]
    BY CompositeAssumption
  <2>3. got \in [Call -> [Source -> AllRoutes \cup {NoConfig, Err, Skipped, Unasked}]]
    OBVIOUS
  <2>. QED  BY <2>1, <2>2, <2>3 DEF Types
<1>2. ControlOK
  BY DEF ControlOK
<1>3. ASSUME NEW c \in Call PROVE CallOK(c)
  <2>1. BeginsOK(c) /\ AskOK(c)
    BY SourceFacts, CompositeAssumption DEF BeginsOK, AskOK, Source
  <2>2. ChannelOK(c)
    BY NoElements DEF ChannelOK, Sent, Through
  <2>. QED  BY <2>1, <2>2 DEF CallOK, PickOK, Combines, MergeOK
<1>. QED  BY <1>1, <1>2, <1>3 DEF Inv

(* A Get begins to ask. *)
LEMMA BeginKeeps ==
    ASSUME Inv, NEW c \in Call, pc[c] \in {"new", "drop"}, Begin(c),
           UNCHANGED <<setting, at, got, goroutine, channel, closed, received,
                       cancelled, late, result>>
    PROVE  ControlOK' /\ \A d \in Call : CallOK(d)'
<1>0. /\ pc' = [pc EXCEPT ![c] = IF Parallel THEN "spawn" ELSE "ask"]
      /\ pc'[c] = IF Parallel THEN "spawn" ELSE "ask"
  BY DEF Begin, Goto, Inv, ControlOK
<1>1. ControlOK'
  BY <1>0 DEF Inv, ControlOK
<1>4. CallOK(c)'
  <2>1. BeginsOK(c)' /\ AskOK(c)'
    BY <1>0 DEF Inv, CallOK, BeginsOK, AskOK, Parallel, ControlOK
  <2>2. Sent(c)' = {}
    BY NoElements DEF Inv, CallOK, BeginsOK, Sent
  <2>3. ChannelOK(c)'
    BY <1>0, <2>2 DEF Inv, CallOK, BeginsOK, ChannelOK, Through, ControlOK
  <2>. QED  BY <1>0, <2>1, <2>3 DEF CallOK, PickOK, Combines, MergeOK
<1>5. ASSUME NEW d \in Call \ {c} PROVE CallOK(d)'
  BY <1>0, CallKept DEF Inv, ControlOK
<1>. QED  BY <1>1, <1>4, <1>5

(* One source after the other. *)
LEMMA AskKeeps ==
    ASSUME Inv, NEW c \in Call, AskSource(c)
    PROVE  Inv'
<1>. DEFINE i == at[c]
<1>0. /\ pc[c] = "ask" /\ i \in Source /\ i \in 1..N /\ ~Parallel
      /\ \A k \in Source : goroutine[c][k] = "off"
      /\ channel[c] = <<>> /\ received[c] = {}
      /\ \A k \in i..N : got[c][k] = Unasked
  BY DEF AskSource, Inv, CallOK, BeginsOK, Source
<1>1. PICK a \in Answer(i) \cup {Skipped} :
         got' = [got EXCEPT ![c][i] = a] /\ Answered(c, i, a)
  BY DEF AskSource
<1>2. /\ at' = [at EXCEPT ![c] = i + 1]
      /\ UNCHANGED <<setting, cache, fresh, lastError, goroutine, channel, closed,
                     received, cancelled, late>>
  BY DEF AskSource
<1>3. /\ a \in AllRoutes \cup {NoConfig, Err, Skipped, Unasked}
      /\ a # Unasked
      /\ ~IsRoute(a) => a \in NoRoute
  BY <1>0, <1>1, AnswerType, CompositeAssumption DEF NoRoute
<1>4. /\ got' \in [Call -> [Source -> AllRoutes \cup {NoConfig, Err, Skipped, Unasked}]]
      /\ got'[c] = [got[c] EXCEPT ![i] = a]
      /\ \A d \in Call \ {c} : got'[d] = got[d]
  BY <1>0, <1>1, <1>3 DEF Inv, Types
<1>5. \/ /\ pc' = [pc EXCEPT ![c] = "ask"] /\ result' = result /\ i # N
         /\ setting.mode \in {"failover", "priority"} => ~IsRoute(a)
      \/ /\ pc' = [pc EXCEPT ![c] = "finish"]
         /\ \E x : /\ result' = [result EXCEPT ![c] = x]
                   /\ setting.mode \in {"failover", "priority"} =>
                         \/ IsRoute(a) /\ x = a
                         \/ ~IsRoute(a) /\ x = NoConfig /\ i = N
                   /\ setting.mode = "merge" => x = Merged(got'[c], Source)
  BY <1>1, <1>4 DEF Answered, Combined, Goto
<1>6. Types'
  <2>1. at' \in [Call -> 1..(N + 1)]
    BY <1>0, <1>2, CompositeAssumption DEF Inv, Types
  <2>. QED  BY <1>2, <1>4, <2>1 DEF Inv, Types
<1>7. ControlOK'
  BY <1>2, <1>5 DEF Inv, ControlOK
<1>8. ASSUME NEW d \in Call \ {c} PROVE CallOK(d)'
  BY <1>2, <1>4, <1>5, CallKept DEF Inv, ControlOK, Types
<1>9. ChannelOK(c)'
  BY NoElements, <1>0, <1>2, <1>5 DEF Inv, CallOK, ChannelOK, Sent, Through, ControlOK
<1>10. CASE pc' = [pc EXCEPT ![c] = "ask"] /\ i # N
  <2>1. pc'[c] = "ask" /\ at'[c] = i + 1 /\ i + 1 \in Source
    BY <1>0, <1>2, <1>10, CompositeAssumption DEF Inv, Types, ControlOK, Source
  <2>2. setting.mode \in {"failover", "priority"} => ~IsRoute(a)
    BY <1>5, <1>10, <2>1 DEF Inv, ControlOK
  <2>3. BeginsOK(c)'
    <3>1. \A k \in (i + 1)..N : got'[c][k] = Unasked
      <4>1. \A k \in (i + 1)..N : k \in Source /\ k # i /\ k \in i..N
        BY <1>0, CompositeAssumption DEF Source
      <4>2. \A k \in Source : k # i => got'[c][k] = got[c][k]
        BY <1>0, <1>4 DEF Inv, Types
      <4>. QED  BY <1>0, <4>1, <4>2
    <3>. QED  BY <1>0, <1>2, <2>1, <3>1 DEF BeginsOK, Parallel
  <2>4. AskOK(c)'
    <3>. SUFFICES ASSUME setting.mode \in {"failover", "priority"}, NEW k \in 1..i
                  PROVE  got'[c][k] \in NoRoute
      BY <1>0, <1>2, <2>1, CompositeAssumption DEF AskOK, Source
    <3>1. CASE k = i
      <4>1. got'[c][i] = a
        BY <1>0, <1>4 DEF Inv, Types
      <4>. QED  BY <1>3, <2>2, <3>1, <4>1
    <3>2. CASE k # i
      <4>1. k \in 1..(i - 1) /\ k \in Source
        BY <1>0, <3>2, CompositeAssumption DEF Source
      <4>2. got[c][k] \in NoRoute
        BY <1>0, <4>1 DEF Inv, CallOK, AskOK
      <4>. QED  BY <1>4, <3>2, <4>1, <4>2 DEF Inv, Types
    <3>. QED  BY <3>1, <3>2
  <2>. QED  BY <1>6, <1>7, <1>8, <1>9, <2>1, <2>3, <2>4
            DEF Inv, CallOK, PickOK, Combines, MergeOK
<1>11. CASE ~(pc' = [pc EXCEPT ![c] = "ask"] /\ i # N)
  <2>1. PICK x : /\ pc' = [pc EXCEPT ![c] = "finish"]
                 /\ result' = [result EXCEPT ![c] = x]
                 /\ setting.mode \in {"failover", "priority"} =>
                         \/ IsRoute(a) /\ x = a
                         \/ ~IsRoute(a) /\ x = NoConfig /\ i = N
                 /\ setting.mode = "merge" => x = Merged(got'[c], Source)
    BY <1>5, <1>11
  <2>2. pc'[c] = "finish" /\ result'[c] = x
    BY <2>1 DEF Inv, ControlOK
  <2>3. BeginsOK(c)' /\ AskOK(c)'
    BY <2>2 DEF BeginsOK, AskOK
  <2>4. \A k \in Source : Settled(c, k)'
    BY <1>0, <1>2 DEF Settled
  <2>5. MergeOK(c)'
    BY <1>2, <2>1, <2>2, <2>4 DEF MergeOK
  <2>6. PickOK(c)'
    <3>. SUFFICES ASSUME setting.mode \in {"failover", "priority"}
                  PROVE  IF x = NoConfig
                         THEN \A k \in Source : ~IsRoute(got'[c][k])
                         ELSE \E k \in Source :
                                 /\ got'[c][k] = x
                                 /\ \A j \in 1..(k - 1) : got'[c][j] \in NoRoute
      <4>1. \A k \in Source : \A j \in 1..(k - 1) : j \in Source
        BY CompositeAssumption DEF Source
      <4>. QED  BY <1>2, <2>2, <2>4, <4>1 DEF PickOK, IsPick, Combines
    <3>1. \A k \in 1..(i - 1) : got'[c][k] \in NoRoute
      <4>1. \A k \in 1..(i - 1) : got[c][k] \in NoRoute /\ k \in Source /\ k # i
        BY <1>0, CompositeAssumption DEF Inv, CallOK, AskOK, Source
      <4>. QED  BY <1>4, <4>1 DEF Inv, Types
    <3>2. got'[c][i] = a
      BY <1>0, <1>4 DEF Inv, Types
    <3>3. CASE IsRoute(a)
      BY <1>0, <2>1, <3>1, <3>2, <3>3, NoRouteFacts
    <3>4. CASE ~IsRoute(a)
      <4>1. x = NoConfig /\ i = N
        BY <2>1, <3>4
      <4>2. \A k \in Source : k = i \/ k \in 1..(i - 1)
        BY <4>1, CompositeAssumption DEF Source
      <4>. QED  BY <3>1, <3>2, <3>4, <4>1, <4>2, NoRouteFacts
    <3>. QED  BY <3>3, <3>4
  <2>. QED  BY <1>6, <1>7, <1>8, <1>9, <2>3, <2>5, <2>6 DEF Inv, CallOK
<1>. QED  BY <1>10, <1>11

(* All at once: a source answers. *)
LEMMA GoCallKeeps ==
    ASSUME Inv, NEW c \in Call, NEW i \in Source, GoCall(c, i)
    PROVE  Inv'
<1>0. PICK a \in Answer(i) :
         /\ goroutine[c][i] = "calling"
         /\ got' = [got EXCEPT ![c][i] = a]
         /\ goroutine' = [goroutine EXCEPT ![c][i] = "sending"]
         /\ UNCHANGED <<setting, cache, fresh, lastError, pc, at, channel, closed,
                        received, cancelled, result, late>>
  BY DEF GoCall
<1>1. /\ got' \in [Call -> [Source -> AllRoutes \cup {NoConfig, Err, Skipped, Unasked}]]
      /\ got'[c] = [got[c] EXCEPT ![i] = a]
      /\ \A d \in Call \ {c} : got'[d] = got[d]
  BY <1>0, AnswerType DEF Inv, Types
<1>2. /\ goroutine' \in [Call -> [Source -> {"off", "calling", "sending", "sent", "done"}]]
      /\ goroutine'[c] = [goroutine[c] EXCEPT ![i] = "sending"]
      /\ \A d \in Call \ {c} : goroutine'[d] = goroutine[d]
  BY <1>0 DEF Inv, ControlOK
<1>3. Types' /\ ControlOK'
  BY <1>0, <1>1, <1>2 DEF Inv, Types, ControlOK
<1>5. ASSUME NEW d \in Call \ {c} PROVE CallOK(d)'
  BY <1>0, <1>1, <1>2, CallKept DEF Inv
<1>6. CallOK(c)'
  <2>1. CallOK(c) /\ goroutine[c] \in [Source -> {"off", "calling", "sending", "sent", "done"}]
        /\ got[c] \in [Source -> AllRoutes \cup {NoConfig, Err, Skipped, Unasked}]
    BY DEF Inv, ControlOK, Types
  <2>2. BeginsOK(c)' /\ AskOK(c)'
    BY <1>0, <2>1, <1>1, <1>2 DEF CallOK, BeginsOK, AskOK, Parallel
  <2>3. ChannelOK(c)'
    <3>1. Sent(c)' = Sent(c)
      BY <1>0 DEF Sent
    <3>. QED  BY <1>0, <1>1, <1>2, <2>1, <3>1 DEF CallOK, ChannelOK, Through
  <2>4. PickOK(c)'
    <3>1. \A k \in Source : Settled(c, k) => Settled(c, k)' /\ got'[c][k] = got[c][k]
      BY <1>0, <1>1, <1>2, <2>1 DEF Settled
    <3>2. \A k \in Source : \A j \in 1..(k - 1) : j \in Source
      BY CompositeAssumption DEF Source
    <3>. QED  BY <1>0, <2>1, <3>1, <3>2 DEF CallOK, PickOK, IsPick, Combines
  <2>5. MergeOK(c)'
    <3>1. ~Settled(c, i)
      BY <1>0 DEF Settled
    <3>. QED  BY <1>0, <2>1, <3>1 DEF CallOK, MergeOK
  <2>. QED  BY <2>2, <2>3, <2>4, <2>5 DEF CallOK
<1>. QED  BY <1>3, <1>5, <1>6 DEF Inv

(* It sends its answer, or drops it. *)
LEMMA GoSendKeeps ==
    ASSUME Inv, NEW c \in Call, NEW i \in Source, GoSend(c, i)
    PROVE  Inv'
<1>0. /\ goroutine[c][i] = "sending"
      /\ \/ channel' = [channel EXCEPT ![c] = Append(@, i)]
         \/ setting.mode = "priority" /\ cancelled[c] /\ channel' = channel
      /\ goroutine' = [goroutine EXCEPT ![c][i] = "sent"]
      /\ UNCHANGED <<setting, cache, fresh, lastError, pc, at, got, closed,
                     received, cancelled, result, late>>
  BY DEF GoSend
<1>1. /\ channel' \in [Call -> Seq(Source)]
      /\ \A d \in Call \ {c} : channel'[d] = channel[d]
      /\ \/ channel'[c] = Append(channel[c], i)
         \/ setting.mode = "priority" /\ cancelled[c] /\ channel'[c] = channel[c]
  <2>1. channel[c] \in Seq(Source) /\ Append(channel[c], i) \in Seq(Source)
    BY AppendElements DEF Inv, Types
  <2>. QED  BY <1>0, <2>1 DEF Inv, Types
<1>2. /\ goroutine' \in [Call -> [Source -> {"off", "calling", "sending", "sent", "done"}]]
      /\ goroutine'[c] = [goroutine[c] EXCEPT ![i] = "sent"]
      /\ \A d \in Call \ {c} : goroutine'[d] = goroutine[d]
  BY <1>0 DEF Inv, ControlOK
<1>3. Types' /\ ControlOK'
  BY <1>0, <1>1, <1>2 DEF Inv, Types, ControlOK
<1>5. ASSUME NEW d \in Call \ {c} PROVE CallOK(d)'
  BY <1>0, <1>1, <1>2, CallKept DEF Inv
<1>6. CallOK(c)'
  <2>1. CallOK(c) /\ goroutine[c] \in [Source -> {"off", "calling", "sending", "sent", "done"}]
        /\ channel[c] \in Seq(Source)
    BY DEF Inv, ControlOK, Types
  <2>2. BeginsOK(c)' /\ AskOK(c)'
    BY <1>0, <2>1, <1>2 DEF CallOK, BeginsOK, AskOK, Parallel
  <2>3. ChannelOK(c)'
    <3>1. /\ Sent(c) \subseteq Sent(c)' /\ Sent(c)' \subseteq Sent(c) \cup {i}
          /\ i \in Sent(c)' \/ (setting.mode = "priority" /\ cancelled[c])
      <4>1. CASE channel'[c] = Append(channel[c], i)
        <5>1. Elements(channel'[c]) = Elements(channel[c]) \cup {i}
          BY <2>1, <4>1, AppendElements
        <5>. QED  BY <1>0, <5>1 DEF Sent
      <4>2. CASE setting.mode = "priority" /\ cancelled[c] /\ channel'[c] = channel[c]
        BY <1>0, <4>2 DEF Sent
      <4>. QED  BY <1>1, <4>1, <4>2
    <3>. QED  BY <1>0, <1>2, <2>1, <3>1 DEF CallOK, ChannelOK, Through
  <2>4. PickOK(c)'
    <3>1. \A k \in Source : Settled(c, k) => Settled(c, k)'
      BY <1>2, <2>1 DEF Settled
    <3>2. \A k \in Source : \A j \in 1..(k - 1) : j \in Source
      BY CompositeAssumption DEF Source
    <3>. QED  BY <1>0, <2>1, <3>1, <3>2 DEF CallOK, PickOK, IsPick, Combines
  <2>5. MergeOK(c)'
    <3>1. ~Settled(c, i)
      BY <1>0 DEF Settled
    <3>. QED  BY <1>0, <2>1, <3>1 DEF CallOK, MergeOK
  <2>. QED  BY <2>2, <2>3, <2>4, <2>5 DEF CallOK
<1>. QED  BY <1>3, <1>5, <1>6 DEF Inv

(* It returns. *)
LEMMA GoDoneKeeps ==
    ASSUME Inv, NEW c \in Call, NEW i \in Source, GoDone(c, i)
    PROVE  Inv'
<1>0. /\ goroutine[c][i] = "sent"
      /\ goroutine' = [goroutine EXCEPT ![c][i] = "done"]
      /\ UNCHANGED <<setting, cache, fresh, lastError, pc, at, got, channel, closed,
                     received, cancelled, result, late>>
  BY DEF GoDone
<1>1. Types' /\ ControlOK'
  BY <1>0 DEF Inv, Types, ControlOK
<1>2. ASSUME NEW d \in Call \ {c} PROVE CallOK(d)'
  BY <1>0, CallKept DEF Inv, ControlOK
<1>3. CallOK(c)'
  <2>1. CallOK(c) /\ Sent(c)' = Sent(c)
    BY <1>0 DEF Inv, Sent
  <2>2. \A k \in Source : goroutine'[c][k] = IF k = i THEN "done" ELSE goroutine[c][k]
    BY <1>0 DEF Inv, ControlOK
  <2>3. BeginsOK(c)' /\ AskOK(c)'
    BY <1>0, <2>1, <2>2 DEF CallOK, BeginsOK, AskOK, Parallel
  <2>4. \A k \in Source : /\ Through(c, k) <=> Through(c, k)'
                          /\ Settled(c, k) <=> Settled(c, k)'
    BY <1>0, <2>2 DEF Through, Settled
  <2>5. Sent(c) \subseteq Source
    BY DEF Inv, Types, Sent, Elements
  <2>6. ChannelOK(c)'
    BY <1>0, <2>1, <2>2, <2>4, <2>5 DEF CallOK, ChannelOK
  <2>7. PickOK(c)' /\ MergeOK(c)'
    <3>1. \A k \in Source : \A j \in 1..(k - 1) : j \in Source
      BY CompositeAssumption DEF Source
    <3>. QED  BY <1>0, <2>1, <2>4, <3>1 DEF CallOK, PickOK, IsPick, Combines, MergeOK
  <2>. QED  BY <2>3, <2>6, <2>7 DEF CallOK
<1>. QED  BY <1>1, <1>2, <1>3 DEF Inv

(* The loop starts a goroutine. *)
LEMMA SpawnKeeps ==
    ASSUME CountInv, Inv, NEW c \in Call, Spawn(c)
    PROVE  Inv'
<1>. DEFINE i == at[c]
<1>0. /\ pc[c] = "spawn" /\ i \in Source /\ goroutine[c][i] = "off"
      /\ goroutine' = [goroutine EXCEPT ![c][i] = "calling"]
      /\ at' = [at EXCEPT ![c] = i + 1]
      /\ pc' = [pc EXCEPT ![c] = IF i = N THEN "collect" ELSE "spawn"]
      /\ UNCHANGED <<setting, cache, fresh, lastError, got, channel, closed, received,
                     cancelled, late, result>>
  <2>1. pc[c] = "spawn" /\ i \in Source /\ i \in i..N
    BY SourceFacts DEF Spawn, CountInv, CountOK, Source
  <2>2. goroutine[c][i] = "off"
    BY <2>1 DEF CountInv, CountOK
  <2>. QED  BY <2>1, <2>2 DEF Spawn, Goto
<1>1. Types' /\ ControlOK'
  <2>1. i + 1 \in 1..(N + 1)
    BY <1>0, CompositeAssumption DEF Source
  <2>. QED  BY <1>0, <2>1 DEF Inv, Types, ControlOK
<1>2. ASSUME NEW d \in Call \ {c} PROVE CallOK(d)'
  BY <1>0, CallKept DEF Inv, Types, ControlOK
<1>3. CallOK(c)'
  <2>1. CallOK(c) /\ Sent(c)' = Sent(c) /\ pc'[c] \in {"spawn", "collect"}
    BY <1>0 DEF Inv, Sent, ControlOK
  <2>2. \A k \in Source : goroutine'[c][k] = IF k = i THEN "calling" ELSE goroutine[c][k]
    BY <1>0 DEF Inv, ControlOK
  <2>3. BeginsOK(c)' /\ AskOK(c)'
    BY <1>0, <2>1 DEF CallOK, BeginsOK, AskOK, Parallel
  <2>4. \A k \in Source : Through(c, k) <=> Through(c, k)'
    BY <1>0, <2>2 DEF Through
  <2>5. Sent(c) \subseteq Source
    BY DEF Inv, Types, Sent, Elements
  <2>6. ChannelOK(c)'
    BY <1>0, <2>1, <2>2, <2>4, <2>5 DEF CallOK, ChannelOK
  <2>. QED  BY <2>1, <2>3, <2>6 DEF CallOK, PickOK, Combines, MergeOK
<1>. QED  BY <1>1, <1>2, <1>3 DEF Inv

(* When the call is decided: the first of the sources in R that has a       *)
(* route, where R is all of them or has the first source's route.           *)
LEMMA DecisionOK ==
    ASSUME NEW c \in Call, NEW R \in SUBSET Source, ChannelOK(c),
           \A i \in R : Through(c, i),
           R = Source \/ (1 \in R /\ IsRoute(got[c][1]))
    PROVE  IsPick(c, FirstRoute(got[c], R))
<1>. DEFINE x == FirstRoute(got[c], R)
<1>. SUFFICES IsPick(c, x)
  OBVIOUS
<1>0. \/ x = NoConfig /\ \A i \in R : ~IsRoute(got[c][i])
      \/ \E i \in R : /\ x = got[c][i] /\ IsRoute(got[c][i])
                      /\ \A j \in R : j < i => ~IsRoute(got[c][j])
  BY FirstRouteIsFirst
<1>. HIDE DEF x
<1>1. \A i \in R : Settled(c, i) /\ got[c][i] \in Answer(i)
  BY DEF Settled, ChannelOK, Through
<1>2. CASE x = NoConfig /\ \A i \in R : ~IsRoute(got[c][i])
  <2>1. R = Source
    BY <1>2
  <2>. QED  BY <1>1, <1>2, <2>1 DEF IsPick
<1>3. CASE \E i \in R : /\ x = got[c][i] /\ IsRoute(got[c][i])
                        /\ \A j \in R : j < i => ~IsRoute(got[c][j])
  <2>1. PICK i \in R : /\ x = got[c][i] /\ IsRoute(got[c][i])
                       /\ \A j \in R : j < i => ~IsRoute(got[c][j])
    BY <1>3
  <2>2. x # NoConfig
    BY <2>1, NoRouteFacts
  <2>3. \A j \in 1..(i - 1) : j \in R /\ j < i
    <3>1. i \in 1..N /\ N \in Nat
      BY CompositeAssumption DEF Source
    <3>2. CASE R = Source
      BY <3>1, <3>2 DEF Source
    <3>3. CASE 1 \in R /\ IsRoute(got[c][1])
      <4>1. ~(1 < i)
        BY <2>1, <3>3
      <4>. QED  BY <3>1, <4>1
    <3>. QED  BY <3>2, <3>3
  <2>4. \A j \in 1..(i - 1) : got[c][j] \in NoRoute
    <3>1. \A j \in 1..(i - 1) : ~IsRoute(got[c][j]) /\ got[c][j] \in Answer(j) /\ j \in Source
      BY <1>1, <2>1, <2>3
    <3>. QED  BY <3>1, AnswerType DEF NoRoute
  <2>. QED  BY <1>1, <2>1, <2>2, <2>3, <2>4 DEF IsPick
<1>. QED  BY <1>0, <1>2, <1>3

(* All the sources have been heard of when there are N results. *)
LEMMA AllHeard ==
    ASSUME NEW R \in SUBSET Source, Cardinality(R) = N
    PROVE  R = Source
<1>1. IsFiniteSet(Source) /\ Cardinality(Source) = N
  BY CompositeAssumption, FS_Interval DEF Source
<1>. QED  BY <1>1, FS_Subset

(* A result is taken from the channel. *)
LEMMA CollectKeeps ==
    ASSUME Inv, NEW c \in Call, Collect(c)
    PROVE  Inv'
<1>. DEFINE i == Head(channel[c])
            R == received[c] \cup {i}
<1>0. /\ pc[c] = "collect" /\ channel[c] # <<>>
      /\ channel' = [channel EXCEPT ![c] = Tail(@)]
      /\ received' = [received EXCEPT ![c] = R]
      /\ UNCHANGED <<setting, cache, fresh, lastError, at, got, goroutine, closed, late>>
  BY DEF Collect
<1>1. /\ channel[c] \in Seq(Source) /\ Tail(channel[c]) \in Seq(Source)
      /\ i \in Source /\ R \in SUBSET Source
      /\ channel' \in [Call -> Seq(Source)] /\ received' \in [Call -> SUBSET Source]
      /\ channel'[c] = Tail(channel[c]) /\ received'[c] = R
      /\ \A d \in Call \ {c} : channel'[d] = channel[d] /\ received'[d] = received[d]
  BY <1>0, TailElements DEF Inv, Types
<1>2. Sent(c)' = Sent(c) /\ R \subseteq Sent(c)
  <2>1. Elements(channel[c]) = {i} \cup Elements(Tail(channel[c]))
    BY <1>0, <1>1, TailElements
  <2>. QED  BY <1>0, <1>1, <2>1 DEF Sent
<1>. HIDE DEF i, R
<1>3. CallOK(c) /\ Parallel
  BY <1>0 DEF Inv, CallOK, BeginsOK
<1>4. CASE setting.mode = "priority" /\ Decided(c, R)
  <2>0. /\ pc' = [pc EXCEPT ![c] = "finish"]
        /\ result' = [result EXCEPT ![c] = FirstRoute(got[c], R)]
        /\ cancelled' = [cancelled EXCEPT ![c] = TRUE]
    BY <1>1, <1>4 DEF Collect, Combined, Goto
  <2>1. Types' /\ ControlOK'
    BY <1>0, <1>1, <2>0 DEF Inv, Types, ControlOK
  <2>2. ASSUME NEW d \in Call \ {c} PROVE CallOK(d)'
    BY <1>0, <1>1, <2>0, CallKept DEF Inv, Types, ControlOK
  <2>3. pc'[c] = "finish" /\ result'[c] = FirstRoute(got[c], R)
    BY <2>0 DEF Inv, ControlOK
  <2>4. R = Source \/ (1 \in R /\ IsRoute(got[c][1]))
    <3>1. (1 \in R /\ IsRoute(got[c][1])) \/ Cardinality(R) = N
      BY <1>4 DEF Decided
    <3>. QED  BY <1>1, <3>1, AllHeard
  <2>5. PickOK(c)'
    <3>1. \A k \in R : Through(c, k)
      BY <1>2, <1>3 DEF CallOK, ChannelOK, Through
    <3>2. IsPick(c, FirstRoute(got[c], R))
      BY <1>1, <1>3, <2>4, <3>1, DecisionOK DEF CallOK
    <3>. QED  BY <1>0, <2>3, <3>2 DEF PickOK, IsPick, Settled
  <2>6. ChannelOK(c)'
    BY <1>0, <1>2, <1>3, <2>3 DEF CallOK, ChannelOK, Through
  <2>7. BeginsOK(c)' /\ AskOK(c)' /\ MergeOK(c)'
    BY <1>0, <1>4, <2>3 DEF BeginsOK, AskOK, MergeOK
  <2>. QED  BY <2>1, <2>2, <2>5, <2>6, <2>7 DEF Inv, CallOK
<1>5. CASE ~(setting.mode = "priority" /\ Decided(c, R))
  <2>0. UNCHANGED <<pc, result, cancelled>>
    BY <1>1, <1>5 DEF Collect
  <2>1. Types' /\ ControlOK'
    BY <1>0, <1>1, <2>0 DEF Inv, Types, ControlOK
  <2>2. ASSUME NEW d \in Call \ {c} PROVE CallOK(d)'
    BY <1>0, <1>1, <2>0, CallKept DEF Inv
  <2>3. ChannelOK(c)'
    BY <1>0, <1>2, <1>3, <2>0 DEF CallOK, ChannelOK, Through
  <2>4. BeginsOK(c)' /\ AskOK(c)' /\ PickOK(c)' /\ MergeOK(c)'
    BY <1>0, <1>3, <2>0 DEF BeginsOK, AskOK, PickOK, Combines, MergeOK, Parallel
  <2>. QED  BY <2>1, <2>2, <2>3, <2>4 DEF Inv, CallOK
<1>. QED  BY <1>4, <1>5

(* The channel is closed and drained: every goroutine has sent, unless the  *)
(* deadline of the call made it drop its answer.                            *)
LEMMA CollectEndKeeps ==
    ASSUME CountInv, Inv, NEW c \in Call, CollectEnd(c)
    PROVE  Inv'
<1>0. /\ pc[c] = "collect" /\ channel[c] = <<>> /\ closed[c]
      /\ pc' = [pc EXCEPT ![c] = "finish"]
      /\ result' = [result EXCEPT ![c] = IF setting.mode = "merge" THEN MergedResults(c)
                                         ELSE FirstRoute(got[c], received[c])]
      /\ cancelled' = [cancelled EXCEPT ![c] = TRUE]
      /\ UNCHANGED <<setting, cache, fresh, lastError, at, got, goroutine, channel,
                     closed, received, late>>
  BY DEF CollectEnd, Combined, Goto
<1>1. Types' /\ ControlOK'
  BY <1>0 DEF Inv, Types, ControlOK
<1>2. ASSUME NEW d \in Call \ {c} PROVE CallOK(d)'
  BY <1>0, CallKept DEF Inv, Types, ControlOK
<1>3. /\ CallOK(c) /\ Parallel /\ received[c] \in SUBSET Source
      /\ \A i \in Source : Through(c, i) /\ Settled(c, i) /\ Settled(c, i)'
  BY <1>0 DEF Inv, CallOK, BeginsOK, Types, CountInv, CountOK, Settled, Through
<1>4. Sent(c) = received[c] /\ Sent(c)' = Sent(c)
  BY NoElements, <1>0 DEF Sent
<1>5. setting.mode = "merge" \/ c \notin late => received[c] = Source
  BY <1>0, <1>3, <1>4 DEF CallOK, ChannelOK, Through
<1>6. /\ pc'[c] = "finish"
      /\ result'[c] = IF setting.mode = "merge" THEN MergedResults(c)
                      ELSE FirstRoute(got[c], received[c])
  BY <1>0 DEF Inv, ControlOK
<1>7. BeginsOK(c)' /\ AskOK(c)'
  BY <1>6 DEF BeginsOK, AskOK
<1>8. ChannelOK(c)'
  BY <1>0, <1>3, <1>4, <1>6 DEF CallOK, ChannelOK, Through
<1>9. MergeOK(c)'
  BY <1>0, <1>3, <1>5, <1>6 DEF MergeOK, MergedResults
<1>10. PickOK(c)'
  <2>. SUFFICES ASSUME setting.mode # "merge", c \notin late
                PROVE  PickOK(c)'
    BY <1>0 DEF PickOK, Combines
  <2>1. IsPick(c, FirstRoute(got[c], Source))
    BY <1>3, DecisionOK DEF CallOK
  <2>2. result'[c] = FirstRoute(got[c], Source)
    BY <1>5, <1>6
  <2>. QED  BY <1>0, <2>1, <2>2 DEF PickOK, IsPick, Settled
<1>. QED  BY <1>1, <1>2, <1>7, <1>8, <1>9, <1>10 DEF Inv, CallOK

-----------------------------------------------------------------------------
(* The other steps: the cache, the closing of the channel, the deadline.     *)
LEMMA GetCachedKeeps ==
    ASSUME Inv, NEW c \in Call, GetCached(c)
    PROVE  Inv'
<1>0. /\ pc[c] = "new"
      /\ UNCHANGED <<setting, cache, fresh, lastError, at, got, goroutine, channel,
                     closed, received, cancelled, late>>
  BY DEF GetCached, calls
<1>1. Types'
  BY <1>0 DEF Inv, Types
<1>2. CASE pc' = [pc EXCEPT ![c] = "done"] /\ result' = [result EXCEPT ![c] = cache]
  <2>1. ControlOK'
    BY <1>0, <1>2 DEF Inv, ControlOK
  <2>2. CallOK(c)'
    BY <1>0, <1>2, DoneOK DEF Inv, ControlOK
  <2>3. ASSUME NEW d \in Call \ {c} PROVE CallOK(d)'
    BY <1>0, <1>2, CallKept DEF Inv, ControlOK
  <2>. QED  BY <1>1, <2>1, <2>2, <2>3 DEF Inv
<1>3. CASE pc' = [pc EXCEPT ![c] = "drop"] /\ result' = result
  <2>1. ControlOK'
    BY <1>0, <1>3 DEF Inv, ControlOK
  <2>2. CallOK(c)'
    <3>1. pc'[c] = "drop" /\ CallOK(c)
      BY <1>3 DEF Inv, ControlOK
    <3>2. Sent(c)' = Sent(c)
      BY <1>0 DEF Sent
    <3>3. ChannelOK(c)'
      BY <1>0, <1>3, <3>1, <3>2 DEF CallOK, ChannelOK, Through
    <3>. QED  BY <1>0, <1>3, <3>1, <3>3
              DEF CallOK, BeginsOK, AskOK, PickOK, Combines, MergeOK
  <2>3. ASSUME NEW d \in Call \ {c} PROVE CallOK(d)'
    BY <1>0, <1>3, CallKept DEF Inv, ControlOK
  <2>. QED  BY <1>1, <2>1, <2>2, <2>3 DEF Inv
<1>4. CASE Begin(c) /\ result' = result
  BY <1>0, <1>1, <1>4, BeginKeeps DEF Inv
<1>. QED  BY <1>2, <1>3, <1>4 DEF GetCached, Goto

LEMMA DropExpiredKeeps ==
    ASSUME Inv, NEW c \in Call, DropExpired(c)
    PROVE  Inv'
<1>1. Types'
  BY DEF DropExpired, calls, Inv, Types
<1>. QED  BY <1>1, BeginKeeps DEF DropExpired, calls, Inv

(* A failure is not cached. *)
LEMMA FinishKeeps ==
    ASSUME Inv, NEW c \in Call, Finish(c)
    PROVE  Inv'
<1>0. /\ pc' = [pc EXCEPT ![c] = "done"]
      /\ cache' = cache \/ IsRoute(cache')
      /\ fresh' \in BOOLEAN /\ lastError' \in BOOLEAN
      /\ UNCHANGED <<setting, at, got, goroutine, channel, closed, received,
                     cancelled, late, result>>
  BY DEF Finish, Goto, calls, Inv, Types
<1>1. Types' /\ ControlOK'
  BY <1>0 DEF Inv, Types, ControlOK, IsRoute
<1>2. CallOK(c)'
  BY <1>0, DoneOK DEF Inv, ControlOK
<1>3. ASSUME NEW d \in Call \ {c} PROVE CallOK(d)'
  BY <1>0, CallKept DEF Inv, ControlOK
<1>. QED  BY <1>1, <1>2, <1>3 DEF Inv

LEMMA CloseChannelKeeps ==
    ASSUME Inv, NEW c \in Call, CloseChannel(c)
    PROVE  Inv'
<1>0. /\ closed' = [closed EXCEPT ![c] = TRUE]
      /\ UNCHANGED <<setting, cache, fresh, lastError, pc, at, got, goroutine,
                     channel, received, cancelled, result, late>>
  BY DEF CloseChannel
<1>1. Types' /\ ControlOK'
  BY <1>0 DEF Inv, Types, ControlOK
<1>2. ASSUME NEW d \in Call PROVE CallOK(d)'
  BY <1>0, CallKept DEF Inv
<1>. QED  BY <1>1, <1>2 DEF Inv

(* A deadline can only exempt a call from what it owes. *)
LEMMA DeadlineKeeps ==
    ASSUME Inv, NEW c \in Call, Deadline(c)
    PROVE  Inv'
<1>0. /\ pc[c] \in {"ask", "spawn", "collect"}
      /\ cancelled' = [cancelled EXCEPT ![c] = TRUE]
      /\ late' = late \cup {c}
      /\ UNCHANGED <<setting, cache, fresh, lastError, pc, at, got, goroutine,
                     channel, closed, received, result>>
  BY DEF Deadline
<1>1. Types' /\ ControlOK'
  BY <1>0 DEF Inv, Types, ControlOK
<1>2. CallOK(c)'
  <2>1. CallOK(c) /\ Sent(c)' = Sent(c)
    BY <1>0 DEF Inv, Sent
  <2>2. ChannelOK(c)'
    BY <1>0, <2>1 DEF CallOK, ChannelOK, Through
  <2>. QED  BY <1>0, <2>1, <2>2
            DEF CallOK, BeginsOK, AskOK, PickOK, Combines, MergeOK, Parallel
<1>3. ASSUME NEW d \in Call \ {c} PROVE CallOK(d)'
  BY <1>0, CallKept DEF Inv, Types
<1>. QED  BY <1>1, <1>2, <1>3 DEF Inv

LEMMA InvStep == CountInv /\ Inv /\ [Next]_vars => Inv'
<1>. SUFFICES ASSUME CountInv, Inv, [Next]_vars PROVE Inv'
  OBVIOUS
<1>1. ASSUME NEW c \in Call, Step(c) PROVE Inv'
  BY <1>1, GetCachedKeeps, DropExpiredKeeps, FinishKeeps, AskKeeps, CollectKeeps,
     CollectEndKeeps, SpawnKeeps DEF Step
<1>2. ASSUME NEW c \in Call, Go(c) PROVE Inv'
  BY <1>2, CloseChannelKeeps, GoCallKeeps, GoSendKeeps, GoDoneKeeps DEF Go, Goroutine
<1>3. CASE Expire \/ AdminClearCache \/ UNCHANGED vars
  <2>1. /\ cache' = cache \/ cache' = NoConfig
        /\ fresh' \in BOOLEAN
        /\ UNCHANGED <<setting, lastError, pc, at, got, goroutine, channel, closed,
                       received, cancelled, late, result>>
    BY <1>3 DEF Expire, AdminClearCache, vars, calls, Inv, Types
  <2>2. Types' /\ ControlOK'
    BY <2>1 DEF Inv, Types, ControlOK
  <2>3. ASSUME NEW d \in Call PROVE CallOK(d)'
    BY <2>1, CallKept DEF Inv
  <2>. QED  BY <2>2, <2>3 DEF Inv
<1>. QED  BY <1>1, <1>2, <1>3, DeadlineKeeps DEF Next

THEOREM InvHolds == Spec => []Inv
BY InvInit, InvStep, CountInvHolds, PTL DEF Spec

-----------------------------------------------------------------------------
(* What the invariant says.                                                 *)

(* Get and its goroutines hold values of their types, and the result cache  *)
(* a route or nothing: a failed Get is never cached.                        *)
THEOREM TypeCorrect == Spec => []TypeOK
<1>1. Inv /\ CountInv => TypeOK
  BY CountersFit DEF Inv, Types, TypeOK
<1>. QED  BY <1>1, InvHolds, CountInvHolds, PTL

(* For any number of sources: the WaitGroup of getMergeParallel and         *)
(* getPriorityParallel lets the channel be closed only after the last       *)
(* goroutine has sent, those included that outlive their Get.               *)
THEOREM SendsAreSafe == Spec => []NoSendOnClosed
<1>1. CountInv => NoSendOnClosed
  BY DEF CountInv, CountOK, NoSendOnClosed
<1>. QED  BY <1>1, CountInvHolds, PTL

(* Failover and priority, one by one or in parallel: the first source with  *)
(* a route wins, in whatever order the answers arrive and although the      *)
(* goroutines of a decided call still answer.                               *)
THEOREM FirstWins == Spec => []FirstSourceWins
<1>1. Inv => FirstSourceWins
  BY DEF Inv, CallOK, PickOK, IsPick, FirstSourceWins, NoRoute
<1>. QED  BY <1>1, InvHolds, PTL

(* Merging in parallel combines what the sources answered, all of it, in    *)
(* the order of the sources, as merging one by one does.                    *)
THEOREM MergesAll == Spec => []MergesAllAnswers
<1>1. Inv => MergesAllAnswers
  BY DEF Inv, CallOK, MergeOK, MergesAllAnswers
<1>. QED  BY <1>1, InvHolds, PTL

-----------------------------------------------------------------------------
(* What merging computes.                                                   *)

(* Induction on 0..n, for a set of numbers: its least missing number has a  *)
(* predecessor that is not missing.                                         *)
LEMMA UpTo ==
    ASSUME NEW n \in Nat, NEW S \in SUBSET Nat, 0 \in S,
           \A i \in 1..n : i - 1 \in S => i \in S
    PROVE  0..n \subseteq S
<1>. DEFINE bad == (0..n) \ S
<1>1. SUFFICES ASSUME bad # {} PROVE FALSE
  OBVIOUS
<1>2. PICK i \in bad : \A j \in bad : i <= j
  <2>1. bad \subseteq Nat
    OBVIOUS
  <2>. HIDE DEF bad
  <2>2. PICK i \in bad : \A j \in bad : ~(<<j, i>> \in OpToRel(<, Nat))
    BY <1>1, <2>1, NatLessThanWellFounded, WFMin
  <2>3. \A j \in bad : j < i => <<j, i>> \in OpToRel(<, Nat)
    BY <2>1 DEF OpToRel
  <2>4. \A j \in bad : ~(j < i)
    BY <2>2, <2>3, Zenon
  <2>. QED  BY <2>1, <2>4
<1>3. i \in 1..n
  BY <1>2
<1>4. i - 1 \in 0..n /\ i - 1 \notin bad
  BY <1>2, <1>3
<1>. QED  BY <1>3, <1>4

(* The loop of getMergeParallel over the answers A, of which those in R are *)
(* routes: its value after source i, from that before.                      *)
MergeNext(A, R, i, m) ==
    IF i \notin R THEN m
    ELSE IF \A j \in R : i <= j THEN A[i]
    ELSE mergeConfig(m, A[i])

Merges(A, R, n, f) ==
    f = [i \in 0..n |-> IF i = 0 THEN NoConfig ELSE MergeNext(A, R, i, f[i - 1])]

LEMMA MergeExists ==
    ASSUME NEW A, NEW R, NEW n \in Nat
    PROVE  \E f : Merges(A, R, n, f)
<1>. DEFINE S == {k \in Nat : \E f : Merges(A, R, k, f)}
<1>1. 0 \in S
  <2>1. Merges(A, R, 0, [i \in 0..0 |-> NoConfig])
    BY DEF Merges
  <2>. QED  BY <2>1
<1>2. ASSUME NEW k \in 1..n, k - 1 \in S
      PROVE  k \in S
  <2>1. PICK f : Merges(A, R, k - 1, f)
    BY <1>2
  <2>. DEFINE e == [i \in 0..k |-> IF i = k THEN MergeNext(A, R, k, f[k - 1]) ELSE f[i]]
  <2>2. \A i \in 0..k : e[i] = IF i = 0 THEN NoConfig ELSE MergeNext(A, R, i, e[i - 1])
    <3>1. \A i \in 0..(k - 1) : f[i] = IF i = 0 THEN NoConfig ELSE MergeNext(A, R, i, f[i - 1])
      BY <2>1 DEF Merges
    <3>2. ASSUME NEW i \in 0..k, i # k
          PROVE  e[i] = IF i = 0 THEN NoConfig ELSE MergeNext(A, R, i, e[i - 1])
      <4>1. i \in 0..(k - 1) /\ e[i] = f[i]
        BY <1>2, <3>2
      <4>2. i # 0 => i - 1 \in 0..k /\ i - 1 # k /\ e[i - 1] = f[i - 1]
        BY <1>2, <4>1
      <4>. QED  BY <3>1, <4>1, <4>2
    <3>3. e[k] = IF k = 0 THEN NoConfig ELSE MergeNext(A, R, k, e[k - 1])
      <4>1. k # 0 /\ k \in 0..k /\ k - 1 \in 0..k /\ k - 1 # k
        BY <1>2
      <4>2. e[k] = MergeNext(A, R, k, f[k - 1]) /\ e[k - 1] = f[k - 1]
        BY <4>1
      <4>. HIDE DEF e
      <4>. QED  BY <4>1, <4>2
    <3>. QED  BY <3>2, <3>3
  <2>3. Merges(A, R, k, e)
    <3>1. e = [i \in 0..k |-> e[i]]
      OBVIOUS
    <3>. HIDE DEF e
    <3>. QED  BY <2>2, <3>1 DEF Merges
  <2>. QED  BY <1>2, <2>3
<1>. HIDE DEF S
<1>3. S \in SUBSET Nat
  BY DEF S
<1>4. 0..n \subseteq S
  BY <1>1, <1>2, <1>3, UpTo
<1>. QED  BY <1>4 DEF S

LEMMA MergeSteps ==
    ASSUME NEW A
    PROVE  LET R == {i \in Source : IsRoute(A[i])} IN
           \E f : /\ f[0] = NoConfig /\ Merged(A, Source) = f[N]
                  /\ \A i \in 1..N : f[i] = MergeNext(A, R, i, f[i - 1])
<1>. DEFINE R == {i \in Source : IsRoute(A[i])}
            f == CHOOSE h : Merges(A, R, N, h)
<1>1. N \in Nat
  BY CompositeAssumption
<1>2. Merges(A, R, N, f)
  <2>. HIDE DEF R
  <2>. QED  BY <1>1, MergeExists
<1>3. Merged(A, Source) = f[N]
  BY DEF Merged, Merges, MergeNext
<1>. HIDE DEF f, R
<1>4. \A i \in 0..N : f[i] = IF i = 0 THEN NoConfig ELSE MergeNext(A, R, i, f[i - 1])
  BY <1>2 DEF Merges
<1>5. 0 \in 0..N /\ \A i \in 1..N : i \in 0..N /\ i # 0
  BY <1>1
<1>6. f[0] = NoConfig /\ \A i \in 1..N : f[i] = MergeNext(A, R, i, f[i - 1])
  BY <1>4, <1>5
<1>. QED  BY <1>3, <1>6 DEF R

(* The recursive function of FlattenSeq, for n sequences. *)
Flattens(q, n, f) ==
    f = [i \in 1..n |-> IF i = 1 THEN q[i] ELSE f[i - 1] \o q[i]]

LEMMA FlattenExists ==
    ASSUME NEW q, NEW n \in Nat
    PROVE  \E f : Flattens(q, n, f)
<1>. DEFINE S == {k \in Nat : \E f : Flattens(q, k, f)}
<1>1. 0 \in S
  <2>1. Flattens(q, 0, [i \in 1..0 |-> q])
    BY DEF Flattens
  <2>. QED  BY <2>1
<1>2. ASSUME NEW k \in 1..n, k - 1 \in S
      PROVE  k \in S
  <2>1. PICK f : Flattens(q, k - 1, f)
    BY <1>2
  <2>. DEFINE e == [i \in 1..k |-> IF i = k THEN (IF k = 1 THEN q[k] ELSE f[k - 1] \o q[k])
                                            ELSE f[i]]
  <2>2. \A i \in 1..k : e[i] = IF i = 1 THEN q[i] ELSE e[i - 1] \o q[i]
    <3>1. \A i \in 1..(k - 1) : f[i] = IF i = 1 THEN q[i] ELSE f[i - 1] \o q[i]
      BY <2>1 DEF Flattens
    <3>2. ASSUME NEW i \in 1..k, i # k
          PROVE  e[i] = IF i = 1 THEN q[i] ELSE e[i - 1] \o q[i]
      <4>1. i \in 1..(k - 1) /\ e[i] = f[i]
        BY <1>2, <3>2
      <4>2. i # 1 => i - 1 \in 1..k /\ i - 1 # k /\ e[i - 1] = f[i - 1]
        BY <1>2, <4>1
      <4>. QED  BY <3>1, <4>1, <4>2
    <3>3. e[k] = IF k = 1 THEN q[k] ELSE e[k - 1] \o q[k]
      <4>1. k \in 1..k /\ (k # 1 => k - 1 \in 1..k /\ k - 1 # k)
        BY <1>2
      <4>2. /\ e[k] = IF k = 1 THEN q[k] ELSE f[k - 1] \o q[k]
            /\ k # 1 => e[k - 1] = f[k - 1]
        BY <4>1
      <4>. HIDE DEF e
      <4>. QED  BY <4>2
    <3>. QED  BY <3>2, <3>3
  <2>3. Flattens(q, k, e)
    <3>1. e = [i \in 1..k |-> e[i]]
      OBVIOUS
    <3>. HIDE DEF e
    <3>. QED  BY <2>2, <3>1 DEF Flattens
  <2>. QED  BY <1>2, <2>3
<1>. HIDE DEF S
<1>3. S \in SUBSET Nat
  BY DEF S
<1>4. 0..n \subseteq S
  BY <1>1, <1>2, <1>3, UpTo
<1>. QED  BY <1>4 DEF S

LEMMA FlattenSteps ==
    ASSUME NEW q, NEW n \in Nat \ {0}, Len(q) = n
    PROVE  \E f : /\ FlattenSeq(q) = f[n] /\ f[1] = q[1]
                  /\ \A i \in 2..n : f[i] = f[i - 1] \o q[i]
<1>. DEFINE f == CHOOSE h : Flattens(q, n, h)
<1>1. Flattens(q, n, f)
  BY FlattenExists
<1>2. FlattenSeq(q) = f[n]
  BY DEF FlattenSeq, Flattens
<1>. HIDE DEF f
<1>3. \A i \in 1..n : f[i] = IF i = 1 THEN q[i] ELSE f[i - 1] \o q[i]
  BY <1>1 DEF Flattens
<1>4. 1 \in 1..n /\ \A i \in 2..n : i \in 1..n /\ i # 1
  OBVIOUS
<1>5. f[1] = q[1] /\ \A i \in 2..n : f[i] = f[i - 1] \o q[i]
  BY <1>3, <1>4
<1>. QED  BY <1>2, <1>5

(* x is what the last source up to k gave that gave anything. *)
LastUpTo(x, v, R, k, none) ==
    \/ x = none /\ \A i \in R : i <= k => v[i] = none
    \/ \E i \in R : /\ i <= k /\ x = v[i] /\ v[i] # none
                    /\ \A j \in R : i < j /\ j <= k => v[j] = none

LEMMA LastKept ==
    ASSUME NEW R \in SUBSET Nat, NEW k \in Nat \ {0}, k \notin R, NEW v, NEW none, NEW x,
           LastUpTo(x, v, R, k - 1, none)
    PROVE  LastUpTo(x, v, R, k, none)
<1>1. \A i \in R : i <= k <=> i <= k - 1
  OBVIOUS
<1>. QED  BY <1>1 DEF LastUpTo

LEMMA LastNext ==
    ASSUME NEW R \in SUBSET Nat, NEW k \in R, k # 0, NEW v, NEW none, NEW x, NEW y,
           LastUpTo(x, v, R, k - 1, none), y = IF v[k] = none THEN x ELSE v[k]
    PROVE  LastUpTo(y, v, R, k, none)
<1>1. \A i \in R : i <= k <=> i <= k - 1 \/ i = k
  OBVIOUS
<1>2. CASE v[k] = none
  <2>1. y = x
    BY <1>2
  <2>. QED  BY <1>1, <1>2, <2>1 DEF LastUpTo
<1>3. CASE v[k] # none
  <2>1. y = v[k] /\ k <= k /\ \A j \in R : ~(k < j /\ j <= k)
    BY <1>3
  <2>. QED  BY <1>3, <2>1 DEF LastUpTo
<1>. QED  BY <1>2, <1>3

LEMMA LastIs ==
    ASSUME NEW R \in SUBSET Nat, NEW n \in Nat, \A i \in R : i <= n,
           NEW v, DOMAIN v = R, NEW none, NEW x, LastUpTo(x, v, R, n, none)
    PROVE  x = LastGiven(v, none)
<1>. DEFINE given == {i \in R : v[i] # none}
<1>1. LastGiven(v, none) = IF given = {} THEN none
                           ELSE v[CHOOSE i \in given : \A j \in given : j <= i]
  BY DEF LastGiven
<1>2. CASE given = {}
  BY <1>1, <1>2 DEF LastUpTo
<1>3. CASE given # {}
  <2>1. PICK i \in given : x = v[i] /\ \A j \in R : i < j => v[j] = none
    BY <1>3 DEF LastUpTo
  <2>2. \A j \in given : j <= i
    BY <2>1
  <2>3. \A h \in given : (\A j \in given : j <= h) => h = i
    BY <2>1, <2>2
  <2>. HIDE DEF given
  <2>4. (CHOOSE h \in given : \A j \in given : j <= h) = i
    BY <2>1, <2>2, <2>3
  <2>. QED  BY <1>1, <1>3, <2>1, <2>4
<1>. QED  BY <1>2, <1>3

(* The values of the fields that decide. *)
Ups(A, R)   == [i \in R |-> A[i].upstream]
Algs(A, R)  == [i \in R |-> A[i].algorithm]
Flags(A, R) == [i \in R |-> A[i].enabled]
Ttls(A, R)  == [i \in R |-> Positive(A[i].ttl)]
Rules(A, R) == [i \in Source |-> IF i \in R THEN A[i].rules ELSE <<>>]

(* m is what the loop has made of the sources up to k; flat has the rules. *)
FieldsOK(A, R, k, m) ==
    /\ LastUpTo(m.upstream, Ups(A, R), R, k, "")
    /\ LastUpTo(m.algorithm, Algs(A, R), R, k, "")
    /\ LastUpTo(m.enabled, Flags(A, R), R, k, "unset")
    /\ m.ttl \in Int /\ LastUpTo(Positive(m.ttl), Ttls(A, R), R, k, 0)

VersionOK(A, R, k, m) ==
    /\ m.version \in Int
    /\ \A i \in R : i <= k => A[i].version <= m.version
    /\ \E i \in R : i <= k /\ A[i].version = m.version

MergedUpTo(A, R, k, m, flat) ==
    IF \A i \in R : k < i THEN m = NoConfig /\ (k # 0 => flat = <<>>)
    ELSE /\ FieldsOK(A, R, k, m) /\ VersionOK(A, R, k, m)
         /\ m.rules = flat /\ flat \in Seq(AllRules)

IsAnswers(A, R) ==
    /\ R \subseteq Source
    /\ \A i \in R : A[i].rules \in Seq(AllRules) /\ A[i].ttl \in Int /\ A[i].version \in Int

(* A source without a route changes nothing. *)
LEMMA MergeSkips ==
    ASSUME NEW A, NEW R, IsAnswers(A, R), NEW k \in 1..N, k \notin R, NEW m, NEW flat,
           NEW e, MergedUpTo(A, R, k - 1, m, flat),
           e = IF k = 1 THEN <<>> ELSE flat \o <<>>
    PROVE  MergedUpTo(A, R, k, m, e)
<1>1. /\ R \in SUBSET Nat /\ k \in Nat \ {0}
      /\ \A i \in R : i >= 1 /\ i # k /\ (k - 1 < i <=> k < i) /\ (i <= k <=> i <= k - 1)
  BY CompositeAssumption DEF IsAnswers, Source
<1>2. CASE \A i \in R : k < i
  <2>1. m = NoConfig /\ (k - 1 # 0 => flat = <<>>)
    BY <1>1, <1>2 DEF MergedUpTo
  <2>2. k # 1 => k - 1 # 0
    BY <1>1
  <2>3. e = <<>>
    BY <2>1, <2>2
  <2>. QED  BY <1>2, <2>1, <2>3 DEF MergedUpTo
<1>3. CASE ~ \A i \in R : k < i
  <2>1. /\ FieldsOK(A, R, k - 1, m) /\ VersionOK(A, R, k - 1, m)
        /\ m.rules = flat /\ flat \in Seq(AllRules)
    BY <1>1, <1>3 DEF MergedUpTo
  <2>2. k # 1
    <3>1. PICK i \in R : ~(k < i)
      BY <1>3
    <3>2. i >= 1 /\ i # k /\ i \in Nat
      BY <1>1
    <3>. QED  BY <1>1, <3>1, <3>2
  <2>3. e = flat
    BY <2>1, <2>2
  <2>4. FieldsOK(A, R, k, m)
    BY <1>1, <2>1, LastKept DEF FieldsOK
  <2>5. VersionOK(A, R, k, m)
    BY <1>1, <2>1 DEF VersionOK
  <2>. QED  BY <1>3, <2>1, <2>3, <2>4, <2>5 DEF MergedUpTo
<1>. QED  BY <1>2, <1>3

(* The first route is copied. *)
LEMMA MergeCopies ==
    ASSUME NEW A, NEW R, IsAnswers(A, R), NEW k \in 1..N, k \in R, \A j \in R : k <= j,
           NEW m, NEW flat, NEW e, MergedUpTo(A, R, k - 1, m, flat),
           e = IF k = 1 THEN A[k].rules ELSE flat \o A[k].rules
    PROVE  MergedUpTo(A, R, k, A[k], e)
<1>1. /\ R \in SUBSET Nat /\ k \in Nat \ {0} /\ \A i \in R : k - 1 < i
      /\ A[k].rules \in Seq(AllRules) /\ A[k].ttl \in Int /\ A[k].version \in Int
  BY CompositeAssumption DEF IsAnswers, Source
<1>2. \A i \in R : i <= k => i = k
  <2>1. \A i \in R : i \in Nat /\ k <= i
    BY <1>1
  <2>2. \A i \in Nat : k <= i /\ i <= k => i = k
    BY <1>1
  <2>. QED  BY <2>1, <2>2
<1>3. k <= k /\ ~(k < k) /\ \A i \in R : ~(k < i /\ i <= k)
  BY <1>1
<1>4. FieldsOK(A, R, k, A[k])
  <2>1. /\ Ups(A, R)[k] = A[k].upstream /\ Algs(A, R)[k] = A[k].algorithm
        /\ Flags(A, R)[k] = A[k].enabled /\ Ttls(A, R)[k] = Positive(A[k].ttl)
    BY DEF Ups, Algs, Flags, Ttls
  <2>2. ASSUME NEW v, NEW none PROVE LastUpTo(v[k], v, R, k, none)
    BY <1>2, <1>3 DEF LastUpTo
  <2>. QED  BY <1>1, <2>1, <2>2 DEF FieldsOK
<1>5. VersionOK(A, R, k, A[k])
  BY <1>1, <1>2, <1>3 DEF VersionOK
<1>6. e = A[k].rules
  <2>1. k # 1 => flat = <<>>
    <3>1. k # 1 => k - 1 # 0
      BY <1>1
    <3>. QED  BY <1>1, <3>1 DEF MergedUpTo
  <2>2. <<>> \o A[k].rules = A[k].rules
    BY <1>1
  <2>. QED  BY <2>1, <2>2
<1>. QED  BY <1>1, <1>3, <1>4, <1>5, <1>6 DEF MergedUpTo

(* A later route is merged into what there is. *)
LEMMA MergeAdds ==
    ASSUME NEW A, NEW R, IsAnswers(A, R), NEW k \in 1..N, k \in R, ~ \A j \in R : k <= j,
           NEW m, NEW flat, NEW e, MergedUpTo(A, R, k - 1, m, flat),
           e = IF k = 1 THEN A[k].rules ELSE flat \o A[k].rules
    PROVE  MergedUpTo(A, R, k, mergeConfig(m, A[k]), e)
<1>. DEFINE x == mergeConfig(m, A[k])
<1>1. /\ R \in SUBSET Nat /\ k \in Nat \ {0} /\ k # 1 /\ ~ \A i \in R : k - 1 < i
      /\ A[k].rules \in Seq(AllRules) /\ A[k].ttl \in Int /\ A[k].version \in Int
      /\ ~ \A i \in R : k < i
      /\ \A i \in R : (i <= k <=> i <= k - 1 \/ i = k)
  <2>1. R \in SUBSET Nat /\ k \in Nat \ {0} /\ \A i \in R : i >= 1
    BY CompositeAssumption DEF IsAnswers, Source
  <2>2. PICK j \in R : ~(k <= j)
    OBVIOUS
  <2>3. k # 1 /\ ~(k - 1 < j) /\ ~(k < j)
    BY <2>1, <2>2
  <2>. QED  BY <2>1, <2>3 DEF IsAnswers
<1>2. /\ FieldsOK(A, R, k - 1, m) /\ VersionOK(A, R, k - 1, m)
      /\ m.rules = flat /\ flat \in Seq(AllRules)
  BY <1>1 DEF MergedUpTo
<1>3. /\ x.upstream = IF A[k].upstream = "" THEN m.upstream ELSE A[k].upstream
      /\ x.algorithm = IF A[k].algorithm = "" THEN m.algorithm ELSE A[k].algorithm
      /\ x.enabled = IF A[k].enabled = "unset" THEN m.enabled ELSE A[k].enabled
      /\ x.ttl = IF A[k].ttl > 0 THEN A[k].ttl ELSE m.ttl
      /\ x.rules = m.rules \o A[k].rules
      /\ x.version = IF A[k].version > m.version THEN A[k].version ELSE m.version
  BY DEF mergeConfig, Or
<1>. HIDE DEF x
<1>4. FieldsOK(A, R, k, x)
  <2>1. /\ Ups(A, R)[k] = A[k].upstream /\ Algs(A, R)[k] = A[k].algorithm
        /\ Flags(A, R)[k] = A[k].enabled /\ Ttls(A, R)[k] = Positive(A[k].ttl)
    BY DEF Ups, Algs, Flags, Ttls
  <2>2. LastUpTo(x.upstream, Ups(A, R), R, k, "")
    BY <1>1, <1>2, <1>3, <2>1, LastNext DEF FieldsOK
  <2>3. LastUpTo(x.algorithm, Algs(A, R), R, k, "")
    BY <1>1, <1>2, <1>3, <2>1, LastNext DEF FieldsOK
  <2>4. LastUpTo(x.enabled, Flags(A, R), R, k, "unset")
    BY <1>1, <1>2, <1>3, <2>1, LastNext DEF FieldsOK
  <2>5. x.ttl \in Int /\ Positive(x.ttl) = IF Positive(A[k].ttl) = 0 THEN Positive(m.ttl)
                                           ELSE Positive(A[k].ttl)
    <3>1. A[k].ttl \in Int /\ m.ttl \in Int /\ x.ttl = IF A[k].ttl > 0 THEN A[k].ttl ELSE m.ttl
      BY <1>1, <1>2, <1>3 DEF FieldsOK
    <3>. QED  BY <3>1 DEF Positive
  <2>6. LastUpTo(Positive(x.ttl), Ttls(A, R), R, k, 0)
    <3>1. LastUpTo(Positive(m.ttl), Ttls(A, R), R, k - 1, 0)
      BY <1>2 DEF FieldsOK
    <3>. QED  BY <1>1, <2>1, <2>5, <3>1, LastNext
  <2>. QED  BY <2>2, <2>3, <2>4, <2>5, <2>6 DEF FieldsOK
<1>5. VersionOK(A, R, k, x)
  <2>1. \A i \in R : A[i].version \in Int
    BY DEF IsAnswers
  <2>2. /\ m.version \in Int
        /\ \A i \in R : i <= k - 1 => A[i].version <= m.version
        /\ \E i \in R : i <= k - 1 /\ A[i].version = m.version
    BY <1>2 DEF VersionOK
  <2>3. \A i \in R : (i <= k <=> i <= k - 1 \/ i = k)
    BY <1>1
  <2>4. k <= k
    BY <1>1
  <2>5. CASE A[k].version > m.version
    <3>1. x.version = A[k].version
      BY <1>3, <2>5
    <3>2. ASSUME NEW i \in R, i <= k PROVE A[i].version <= A[k].version
      <4>1. A[i].version \in Int /\ A[k].version \in Int /\ m.version \in Int
        BY <2>1, <2>2
      <4>2. A[i].version <= m.version \/ i = k
        BY <2>2, <2>3, <3>2, Zenon
      <4>. QED  BY <2>5, <4>1, <4>2
    <3>. QED  BY <2>1, <2>4, <3>1, <3>2 DEF VersionOK
  <2>6. CASE ~(A[k].version > m.version)
    <3>1. x.version = m.version
      BY <1>3, <2>6
    <3>2. ASSUME NEW i \in R, i <= k PROVE A[i].version <= m.version
      <4>1. A[i].version \in Int /\ A[k].version \in Int /\ m.version \in Int
        BY <2>1, <2>2
      <4>2. A[i].version <= m.version \/ i = k
        BY <2>2, <2>3, <3>2, Zenon
      <4>. QED  BY <2>6, <4>1, <4>2
    <3>. QED  BY <2>2, <2>3, <3>1, <3>2 DEF VersionOK
  <2>. QED  BY <2>5, <2>6
<1>6. x.rules = e /\ e \in Seq(AllRules)
  <2>1. e = flat \o A[k].rules /\ x.rules = e
    BY <1>1, <1>2, <1>3
  <2>2. flat \in Seq(AllRules) /\ A[k].rules \in Seq(AllRules)
    BY <1>1, <1>2
  <2>3. flat \o A[k].rules \in Seq(AllRules)
    BY <2>2
  <2>. QED  BY <2>1, <2>3
<1>. QED  BY <1>1, <1>4, <1>5, <1>6 DEF MergedUpTo, x

(* The loop as a whole. *)
LEMMA MergeFields ==
    ASSUME NEW A, NEW R, R = {i \in Source : IsRoute(A[i])}, IsAnswers(A, R), R # {}
    PROVE  LET m == Merged(A, Source) IN
           /\ FieldsOK(A, R, N, m) /\ VersionOK(A, R, N, m)
           /\ m.rules = FlattenSeq(Rules(A, R))
<1>1. N \in Nat \ {0} /\ R \subseteq 1..N
  BY CompositeAssumption DEF Source
<1>2. PICK f : /\ f[0] = NoConfig /\ Merged(A, Source) = f[N]
               /\ \A i \in 1..N : f[i] = MergeNext(A, R, i, f[i - 1])
  BY MergeSteps
<1>3. Len(Rules(A, R)) = N /\ \A i \in 1..N : Rules(A, R)[i] = IF i \in R THEN A[i].rules ELSE <<>>
  BY <1>1 DEF Rules, Source
<1>4. PICK g : /\ FlattenSeq(Rules(A, R)) = g[N] /\ g[1] = Rules(A, R)[1]
               /\ \A i \in 2..N : g[i] = g[i - 1] \o Rules(A, R)[i]
  BY <1>1, <1>3, FlattenSteps
<1>. DEFINE S == {k \in Nat : k <= N => MergedUpTo(A, R, k, f[k], g[k])}
<1>5. 0 \in S
  <2>1. \A i \in R : 0 < i
    BY <1>1
  <2>. QED  BY <1>2, <2>1 DEF MergedUpTo
<1>6. ASSUME NEW k \in 1..N, k - 1 \in S
      PROVE  k \in S
  <2>1. k \in Nat /\ MergedUpTo(A, R, k - 1, f[k - 1], g[k - 1])
    BY <1>1, <1>6
  <2>2. f[k] = MergeNext(A, R, k, f[k - 1])
    BY <1>2
  <2>3. g[k] = IF k = 1 THEN Rules(A, R)[k] ELSE g[k - 1] \o Rules(A, R)[k]
    <3>1. k # 1 => k \in 2..N
      OBVIOUS
    <3>. QED  BY <1>4, <3>1
  <2>4. CASE k \notin R
    <3>1. f[k] = f[k - 1] /\ g[k] = IF k = 1 THEN <<>> ELSE g[k - 1] \o <<>>
      BY <1>3, <2>2, <2>3, <2>4 DEF MergeNext
    <3>2. MergedUpTo(A, R, k, f[k - 1], g[k])
      BY <2>1, <2>4, <3>1, MergeSkips
    <3>. QED  BY <2>1, <3>1, <3>2
  <2>5. CASE k \in R
    <3>1. g[k] = IF k = 1 THEN A[k].rules ELSE g[k - 1] \o A[k].rules
      BY <1>3, <2>3, <2>5
    <3>2. CASE \A j \in R : k <= j
      <4>1. f[k] = A[k]
        BY <2>2, <2>5, <3>2 DEF MergeNext
      <4>2. MergedUpTo(A, R, k, A[k], g[k])
        BY <2>1, <2>5, <3>1, <3>2, MergeCopies
      <4>. QED  BY <2>1, <4>1, <4>2
    <3>3. CASE ~ \A j \in R : k <= j
      <4>1. f[k] = mergeConfig(f[k - 1], A[k])
        BY <2>2, <2>5, <3>3 DEF MergeNext
      <4>2. MergedUpTo(A, R, k, mergeConfig(f[k - 1], A[k]), g[k])
        BY <2>1, <2>5, <3>1, <3>3, MergeAdds
      <4>. QED  BY <2>1, <4>1, <4>2
    <3>. QED  BY <3>2, <3>3
  <2>. QED  BY <2>4, <2>5
<1>. HIDE DEF S
<1>7. S \in SUBSET Nat
  BY DEF S
<1>8. 0..N \subseteq S
  BY <1>1, <1>5, <1>6, <1>7, UpTo
<1>9. MergedUpTo(A, R, N, f[N], g[N])
  BY <1>1, <1>8 DEF S
<1>10. ~ \A i \in R : N < i
  BY <1>1
<1>. QED  BY <1>2, <1>4, <1>9, <1>10 DEF MergedUpTo

(* Every field of a merged route is that of the last source that gave it,   *)
(* the rules are all rules in the order of the sources, the version is the  *)
(* highest, in whatever order the answers arrive, for any number of sources *)
(* and any routes.                                                          *)
THEOREM MergeInOrder == Spec => []MergeKeepsOrder
<1>1. Inv => MergeKeepsOrder
  <2>. SUFFICES ASSUME Inv, NEW c \in Call, pc[c] = "finish", setting.mode = "merge"
                PROVE  LET R == {i \in Source : IsRoute(got[c][i])}
                           m == result[c]
                       IN IF R = {} THEN m = NoConfig
                          ELSE /\ m.upstream = LastGiven(Ups(got[c], R), "")
                               /\ m.algorithm = LastGiven(Algs(got[c], R), "")
                               /\ m.enabled = LastGiven(Flags(got[c], R), "unset")
                               /\ Positive(m.ttl) = LastGiven(Ttls(got[c], R), 0)
                               /\ m.rules = FlattenSeq(Rules(got[c], R))
                               /\ \A i \in R : got[c][i].version <= m.version
                               /\ \E i \in R : got[c][i].version = m.version
    BY DEF MergeKeepsOrder, Ups, Algs, Flags, Ttls, Rules
  <2>. DEFINE A == got[c]
              R == {i \in Source : IsRoute(A[i])}
              m == result[c]
  <2>1. m = Merged(A, Source)
    BY DEF Inv, CallOK, MergeOK
  <2>2. IsAnswers(A, R)
    <3>1. \A i \in R : A[i] \in AllRoutes
      BY DEF Inv, Types, IsRoute
    <3>. QED  BY <3>1, RouteAssumption DEF IsAnswers
  <2>3. CASE R = {}
    <3>1. N \in Nat
      BY CompositeAssumption
    <3>2. PICK f : /\ f[0] = NoConfig /\ Merged(A, Source) = f[N]
                   /\ \A i \in 1..N : f[i] = MergeNext(A, R, i, f[i - 1])
      BY MergeSteps
    <3>. DEFINE S == {k \in Nat : k <= N => f[k] = NoConfig}
    <3>3. 0 \in S
      BY <3>2
    <3>4. ASSUME NEW k \in 1..N, k - 1 \in S PROVE k \in S
      <4>1. f[k] = f[k - 1]
        BY <2>3, <3>2 DEF MergeNext
      <4>. QED  BY <3>1, <3>4, <4>1
    <3>. HIDE DEF S
    <3>5. S \in SUBSET Nat
      BY DEF S
    <3>6. 0..N \subseteq S
      BY <3>1, <3>3, <3>4, <3>5, UpTo
    <3>7. f[N] = NoConfig
      BY <3>1, <3>6 DEF S
    <3>. QED  BY <2>1, <2>3, <3>2, <3>7
  <2>4. CASE R # {}
    <3>1. /\ FieldsOK(A, R, N, m) /\ VersionOK(A, R, N, m)
          /\ m.rules = FlattenSeq(Rules(A, R))
      <4>. HIDE DEF m, A
      <4>. QED  BY <2>1, <2>2, <2>4, MergeFields
    <3>2. R \in SUBSET Nat /\ N \in Nat /\ \A i \in R : i <= N
      BY CompositeAssumption DEF Source
    <3>3. /\ DOMAIN Ups(A, R) = R /\ DOMAIN Algs(A, R) = R
          /\ DOMAIN Flags(A, R) = R /\ DOMAIN Ttls(A, R) = R
      BY DEF Ups, Algs, Flags, Ttls
    <3>. HIDE DEF m, A, R
    <3>4. /\ m.upstream = LastGiven(Ups(A, R), "")
          /\ m.algorithm = LastGiven(Algs(A, R), "")
          /\ m.enabled = LastGiven(Flags(A, R), "unset")
          /\ Positive(m.ttl) = LastGiven(Ttls(A, R), 0)
      BY <3>1, <3>2, <3>3, LastIs DEF FieldsOK
    <3>5. /\ \A i \in R : A[i].version <= m.version
          /\ \E i \in R : A[i].version = m.version
      BY <3>1, <3>2 DEF VersionOK
    <3>. QED  BY <2>4, <3>1, <3>4, <3>5 DEF m, A, R
  <2>. QED  BY <2>3, <2>4
<1>. QED  BY <1>1, InvHolds, PTL
=============================================================================

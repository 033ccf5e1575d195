----------------------- MODULE DynamicUpstreams_proofs ----------------------
(* Proofs about the dynamic upstreams, for any number of requests, any      *)
(* routes and any refresh interval.                                         *)
EXTENDS DynamicUpstreams, TLAPS

-----------------------------------------------------------------------------
(* The inductive invariant.                                                 *)

Leading == {"recheck", "fetch", "store"}

TypeOK ==
    /\ route \in Routes \cup {NoConfig}
    /\ pc \in [Request -> {"idle", "do", "wait"} \cup Leading]
    /\ answer \in [Request -> Routes \cup {NoConfig}]
    /\ call \in Request \cup {NoRequest}

(* One request at a time leads a refresh, and requests wait only for one    *)
(* that does.                                                               *)
OneLeader ==
    /\ \A r \in Request : pc[r] \in Leading <=> call = r
    /\ \A r \in Request : pc[r] = "wait" => call # NoRequest

(* The history of the refresh in flight has the route of the key, and what  *)
(* the source has told the leader.                                          *)
FlightOK ==
    /\ call # NoRequest => route \in current
    /\ \A r \in Request : pc[r] = "store" => answer[r] \in current

(* A cached pool is a pool. *)
EntryOK == entry # NoConfig => entry.pool # Err

Inv == TypeOK /\ OneLeader /\ FlightOK /\ EntryOK

-----------------------------------------------------------------------------
LEMMA InvInit == Init => Inv
BY UpstreamsAssumption DEF Init, Inv, TypeOK, OneLeader, FlightOK, EntryOK, Leading

(* The refresh of the leader ends. *)
LEMMA FinishKeeps ==
    ASSUME Inv, NEW r \in Request, pc[r] \in Leading, NEW p, NEW how,
           Finish(r, p, how), UNCHANGED <<route, current>>
    PROVE  TypeOK' /\ OneLeader' /\ FlightOK'
<1>0. call = r
  BY DEF Inv, OneLeader
<1>1. /\ pc' = [s \in Request |-> IF s = r \/ pc[s] = "wait" THEN "idle" ELSE pc[s]]
      /\ call' = NoRequest
      /\ answer' = [answer EXCEPT ![r] = NoConfig]
  BY DEF Finish
<1>2. TypeOK'
  BY <1>1 DEF Inv, TypeOK
<1>3. \A s \in Request : pc'[s] \notin Leading /\ pc'[s] # "wait"
  BY <1>0, <1>1 DEF Inv, OneLeader, Leading
<1>4. OneLeader' /\ FlightOK'
  BY <1>1, <1>3, UpstreamsAssumption DEF OneLeader, FlightOK, Leading
<1>. QED  BY <1>2, <1>4

LEMMA InvStep == Inv /\ [Next]_vars => Inv'
<1>. SUFFICES ASSUME Inv, [Next]_vars PROVE Inv'
  OBVIOUS
<1>. USE UpstreamsAssumption
<1>1. ASSUME NEW r \in Request, GetUpstreams(r) PROVE Inv'
  BY <1>1 DEF GetUpstreams, Inv, TypeOK, OneLeader, FlightOK, EntryOK, Leading
<1>2. ASSUME NEW r \in Request, Do(r) PROVE Inv'
  BY <1>2 DEF Do, Inv, TypeOK, OneLeader, FlightOK, EntryOK, Leading
<1>3. ASSUME NEW r \in Request, Recheck(r) PROVE Inv'
  <2>1. CASE Fresh
    BY <1>3, <2>1, FinishKeeps DEF Recheck, Inv, EntryOK, Leading
  <2>2. CASE ~Fresh
    BY <1>3, <2>2 DEF Recheck, Inv, TypeOK, OneLeader, FlightOK, EntryOK, Leading
  <2>. QED  BY <2>1, <2>2
<1>4. ASSUME NEW r \in Request, Fetch(r) PROVE Inv'
  BY <1>4 DEF Fetch, Inv, TypeOK, OneLeader, FlightOK, EntryOK, Leading
<1>5. ASSUME NEW r \in Request, FetchFails(r) PROVE Inv'
  BY <1>5, FinishKeeps DEF FetchFails, Inv, EntryOK, Leading
<1>6. ASSUME NEW r \in Request, Store(r) PROVE Inv'
  <2>1. TypeOK' /\ OneLeader' /\ FlightOK'
    BY <1>6, FinishKeeps DEF Store, Leading
  <2>2. EntryOK'
    BY <1>6, ErrAssumption DEF Store, Inv, TypeOK, EntryOK
  <2>. QED  BY <2>1, <2>2 DEF Inv
<1>7. ASSUME NEW x \in Routes \cup {NoConfig}, Change(x) PROVE Inv'
  BY <1>7 DEF Change, Inv, TypeOK, OneLeader, FlightOK, EntryOK, Leading
<1>8. CASE Tick
  <2>1. entry'.pool = entry.pool
    BY <1>8 DEF Tick
  <2>. QED  BY <1>8, <2>1 DEF Tick, Fresh, Inv, TypeOK, OneLeader, FlightOK, EntryOK
<1>9. CASE UNCHANGED vars
  BY <1>9 DEF vars, Inv, TypeOK, OneLeader, FlightOK, EntryOK
<1>. QED  BY <1>1, <1>2, <1>3, <1>4, <1>5, <1>6, <1>7, <1>8, <1>9 DEF Next, Step

THEOREM InvHolds == Spec => []Inv
BY InvInit, InvStep, PTL DEF Spec

-----------------------------------------------------------------------------
(* What the invariant says.                                                 *)

(* singleflight: one request at a time asks the source for the key, and     *)
(* nobody waits for a refresh that no request leads.                        *)
THEOREM RefreshedByOne == Spec => []OneLeader
<1>1. Inv => OneLeader
  BY DEF Inv
<1>. QED  BY <1>1, InvHolds, PTL

(* Who ends a refresh, and with what: the leader, and those who wait. *)
LEMMA RefreshEnds ==
    ASSUME Inv, Next, NEW s \in Request, pc[s] # "idle", pc'[s] = "idle"
    PROVE  \/ Fresh /\ result'[s] = entry.pool /\ via'[s] = "hit"
           \/ /\ result'[s] = IF entry # NoConfig THEN entry.pool ELSE Err
              /\ via'[s] = "failed"
           \/ /\ via'[s] = "shared" /\ current' = current
              /\ \E c \in current \cap (Routes \cup {NoConfig}) :
                    result'[s] = IF c = NoConfig THEN <<>> ELSE configToUpstreams(c)
<1>. DEFINE Goal == \/ Fresh /\ result'[s] = entry.pool /\ via'[s] = "hit"
                    \/ /\ result'[s] = IF entry # NoConfig THEN entry.pool ELSE Err
                       /\ via'[s] = "failed"
                    \/ /\ via'[s] = "shared" /\ current' = current
                       /\ \E c \in current \cap (Routes \cup {NoConfig}) :
                             result'[s] = IF c = NoConfig THEN <<>> ELSE configToUpstreams(c)
<1>0. ASSUME NEW r \in Request, NEW p, NEW how, Finish(r, p, how)
      PROVE  result'[s] = p /\ via'[s] = how
  BY <1>0 DEF Finish
<1>1. ASSUME NEW r \in Request, GetUpstreams(r) \/ Do(r) \/ Fetch(r) PROVE FALSE
  BY <1>1 DEF GetUpstreams, Do, Fetch, Inv, TypeOK, Leading
<1>2. ASSUME NEW r \in Request, Recheck(r) PROVE Goal
  <2>1. CASE Fresh
    BY <1>0, <1>2, <2>1 DEF Recheck
  <2>2. CASE ~Fresh
    BY <1>2, <2>2 DEF Recheck, Inv, TypeOK, Leading
  <2>. QED  BY <2>1, <2>2
<1>3. ASSUME NEW r \in Request, FetchFails(r) PROVE Goal
  BY <1>0, <1>3 DEF FetchFails
<1>4. ASSUME NEW r \in Request, Store(r) PROVE Goal
  <2>1. answer[r] \in current \cap (Routes \cup {NoConfig}) /\ current' = current
    BY <1>4 DEF Store, Inv, FlightOK, TypeOK
  <2>2. CASE answer[r] = NoConfig
    <3>1. result'[s] = <<>> /\ via'[s] = "shared"
      BY <1>0, <1>4, <2>2 DEF Store
    <3>. QED  BY <2>1, <2>2, <3>1
  <2>3. CASE answer[r] # NoConfig
    <3>1. result'[s] = configToUpstreams(answer[r]) /\ via'[s] = "shared"
      BY <1>0, <1>4, <2>3 DEF Store
    <3>. QED  BY <2>1, <2>3, <3>1
  <2>. QED  BY <2>2, <2>3
<1>5. ASSUME NEW x, Change(x) PROVE FALSE
  BY <1>5 DEF Change
<1>6. ~Tick
  BY DEF Tick
<1>. QED  BY <1>1, <1>2, <1>3, <1>4, <1>5, <1>6 DEF Next, Step

(* A pool that the source was asked for is the pool of a route the key had  *)
(* while the refresh ran, for the request that led it and for those that    *)
(* joined it.                                                               *)
THEOREM FetchedPools == Spec => FetchedPoolIsCurrent
<1>1. Inv /\ [Next]_vars =>
        [\A r \in Request :
            pc[r] # "idle" /\ pc'[r] = "idle" /\ via'[r] = "shared" =>
               result'[r] \in {IF c = NoConfig THEN <<>> ELSE configToUpstreams(c) :
                                  c \in current}]_vars
  <2>. SUFFICES ASSUME Inv, Next, NEW r \in Request,
                       pc[r] # "idle", pc'[r] = "idle", via'[r] = "shared"
                PROVE  result'[r] \in {IF c = NoConfig THEN <<>> ELSE configToUpstreams(c) :
                                          c \in current}
    OBVIOUS
  <2>1. PICK c \in current : result'[r] = IF c = NoConfig THEN <<>> ELSE configToUpstreams(c)
    BY RefreshEnds
  <2>. QED  BY <2>1
<1>. QED  BY <1>1, InvHolds, PTL DEF Spec, FetchedPoolIsCurrent

(* "stale data is better than no data": no request fails while a pool is    *)
(* cached, however old.                                                     *)
THEOREM StaleBeforeError == Spec => ErrorOnlyWithoutPool
<1>1. Inv /\ [Next]_vars =>
        [\A r \in Request :
            pc[r] # "idle" /\ pc'[r] = "idle" /\ result'[r] = Err => entry = NoConfig]_vars
  <2>. SUFFICES ASSUME Inv, Next, NEW r \in Request,
                       pc[r] # "idle", pc'[r] = "idle", result'[r] = Err
                PROVE  entry = NoConfig
    OBVIOUS
  <2>1. Fresh => entry # NoConfig
    BY DEF Fresh
  <2>. QED  BY <2>1, RefreshEnds, ErrAssumption DEF Inv, EntryOK
<1>. QED  BY <1>1, InvHolds, PTL DEF Spec, ErrorOnlyWithoutPool
=============================================================================

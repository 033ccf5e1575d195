------------------------------ MODULE Sources -------------------------------
(***************************************************************************)
(* The data sources that keep routes of a store in a cache, each under the *)
(* same requests, operators and failures: what holds for all of them, and  *)
(* where they differ.  (Module EtcdSource is more detailed, and proved.)   *)
(***************************************************************************)
EXTENDS Goroutines

CONSTANT Kinds      \* the sources, and modes of a source, considered

ASSUME KindsAssumption ==
    Kinds \subseteq {"redis", "consul", "http", "kubernetes",
                     "kubernetesLabel", "zookeeper", "sqlFull",
                     "sqlIncremental", "fileDir", "fileSingle"}

Redis      == INSTANCE RedisSource
Consul     == INSTANCE ConsulSource
Http       == INSTANCE HttpSource
Kubernetes == INSTANCE KubernetesSource
Sql        == INSTANCE SqlSource
Zookeeper  == INSTANCE ZookeeperSource
File       == INSTANCE FileSource

SqlKinds  == {"sqlFull", "sqlIncremental"}
KubernetesKinds == {"kubernetes", "kubernetesLabel"}
FileKinds == {"fileDir", "fileSingle"}

Init ==
    /\ CacheInit /\ StoreInit
    /\ changedAt = [k \in Key |-> 0]
    /\ kind \in Kinds
    /\ phase = "new" /\ healthy = FALSE
    /\ pc = [r \in Reader |-> "idle"]
    /\ key \in [Reader -> Key]
    /\ resp = [r \in Reader |-> NoAnswer]
    /\ call = [k \in Key |-> NoReader]
    /\ wpc = "off" /\ queue = <<>> /\ snap = NoSnapshot
    /\ todo = {} /\ got = {} /\ cursor = 0
    /\ faults = 0
    /\ asof = [k \in Key |-> 0] /\ regressed = {}
    /\ missedAt = [k \in Key |-> 0]
    /\ cutOff = FALSE
    /\ tasks = EmptyBag

(* After Cleanup nothing is left to happen. *)
Ended == /\ phase = "closed" /\ wpc \in {"off", "done"} /\ tasks = EmptyBag
         /\ \A r \in Reader : pc[r] = "idle"
         /\ UNCHANGED sourceVars

(* The sources with one goroutine beside the requests. *)
PlainNext ==
    \/ kind = "redis"          /\ Redis!Next
    \/ kind = "consul"         /\ Consul!Next
    \/ kind = "http"           /\ Http!Next
    \/ kind \in KubernetesKinds /\ Kubernetes!Next
    \/ kind \in SqlKinds       /\ Sql!Next

(* What all sources with a RouteCache have in common. *)
CommonNext == \/ AdminClearCache
              \/ \E k \in Key : Expire(k)
              \/ \E k \in Key, r \in Reader : GetCache(r, k)

Next ==
    \/ PlainNext /\ UNCHANGED tasks
    \/ kind = "zookeeper" /\ Zookeeper!Next
    \/ kind \notin FileKinds /\ CommonNext /\ UNCHANGED tasks
    \/ kind \in FileKinds /\ File!Next
    \/ Ended

Background ==
    \/ kind = "redis"          /\ Redis!Background
    \/ kind = "consul"         /\ Consul!Background
    \/ kind = "http"           /\ Http!Background
    \/ kind \in KubernetesKinds /\ Kubernetes!Background
    \/ kind \in SqlKinds       /\ Sql!Background

Get(r) ==
    \/ kind = "redis"          /\ Redis!Get(r)
    \/ kind = "consul"         /\ Consul!Get(r)
    \/ kind = "http"           /\ Http!Get(r)
    \/ kind \in KubernetesKinds /\ Kubernetes!Get(r)
    \/ kind = "zookeeper"      /\ Zookeeper!Get(r)
    \/ kind \in SqlKinds       /\ Sql!Get(r)

(* The goroutines a source has started in passing. *)
TaskStep ==
    \E t \in Tasks : \/ (kind = "zookeeper" /\ Zookeeper!watchNode(t))
                    \/ (kind \in FileKinds /\ File!Reload(t))

Spec == Init /\ [][Next]_sourceVars

(* The goroutines run: the store answers or the client gives up, timers and *)
(* tickers fire, and Cleanup goes on when what it waits for has ended.  A   *)
(* select that finds both its ticker and its context ready again and again  *)
(* takes the context sometime.                                              *)
FairSpec ==
    /\ Spec
    /\ WF_vars(Background)
    /\ WF_sourceVars(kind = "zookeeper" /\ Zookeeper!watchChildren)
    /\ WF_sourceVars(kind = "zookeeper" /\ Zookeeper!handleSessionEvents)
    /\ WF_sourceVars(kind = "zookeeper" /\ Zookeeper!SessionBack)
    /\ WF_sourceVars(kind \in FileKinds /\ File!watchLoop)
    /\ WF_sourceVars(TaskStep)
    /\ SF_vars(kind = "http" /\ Http!RefreshExit)
    /\ SF_sourceVars(kind \in FileKinds /\ File!PollExit)
    /\ WF_vars(CleanupEnds)
    /\ \A r \in Reader : WF_vars(Get(r))
    /\ \A k \in Key : WF_vars(Expire(k))

-----------------------------------------------------------------------------
(* Properties *)

(* The cache does not contradict the store about k.  A file source has to   *)
(* have the route: nothing fetches what is missing.                         *)
Agrees(k) ==
    CASE kind \in FileKinds -> val[k] = ParseRouteConfig(store[k]).config
      [] store[k] \in Config -> val[k] \in {None, store[k]}
      [] store[k] = Absent   -> val[k] = None
      [] OTHER               -> TRUE

(* Three holes of the code: the last change of k was never reported, an     *)
(* answer to a request (or a reload that overlaps another) was cached after *)
(* a newer one, or the routes of a file source were cleared or not loaded.  *)
Excused(k) == missedAt[k] > asof[k] \/ k \in regressed

(* Nothing ever refreshes an HTTP source without a refresh interval, or a   *)
(* file source without a watch.                                             *)
Refreshed == ~(kind \in {"http"} \cup FileKinds /\ wpc = "off")

(* Once nothing changes any more the cache comes to agree with the store,   *)
(* whatever failed and whoever fetched on the way, and no negative entry    *)
(* hides a route (but where Get looks in one ConfigMap, and the watch in    *)
(* those with a label).                                                     *)
EventuallyCoherent ==
    \A k \in Key :
        <>[](phase = "up" /\ Refreshed =>
                /\ Excused(k) \/ Agrees(k)
                /\ store[k] \in Config /\ kind # "kubernetesLabel"
                      => ~hidden[k])

(* A goroutine takes a route out of the cache only if the answer it works   *)
(* from has no such route.  Redis, Consul and HTTP even keep a route whose  *)
(* new text does not parse.  A SQL iteration that broke off is the          *)
(* exception: the rows it did not reach are taken for deleted.  (An entry   *)
(* that makes room for another is not meant.)                               *)
Lost(k) == /\ val[k] # None /\ val'[k] = None
           /\ \A j \in Key : val[j] = None => val'[j] = None

Taken(k) == /\ Lost(k)
            /\ wpc \in {"apply", "sweep", "rows"}
            /\ <<wpc, todo, got>>' # <<wpc, todo, got>>

(* The goroutine t has reason to take k: its watch or its last read said    *)
(* so, or its reload has found no usable file.                              *)
Denies(t, k) ==
    CASE kind = "zookeeper" -> /\ t.key = k
                               /\ \/ t.event.type = "deleted"
                                  \/ t.answer.content \in {Absent, Blank}
      [] OTHER -> t.at = "sweep" /\ t.text[k] \notin Config

OnlyGoneIsTaken ==
    [][\A k \in Key :
          /\ Taken(k) => \/ snap.content[k] \in {Absent, Blank}
                         \/ /\ snap.content[k] = Bad
                            /\ kind \in SqlKinds \cup {"kubernetes"}
                         \/ cutOff
          /\ Lost(k) /\ tasks' # tasks => \E t \in Tasks : Denies(t, k)
      ]_sourceVars

(* After Cleanup has begun it returns, and the goroutine ends. *)
CleanupCompletes ==
    phase \in {"closing", "closed"}
        ~> phase = "closed" /\ wpc \in {"off", "done"} /\ tasks = EmptyBag

(* An unhealthy source becomes healthy again when the store does.  Four do  *)
(* not: HTTP without a refresh interval; file sources, which set their      *)
(* health once; Kubernetes, where a failed Get makes the source unhealthy   *)
(* for as long as the current watch lives; and ZooKeeper, when a failed     *)
(* load is reported after the session was (until the session changes).      *)
HealthRecovers ==
    (/\ phase = "up" /\ ~healthy /\ Refreshed
     /\ kind \notin FileKinds \cup KubernetesKinds
     /\ ~(kind = "zookeeper" /\ cutOff))
        ~> (healthy \/ phase # "up")

-----------------------------------------------------------------------------
(* A claim of the repository that the code does not meet. *)

(* datasource.go: "When unhealthy, the data source should still serve       *)
(* cached data if available": a failure never takes a route that the        *)
(* database still has out of the cache.                                     *)
FailureKeepsRoutes ==
    [][\A k \in Key : Taken(k) => snap.content[k] \notin Config]_sourceVars
=============================================================================

----------------------------- MODULE PolarisTask -----------------------------
(***************************************************************************)
(* PolarisTask (src/src/PolarisTask.cc) and the PolarisCluster that all    *)
(* tasks of one PolarisClient share.  A task is dispatched again and again *)
(* and puts one http request before itself into its series each time:      *)
(*                                                                         *)
(*   dispatch -> pull a list of servers -> dispatch -> ...                 *)
(*   dispatch -> the request of its api, of two parts for API_DISCOVER     *)
(*            -> dispatch, with `finish' set: count a failure, call back   *)
(*                                                                         *)
(* An action is a critical section of the cluster's mutex, with the code   *)
(* around it that only touches the task.  FAULT definitions are as in      *)
(* WatchManager.                                                           *)
(***************************************************************************)
EXTENDS Integers, Sequences

CONSTANTS
  Tasks,       \* identities of PolarisTask objects: at most this many at once
  Apis,        \* the kinds of tasks that the Manager makes
  Services,    \* [namespace, name], each a sequence of dot-separated parts
  HttpListed,  \* every list that is pulled names a server that speaks http
  FailedMax,   \* CLUSTER_FAILED_MAX
  MaxMoves,    \* bound: how often the Polaris servers change their address
  MaxRev,      \* bound: how often the instances of a service change
  None         \* no task, no server, no revision ("0")

(* The two server lists of a cluster that requests use.  Each has a state  *)
(* bit: CLUSTER_STATE_DISCOVER and CLUSTER_STATE_HEALTHCHECK.              *)
Clusters == {"discover", "healthcheck"}

(* The list of which an api takes its server, and whose failures it counts.*)
ClusterOf(api) == IF api = "HEARTBEAT" THEN "healthcheck" ELSE "discover"

(* FAULT: heartbeats count as failures of the discover servers.            *)
FailedClusterDiscover(api) == "discover"

FailedCluster(api) == ClusterOf(api)

(* Addresses: the url of the client, and those the Polaris servers move    *)
(* through.                                                                *)
Connector == 0
Addresses == 0 .. MaxMoves + 1

(* A revision names the data it belongs to.                                *)
Revisions == [service : Services, number : 0 .. MaxRev]

(* "<namespace>.<name>", under which a revision is stored.                 *)
StoreKey(s) == s.namespace \o s.name

(* FAULT, in effect: with the order of StoreKey here, too, the platform    *)
(* would be told the revision, and answer without the instances.           *)
LookupKeyAsStored(s) == s.namespace \o s.name

(* "<name>.<namespace>", under which it is looked up.                      *)
LookupKey(s) == s.name \o s.namespace

Keys == {StoreKey(s) : s \in Services} \cup {LookupKey(s) : s \in Services}

(* A PolarisTask.  `discover_res' is empty ("none"), the instances         *)
(* ("full"), or the answer 200001, which has none ("nochange").            *)
Task == [api          : Apis,
         service      : Services \cup {None},
         ids          : BOOLEAN,
         phase        : {"dispatch", "pull", "request", "route", "lost"},
         pulls        : Clusters \cup {None},
         server       : Addresses \cup {None},
         sent         : Revisions \cup {None},
         finish       : BOOLEAN,
         state        : {"undefined", "success", "failed"},
         discover_res : {"none", "full", "nochange"},
         route_res    : BOOLEAN]

ASSUME ApisAssumption ==
  Apis \subseteq {"DISCOVER", "REGISTER", "DEREGISTER", "HEARTBEAT"}

ASSUME BoundsAssumption == /\ FailedMax \in Nat \ {0}
                           /\ MaxMoves \in Nat
                           /\ MaxRev \in Nat

ASSUME HttpListedAssumption == HttpListed \in BOOLEAN

ASSUME NoneAssumption == /\ None \notin Task
                         /\ None \notin Services
                         /\ None \notin Addresses
                         /\ None \notin Clusters
                         /\ None \notin Revisions

VARIABLES
  protocol,      \* PolarisClient::protocol, from its url
  has_ids,       \* whether Manager::platform_id and platform_token were given
  status,        \* PolarisCluster::status: the lists whose bit is set
  clusters,      \* discover_clusters and healthcheck_clusters
  failed,        \* discover_failed_cnt and healthcheck_failed_cnt
  revision_map,  \* PolarisCluster's revision_map
  tasks,         \* the PolarisTask objects
  listed,        \* external: where the Polaris servers are
  data           \* external: the current revision of each service

cluster == <<status, clusters, failed, revision_map>>
world   == <<listed, data>>
setting == <<protocol, has_ids>>
vars    == <<setting, cluster, tasks, world>>

-----------------------------------------------------------------------------
(* PolarisClient::init on a url that starts with http:// or trpc://, for a *)
(* Manager with or without a platform access.                              *)
Init == /\ protocol \in {"HTTP", "TRPC"}
        /\ has_ids \in BOOLEAN
        /\ status       = {}
        /\ clusters     = [c \in Clusters |-> {}]
        /\ failed       = [c \in Clusters |-> 0]
        /\ revision_map = [key \in Keys |-> None]
        /\ tasks        = [t \in Tasks |-> None]
        /\ listed       = 1
        /\ data         = [s \in Services |-> 0]

Live == {t \in Tasks : tasks[t] # None}

InPhase(t, phase) == t \in Live /\ tasks[t].phase = phase

(* The service a task is for matters to the revisions, so for discover     *)
(* tasks only.                                                             *)
ServicesOf(api) == IF api = "DISCOVER" THEN Services ELSE {None}

(* A client's create_*_task and the Manager's set_platform_id, which       *)
(* deregister_service leaves out.                                          *)
CarriesIds(api) == has_ids /\ api # "DEREGISTER"

Create(t, api, s) ==
  /\ t \notin Live
  /\ tasks' = [tasks EXCEPT ![t] =
                 [api |-> api, service |-> s, ids |-> CarriesIds(api),
                  phase |-> "dispatch", pulls |-> None, server |-> None,
                  sent |-> None, finish |-> FALSE, state |-> "undefined",
                  discover_res |-> "none", route_res |-> FALSE]]
  /\ UNCHANGED <<setting, cluster, world>>

-----------------------------------------------------------------------------
(* dispatch of a task that is not finished.                                *)
AtDispatch(t) == InPhase(t, "dispatch") /\ ~tasks[t].finish

(* FAULT: the ids are not looked at.                                       *)
IsDirectAlways(t) == TRUE

(* Without ids nothing is pulled: the url of the client serves for both    *)
(* lists, whoever filled them.                                             *)
IsDirect(t) == ~tasks[t].ids

(* FAULT: the url of the client is not entered into the lists.             *)
ListsAtPulledOnly(t, c) == clusters[c]

StatusAt(t)   == IF IsDirect(t) THEN Clusters ELSE status
ListsAt(t, c) == IF IsDirect(t) THEN clusters[c] \cup {Connector}
                                ELSE clusters[c]

UseConnector(t) ==
  /\ status'   = StatusAt(t)
  /\ clusters' = [c \in Clusters |-> ListsAt(t, c)]

(* The list that is pulled next.                                           *)
NextPull(t) == IF "discover" \notin StatusAt(t) THEN "discover"
                                                ELSE "healthcheck"

DispatchPull(t) ==
  /\ AtDispatch(t)
  /\ protocol = "HTTP"
  /\ StatusAt(t) # Clusters
  /\ UseConnector(t)
  /\ tasks' = [tasks EXCEPT ![t].phase = "pull", ![t].pulls = NextPull(t)]
  /\ UNCHANGED <<setting, failed, revision_map, world>>

(* `rand() % size()': of an empty list there is no server, and on the      *)
(* usual machines the program stops here.                                  *)
Picks(list) == IF list = {} THEN {None} ELSE list

(* The revision in an instances request.                                   *)
Sends(task) == IF task.api = "DISCOVER" THEN revision_map[LookupKey(task.service)]
                                        ELSE None

DispatchRequest(t) ==
  /\ AtDispatch(t)
  /\ protocol = "HTTP"
  /\ StatusAt(t) = Clusters
  /\ UseConnector(t)
  /\ \E server \in Picks(ListsAt(t, ClusterOf(tasks[t].api))) :
       tasks' = [tasks EXCEPT
                   ![t].phase  = "request",
                   ![t].pulls  = None,
                   ![t].server = server,
                   ![t].sent   = Sends(tasks[t])]
  /\ UNCHANGED <<setting, failed, revision_map, world>>

(* For another protocol an empty task is put into the series, and the      *)
(* PolarisTask is not: nobody dispatches it again.                         *)
DispatchLost(t) ==
  /\ AtDispatch(t)
  /\ protocol # "HTTP"
  /\ UseConnector(t)
  /\ tasks' = [tasks EXCEPT ![t].phase = "lost"]
  /\ UNCHANGED <<setting, failed, revision_map, world>>

-----------------------------------------------------------------------------
(* The callbacks of the http tasks.  A task that has its answer, or that   *)
(* failed, finishes; the request it had made is gone.                      *)
Finish(t, state) ==
  tasks' = [tasks EXCEPT ![t].phase = "dispatch", ![t].finish = TRUE,
                         ![t].state = state, ![t].pulls = None,
                         ![t].server = None, ![t].sent = None]

(* What an answered pull leaves of its list: the servers that speak http.  *)
(* The answer names the list itself.  The platform is taken to answer what *)
(* was asked; and a pull sends no revision, so the answer is never 200001  *)
(* (no change), with which the list would stay as it is.                   *)
Pulled == IF HttpListed THEN {{listed}} ELSE {{listed}, {}}

(* FAULT: the bit of the list is not set.                                  *)
PullAnsweredNoBit(t) ==
  /\ InPhase(t, "pull")
  /\ \E list \in Pulled : clusters' = [clusters EXCEPT ![tasks[t].pulls] = list]
  /\ tasks' = [tasks EXCEPT ![t].phase = "dispatch", ![t].pulls = None]
  /\ UNCHANGED <<setting, status, failed, revision_map, world>>

(* discover_cluster_http_callback and healthcheck_cluster_http_callback.   *)
PullAnswered(t) ==
  /\ InPhase(t, "pull")
  /\ \E list \in Pulled : clusters' = [clusters EXCEPT ![tasks[t].pulls] = list]
  /\ status' = status \cup {tasks[t].pulls}
  /\ tasks' = [tasks EXCEPT ![t].phase = "dispatch", ![t].pulls = None]
  /\ UNCHANGED <<setting, failed, revision_map, world>>

PullFailed(t) ==
  /\ InPhase(t, "pull")
  /\ Finish(t, "failed")
  /\ UNCHANGED <<setting, cluster, world>>

(* Whether the server that was picked can answer: an address that the      *)
(* servers have left cannot.                                               *)
Reachable(t) == tasks[t].server \in {listed, Connector}

(* The answer to an instances request: 200001 and no instances when the    *)
(* revision that was sent is the current one.                              *)
Current(s)  == [service |-> s, number |-> data[s]]
Answer(t)   == IF tasks[t].sent = Current(tasks[t].service)
               THEN "nochange" ELSE "full"

(* instances_http_callback: the revision is stored, and the route is asked *)
(* for, from a server that is picked anew.                                 *)
InstancesAnswered(t) ==
  /\ InPhase(t, "request")
  /\ tasks[t].api = "DISCOVER"
  /\ Reachable(t)
  /\ revision_map' = [revision_map EXCEPT ![StoreKey(tasks[t].service)] =
                        Current(tasks[t].service)]
  /\ \E server \in Picks(clusters["discover"]) :
       tasks' = [tasks EXCEPT ![t].phase = "route", ![t].server = server,
                              ![t].sent = None,
                              ![t].discover_res = Answer(t)]
  /\ UNCHANGED <<setting, status, clusters, failed, world>>

(* FAULT: a task succeeds whatever it is told of the route.                *)
RouteAnsweredWithout(t) ==
  /\ InPhase(t, "route")
  /\ Reachable(t)
  /\ Finish(t, "success")
  /\ UNCHANGED <<setting, cluster, world>>

(* route_http_callback.                                                    *)
RouteAnswered(t) ==
  /\ InPhase(t, "route")
  /\ Reachable(t)
  /\ tasks' = [tasks EXCEPT ![t].phase = "dispatch", ![t].finish = TRUE,
                            ![t].state = "success", ![t].route_res = TRUE,
                            ![t].server = None, ![t].sent = None]
  /\ UNCHANGED <<setting, cluster, world>>

(* register_http_callback, for registrations, deregistrations and          *)
(* heartbeats.                                                             *)
RegisterAnswered(t) ==
  /\ InPhase(t, "request")
  /\ tasks[t].api # "DISCOVER"
  /\ Reachable(t)
  /\ Finish(t, "success")
  /\ UNCHANGED <<setting, cluster, world>>

(* The same callbacks on an error of the network or of the platform.       *)
RequestFailed(t) ==
  /\ InPhase(t, "request") \/ InPhase(t, "route")
  /\ Finish(t, "failed")
  /\ UNCHANGED <<setting, cluster, world>>

-----------------------------------------------------------------------------
(* FAULT: a list that failed too often is kept.                            *)
CountFailureOnly(c) ==
  /\ failed' = [failed EXCEPT ![c] = IF @ + 1 >= FailedMax THEN 0 ELSE @ + 1]
  /\ UNCHANGED status

(* FAULT: the counter is compared with > instead of >=.                    *)
CountFailureLate(c) ==
  IF failed[c] + 1 > FailedMax
  THEN /\ failed' = [failed EXCEPT ![c] = 0]
       /\ status' = status \ {c}
  ELSE failed' = [failed EXCEPT ![c] = @ + 1] /\ UNCHANGED status

(* check_failed: at FailedMax failures the list is to be pulled again.     *)
CountFailure(c) ==
  IF failed[c] + 1 >= FailedMax
  THEN /\ failed' = [failed EXCEPT ![c] = 0]
       /\ status' = status \ {c}
  ELSE failed' = [failed EXCEPT ![c] = @ + 1] /\ UNCHANGED status

(* dispatch of a finished task: check_failed, and done, which calls the    *)
(* user's callback and deletes the task.                                   *)
DispatchFinished(t) ==
  /\ InPhase(t, "dispatch")
  /\ tasks[t].finish
  /\ IF tasks[t].state # "success"
     THEN CountFailure(FailedCluster(tasks[t].api))
     ELSE UNCHANGED <<failed, status>>
  /\ tasks' = [tasks EXCEPT ![t] = None]
  /\ UNCHANGED <<setting, clusters, revision_map, world>>

-----------------------------------------------------------------------------
(* External: the Polaris servers move; the instances of a service change.  *)
ServersMove == /\ listed <= MaxMoves
               /\ listed' = listed + 1
               /\ UNCHANGED <<setting, cluster, tasks, data>>

DataChanges(s) == /\ data[s] < MaxRev
                  /\ data' = [data EXCEPT ![s] = @ + 1]
                  /\ UNCHANGED <<setting, cluster, tasks, listed>>

(* The bound on the tasks is used up by lost ones: not a deadlock.         *)
AllLost == (\A t \in Tasks : InPhase(t, "lost")) /\ UNCHANGED vars

Answered(t) == \/ PullAnswered(t)
               \/ InstancesAnswered(t)
               \/ RouteAnswered(t)
               \/ RegisterAnswered(t)

TaskStep(t) == \/ DispatchPull(t)
               \/ DispatchRequest(t)
               \/ DispatchLost(t)
               \/ Answered(t)
               \/ PullFailed(t)
               \/ RequestFailed(t)
               \/ DispatchFinished(t)

Next == \/ \E t \in Tasks, api \in Apis : \E s \in ServicesOf(api) :
             Create(t, api, s)
        \/ \E t \in Tasks : TaskStep(t)
        \/ ServersMove
        \/ \E s \in Services : DataChanges(s)
        \/ AllLost

Spec == Init /\ [][Next]_vars

(* Every http task ends, by an answer or by a timeout, and its callback    *)
(* runs.                                                                   *)
Fairness == \A t \in Tasks : WF_vars(TaskStep(t))

(* The chains of watches and of heartbeats make their tasks for ever.      *)
ChainsFairness ==
  \A api \in Apis :
    SF_vars(\E t \in Tasks, s \in ServicesOf(api) : Create(t, api, s))

ChainsSpec == Spec /\ Fairness /\ ChainsFairness
-----------------------------------------------------------------------------
(* Properties.                                                             *)

(* Every variable keeps to the shape of the C++ member it stands for; the  *)
(* failure counters stay below the limit that clears them.                 *)
TypeOK == /\ protocol \in {"HTTP", "TRPC"}
          /\ has_ids \in BOOLEAN
          /\ status \subseteq Clusters
          /\ clusters \in [Clusters -> SUBSET Addresses]
          /\ failed \in [Clusters -> 0 .. FailedMax - 1]
          /\ revision_map \in [Keys -> Revisions \cup {None}]
          /\ tasks \in [Tasks -> Task \cup {None}]
          /\ listed \in 1 .. MaxMoves + 1
          /\ data \in [Services -> 0 .. MaxRev]

Requesting(t) == InPhase(t, "request") \/ InPhase(t, "route")

(* README.md:203: with a platform access, the server lists have to be      *)
(* pulled from it before anything else: every request of a Manager with    *)
(* ids goes to a server that a pull has brought.                           *)
RequestsGoToServers ==
  \A t \in Live : has_ids /\ Requesting(t) => tasks[t].server # Connector

(* No request is made when its list is empty, where `rand() % size()'      *)
(* divides by zero, whoever filled the list.  It needs HttpListed.         *)
RequestHasServer == \A t \in Live : Requesting(t) => tasks[t].server # None

(* A discover task that succeeded brings both bodies, and the first has    *)
(* the instances: what the Manager relies on when it installs them.  It    *)
(* needs that no service has the name of its namespace: only of such a     *)
(* service, and of no swapped pair, is its own revision ever sent.         *)
SuccessIsWhole ==
  \A t \in Live : tasks[t].api = "DISCOVER" /\ tasks[t].state = "success" =>
                    tasks[t].discover_res = "full" /\ tasks[t].route_res

(* Every http task calls back in the end: it may only go on for ever when  *)
(* other tasks have the lists dropped again and again, under its pulls.    *)
TaskEnds ==
  \A t \in Tasks : \/ protocol # "HTTP"
                   \/ []<>(t \notin Live)
                   \/ []<><<\E c \in status : c \notin status'>>_vars

(* A failure of a server that is where the request was sent to.            *)
Unprovoked(t) == PullFailed(t) \/ (RequestFailed(t) /\ Reachable(t))

(* README.md:212: after so many failures the lists are pulled again.  When *)
(* the servers have moved, each list follows them in the end, unless       *)
(* servers that can be reached go on failing for ever.                     *)
ListsFollowServers ==
  \A c \in Clusters : \/ protocol # "HTTP"
                      \/ []<>(clusters[c] \subseteq {listed, Connector})
                      \/ []<><<\E t \in Tasks : Unprovoked(t)>>_vars
=============================================================================

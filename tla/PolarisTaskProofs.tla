-------------------------- MODULE PolarisTaskProofs --------------------------
(***************************************************************************)
(* Theorems about PolarisTask, for any tasks, services and bounds.         *)
(***************************************************************************)
EXTENDS PolarisTask, TLAPS

(* What a step relies on besides the types: a discover task has a service, *)
(* and a pull a list.                                                      *)
Sound(task) == /\ task.api = "DISCOVER" => task.service \in Services
               /\ task.phase = "pull" => task.pulls \in Clusters

IInv == TypeOK /\ \A t \in Live : Sound(tasks[t])

LEMMA ClusterType ==
  /\ "discover" \in Clusters /\ "healthcheck" \in Clusters
  /\ Connector \in Addresses
  /\ \A api : ClusterOf(api) \in Clusters /\ FailedCluster(api) \in Clusters
  /\ \A s \in Services : StoreKey(s) \in Keys /\ LookupKey(s) \in Keys
BY BoundsAssumption DEF Clusters, Connector, Addresses, ClusterOf,
                        FailedCluster, Keys

LEMMA LiveType ==
  ASSUME IInv, NEW t \in Live
  PROVE  t \in Tasks /\ tasks[t] \in Task /\ Sound(tasks[t])
BY DEF IInv, TypeOK, Live

LEMMA PicksType ==
  ASSUME NEW list \in SUBSET Addresses, NEW server \in Picks(list)
  PROVE  /\ server \in Addresses \cup {None}
         /\ list # {} => server \in list
         /\ server # None => server \in list
BY DEF Picks

LEMMA SendsType ==
  ASSUME IInv, NEW t \in Live
  PROVE  Sends(tasks[t]) \in Revisions \cup {None}
BY LiveType, ClusterType DEF Sends, Sound, IInv, TypeOK

LEMMA CurrentType ==
  ASSUME TypeOK, NEW s \in Services
  PROVE  Current(s) \in Revisions /\ Current(s).service = s
BY DEF TypeOK, Current, Revisions

-----------------------------------------------------------------------------
(* What the actions make of a task.                                        *)

LEMMA CreateEffect ==
  ASSUME IInv, NEW t \in Tasks, NEW api \in Apis, NEW s \in ServicesOf(api),
         Create(t, api, s)
  PROVE  /\ t \notin Live
         /\ tasks' \in [Tasks -> Task \cup {None}]
         /\ \A o \in Tasks \ {t} : tasks'[o] = tasks[o]
         /\ tasks'[t].api = api
         /\ tasks'[t].ids = CarriesIds(api)
         /\ tasks'[t].phase = "dispatch"
         /\ tasks'[t].state = "undefined"
         /\ tasks'[t].sent = None
         /\ Sound(tasks'[t])
<1> DEFINE w == [api |-> api, service |-> s, ids |-> CarriesIds(api),
                 phase |-> "dispatch", pulls |-> None, server |-> None,
                 sent |-> None, finish |-> FALSE, state |-> "undefined",
                 discover_res |-> "none", route_res |-> FALSE]
<1>1. s \in Services \cup {None} /\ (api = "DISCOVER" => s \in Services)
  BY DEF ServicesOf
<1>2. CarriesIds(api) \in BOOLEAN
  BY DEF IInv, TypeOK, CarriesIds
<1>3. w \in Task
  BY <1>1, <1>2 DEF Task
<1>4. tasks' = [tasks EXCEPT ![t] = w] /\ t \notin Live
  BY DEF Create
<1> QED
  BY <1>1, <1>3, <1>4 DEF IInv, TypeOK, Sound

LEMMA PullEffect ==
  ASSUME IInv, NEW t \in Tasks, DispatchPull(t)
  PROVE  /\ t \in Live
         /\ tasks' \in [Tasks -> Task \cup {None}]
         /\ \A o \in Tasks \ {t} : tasks'[o] = tasks[o]
         /\ tasks'[t].phase = "pull"
         /\ tasks'[t].pulls \in Clusters
         /\ \A f \in {"api", "service", "ids", "server", "sent", "state",
                      "discover_res", "route_res"} :
              tasks'[t][f] = tasks[t][f]
<1> DEFINE w == [tasks[t] EXCEPT !.phase = "pull", !.pulls = NextPull(t)]
<1>1. t \in Live /\ tasks[t] \in Task
  BY LiveType DEF DispatchPull, AtDispatch, InPhase
<1>2. NextPull(t) \in Clusters
  BY DEF NextPull, Clusters
<1>3. tasks' = [tasks EXCEPT ![t] = w]
  BY DEF DispatchPull, IInv, TypeOK
<1>4. w \in Task /\ w.phase = "pull" /\ w.pulls \in Clusters
  BY <1>1, <1>2 DEF Task
<1>5. \A f \in {"api", "service", "ids", "server", "sent", "state",
                "discover_res", "route_res"} : w[f] = tasks[t][f]
  BY <1>1 DEF Task
<1> QED
  BY <1>1, <1>3, <1>4, <1>5 DEF IInv, TypeOK

LEMMA RequestEffect ==
  ASSUME IInv, NEW t \in Tasks, DispatchRequest(t)
  PROVE  /\ t \in Live
         /\ tasks' \in [Tasks -> Task \cup {None}]
         /\ \A o \in Tasks \ {t} : tasks'[o] = tasks[o]
         /\ tasks'[t].phase = "request"
         /\ tasks'[t].server
               \in Picks(ListsAt(t, ClusterOf(tasks[t].api)))
         /\ tasks'[t].sent = Sends(tasks[t])
         /\ \A f \in {"api", "service", "ids", "state", "discover_res",
                      "route_res"} : tasks'[t][f] = tasks[t][f]
<1>1. t \in Live /\ tasks[t] \in Task
  BY LiveType DEF DispatchRequest, AtDispatch, InPhase
<1>2. PICK server \in Picks(ListsAt(t, ClusterOf(tasks[t].api))) :
        tasks' = [tasks EXCEPT ![t].phase = "request", ![t].pulls = None,
                               ![t].server = server,
                               ![t].sent = Sends(tasks[t])]
  BY DEF DispatchRequest
<1> DEFINE w == [tasks[t] EXCEPT !.phase = "request", !.pulls = None,
                                 !.server = server, !.sent = Sends(tasks[t])]
<1>3. tasks' = [tasks EXCEPT ![t] = w]
  BY <1>2 DEF IInv, TypeOK
<1>4. ListsAt(t, ClusterOf(tasks[t].api)) \in SUBSET Addresses
  BY ClusterType DEF ListsAt, IInv, TypeOK
<1>5. server \in Addresses \cup {None} /\ Sends(tasks[t]) \in Revisions \cup {None}
  BY <1>1, <1>4, PicksType, SendsType
<1>6. /\ w \in Task /\ w.phase = "request" /\ w.server = server
      /\ w.sent = Sends(tasks[t])
  BY <1>1, <1>5 DEF Task
<1>7. \A f \in {"api", "service", "ids", "state", "discover_res",
                "route_res"} : w[f] = tasks[t][f]
  BY <1>1 DEF Task
<1> QED
  BY <1>1, <1>3, <1>6, <1>7 DEF IInv, TypeOK

LEMMA LostEffect ==
  ASSUME IInv, NEW t \in Tasks, DispatchLost(t)
  PROVE  /\ t \in Live
         /\ tasks' \in [Tasks -> Task \cup {None}]
         /\ \A o \in Tasks \ {t} : tasks'[o] = tasks[o]
         /\ tasks'[t].phase = "lost"
         /\ \A f \in {"api", "service", "ids", "state", "discover_res",
                      "route_res"} : tasks'[t][f] = tasks[t][f]
<1> DEFINE w == [tasks[t] EXCEPT !.phase = "lost"]
<1>1. t \in Live /\ tasks[t] \in Task
  BY LiveType DEF DispatchLost, AtDispatch, InPhase
<1>2. tasks' = [tasks EXCEPT ![t] = w]
  BY DEF DispatchLost, IInv, TypeOK
<1>3. w \in Task /\ w.phase = "lost"
  BY <1>1 DEF Task
<1>4. \A f \in {"api", "service", "ids", "state", "discover_res",
                "route_res"} : w[f] = tasks[t][f]
  BY <1>1 DEF Task
<1> QED
  BY <1>1, <1>2, <1>3, <1>4 DEF IInv, TypeOK

LEMMA FinishEffect ==
  ASSUME IInv, NEW t \in Live, NEW state \in {"success", "failed"},
         Finish(t, state)
  PROVE  /\ tasks' \in [Tasks -> Task \cup {None}]
         /\ \A o \in Tasks \ {t} : tasks'[o] = tasks[o]
         /\ tasks'[t].phase = "dispatch"
         /\ tasks'[t].state = state
         /\ \A f \in {"api", "service", "ids", "discover_res", "route_res"} :
              tasks'[t][f] = tasks[t][f]
<1> DEFINE w == [tasks[t] EXCEPT !.phase = "dispatch", !.finish = TRUE,
                                 !.state = state, !.pulls = None,
                                 !.server = None, !.sent = None]
<1>1. t \in Tasks /\ tasks[t] \in Task
  BY LiveType
<1>2. tasks' = [tasks EXCEPT ![t] = w]
  BY <1>1 DEF Finish, IInv, TypeOK
<1>3. w \in Task /\ w.phase = "dispatch" /\ w.state = state
  BY <1>1 DEF Task
<1>4. \A f \in {"api", "service", "ids", "discover_res", "route_res"} :
        w[f] = tasks[t][f]
  BY <1>1 DEF Task
<1> QED
  BY <1>1, <1>2, <1>3, <1>4 DEF IInv, TypeOK

LEMMA PulledEffect ==
  ASSUME IInv, NEW t \in Tasks, PullAnswered(t)
  PROVE  /\ t \in Live
         /\ tasks' \in [Tasks -> Task \cup {None}]
         /\ \A o \in Tasks \ {t} : tasks'[o] = tasks[o]
         /\ tasks'[t].phase = "dispatch"
         /\ \A f \in {"api", "service", "ids", "state", "discover_res",
                      "route_res"} : tasks'[t][f] = tasks[t][f]
<1> DEFINE w == [tasks[t] EXCEPT !.phase = "dispatch", !.pulls = None]
<1>1. t \in Live /\ tasks[t] \in Task
  BY LiveType DEF PullAnswered, InPhase
<1>2. tasks' = [tasks EXCEPT ![t] = w]
  BY DEF PullAnswered, IInv, TypeOK
<1>3. w \in Task /\ w.phase = "dispatch"
  BY <1>1 DEF Task
<1>4. \A f \in {"api", "service", "ids", "state", "discover_res",
                "route_res"} : w[f] = tasks[t][f]
  BY <1>1 DEF Task
<1> QED
  BY <1>1, <1>2, <1>3, <1>4 DEF IInv, TypeOK

LEMMA InstancesEffect ==
  ASSUME IInv, NEW t \in Tasks, InstancesAnswered(t)
  PROVE  /\ t \in Live
         /\ tasks' \in [Tasks -> Task \cup {None}]
         /\ \A o \in Tasks \ {t} : tasks'[o] = tasks[o]
         /\ tasks'[t].phase = "route"
         /\ tasks'[t].server \in Picks(clusters["discover"])
         /\ tasks'[t].sent = None
         /\ tasks'[t].discover_res = Answer(t)
         /\ \A f \in {"api", "service", "ids", "state", "route_res"} :
              tasks'[t][f] = tasks[t][f]
<1>1. t \in Live /\ tasks[t] \in Task
  BY LiveType DEF InstancesAnswered, InPhase
<1>2. PICK server \in Picks(clusters["discover"]) :
        tasks' = [tasks EXCEPT ![t].phase = "route", ![t].server = server,
                               ![t].sent = None, ![t].discover_res = Answer(t)]
  BY DEF InstancesAnswered
<1> DEFINE w == [tasks[t] EXCEPT !.phase = "route", !.server = server,
                                 !.sent = None, !.discover_res = Answer(t)]
<1>3. tasks' = [tasks EXCEPT ![t] = w]
  BY <1>2 DEF IInv, TypeOK
<1>4. server \in Addresses \cup {None} /\ Answer(t) \in {"full", "nochange"}
  <2>1. clusters["discover"] \in SUBSET Addresses
    BY ClusterType DEF IInv, TypeOK
  <2> QED
    BY <2>1, PicksType DEF Answer
<1>5. /\ w \in Task /\ w.phase = "route" /\ w.server = server
      /\ w.sent = None /\ w.discover_res = Answer(t)
  BY <1>1, <1>4 DEF Task
<1>6. \A f \in {"api", "service", "ids", "state", "route_res"} :
        w[f] = tasks[t][f]
  BY <1>1 DEF Task
<1> QED
  BY <1>1, <1>3, <1>5, <1>6 DEF IInv, TypeOK

LEMMA RouteEffect ==
  ASSUME IInv, NEW t \in Tasks, RouteAnswered(t)
  PROVE  /\ t \in Live
         /\ tasks' \in [Tasks -> Task \cup {None}]
         /\ \A o \in Tasks \ {t} : tasks'[o] = tasks[o]
         /\ tasks'[t].phase = "dispatch"
         /\ tasks'[t].state = "success"
         /\ tasks'[t].route_res = TRUE
         /\ \A f \in {"api", "service", "ids", "discover_res"} :
              tasks'[t][f] = tasks[t][f]
<1> DEFINE w == [tasks[t] EXCEPT !.phase = "dispatch", !.finish = TRUE,
                                 !.state = "success", !.route_res = TRUE,
                                 !.server = None, !.sent = None]
<1>1. t \in Live /\ tasks[t] \in Task
  BY LiveType DEF RouteAnswered, InPhase
<1>2. tasks' = [tasks EXCEPT ![t] = w]
  BY DEF RouteAnswered, IInv, TypeOK
<1>3. /\ w \in Task /\ w.phase = "dispatch" /\ w.state = "success"
      /\ w.route_res = TRUE
  BY <1>1 DEF Task
<1>4. \A f \in {"api", "service", "ids", "discover_res"} :
        w[f] = tasks[t][f]
  BY <1>1 DEF Task
<1> QED
  BY <1>1, <1>2, <1>3, <1>4 DEF IInv, TypeOK

LEMMA FinishedEffect ==
  ASSUME IInv, NEW t \in Tasks, DispatchFinished(t)
  PROVE  /\ t \in Live
         /\ tasks' \in [Tasks -> Task \cup {None}]
         /\ \A o \in Tasks \ {t} : tasks'[o] = tasks[o]
         /\ tasks'[t] = None
BY DEF DispatchFinished, InPhase, IInv, TypeOK

-----------------------------------------------------------------------------
(* Type correctness.                                                       *)

(* A step is a step of one of the actions.                                 *)
LEMMA NextCases ==
  ASSUME [Next]_vars
  PROVE  \/ \E t \in Tasks, api \in Apis : \E s \in ServicesOf(api) :
              Create(t, api, s)
         \/ \E t \in Tasks : DispatchPull(t)
         \/ \E t \in Tasks : DispatchRequest(t)
         \/ \E t \in Tasks : DispatchLost(t)
         \/ \E t \in Tasks : PullAnswered(t)
         \/ \E t \in Tasks : InstancesAnswered(t)
         \/ \E t \in Tasks : RouteAnswered(t)
         \/ \E t \in Tasks :
              RegisterAnswered(t) \/ PullFailed(t) \/ RequestFailed(t)
         \/ \E t \in Tasks : DispatchFinished(t)
         \/ ServersMove
         \/ \E s \in Services : DataChanges(s)
         \/ UNCHANGED vars
BY DEF Next, TaskStep, Answered, AllLost

(* Three actions finish a task and leave the cluster alone.                *)
LEMMA FinishCases ==
  ASSUME NEW t, RegisterAnswered(t) \/ PullFailed(t) \/ RequestFailed(t)
  PROVE  /\ t \in Live
         /\ \E state \in {"success", "failed"} :
              /\ Finish(t, state)
              /\ state = "success" => tasks[t].api # "DISCOVER"
         /\ UNCHANGED <<setting, cluster, world>>
BY DEF RegisterAnswered, PullFailed, RequestFailed, InPhase

(* Nothing but the tasks may have to do with what Sound says.              *)
LEMMA SoundKeep ==
  ASSUME IInv, NEW t \in Tasks,
         \A o \in Tasks \ {t} : tasks'[o] = tasks[o],
         t \in Live' => Sound(tasks'[t])
  PROVE  \A o \in Live' : Sound(tasks'[o])
BY DEF IInv, Live

LEMMA SoundStays ==
  ASSUME IInv, NEW t \in Live,
         \A f \in {"api", "service"} : tasks'[t][f] = tasks[t][f],
         tasks'[t].phase = "pull" => tasks'[t].pulls \in Clusters
  PROVE  Sound(tasks'[t])
BY LiveType DEF Sound

LEMMA TypeInit == Init => IInv
BY BoundsAssumption DEF Init, IInv, TypeOK, Live, Clusters, Addresses

LEMMA TypeStep == IInv /\ [Next]_vars => IInv'
<1> SUFFICES ASSUME IInv, [Next]_vars PROVE IInv'
  OBVIOUS
<1> USE DEF vars, setting, cluster, world
<1>1. CASE UNCHANGED vars
  BY <1>1 DEF IInv, TypeOK, Live
<1>2. ASSUME NEW t \in Tasks, NEW api \in Apis, NEW s \in ServicesOf(api),
             Create(t, api, s)
      PROVE  IInv'
  <2>1. \A o \in Live' : Sound(tasks'[o])
    BY <1>2, CreateEffect, SoundKeep
  <2> QED
    BY <1>2, <2>1, CreateEffect DEF Create, IInv, TypeOK
(* What UseConnector makes of the lists.                                   *)
<1>3. ASSUME NEW t \in Tasks, UseConnector(t)
      PROVE  /\ status' \subseteq Clusters
             /\ clusters' \in [Clusters -> SUBSET Addresses]
  BY <1>3, ClusterType DEF UseConnector, StatusAt, ListsAt, IInv, TypeOK
<1>4. ASSUME NEW t \in Tasks, DispatchPull(t)
      PROVE  IInv'
  <2>1. Sound(tasks'[t])
    BY <1>4, PullEffect, SoundStays
  <2>2. \A o \in Live' : Sound(tasks'[o])
    BY <1>4, <2>1, PullEffect, SoundKeep
  <2> QED
    BY <1>3, <1>4, <2>2, PullEffect DEF DispatchPull, IInv, TypeOK
<1>5. ASSUME NEW t \in Tasks, DispatchRequest(t)
      PROVE  IInv'
  <2>1. Sound(tasks'[t])
    BY <1>5, RequestEffect, SoundStays
  <2>2. \A o \in Live' : Sound(tasks'[o])
    BY <1>5, <2>1, RequestEffect, SoundKeep
  <2> QED
    BY <1>3, <1>5, <2>2, RequestEffect DEF DispatchRequest, IInv, TypeOK
<1>6. ASSUME NEW t \in Tasks, DispatchLost(t)
      PROVE  IInv'
  <2>1. Sound(tasks'[t])
    BY <1>6, LostEffect, SoundStays
  <2>2. \A o \in Live' : Sound(tasks'[o])
    BY <1>6, <2>1, LostEffect, SoundKeep
  <2> QED
    BY <1>3, <1>6, <2>2, LostEffect DEF DispatchLost, IInv, TypeOK
<1>7. ASSUME NEW t \in Tasks, PullAnswered(t)
      PROVE  IInv'
  <2>1. Sound(tasks'[t])
    BY <1>7, PulledEffect, SoundStays
  <2>2. \A o \in Live' : Sound(tasks'[o])
    BY <1>7, <2>1, PulledEffect, SoundKeep
  <2>3. tasks[t].pulls \in Clusters
    BY <1>7 DEF PullAnswered, InPhase, IInv, Sound
  <2>4. Pulled \subseteq SUBSET Addresses
    BY BoundsAssumption DEF Pulled, IInv, TypeOK, Addresses
  <2>5. clusters' \in [Clusters -> SUBSET Addresses]
    <3>1. PICK list \in Pulled :
            clusters' = [clusters EXCEPT ![tasks[t].pulls] = list]
      BY <1>7 DEF PullAnswered
    <3> QED
      BY <2>4, <3>1 DEF IInv, TypeOK
  <2> QED
    BY <1>7, <2>2, <2>3, <2>5, PulledEffect DEF PullAnswered, IInv, TypeOK
<1>8. ASSUME NEW t \in Tasks, InstancesAnswered(t)
      PROVE  IInv'
  <2>1. Sound(tasks'[t])
    BY <1>8, InstancesEffect, SoundStays
  <2>2. \A o \in Live' : Sound(tasks'[o])
    BY <1>8, <2>1, InstancesEffect, SoundKeep
  <2>3. tasks[t].service \in Services
    BY <1>8 DEF InstancesAnswered, InPhase, IInv, Sound
  <2>4. revision_map' \in [Keys -> Revisions \cup {None}]
    BY <1>8, <2>3, CurrentType DEF InstancesAnswered, IInv, TypeOK
  <2> QED
    BY <1>8, <2>2, <2>4, InstancesEffect DEF InstancesAnswered, IInv, TypeOK
<1>9. ASSUME NEW t \in Tasks, RouteAnswered(t)
      PROVE  IInv'
  <2>1. Sound(tasks'[t])
    BY <1>9, RouteEffect, SoundStays
  <2>2. \A o \in Live' : Sound(tasks'[o])
    BY <1>9, <2>1, RouteEffect, SoundKeep
  <2> QED
    BY <1>9, <2>2, RouteEffect DEF RouteAnswered, IInv, TypeOK
<1>10. ASSUME NEW t \in Tasks,
              RegisterAnswered(t) \/ PullFailed(t) \/ RequestFailed(t)
       PROVE  IInv'
  <2>1. PICK state \in {"success", "failed"} : Finish(t, state)
    BY <1>10, FinishCases
  <2>2. t \in Live /\ UNCHANGED <<setting, cluster, world>>
    BY <1>10, FinishCases
  <2>3. Sound(tasks'[t])
    BY <2>1, <2>2, FinishEffect, SoundStays
  <2>4. \A o \in Live' : Sound(tasks'[o])
    BY <2>1, <2>2, <2>3, FinishEffect, SoundKeep
  <2> QED
    BY <2>1, <2>2, <2>4, FinishEffect DEF IInv, TypeOK
<1>11. ASSUME NEW t \in Tasks, DispatchFinished(t)
       PROVE  IInv'
  <2>1. \A o \in Live' : Sound(tasks'[o])
    BY <1>11, FinishedEffect, SoundKeep DEF Live
  <2>2. ASSUME NEW c \in Clusters, CountFailure(c)
        PROVE  /\ failed' \in [Clusters -> 0 .. FailedMax - 1]
               /\ status' \subseteq Clusters
    <3>1. failed[c] \in 0 .. FailedMax - 1
      BY DEF IInv, TypeOK
    <3>2. FailedMax \in Nat \ {0}
      BY BoundsAssumption
    <3>3. CASE failed[c] + 1 >= FailedMax
      BY <2>2, <3>1, <3>2, <3>3 DEF CountFailure, IInv, TypeOK
    <3>4. CASE ~(failed[c] + 1 >= FailedMax)
      <4>1. failed[c] + 1 \in 0 .. FailedMax - 1
        BY <3>1, <3>2, <3>4
      <4> QED
        BY <2>2, <3>4, <4>1 DEF CountFailure, IInv, TypeOK
    <3> QED
      BY <3>3, <3>4
  <2>3. /\ failed' \in [Clusters -> 0 .. FailedMax - 1]
        /\ status' \subseteq Clusters
    <3>1. CASE tasks[t].state # "success"
      BY <1>11, <2>2, <3>1, ClusterType DEF DispatchFinished
    <3>2. CASE tasks[t].state = "success"
      BY <1>11, <3>2 DEF DispatchFinished, IInv, TypeOK
    <3> QED
      BY <3>1, <3>2
  <2> QED
    BY <1>11, <2>1, <2>3, FinishedEffect DEF DispatchFinished, IInv, TypeOK
<1>12. CASE ServersMove
  BY <1>12, BoundsAssumption DEF ServersMove, IInv, TypeOK, Live
<1>13. ASSUME NEW s \in Services, DataChanges(s)
       PROVE  IInv'
  <2>1. data' \in [Services -> 0 .. MaxRev]
    BY <1>13, BoundsAssumption DEF DataChanges, IInv, TypeOK
  <2> QED
    BY <1>13, <2>1 DEF DataChanges, IInv, TypeOK, Live
<1> QED
  BY <1>1, <1>2, <1>4, <1>5, <1>6, <1>7, <1>8, <1>9, <1>10, <1>11, <1>12,
     <1>13, NextCases

LEMMA IInvInductive == Spec => []IInv
BY TypeInit, TypeStep, PTL DEF Spec

(* Every variable keeps to the shape of the C++ member it stands for; the  *)
(* failure counters stay below the limit that clears them.                 *)
THEOREM TypeCorrect == Spec => []TypeOK
<1>1. IInv => TypeOK
  BY DEF IInv
<1> QED
  BY <1>1, IInvInductive, PTL

-----------------------------------------------------------------------------
(* The server lists of a Manager with ids: what its tasks do never enters  *)
(* the client's url.                                                       *)
Pure == has_ids =>
          /\ \A t \in Live : tasks[t].ids
          /\ \A c \in Clusters : Connector \notin clusters[c]
          /\ \A t \in Live : Requesting(t) => tasks[t].server # Connector

(* The condition of the lemmas about Pure, task by task: t has ids, and no *)
(* request of t goes to the connector.                                     *)
PureTask(t) == tasks[t].ids /\ (Requesting(t) => tasks[t].server # Connector)

LEMMA PureKeep ==
  ASSUME IInv, Pure, NEW t \in Tasks, has_ids' = has_ids,
         \A o \in Tasks \ {t} : tasks'[o] = tasks[o],
         has_ids /\ t \in Live' => PureTask(t)',
         has_ids => \A c \in Clusters : Connector \notin clusters'[c]
  PROVE  Pure'
<1>1. \A o \in Tasks \ {t} :
        /\ o \in Live' <=> o \in Live
        /\ Requesting(o)' <=> Requesting(o)
  BY DEF Live, Requesting, InPhase
<1>2. ASSUME has_ids, NEW o \in Live' PROVE PureTask(o)'
  <2>1. CASE o = t
    BY <1>2, <2>1
  <2>2. CASE o # t
    BY <1>1, <1>2, <2>2 DEF Pure, PureTask, Live
  <2> QED
    BY <2>1, <2>2
<1> QED
  BY <1>2 DEF Pure, PureTask

LEMMA PureStep ==
  ASSUME "DEREGISTER" \notin Apis, IInv, Pure, [Next]_vars
  PROVE  Pure'
<1> USE DEF vars, setting, cluster, world
<1>1. ASSUME UNCHANGED <<has_ids, tasks, clusters>>
      PROVE  Pure'
  BY <1>1 DEF Pure, Live, Requesting, InPhase
<1>2. ASSUME NEW t \in Tasks, NEW api \in Apis, NEW s \in ServicesOf(api),
             Create(t, api, s)
      PROVE  Pure'
  <2>1. UNCHANGED <<has_ids, clusters>> /\ has_ids \in BOOLEAN
    BY <1>2 DEF Create, IInv, TypeOK
  <2>2. has_ids => PureTask(t)'
    BY <1>2, CreateEffect DEF PureTask, CarriesIds, Requesting, InPhase
  <2> QED
    BY <1>2, <2>1, <2>2, CreateEffect, PureKeep DEF Pure
(* A task with ids changes nothing in the lists.                           *)
<1>3. ASSUME NEW t \in Live, UseConnector(t), has_ids
      PROVE  /\ tasks[t].ids
             /\ \A c \in Clusters : clusters'[c] = clusters[c]
             /\ \A c \in Clusters : ListsAt(t, c) = clusters[c]
             /\ \A c \in Clusters : Connector \notin clusters'[c]
  <2>1. tasks[t].ids
    BY <1>3 DEF Pure
  <2> QED
    BY <1>3, <2>1 DEF UseConnector, ListsAt, IsDirect, Pure, IInv, TypeOK
<1>4. ASSUME NEW t \in Tasks, DispatchPull(t)
      PROVE  Pure'
  <2>1. t \in Live /\ UNCHANGED has_ids /\ UseConnector(t)
    BY <1>4, PullEffect DEF DispatchPull
  <2>2. has_ids => PureTask(t)'
    BY <1>3, <1>4, <2>1, PullEffect DEF PureTask, Requesting, InPhase
  <2> QED
    BY <1>3, <1>4, <2>1, <2>2, PullEffect, PureKeep
<1>5. ASSUME NEW t \in Tasks, DispatchRequest(t)
      PROVE  Pure'
  <2>1. t \in Live /\ UNCHANGED has_ids /\ UseConnector(t)
    BY <1>5, RequestEffect DEF DispatchRequest
  <2>2. ASSUME has_ids PROVE PureTask(t)'
    <3>1. tasks'[t].server \in Picks(clusters[ClusterOf(tasks[t].api)])
      BY <1>3, <1>5, <2>1, <2>2, RequestEffect, ClusterType
    <3>2. clusters[ClusterOf(tasks[t].api)] \in SUBSET Addresses
      BY ClusterType DEF IInv, TypeOK
    <3>3. tasks'[t].server # Connector
      BY <2>2, <3>1, <3>2, PicksType, ClusterType, NoneAssumption DEF Pure
    <3>4. tasks'[t].ids = tasks[t].ids
      BY <1>5, RequestEffect
    <3> QED
      BY <1>3, <2>1, <2>2, <3>3, <3>4 DEF PureTask
  <2> QED
    BY <1>3, <1>5, <2>1, <2>2, RequestEffect, PureKeep
<1>6. ASSUME NEW t \in Tasks, DispatchLost(t)
      PROVE  Pure'
  <2>1. t \in Live /\ UNCHANGED has_ids /\ UseConnector(t)
    BY <1>6, LostEffect DEF DispatchLost
  <2>2. has_ids => PureTask(t)'
    BY <1>3, <1>6, <2>1, LostEffect DEF PureTask, Requesting, InPhase
  <2> QED
    BY <1>3, <1>6, <2>1, <2>2, LostEffect, PureKeep
<1>7. ASSUME NEW t \in Tasks, PullAnswered(t)
      PROVE  Pure'
  <2>1. UNCHANGED has_ids
    BY <1>7 DEF PullAnswered
  <2>2. has_ids => PureTask(t)'
    BY <1>7, PulledEffect DEF PureTask, Requesting, InPhase, Pure
  <2>3. PICK list \in Pulled :
          clusters' = [clusters EXCEPT ![tasks[t].pulls] = list]
    BY <1>7 DEF PullAnswered
  <2>4. Connector \notin list
    BY BoundsAssumption DEF Pulled, Connector, IInv, TypeOK
  <2>5. has_ids => \A c \in Clusters : Connector \notin clusters'[c]
    BY <2>3, <2>4 DEF Pure, IInv, TypeOK
  <2> QED
    BY <1>7, <2>1, <2>2, <2>5, PulledEffect, PureKeep
<1>8. ASSUME NEW t \in Tasks, InstancesAnswered(t)
      PROVE  Pure'
  <2>1. UNCHANGED <<has_ids, clusters>>
    BY <1>8 DEF InstancesAnswered
  <2>2. ASSUME has_ids PROVE PureTask(t)'
    <3>1. clusters["discover"] \in SUBSET Addresses
      BY ClusterType DEF IInv, TypeOK
    <3>2. tasks'[t].server # Connector
      BY <1>8, <2>2, <3>1, InstancesEffect, PicksType, ClusterType,
         NoneAssumption DEF Pure
    <3>3. tasks'[t].ids
      BY <1>8, <2>2, InstancesEffect DEF Pure
    <3> QED
      BY <3>2, <3>3 DEF PureTask
  <2> QED
    BY <1>8, <2>1, <2>2, InstancesEffect, PureKeep DEF Pure
<1>9. ASSUME NEW t \in Tasks, RouteAnswered(t)
      PROVE  Pure'
  <2>1. UNCHANGED <<has_ids, clusters>>
    BY <1>9 DEF RouteAnswered
  <2>2. has_ids => PureTask(t)'
    BY <1>9, RouteEffect DEF PureTask, Requesting, InPhase, Pure
  <2> QED
    BY <1>9, <2>1, <2>2, RouteEffect, PureKeep DEF Pure
<1>10. ASSUME NEW t \in Tasks,
              RegisterAnswered(t) \/ PullFailed(t) \/ RequestFailed(t)
       PROVE  Pure'
  <2>1. PICK state \in {"success", "failed"} : Finish(t, state)
    BY <1>10, FinishCases
  <2>2. t \in Live /\ UNCHANGED <<has_ids, clusters>>
    BY <1>10, FinishCases
  <2>3. has_ids => PureTask(t)'
    BY <2>1, <2>2, FinishEffect DEF PureTask, Requesting, InPhase, Pure
  <2> QED
    BY <2>1, <2>2, <2>3, FinishEffect, PureKeep DEF Pure
<1>11. ASSUME NEW t \in Tasks, DispatchFinished(t)
       PROVE  Pure'
  <2>1. UNCHANGED <<has_ids, clusters>>
    BY <1>11 DEF DispatchFinished
  <2>2. t \notin Live'
    BY <1>11, FinishedEffect DEF Live
  <2> QED
    BY <1>11, <2>1, <2>2, FinishedEffect, PureKeep DEF Pure
<1>12. CASE ServersMove \/ \E s \in Services : DataChanges(s)
  BY <1>1, <1>12 DEF ServersMove, DataChanges
<1> QED
  BY <1>1, <1>2, <1>4, <1>5, <1>6, <1>7, <1>8, <1>9, <1>10, <1>11, <1>12,
     NextCases

(* With a platform access, every request of a Manager that has nothing     *)
(* deregistered goes to a server that a pull has brought, however tasks    *)
(* and failures mix.                                                       *)
THEOREM ServersCorrect ==
  ASSUME "DEREGISTER" \notin Apis
  PROVE  Spec => []RequestsGoToServers
<1>1. Init => Pure
  BY DEF Init, Pure, Live, Clusters
<1>2. IInv /\ Pure /\ [Next]_vars => Pure'
  BY PureStep
<1>3. Pure => RequestsGoToServers
  BY DEF Pure, RequestsGoToServers
<1> QED
  BY <1>1, <1>2, <1>3, IInvInductive, PTL DEF Spec

-----------------------------------------------------------------------------
(* The lists that are in use are not empty.  A list that lost its bit may  *)
(* still be used, by the second request of a discover task: it is as it    *)
(* was, or pulled anew.                                                    *)
Served(t) == Requesting(t) => /\ clusters["discover"] # {}
                              /\ tasks[t].server # None

Filled == /\ \A c \in status : clusters[c] # {}
          /\ \A t \in Live : Served(t)

LEMMA FilledKeep ==
  ASSUME IInv, Filled, NEW t \in Tasks,
         \A o \in Tasks \ {t} : tasks'[o] = tasks[o],
         \A c \in status' : clusters'[c] # {},
         clusters["discover"] # {} => clusters'["discover"] # {},
         t \in Live' => Served(t)'
  PROVE  Filled'
<1>1. ASSUME NEW o \in Live', o # t PROVE Served(o)'
  <2>1. o \in Live /\ (Requesting(o)' <=> Requesting(o)) /\ tasks'[o] = tasks[o]
    BY <1>1 DEF Live, Requesting, InPhase
  <2> QED
    BY <2>1 DEF Filled, Served
<1> QED
  BY <1>1 DEF Filled

LEMMA FilledStep ==
  ASSUME HttpListed, IInv, Filled, [Next]_vars
  PROVE  Filled'
<1> USE DEF vars, setting, cluster, world
<1>1. ASSUME UNCHANGED <<status, clusters, tasks>>
      PROVE  Filled'
  BY <1>1 DEF Filled, Served, Live, Requesting, InPhase
(* The bits that UseConnector sets are of lists that it fills.             *)
<1>2. ASSUME NEW t \in Tasks, UseConnector(t)
      PROVE  /\ \A c \in status' : clusters'[c] # {}
             /\ \A c \in Clusters : clusters'[c] = ListsAt(t, c)
             /\ \A c \in StatusAt(t) : ListsAt(t, c) # {}
             /\ clusters["discover"] # {} => clusters'["discover"] # {}
  <2>1. status \subseteq Clusters /\ status' = StatusAt(t)
    BY <1>2 DEF UseConnector, IInv, TypeOK
  <2>2. \A c \in Clusters : clusters'[c] = ListsAt(t, c)
    BY <1>2 DEF UseConnector
  <2>3. CASE IsDirect(t)
    BY <2>1, <2>2, <2>3, ClusterType DEF StatusAt, ListsAt
  <2>4. CASE ~IsDirect(t)
    BY <2>1, <2>2, <2>4, ClusterType DEF StatusAt, ListsAt, Filled
  <2> QED
    BY <2>3, <2>4
<1>3. ASSUME NEW t \in Tasks, NEW api \in Apis, NEW s \in ServicesOf(api),
             Create(t, api, s)
      PROVE  Filled'
  <2>1. UNCHANGED <<status, clusters>>
    BY <1>3 DEF Create
  <2>2. Served(t)'
    BY <1>3, CreateEffect DEF Served, Requesting, InPhase
  <2> QED
    BY <1>3, <2>1, <2>2, CreateEffect, FilledKeep DEF Filled
<1>4. ASSUME NEW t \in Tasks, DispatchPull(t)
      PROVE  Filled'
  <2>1. UseConnector(t)
    BY <1>4 DEF DispatchPull
  <2>2. Served(t)'
    BY <1>4, PullEffect DEF Served, Requesting, InPhase
  <2> QED
    BY <1>2, <1>4, <2>1, <2>2, PullEffect, FilledKeep
<1>5. ASSUME NEW t \in Tasks, DispatchRequest(t)
      PROVE  Filled'
  <2>1. UseConnector(t) /\ StatusAt(t) = Clusters
    BY <1>5 DEF DispatchRequest
  <2>2. \A c \in Clusters : clusters'[c] = ListsAt(t, c) /\ ListsAt(t, c) # {}
    BY <1>2, <2>1
  <2>3. ListsAt(t, ClusterOf(tasks[t].api)) \in SUBSET Addresses
    BY ClusterType DEF ListsAt, IInv, TypeOK
  <2>4. tasks'[t].server # None
    BY <1>5, <2>2, <2>3, RequestEffect, PicksType, ClusterType, NoneAssumption
  <2>5. Served(t)'
    BY <2>2, <2>4, ClusterType DEF Served
  <2> QED
    BY <1>2, <1>5, <2>1, <2>5, RequestEffect, FilledKeep
<1>6. ASSUME NEW t \in Tasks, DispatchLost(t)
      PROVE  Filled'
  <2>1. UseConnector(t)
    BY <1>6 DEF DispatchLost
  <2>2. Served(t)'
    BY <1>6, LostEffect DEF Served, Requesting, InPhase
  <2> QED
    BY <1>2, <1>6, <2>1, <2>2, LostEffect, FilledKeep
<1>7. ASSUME NEW t \in Tasks, PullAnswered(t)
      PROVE  Filled'
  <2>1. /\ clusters' = [clusters EXCEPT ![tasks[t].pulls] = {listed}]
        /\ status' = status \cup {tasks[t].pulls}
        /\ tasks[t].pulls \in Clusters
    BY <1>7, PulledEffect
    DEF PullAnswered, InPhase, Pulled, IInv, Sound
  <2>2. /\ \A c \in status' : clusters'[c] # {}
        /\ clusters["discover"] # {} => clusters'["discover"] # {}
    BY <2>1, ClusterType DEF Filled, IInv, TypeOK
  <2>3. Served(t)'
    BY <1>7, PulledEffect DEF Served, Requesting, InPhase
  <2> QED
    BY <1>7, <2>2, <2>3, PulledEffect, FilledKeep
<1>8. ASSUME NEW t \in Tasks, InstancesAnswered(t)
      PROVE  Filled'
  <2>1. UNCHANGED <<status, clusters>>
    BY <1>8 DEF InstancesAnswered
  <2>2. clusters["discover"] # {} /\ clusters["discover"] \in SUBSET Addresses
    BY <1>8, InstancesEffect, ClusterType
    DEF InstancesAnswered, Filled, Served, Requesting, IInv, TypeOK
  <2>3. tasks'[t].server # None
    BY <1>8, <2>2, InstancesEffect, PicksType, NoneAssumption
  <2>4. Served(t)'
    BY <2>1, <2>2, <2>3 DEF Served
  <2> QED
    BY <1>8, <2>1, <2>4, InstancesEffect, FilledKeep DEF Filled
<1>9. ASSUME NEW t \in Tasks, RouteAnswered(t)
      PROVE  Filled'
  <2>1. UNCHANGED <<status, clusters>>
    BY <1>9 DEF RouteAnswered
  <2>2. Served(t)'
    BY <1>9, RouteEffect DEF Served, Requesting, InPhase
  <2> QED
    BY <1>9, <2>1, <2>2, RouteEffect, FilledKeep DEF Filled
<1>10. ASSUME NEW t \in Tasks,
              RegisterAnswered(t) \/ PullFailed(t) \/ RequestFailed(t)
       PROVE  Filled'
  <2>1. PICK state \in {"success", "failed"} : Finish(t, state)
    BY <1>10, FinishCases
  <2>2. t \in Live /\ UNCHANGED <<status, clusters>>
    BY <1>10, FinishCases
  <2>3. Served(t)'
    BY <2>1, <2>2, FinishEffect DEF Served, Requesting, InPhase
  <2> QED
    BY <2>1, <2>2, <2>3, FinishEffect, FilledKeep DEF Filled
<1>11. ASSUME NEW t \in Tasks, DispatchFinished(t)
       PROVE  Filled'
  <2>1. UNCHANGED clusters /\ status' \subseteq status
    BY <1>11 DEF DispatchFinished, CountFailure
  <2>2. t \notin Live'
    BY <1>11, FinishedEffect DEF Live
  <2> QED
    BY <1>11, <2>1, <2>2, FinishedEffect, FilledKeep DEF Filled
<1>12. CASE ServersMove \/ \E s \in Services : DataChanges(s)
  BY <1>1, <1>12 DEF ServersMove, DataChanges
<1> QED
  BY <1>1, <1>3, <1>4, <1>5, <1>6, <1>7, <1>8, <1>9, <1>10, <1>11, <1>12,
     NextCases

(* `rand() % size()' never divides by zero as long as every list that is   *)
(* pulled names a server that speaks http.                                 *)
THEOREM HasServerCorrect ==
  ASSUME HttpListed
  PROVE  Spec => []RequestHasServer
<1>1. Init => Filled
  BY DEF Init, Filled, Live
<1>2. IInv /\ Filled /\ [Next]_vars => Filled'
  BY FilledStep
<1>3. Filled => RequestHasServer
  BY DEF Filled, Served, RequestHasServer
<1> QED
  BY <1>1, <1>2, <1>3, IInvInductive, PTL DEF Spec

-----------------------------------------------------------------------------
(* The revisions: each is kept under the key of its own service, and sent  *)
(* for the services that look that key up.                                 *)
Filed == \A key \in Keys : revision_map[key] # None =>
                              StoreKey(revision_map[key].service) = key

Whole(t) == tasks[t].api = "DISCOVER" =>
  /\ InPhase(t, "request") /\ tasks[t].sent # None =>
       StoreKey(tasks[t].sent.service) = LookupKey(tasks[t].service)
  /\ InPhase(t, "route") => tasks[t].discover_res = "full"
  /\ tasks[t].state = "success" =>
       tasks[t].discover_res = "full" /\ tasks[t].route_res

AllWhole == Filed /\ \A t \in Live : Whole(t)

LEMMA WholeKeep ==
  ASSUME IInv, AllWhole, NEW t \in Tasks,
         \A o \in Tasks \ {t} : tasks'[o] = tasks[o],
         Filed',
         t \in Live' => Whole(t)'
  PROVE  AllWhole'
<1>1. ASSUME NEW o \in Live', o # t PROVE Whole(o)'
  BY <1>1 DEF Live, InPhase, AllWhole, Whole
<1> QED
  BY <1>1 DEF AllWhole

LEMMA WholeStep ==
  ASSUME \A s \in Services : StoreKey(s) # LookupKey(s),
         IInv, AllWhole, [Next]_vars
  PROVE  AllWhole'
<1> USE DEF vars, setting, cluster, world
<1>1. ASSUME UNCHANGED <<revision_map, tasks>>
      PROVE  AllWhole'
  BY <1>1 DEF AllWhole, Filed, Whole, Live, InPhase
<1>2. ASSUME UNCHANGED revision_map
      PROVE  Filed'
  BY <1>2 DEF AllWhole, Filed
<1>3. ASSUME NEW t \in Tasks, NEW api \in Apis, NEW s \in ServicesOf(api),
             Create(t, api, s)
      PROVE  AllWhole'
  <2>1. UNCHANGED revision_map
    BY <1>3 DEF Create
  <2>2. Whole(t)'
    BY <1>3, CreateEffect DEF Whole, InPhase
  <2> QED
    BY <1>2, <1>3, <2>1, <2>2, CreateEffect, WholeKeep
<1>4. ASSUME NEW t \in Tasks, DispatchPull(t) \/ DispatchLost(t) \/ PullAnswered(t)
      PROVE  AllWhole'
  <2>1. UNCHANGED revision_map
    BY <1>4 DEF DispatchPull, DispatchLost, PullAnswered
  <2>2. Whole(t)'
    BY <1>4, PullEffect, LostEffect, PulledEffect DEF Whole, InPhase, AllWhole
  <2> QED
    BY <1>2, <1>4, <2>1, <2>2, PullEffect, LostEffect, PulledEffect, WholeKeep
<1>5. ASSUME NEW t \in Tasks, DispatchRequest(t)
      PROVE  AllWhole'
  <2>1. UNCHANGED revision_map
    BY <1>5 DEF DispatchRequest
  <2>2. t \in Live /\ Sound(tasks[t])
    BY <1>5, RequestEffect, LiveType
  <2>3. ASSUME tasks[t].api = "DISCOVER", Sends(tasks[t]) # None
        PROVE  StoreKey(Sends(tasks[t]).service) = LookupKey(tasks[t].service)
    BY <2>2, <2>3, ClusterType DEF Sends, Sound, AllWhole, Filed
  <2>4. Whole(t)'
    BY <1>5, <2>2, <2>3, RequestEffect DEF Whole, InPhase, AllWhole
  <2> QED
    BY <1>2, <1>5, <2>1, <2>4, RequestEffect, WholeKeep
<1>6. ASSUME NEW t \in Tasks, InstancesAnswered(t)
      PROVE  AllWhole'
  <2>1. /\ t \in Live /\ tasks[t].api = "DISCOVER" /\ InPhase(t, "request")
        /\ tasks[t].service \in Services
    BY <1>6, InstancesEffect, LiveType DEF InstancesAnswered, Sound
  <2>2. Current(tasks[t].service).service = tasks[t].service
    BY <2>1, CurrentType DEF IInv
  <2>3. Current(tasks[t].service) # None
    BY <2>1, CurrentType, NoneAssumption DEF IInv
  <2>4. Answer(t) = "full"
    BY <2>1, <2>2, <2>3 DEF Answer, AllWhole, Whole
  <2>5. Whole(t)'
    BY <1>6, <2>1, <2>4, InstancesEffect DEF Whole, InPhase, AllWhole
  <2>6. revision_map' = [revision_map EXCEPT ![StoreKey(tasks[t].service)] =
                           Current(tasks[t].service)]
    BY <1>6 DEF InstancesAnswered
  <2>7. Filed'
    BY <2>2, <2>6 DEF AllWhole, Filed, IInv, TypeOK
  <2> QED
    BY <1>6, <2>5, <2>7, InstancesEffect, WholeKeep
<1>7. ASSUME NEW t \in Tasks, RouteAnswered(t)
      PROVE  AllWhole'
  <2>1. UNCHANGED revision_map /\ t \in Live /\ InPhase(t, "route")
    BY <1>7, RouteEffect DEF RouteAnswered
  <2>2. Whole(t)'
    BY <1>7, <2>1, RouteEffect DEF Whole, InPhase, AllWhole
  <2> QED
    BY <1>2, <1>7, <2>1, <2>2, RouteEffect, WholeKeep
<1>8. ASSUME NEW t \in Tasks,
             RegisterAnswered(t) \/ PullFailed(t) \/ RequestFailed(t)
      PROVE  AllWhole'
  <2>1. PICK state \in {"success", "failed"} :
          Finish(t, state) /\ (state = "success" => tasks[t].api # "DISCOVER")
    BY <1>8, FinishCases
  <2>2. t \in Live /\ UNCHANGED revision_map
    BY <1>8, FinishCases
  <2>3. Whole(t)'
    BY <2>1, <2>2, FinishEffect DEF Whole, InPhase
  <2> QED
    BY <1>2, <2>1, <2>2, <2>3, FinishEffect, WholeKeep
<1>9. ASSUME NEW t \in Tasks, DispatchFinished(t)
      PROVE  AllWhole'
  <2>1. UNCHANGED revision_map /\ t \notin Live'
    BY <1>9, FinishedEffect DEF DispatchFinished, Live
  <2> QED
    BY <1>2, <1>9, <2>1, FinishedEffect, WholeKeep
<1>10. CASE ServersMove \/ \E s \in Services : DataChanges(s)
  BY <1>1, <1>10 DEF ServersMove, DataChanges
<1> QED
  BY <1>1, <1>3, <1>4, <1>5, <1>6, <1>7, <1>8, <1>9, <1>10, NextCases

(* A discover task that succeeds brings both bodies and the instances, for *)
(* any services none of which is named so that it looks up its own key,    *)
(* whatever keys they share with each other.                               *)
THEOREM SuccessCorrect ==
  ASSUME \A s \in Services : StoreKey(s) # LookupKey(s)
  PROVE  Spec => []SuccessIsWhole
<1>1. Init => AllWhole
  BY DEF Init, AllWhole, Filed, Live
<1>2. IInv /\ AllWhole /\ [Next]_vars => AllWhole'
  BY WholeStep
<1>3. AllWhole => SuccessIsWhole
  BY DEF AllWhole, Whole, SuccessIsWhole
<1> QED
  BY <1>1, <1>2, <1>3, IInvInductive, PTL DEF Spec
=============================================================================

------------------------- MODULE WatchManagerProofs -------------------------
(***************************************************************************)
(* Theorems about WatchManager, for any sets of services, users and series *)
(* (finitely many) and any bound on the revisions.                         *)
(***************************************************************************)
EXTENDS WatchManager, FiniteSetTheorems, TLAPS

(* TypeOK without the reference count, which is a natural number only      *)
(* because it counts.                                                      *)
Shape == /\ ref \in Int
         /\ status \in {"INIT_SUCCESS", "INIT_FAILED", "MANAGER_EXITED"}
         /\ error \in Errors
         /\ watch_status \in [Services -> WatchInfo \cup {None}]
         /\ unwatch_policies \in [Services -> Policies \cup {None}]
         /\ name_service \in [Services -> Policies \cup {None}]
         /\ series \in [Series -> SeriesWork \cup {None}]
         /\ users \in [Users -> User]
         /\ handle \in {"open", "exiting", "gone"}
         /\ server \in [Services -> Data]

-----------------------------------------------------------------------------
(* A step is a step of one of the actions.                                 *)
LEMMA NextCases ==
  ASSUME Next
  PROVE  \/ \E u \in Users, s \in Services, x \in Series : WatchService(u, s, x)
         \/ \E u \in Users : WatchReturn(u)
         \/ \E u \in Users, s \in Services : UnwatchNotFound(u, s)
         \/ \E u \in Users, s \in Services : UnwatchAtOnce(u, s)
         \/ \E u \in Users, s \in Services : UnwatchWait(u, s)
         \/ \E u \in Users : SpuriousWakeup(u)
         \/ \E u \in Users : UnwatchFinish(u)
         \/ \E x \in Series : DiscoverExited(x)
         \/ \E x \in Series : \E answer \in Answers(x) :
              InPhase(x, "discover") /\ DiscoverCallback(x, answer)
         \/ \E x \in Series : UpdateDouble(x)
         \/ \E x \in Series : UpdateUnwatched(x)
         \/ \E x \in Series : UpdateNoPolicy(x)
         \/ \E x \in Series : UpdateBegin(x)
         \/ \E x \in Series : UpdateInstances(x)
         \/ \E x \in Series : UpdateInbounds(x)
         \/ \E x \in Series : UpdateOutbounds(x)
         \/ \E x \in Series : DiscoverTimerCallback(x)
         \/ \E x \in Series : DiscoverTimerLocked(x)
         \/ \E x \in Series : EndSeries(x)
         \/ ExitDecrement
         \/ ExitFinish
         \/ \E s \in Services, k \in Kinds : ServerPublish(s, k)
         \/ Terminated
<1>1. CASE \E u \in Users : UserStep(u)
  BY <1>1 DEF UserStep
<1>2. CASE \E x \in Series : SeriesStep(x)
  BY <1>2 DEF SeriesStep, UpdatePolicyLocked
<1> QED
  BY <1>1, <1>2 DEF Next

(* A live series is a SeriesWork, and not None.                            *)
LEMMA LiveType ==
  ASSUME Shape, NEW x \in Live
  PROVE  x \in Series /\ series[x] \in SeriesWork
BY DEF Shape, Live

(* What Advance and GoUpdate make of a live series.                        *)
LEMMA AdvanceType ==
  ASSUME Shape, NEW x \in Live, Advance(x, "end") \/ Advance(x, "timer") \/
         Advance(x, "rearm") \/ Advance(x, "discover")
  PROVE  /\ series' \in [Series -> SeriesWork \cup {None}]
         /\ series'[x] \in SeriesWork
         /\ series'[x].service = series[x].service
         /\ series'[x].user = None
         /\ \A y \in Series \ {x} : series'[y] = series[y]
<1> DEFINE w(ph) == [series[x] EXCEPT !.phase = ph, !.user = None,
                                      !.answer = None]
<1>1. x \in Series /\ series[x] \in SeriesWork
  BY LiveType
<1>2. ASSUME NEW ph \in {"end", "timer", "rearm", "discover"}, Advance(x, ph)
      PROVE  series' = [series EXCEPT ![x] = w(ph)] /\ w(ph) \in SeriesWork
               /\ w(ph).service = series[x].service /\ w(ph).user = None
  BY <1>1, <1>2 DEF Advance, SeriesWork, Shape
<1> QED
  BY <1>1, <1>2 DEF Shape

LEMMA GoUpdateType ==
  ASSUME Shape, NEW x \in Live, NEW answer \in Answers(x), GoUpdate(x, answer)
  PROVE  /\ series' \in [Series -> SeriesWork \cup {None}]
         /\ series'[x] = [series[x] EXCEPT !.phase = "update", !.answer = answer]
         /\ series'[x] \in SeriesWork
         /\ \A y \in Series \ {x} : series'[y] = series[y]
<1>1. x \in Series /\ series[x] \in SeriesWork
  BY LiveType
<1>2. answer \in Data \cup {None}
  BY <1>1 DEF Answers, Shape, SeriesWork
<1> DEFINE w == [series[x] EXCEPT !.phase = "update", !.answer = answer]
<1>3. series' = [series EXCEPT ![x] = w]
  BY <1>1 DEF GoUpdate, Shape
<1>4. w \in SeriesWork
  BY <1>1, <1>2 DEF SeriesWork
<1> QED
  BY <1>1, <1>3, <1>4 DEF Shape

(* A callback that goes on to a table of the policy keeps the rest of its  *)
(* series.                                                                 *)
LEMMA PhaseType ==
  ASSUME Shape, NEW x \in Live, NEW ph \in Tables,
         series' = [series EXCEPT ![x].phase = ph]
  PROVE  /\ series' \in [Series -> SeriesWork \cup {None}]
         /\ series'[x] \in SeriesWork
         /\ series'[x].phase = ph
         /\ series'[x].service = series[x].service
         /\ series'[x].user = series[x].user
         /\ series'[x].answer = series[x].answer
         /\ \A y \in Series \ {x} : series'[y] = series[y]
<1>1. x \in Series /\ series[x] \in SeriesWork
  BY LiveType
<1> DEFINE w == [series[x] EXCEPT !.phase = ph]
<1>2. series' = [series EXCEPT ![x] = w]
  BY <1>1 DEF Shape
<1>3. /\ w \in SeriesWork
      /\ w.phase = ph /\ w.service = series[x].service
      /\ w.user = series[x].user /\ w.answer = series[x].answer
  BY <1>1 DEF SeriesWork
<1> QED
  BY <1>1, <1>2, <1>3 DEF Shape

(* What the tail of unwatch_service, a release and a notification make of  *)
(* the tables and of the users.                                            *)
LEMMA RemoveWatchType ==
  ASSUME Shape, NEW s \in Services, RemoveWatch(s)
  PROVE  /\ watch_status' \in [Services -> WatchInfo \cup {None}]
         /\ unwatch_policies' \in [Services -> Policies \cup {None}]
         /\ name_service' \in [Services -> Policies \cup {None}]
BY DEF Shape, RemoveWatch

LEMMA SetWatchingType ==
  ASSUME Shape, NEW s \in Watching, NEW b \in BOOLEAN, SetWatching(s, b)
  PROVE  /\ watch_status' \in [Services -> WatchInfo \cup {None}]
         /\ watch_status'[s] \in WatchInfo
         /\ watch_status'[s].watching = b
         /\ watch_status'[s].revision = watch_status[s].revision
         /\ \A t \in Services \ {s} : watch_status'[t] = watch_status[t]
<1>1. s \in Services /\ watch_status[s] \in WatchInfo
  BY DEF Shape, Watching
<1> DEFINE w == [watch_status[s] EXCEPT !.watching = b]
<1>2. watch_status' = [watch_status EXCEPT ![s] = w]
  BY <1>1 DEF SetWatching, Shape
<1>3. /\ w \in WatchInfo
      /\ w.watching = b
      /\ w.revision = watch_status[s].revision
  BY <1>1 DEF WatchInfo
<1> QED
  BY <1>1, <1>2, <1>3 DEF Shape

LEMMA ReleaseType ==
  ASSUME Shape, NEW x \in Live, NEW b \in BOOLEAN, Release(x, b)
  PROVE  /\ users' \in [Users -> User]
         /\ \A u \in Users : u # series[x].user => users'[u] = users[u]
         /\ \A u \in Users : u = series[x].user =>
              /\ users'[u].pc = "released"
              /\ users'[u].service = users[u].service
              /\ users'[u].installed = b
<1>1. \A u \in Users :
        LET v == [users[u] EXCEPT !.pc = "released", !.installed = b]
        IN  /\ v \in User /\ v.pc = "released"
            /\ v.service = users[u].service
            /\ v.installed = b
  BY DEF Shape, User
<1> QED
  BY <1>1 DEF Release, Shape

LEMMA NotifyOneType ==
  ASSUME Shape, NEW s \in Services, NotifyOne(s)
  PROVE  /\ users' \in [Users -> User]
         /\ \A u \in Users : users'[u].service = users[u].service
         /\ \A u \in Users : users'[u].installed = users[u].installed
         /\ \A u \in Users : users[u].pc # "unwatch" =>
                               users'[u] = users[u]
         /\ \A u \in Users : users[u].pc = "unwatch" =>
                               users'[u].pc \in {"unwatch", "notified"}
<1>1. \A u \in Users :
        LET v == [users[u] EXCEPT !.pc = "notified"]
        IN  /\ v \in User /\ v.pc = "notified"
            /\ v.service = users[u].service
            /\ v.installed = users[u].installed
  BY DEF Shape, User
<1> QED
  BY <1>1 DEF NotifyOne, Shape

(* Handing an answer over keeps the shape of what it is handed to.         *)
LEMMA ApplyType ==
  ASSUME Shape, NEW x \in Live, NEW old \in Cached
  PROVE  Apply(x, old) \in Cached
<1>1. series[x].answer \in Data \cup {None}
  BY LiveType DEF SeriesWork
<1>2. ASSUME NEW k \in Kinds
      PROVE  (IF k \in Changed(x) THEN series[x].answer[k] ELSE old[k])
               \in Revisions \cup {NoRev}
  BY <1>1, <1>2 DEF Changed, Data, Cached
<1> QED
  BY <1>2 DEF Apply, Cached

LEMMA RevisionOfType ==
  ASSUME Shape, NEW s \in Services
  PROVE  RevisionOf(s) \in Cached /\ PolicyOf(s) \in Policies
<1>1. NoData \in Cached /\ EmptyPolicy \in Policies
  BY DEF NoData, Cached, EmptyPolicy, Policies
<1> QED
  BY <1>1 DEF RevisionOf, PolicyOf, Shape, Watching, WatchInfo

(* The parts that an answer names, and the revision that it brings of each.*)
LEMMA BringsPart ==
  ASSUME NEW d \in Data, NEW p \in Parts
  PROVE  /\ DOMAIN Brings[d] \subseteq Parts
         /\ p \in DOMAIN Brings[d] <=> \/ Table[p] = "instances"
                                       \/ p \in Listed[d["rules"]]
         /\ p \in DOMAIN Brings[d] => Brings[d][p] = d[KindOf(Table[p])]
         /\ d[KindOf(Table[p])] \in Revisions
<1>1. KindOf(Table[p]) \in Kinds
  BY DEF KindOf, Kinds
<1>2. d[KindOf(Table[p])] \in Revisions
  BY <1>1 DEF Data
<1> QED
  BY <1>2 DEF Brings

(* What it brings of a part follows from the kind of the part alone.       *)
LEMMA BringsSame ==
  ASSUME NEW d \in Data, NEW e \in Data, NEW p \in DOMAIN Brings[d],
         d[KindOf(Table[p])] = e[KindOf(Table[p])]
  PROVE  p \in DOMAIN Brings[e] /\ Brings[e][p] = Brings[d][p]
<1>1. p \in Parts
  BY BringsPart DEF Brings
<1>2. Table[p] # "instances" => d["rules"] = e["rules"]
  BY DEF KindOf
<1> QED
  BY <1>1, <1>2, BringsPart

(* A write changes the parts of its table that a changed kind of the       *)
(* answer names.                                                           *)
LEMMA ReplacementPart ==
  ASSUME Shape, NEW x \in Live, NEW t \in Tables, NEW held \in Policies
  PROVE  /\ Replacement(x, t, held) \in Policies
         /\ \A p \in Parts :
              LET ans == series[x].answer
                  new == Replacement(x, t, held)
              IN  \/ new[p] = held[p]
                  \/ /\ KindOf(t) \in Changed(x)
                     /\ p \in DOMAIN Brings[ans]
                     /\ Table[p] = t
                     /\ new[p] = Brings[ans][p]
         /\ KindOf(t) \in Changed(x) =>
              \A p \in DOMAIN Brings[series[x].answer] :
                Table[p] = t =>
                  Replacement(x, t, held)[p] = Brings[series[x].answer][p]
<1> DEFINE ans == series[x].answer
<1>1. CASE KindOf(t) \in Changed(x)
  <2>1. ans \in Data
    BY <1>1, LiveType DEF SeriesWork, Changed
  <2>2. Replacement(x, t, held) = Written(t, Brings[ans], held)
    BY <1>1 DEF Replacement
  <2>3. \A p \in Parts :
          /\ held[p] \in Revisions \cup {NoRev}
          /\ p \in DOMAIN Brings[ans] => Brings[ans][p] \in Revisions
    BY <2>1, BringsPart DEF Policies
  <2>4. DOMAIN Brings[ans] \subseteq Parts
    BY <2>1 DEF Brings
  <2> QED
    BY <1>1, <2>2, <2>3, <2>4 DEF Written, Policies
<1>2. CASE KindOf(t) \notin Changed(x)
  BY <1>2 DEF Replacement
<1> QED
  BY <1>1, <1>2

-----------------------------------------------------------------------------
(* The three tables, watch_status, the name service and unwatch_policies,  *)
(* and the series that write a policy.                                     *)

(* A step starts or goes on with no writing.                               *)
SameWriters == \A x \in Series : Writing(x) \/ Writing(x)' =>
                                   series'[x] = series[x]

(* The three steps that write a table.                                     *)
WriteStep(x) == UpdateInstances(x) \/ UpdateInbounds(x) \/ UpdateOutbounds(x)

LEMMA AdvanceWriters ==
  ASSUME Shape, NEW x \in Live, ~Writing(x),
         Advance(x, "end") \/ Advance(x, "timer") \/
         Advance(x, "rearm") \/ Advance(x, "discover")
  PROVE  SameWriters
<1>1. x \in Series /\ series[x] \in SeriesWork
  BY LiveType
<1>2. ASSUME NEW ph \in {"end", "timer", "rearm", "discover"}, Advance(x, ph)
      PROVE  series'[x].phase = ph /\ \A y \in Series \ {x} : series'[y] = series[y]
  <2> DEFINE w == [series[x] EXCEPT !.phase = ph, !.user = None,
                                    !.answer = None]
  <2>1. series' = [series EXCEPT ![x] = w] /\ w.phase = ph
    BY <1>1, <1>2 DEF Advance, SeriesWork, Shape
  <2> QED
    BY <1>1, <2>1 DEF Shape
<1> QED
  BY <1>2 DEF SameWriters, Writing, Tables

(* All that writes the tables: the removal, the writing of an answer, a    *)
(* flag, and the end of the Manager.                                       *)
LEMMA TablesCases ==
  ASSUME Shape, [Next]_vars
  PROVE  \/ UNCHANGED tables /\ SameWriters
         \/ MutexFree /\ UNCHANGED series /\ \E s : RemoveWatch(s)
         \/ \E x \in Series : UpdateBegin(x)
         \/ \E x \in Series : WriteStep(x)
         \/ /\ MutexFree /\ SameWriters
            /\ \E s \in Watching, b \in BOOLEAN : SetWatching(s, b)
            /\ UNCHANGED <<name_service, unwatch_policies>>
         \/ DecRef /\ UNCHANGED <<watch_status, name_service>> /\ SameWriters
<1> USE DEF vars, life, tables
<1>a. UNCHANGED series => SameWriters
  BY DEF SameWriters
<1>1. ASSUME NEW u \in Users, NEW s \in Services, UnwatchAtOnce(u, s)
      PROVE  MutexFree /\ UNCHANGED series /\ RemoveWatch(s)
  BY <1>1 DEF UnwatchAtOnce, MayUnwatch
<1>2. ASSUME NEW u \in Users, UnwatchFinish(u)
      PROVE  MutexFree /\ UNCHANGED series /\ RemoveWatch(users[u].service)
  BY <1>2 DEF UnwatchFinish
<1>3. ASSUME NEW u \in Users, NEW s \in Services, UnwatchWait(u, s)
      PROVE  /\ MutexFree /\ SameWriters
             /\ s \in Watching /\ SetWatching(s, FALSE)
             /\ UNCHANGED <<name_service, unwatch_policies>>
  BY <1>a, <1>3 DEF UnwatchWait, MayUnwatch
<1>4. ASSUME NEW x \in Series, DiscoverTimerLocked(x)
      PROVE  /\ MutexFree /\ SameWriters
             /\ \/ UNCHANGED tables
                \/ /\ series[x].service \in Watching
                   /\ SetWatching(series[x].service, TRUE)
                   /\ UNCHANGED <<name_service, unwatch_policies>>
  BY <1>4, AdvanceWriters DEF DiscoverTimerLocked, MutexFree, InPhase
<1>5. ASSUME NEW x \in Series, EndSeries(x)
      PROVE  DecRef /\ UNCHANGED <<watch_status, name_service>> /\ SameWriters
  <2>1. /\ series[x].phase = "end"
        /\ series'[x] = None
        /\ \A y \in Series \ {x} : series'[y] = series[y]
    BY <1>5 DEF EndSeries, InPhase, Shape
  <2>2. SameWriters
    BY <2>1 DEF SameWriters, Writing, Live, Tables
  <2> QED
    BY <1>5, <2>2 DEF EndSeries
<1>6. CASE ExitDecrement
  BY <1>a, <1>6 DEF ExitDecrement
<1>7. ASSUME NEW x \in Series,
             \/ DiscoverExited(x) \/ UpdateDouble(x) \/ UpdateUnwatched(x)
             \/ UpdateNoPolicy(x) \/ DiscoverTimerCallback(x)
      PROVE  UNCHANGED tables /\ SameWriters
  <2>1. x \in Live /\ ~Writing(x)
    BY <1>7 DEF DiscoverExited, UpdateDouble, UpdateUnwatched, UpdateNoPolicy,
                DiscoverTimerCallback, InPhase, AtPolicy, AtUpdate, Writing,
                Tables
  <2> QED
    BY <1>7, <2>1, AdvanceWriters
    DEF DiscoverExited, UpdateDouble, UpdateUnwatched, UpdateNoPolicy,
        DiscoverTimerCallback
<1>8. ASSUME NEW x \in Series, NEW answer \in Answers(x),
             InPhase(x, "discover"), DiscoverCallback(x, answer)
      PROVE  UNCHANGED tables /\ SameWriters
  <2>1. x \in Live /\ ~Writing(x)
    BY <1>8 DEF InPhase, Writing, Tables
  <2>2. CASE GoUpdate(x, answer)
    <3>1. /\ series'[x] = [series[x] EXCEPT !.phase = "update",
                                            !.answer = answer]
          /\ series[x] \in SeriesWork
          /\ \A y \in Series \ {x} : series'[y] = series[y]
      BY <2>1, <2>2, GoUpdateType, LiveType
    <3>2. series'[x].phase = "update"
      BY <3>1 DEF SeriesWork
    <3>3. SameWriters
      BY <2>1, <3>1, <3>2 DEF SameWriters, Writing, Tables
    <3> QED
      BY <1>8, <3>3 DEF DiscoverCallback
  <2> QED
    BY <1>8, <2>1, <2>2, AdvanceWriters
    DEF DiscoverCallback, DiscoverForUser, DiscoverForRefresh
<1>9. ASSUME NEW u \in Users, NEW s \in Services, NEW x \in Series,
             WatchService(u, s, x)
      PROVE  UNCHANGED tables /\ SameWriters
  <2>1. /\ series'[x] = [service |-> s, phase |-> "discover", user |-> u,
                         answer |-> None]
        /\ x \notin Live
        /\ \A y \in Series \ {x} : series'[y] = series[y]
    BY <1>9 DEF WatchService, Shape
  <2>2. SameWriters
    BY <2>1 DEF SameWriters, Writing, Tables
  <2> QED
    BY <1>9, <2>2 DEF WatchService
<1>10. ASSUME NEW u \in Users,
             \/ \E s \in Services : UnwatchNotFound(u, s)
             \/ WatchReturn(u) \/ SpuriousWakeup(u)
      PROVE  UNCHANGED tables /\ SameWriters
  BY <1>a, <1>10 DEF UnwatchNotFound, WatchReturn, SpuriousWakeup
<1>11. CASE ExitFinish \/ Terminated
               \/ \E s \in Services, k \in Kinds : ServerPublish(s, k)
  BY <1>a, <1>11 DEF ExitFinish, Terminated, ServerPublish
<1>12. CASE UNCHANGED vars
  BY <1>a, <1>12
<1>13. CASE Next
  <2>1. CASE \E u \in Users : UserStep(u)
    BY <1>1, <1>2, <1>3, <1>9, <1>10, <2>1 DEF UserStep
  <2>2. CASE \E x \in Series : SeriesStep(x)
    BY <1>4, <1>5, <1>7, <1>8, <2>2 DEF SeriesStep, UpdatePolicyLocked, WriteStep
  <2> QED
    BY <1>6, <1>11, <1>13, <2>1, <2>2 DEF Next
<1> QED
  BY <1>12, <1>13

(* Who writes a policy holds the mutex, and the policy is there.           *)
WritersInv ==
  /\ \A x, y \in Series : Writing(x) /\ Writing(y) => x = y
  /\ \A x \in Series : Writing(x) => name_service[series[x].service] # None

LEMMA BeginEffect ==
  ASSUME Shape, NEW x \in Series, UpdateBegin(x)
  PROVE  LET s == series[x].service
         IN  /\ x \in Live /\ s \in Services
             /\ series[x].phase = "update"
             /\ MutexFree
             /\ x \in Live' /\ Writing(x)'
             /\ series' \in [Series -> SeriesWork \cup {None}]
             /\ series'[x] \in SeriesWork
             /\ series'[x].phase = "instances"
             /\ series'[x].service = s
             /\ series'[x].user = series[x].user
             /\ series'[x].answer = series[x].answer
             /\ \A y \in Series \ {x} : series'[y] = series[y]
             /\ PolicyOf(s) \in Policies
             /\ name_service'[s] = PolicyOf(s)
             /\ unwatch_policies'[s] \in {None, unwatch_policies[s]}
             /\ unwatch_policies[s] # None /\ unwatch_policies'[s] # None =>
                  name_service[s] # None
             /\ \A t \in Services \ {s} :
                  /\ name_service'[t] = name_service[t]
                  /\ unwatch_policies'[t] = unwatch_policies[t]
<1> DEFINE s == series[x].service
<1>1. x \in Live /\ s \in Services /\ series[x].phase = "update" /\ MutexFree
  BY LiveType DEF UpdateBegin, AtPolicy, AtUpdate, InPhase, SeriesWork
<1>2. /\ series' \in [Series -> SeriesWork \cup {None}]
      /\ series'[x] \in SeriesWork
      /\ series'[x].phase = "instances"
      /\ series'[x].service = s
      /\ series'[x].user = series[x].user
      /\ series'[x].answer = series[x].answer
      /\ \A y \in Series \ {x} : series'[y] = series[y]
  BY <1>1, PhaseType DEF UpdateBegin, Tables
<1>3. x \in Live' /\ Writing(x)'
  BY <1>2, NoneAssumption DEF Live, Writing, Tables
<1>4. PolicyOf(s) \in Policies
  BY <1>1, RevisionOfType
<1> QED
  BY <1>1, <1>2, <1>3, <1>4 DEF UpdateBegin, TakeFromAside, Shape

LEMMA WriteEffect ==
  ASSUME Shape, WritersInv, NEW x \in Series, WriteStep(x)
  PROVE  LET s == series[x].service
             t == series[x].phase
         IN  /\ x \in Live /\ s \in Services /\ Writing(x)
             /\ t \in Tables
             /\ name_service[s] \in Policies
             /\ name_service'[s] = Replacement(x, t, name_service[s])
             /\ name_service'[s] \in Policies
             /\ name_service'[s] # None
             /\ name_service' \in [Services -> Policies \cup {None}]
             /\ \A r \in Services \ {s} : name_service'[r] = name_service[r]
             /\ UNCHANGED <<unwatch_policies, status, handle, ref, error, server>>
             /\ series' \in [Series -> SeriesWork \cup {None}]
             /\ series'[x] \in SeriesWork
             /\ x \in Live'
             /\ series'[x].service = s
             /\ \A y \in Series \ {x} : series'[y] = series[y]
<1> DEFINE s == series[x].service
           t == series[x].phase
<1>1. x \in Live /\ t \in Tables /\ WriteTable(x, t)
  BY DEF WriteStep, UpdateInstances, UpdateInbounds, UpdateOutbounds, InPhase,
         Tables
<1>2. s \in Services
  BY <1>1, LiveType DEF SeriesWork
<1>3. name_service[s] \in Policies
  BY <1>1, <1>2 DEF WritersInv, Writing, Shape
<1>4. /\ name_service' = [name_service EXCEPT
                            ![s] = Replacement(x, t, name_service[s])]
      /\ Replacement(x, t, name_service[s]) \in Policies
  BY <1>1, <1>3, ReplacementPart DEF WriteTable
<1>5. /\ series' \in [Series -> SeriesWork \cup {None}]
      /\ series'[x] \in SeriesWork
      /\ series'[x].service = s
      /\ \A y \in Series \ {x} : series'[y] = series[y]
  <2>1. CASE UpdateOutbounds(x)
    BY <1>1, <2>1, AdvanceType DEF UpdateOutbounds
  <2>2. CASE UpdateInstances(x)
    BY <1>1, <2>2, PhaseType DEF UpdateInstances, Tables
  <2>3. CASE UpdateInbounds(x)
    BY <1>1, <2>3, PhaseType DEF UpdateInbounds, Tables
  <2> QED
    BY <2>1, <2>2, <2>3 DEF WriteStep
<1>6. UNCHANGED <<unwatch_policies, status, handle, ref, error, server>>
  BY DEF WriteStep, UpdateInstances, UpdateInbounds, UpdateOutbounds, life
<1> QED
  BY <1>1, <1>2, <1>3, <1>4, <1>5, <1>6, NoneAssumption
  DEF Shape, Live, Writing

LEMMA WritersInit == Init => WritersInv
BY DEF Init, WritersInv, Writing, Live

LEMMA WritersStep == Shape /\ WritersInv /\ [Next]_vars => WritersInv'
<1> SUFFICES ASSUME Shape, WritersInv, [Next]_vars PROVE WritersInv'
  OBVIOUS
<1>1. CASE SameWriters /\ UNCHANGED name_service
  <2>1. \A x \in Series : Writing(x)' => Writing(x) /\ series'[x] = series[x]
    BY <1>1 DEF SameWriters, Writing, Live
  <2> QED
    BY <1>1, <2>1 DEF WritersInv
<1>2. CASE MutexFree /\ UNCHANGED series
  BY <1>2 DEF MutexFree, WritersInv, Writing, Live
<1>3. ASSUME NEW x \in Series, UpdateBegin(x)
      PROVE  WritersInv'
  <2>1. \A y \in Series \ {x} : ~Writing(y)'
    BY <1>3, BeginEffect DEF MutexFree, Writing, Live
  <2>2. name_service'[series'[x].service] # None
    BY <1>3, BeginEffect, NoneAssumption
  <2> QED
    BY <2>1, <2>2 DEF WritersInv
<1>4. ASSUME NEW x \in Series, WriteStep(x)
      PROVE  WritersInv'
  <2>1. \A y \in Series \ {x} : ~Writing(y)'
    BY <1>4, WriteEffect DEF WritersInv, Writing, Live
  <2>2. name_service'[series'[x].service] # None
    BY <1>4, WriteEffect
  <2> QED
    BY <2>1, <2>2 DEF WritersInv
<1> QED
  BY <1>1, <1>2, <1>3, <1>4, TablesCases DEF tables

-----------------------------------------------------------------------------
(* Type correctness.                                                       *)

LEMMA ShapeInit == Init => Shape
<1> SUFFICES ASSUME Init PROVE Shape
  OBVIOUS
<1>1. [s \in Services |-> [k \in Kinds |-> 0]] \in [Services -> Data]
  BY MaxRevAssumption DEF Data, Revisions
<1>2. Idle \in User
  BY DEF Idle, User
<1> QED
  BY <1>1, <1>2 DEF Init, Shape, Errors

LEMMA ShapeStep == Shape /\ WritersInv /\ [Next]_vars => Shape'
<1> SUFFICES ASSUME Shape, WritersInv, [Next]_vars PROVE Shape'
  OBVIOUS
<1> USE DEF vars, life, tables
<1>1. CASE UNCHANGED vars
  BY <1>1 DEF Shape
<1>2. ASSUME NEW u \in Users, NEW s \in Services, NEW x \in Series,
             WatchService(u, s, x)
      PROVE  Shape'
  <2>1. [service |-> s, phase |-> "discover", user |-> u, answer |-> None]
          \in SeriesWork
    BY DEF SeriesWork
  <2>2. [pc |-> "watch", service |-> s, installed |-> FALSE] \in User
    BY DEF User
  <2> QED
    BY <1>2, <2>1, <2>2 DEF WatchService, IncRef, Shape
<1>3. ASSUME NEW u \in Users, WatchReturn(u)
      PROVE  Shape'
  <2>1. Idle \in User
    BY DEF Idle, User
  <2> QED
    BY <1>3, <2>1 DEF WatchReturn, Shape
<1>4. ASSUME NEW u \in Users, NEW s \in Services, UnwatchNotFound(u, s)
      PROVE  Shape'
  BY <1>4 DEF UnwatchNotFound, Fail, Errors, Shape
<1>5. ASSUME NEW u \in Users, NEW s \in Services, UnwatchAtOnce(u, s)
      PROVE  Shape'
  BY <1>5, RemoveWatchType DEF UnwatchAtOnce, Shape
<1>6. ASSUME NEW u \in Users, NEW s \in Services, UnwatchWait(u, s)
      PROVE  Shape'
  <2>1. [pc |-> "unwatch", service |-> s, installed |-> FALSE] \in User
    BY DEF User
  <2> QED
    BY <1>6, <2>1, SetWatchingType DEF UnwatchWait, Shape
<1>7. ASSUME NEW u \in Users, SpuriousWakeup(u)
      PROVE  Shape'
  <2>1. [users[u] EXCEPT !.pc = "notified"] \in User
    BY DEF Shape, User
  <2> QED
    BY <1>7, <2>1 DEF SpuriousWakeup, Shape
<1>8. ASSUME NEW u \in Users, UnwatchFinish(u)
      PROVE  Shape'
  <2>1. Idle \in User
    BY DEF Idle, User
  <2>2. CASE users[u].service \in Services
    BY <1>8, <2>1, <2>2, RemoveWatchType DEF UnwatchFinish, Shape
  <2>3. CASE users[u].service \notin Services
    BY <1>8, <2>1, <2>3 DEF UnwatchFinish, RemoveWatch, Shape
  <2> QED
    BY <2>2, <2>3
<1>9. ASSUME NEW x \in Series, DiscoverExited(x)
      PROVE  Shape'
  BY <1>9, AdvanceType DEF DiscoverExited, InPhase, Shape
<1>10. ASSUME NEW x \in Series, NEW answer \in Answers(x),
              InPhase(x, "discover"), DiscoverCallback(x, answer)
       PROVE  Shape'
  <2>1. CASE DiscoverForUser(x, answer)
    <3>1. error' \in Errors
      BY <2>1 DEF DiscoverForUser, Fail, Errors, Shape
    <3>2. CASE Release(x, FALSE) /\ Advance(x, "end")
      BY <1>10, <3>1, <3>2, ReleaseType, AdvanceType
      DEF DiscoverCallback, InPhase, Shape
    <3>3. CASE GoUpdate(x, answer) /\ UNCHANGED users
      BY <1>10, <3>1, <3>3, GoUpdateType DEF DiscoverCallback, InPhase, Shape
    <3> QED
      BY <2>1, <3>2, <3>3 DEF DiscoverForUser
  <2>2. CASE DiscoverForRefresh(x, answer)
    BY <1>10, <2>2, GoUpdateType
    DEF DiscoverForRefresh, DiscoverCallback, InPhase, Shape
  <2> QED
    BY <1>10, <2>1, <2>2 DEF DiscoverCallback
<1>11. ASSUME NEW x \in Series, UpdateDouble(x)
       PROVE  Shape'
  BY <1>11, ReleaseType, AdvanceType
  DEF UpdateDouble, AtUpdate, InPhase, Fail, Errors, Shape
<1>12. ASSUME NEW x \in Series, UpdateUnwatched(x)
       PROVE  Shape'
  <2>1. series[x].service \in Services /\ x \in Live
    BY <1>12 DEF UpdateUnwatched, Watching, AtUpdate, InPhase
  <2> QED
    BY <1>12, <2>1, NotifyOneType, AdvanceType DEF UpdateUnwatched, Shape
<1>13. ASSUME NEW x \in Series, UpdateNoPolicy(x)
       PROVE  Shape'
  BY <1>13, AdvanceType
  DEF UpdateNoPolicy, AtPolicy, AtUpdate, InPhase, Fail, Errors, Shape
<1>14. ASSUME NEW x \in Series, UpdateBegin(x)
       PROVE  Shape'
  <2> DEFINE s == series[x].service
  <2>1. x \in Live /\ s \in Services
    BY <1>14, LiveType DEF UpdateBegin, AtPolicy, AtUpdate, InPhase, SeriesWork
  <2>2. series' \in [Series -> SeriesWork \cup {None}]
    BY <1>14, <2>1, PhaseType DEF UpdateBegin, Tables
  <2>3. /\ name_service' \in [Services -> Policies \cup {None}]
        /\ unwatch_policies' \in [Services -> Policies \cup {None}]
    BY <1>14, <2>1, RevisionOfType DEF UpdateBegin, TakeFromAside, Shape
  <2> QED
    BY <1>14, <2>2, <2>3 DEF UpdateBegin, Shape
<1>22. ASSUME NEW x \in Series, UpdateInstances(x) \/ UpdateInbounds(x)
       PROVE  Shape'
  <2>1. WriteStep(x) /\ UNCHANGED <<watch_status, users>>
    BY <1>22 DEF WriteStep, UpdateInstances, UpdateInbounds
  <2> QED
    BY <2>1, WriteEffect DEF Shape
<1>23. ASSUME NEW x \in Series, UpdateOutbounds(x)
       PROVE  Shape'
  <2> DEFINE s == series[x].service
  <2>1. WriteStep(x) /\ x \in Live /\ s \in Services
    BY <1>23, WriteEffect DEF WriteStep
  <2>2. Apply(x, RevisionOf(s)) \in Cached
    BY <2>1, RevisionOfType, ApplyType
  <2>3. [watching |-> FALSE, revision |-> Apply(x, RevisionOf(s))] \in WatchInfo
    BY <2>2 DEF WatchInfo
  <2>4. watch_status' \in [Services -> WatchInfo \cup {None}]
    BY <1>23, <2>1, <2>3 DEF UpdateOutbounds, Shape
  <2>5. users' \in [Users -> User]
    BY <1>23, <2>1, ReleaseType DEF UpdateOutbounds
  <2> QED
    BY <2>1, <2>4, <2>5, WriteEffect DEF Shape
<1>15. ASSUME NEW x \in Series, DiscoverTimerCallback(x)
       PROVE  Shape'
  BY <1>15, AdvanceType DEF DiscoverTimerCallback, InPhase, Shape
<1>16. ASSUME NEW x \in Series, DiscoverTimerLocked(x)
       PROVE  Shape'
  <2>1. CASE series[x].service \in Watching
    BY <1>16, <2>1, SetWatchingType, AdvanceType
    DEF DiscoverTimerLocked, InPhase, Shape
  <2>2. CASE series[x].service \notin Watching
    BY <1>16, <2>2, AdvanceType DEF DiscoverTimerLocked, InPhase, Shape
  <2> QED
    BY <2>1, <2>2
<1>17. ASSUME NEW x \in Series, EndSeries(x)
       PROVE  Shape'
  BY <1>17 DEF EndSeries, DecRef, Shape
<1>18. CASE ExitDecrement
  BY <1>18 DEF ExitDecrement, DecRef, Shape
<1>19. CASE ExitFinish
  BY <1>19 DEF ExitFinish, Shape
<1>20. ASSUME NEW s \in Services, NEW k \in Kinds, ServerPublish(s, k)
       PROVE  Shape'
  <2>1. server[s] \in Data /\ server[s][k] \in Revisions
    BY DEF Shape, Data
  <2>2. server[s][k] + 1 \in Revisions
    BY <1>20, <2>1, MaxRevAssumption DEF ServerPublish, Revisions
  <2>3. [server[s] EXCEPT ![k] = server[s][k] + 1] \in Data
    BY <2>1, <2>2 DEF Data
  <2> QED
    BY <1>20, <2>3 DEF ServerPublish, Shape
<1>21. CASE Terminated
  BY <1>21 DEF Terminated, Shape
<1> QED
  BY <1>1, <1>2, <1>3, <1>4, <1>5, <1>6, <1>7, <1>8, <1>9, <1>10, <1>11,
     <1>12, <1>13, <1>14, <1>15, <1>16, <1>17, <1>18, <1>19, <1>20, <1>21,
     <1>22, <1>23, NextCases

-----------------------------------------------------------------------------
(* The reference count.                                                    *)

LEMMA LiveFinite == IsFiniteSet(Live) /\ Cardinality(Live) \in Nat
BY SeriesAssumption, FS_Subset, FS_CardinalityType DEF Live

(* Only watch_service makes a series, and only the end of a series removes *)
(* one; both, and the exit, count their reference.                         *)
LEMMA LiveStep ==
  ASSUME Shape, Next
  PROVE  \/ Live' = Live /\ ref' = ref /\ (handle' = "open" <=> handle = "open")
         \/ \E x \in Series \ Live :
              Live' = Live \cup {x} /\ ref' = ref + 1 /\ handle' = handle
         \/ \E x \in Live :
              Live' = Live \ {x} /\ ref' = ref - 1 /\ handle' = handle
         \/ /\ Live' = Live
            /\ ref' = ref - 1
            /\ handle = "open"
            /\ handle' # "open"
<1> USE DEF vars, life, tables
<1>1. ASSUME UNCHANGED series
      PROVE  Live' = Live
  BY <1>1 DEF Live
<1>2. ASSUME NEW x \in Live, series' \in [Series -> SeriesWork \cup {None}],
             series'[x] \in SeriesWork,
             \A y \in Series \ {x} : series'[y] = series[y]
      PROVE  Live' = Live
  BY <1>2, LiveType, NoneAssumption DEF Live
<1>3. ASSUME NEW u \in Users, NEW s \in Services, NEW x \in Series,
             WatchService(u, s, x)
      PROVE  Live' = Live \cup {x} /\ x \notin Live /\ ref' = ref + 1
               /\ handle' = handle
  <2>1. [service |-> s, phase |-> "discover", user |-> u, answer |-> None]
          \in SeriesWork
    BY DEF SeriesWork
  <2> QED
    BY <1>3, <2>1, NoneAssumption DEF WatchService, IncRef, Live, Shape
<1>4. ASSUME NEW x \in Series, EndSeries(x)
      PROVE  x \in Live /\ Live' = Live \ {x} /\ ref' = ref - 1
               /\ handle' = handle
  BY <1>4 DEF EndSeries, InPhase, DecRef, Live, Shape
<1>5. CASE ExitDecrement
  BY <1>1, <1>5 DEF ExitDecrement, DecRef
<1>6. CASE ExitFinish
  BY <1>1, <1>6 DEF ExitFinish
<1>7. ASSUME NEW x \in Series, DiscoverExited(x)
      PROVE  Live' = Live /\ UNCHANGED life
  BY <1>2, <1>7, AdvanceType DEF DiscoverExited, InPhase
<1>8. ASSUME NEW x \in Series, NEW answer \in Answers(x),
             InPhase(x, "discover"), DiscoverCallback(x, answer)
      PROVE  Live' = Live /\ UNCHANGED life
  <2>1. Advance(x, "end") \/ GoUpdate(x, answer)
    BY <1>8 DEF DiscoverCallback, DiscoverForUser, DiscoverForRefresh
  <2> QED
    BY <1>2, <1>8, <2>1, AdvanceType, GoUpdateType DEF DiscoverCallback, InPhase
<1>9. ASSUME NEW x \in Series,
             \/ UpdateDouble(x) \/ UpdateUnwatched(x) \/ UpdateNoPolicy(x)
             \/ UpdateOutbounds(x)
      PROVE  Live' = Live /\ UNCHANGED life
  <2>1. x \in Live /\ UNCHANGED life /\ (Advance(x, "end") \/ Advance(x, "timer"))
    BY <1>9 DEF UpdateDouble, UpdateUnwatched, UpdateNoPolicy, UpdateOutbounds,
                AtPolicy, AtUpdate, InPhase
  <2> QED
    BY <1>2, <2>1, AdvanceType
<1>15. ASSUME NEW x \in Series,
              UpdateBegin(x) \/ UpdateInstances(x) \/ UpdateInbounds(x)
       PROVE  Live' = Live /\ UNCHANGED life
  <2>1. PICK ph \in Tables : /\ x \in Live
                             /\ UNCHANGED life
                             /\ series' = [series EXCEPT ![x].phase = ph]
    BY <1>15 DEF UpdateBegin, UpdateInstances, UpdateInbounds, AtPolicy,
                 AtUpdate, InPhase, Tables
  <2> QED
    BY <1>2, <2>1, PhaseType
<1>10. ASSUME NEW x \in Series, DiscoverTimerCallback(x) \/ DiscoverTimerLocked(x)
       PROVE  Live' = Live /\ UNCHANGED life
  <2>1. /\ x \in Live
        /\ UNCHANGED life
        /\ Advance(x, "end") \/ Advance(x, "rearm") \/ Advance(x, "discover")
    BY <1>10 DEF DiscoverTimerCallback, DiscoverTimerLocked, InPhase
  <2> QED
    BY <1>2, <2>1, AdvanceType
<1>11. ASSUME NEW u \in Users,
              WatchReturn(u) \/ SpuriousWakeup(u) \/ UnwatchFinish(u)
       PROVE  Live' = Live /\ UNCHANGED life
  BY <1>1, <1>11 DEF WatchReturn, SpuriousWakeup, UnwatchFinish
<1>12. ASSUME NEW u \in Users, NEW s \in Services,
              UnwatchNotFound(u, s) \/ UnwatchAtOnce(u, s) \/ UnwatchWait(u, s)
       PROVE  Live' = Live /\ UNCHANGED life
  BY <1>1, <1>12 DEF UnwatchNotFound, UnwatchAtOnce, UnwatchWait
<1>13. ASSUME NEW s \in Services, NEW k \in Kinds, ServerPublish(s, k)
       PROVE  Live' = Live /\ UNCHANGED life
  BY <1>1, <1>13 DEF ServerPublish
<1>14. CASE Terminated
  BY <1>1, <1>14 DEF Terminated
<1> QED
  BY <1>3, <1>4, <1>5, <1>6, <1>7, <1>8, <1>9, <1>10, <1>11, <1>12, <1>13,
     <1>14, <1>15, NextCases

LEMMA RefCountInit == Init => RefCount
<1> SUFFICES ASSUME Init PROVE RefCount
  OBVIOUS
<1>1. Live = {}
  BY DEF Init, Live
<1> QED
  BY <1>1, FS_EmptySet DEF Init, RefCount

LEMMA RefCountStep == Shape /\ RefCount /\ [Next]_vars => RefCount'
<1> SUFFICES ASSUME Shape, RefCount, [Next]_vars PROVE RefCount'
  OBVIOUS
<1>1. CASE UNCHANGED vars
  BY <1>1 DEF vars, life, RefCount, Live
<1>2. CASE Next
  <2>1. CASE /\ Live' = Live /\ ref' = ref
             /\ (handle' = "open" <=> handle = "open")
    BY <2>1 DEF RefCount
  <2>2. ASSUME NEW x \in Series \ Live, Live' = Live \cup {x},
               ref' = ref + 1, handle' = handle
        PROVE  RefCount'
    <3>1. Cardinality(Live') = Cardinality(Live) + 1
      BY <2>2, LiveFinite, FS_AddElement
    <3> QED
      BY <2>2, <3>1, LiveFinite DEF RefCount
  <2>3. ASSUME NEW x \in Live, Live' = Live \ {x}, ref' = ref - 1,
               handle' = handle
        PROVE  RefCount'
    <3>1. Cardinality(Live') = Cardinality(Live) - 1
      BY <2>3, LiveFinite, FS_RemoveElement
    <3> QED
      BY <2>3, <3>1, LiveFinite DEF RefCount
  <2>4. CASE Live' = Live /\ ref' = ref - 1 /\ handle = "open"
               /\ handle' # "open"
    BY <2>4, LiveFinite DEF RefCount
  <2> QED
    BY <1>2, <2>1, <2>2, <2>3, <2>4, LiveStep
<1> QED
  BY <1>1, <1>2

(* Every variable keeps to the shape of the C++ member it stands for; for  *)
(* the reference count, never negative, because it counts the series.      *)
THEOREM TypeCorrect == Spec => []TypeOK
<1>1. Init => Shape /\ WritersInv /\ RefCount
  BY ShapeInit, WritersInit, RefCountInit
<1>2. Shape /\ WritersInv /\ RefCount /\ [Next]_vars
        => (Shape /\ WritersInv /\ RefCount)'
  BY ShapeStep, WritersStep, RefCountStep
<1>3. Shape /\ RefCount => TypeOK
  BY LiveFinite DEF Shape, RefCount, TypeOK
<1> QED
  BY <1>1, <1>2, <1>3, PTL DEF Spec

(* The Manager is alive exactly as long as its handle or a series needs it *)
(* (incref of watch_service, decref at the end of its series, exit_locked).*)
THEOREM RefCountCorrect == Spec => []RefCount
<1>1. Init => Shape /\ WritersInv /\ RefCount
  BY ShapeInit, WritersInit, RefCountInit
<1>2. Shape /\ WritersInv /\ RefCount /\ [Next]_vars
        => (Shape /\ WritersInv /\ RefCount)'
  BY ShapeStep, WritersStep, RefCountStep
<1> QED
  BY <1>1, <1>2, PTL DEF Spec

-----------------------------------------------------------------------------
(* Who waits for what: a series that carries a user's WaitGroup is his     *)
(* only one, he is in the watch_service call for its service, and an       *)
(* answer that is about to be installed for him is there.                  *)
CallsInv ==
  /\ \A x \in Live : series[x].user # None =>
       /\ series[x].user \in Users
       /\ users[series[x].user].pc = "watch"
       /\ users[series[x].user].service = series[x].service
       /\ series[x].phase \in {"discover", "update"} \cup Tables
       /\ series[x].phase # "discover" => series[x].answer # None
  /\ \A x, y \in Live :
       series[x].user # None /\ series[x].user = series[y].user => x = y

LEMMA CallsInit == Init => CallsInv
BY DEF Init, CallsInv, Live

(* A user nobody's series carries may do what he likes, and a series that  *)
(* lets its user go keeps to the invariant.                                *)
LEMMA CallsKeep ==
  ASSUME CallsInv, Live' = Live, UNCHANGED series,
         \A v \in Users : users[v].pc = "watch" => users'[v] = users[v]
  PROVE  CallsInv'
BY DEF CallsInv

LEMMA CallsAdvance ==
  ASSUME Shape, CallsInv, NEW x \in Live, Live' = Live,
         series'[x].user = None,
         \A y \in Series \ {x} : series'[y] = series[y],
         \A v \in Users : users[v].pc = "watch" /\ v # series[x].user =>
                             users'[v] = users[v]
  PROVE  CallsInv'
<1>1. ASSUME NEW y \in Live, series'[y].user # None
      PROVE  /\ y # x /\ series'[y] = series[y]
             /\ series[y].user # series[x].user
             /\ users'[series[y].user] = users[series[y].user]
  BY <1>1, LiveType DEF CallsInv
<1> QED
  BY <1>1 DEF CallsInv

LEMMA CallsStep == Shape /\ CallsInv /\ [Next]_vars => CallsInv'
<1> SUFFICES ASSUME Shape, CallsInv, [Next]_vars PROVE CallsInv'
  OBVIOUS
<1> USE DEF vars, life, tables
<1>1. CASE UNCHANGED vars
  BY <1>1 DEF CallsInv, Live
<1>2. ASSUME UNCHANGED series
      PROVE  Live' = Live
  BY <1>2 DEF Live
<1>3. ASSUME NEW x \in Live, series' \in [Series -> SeriesWork \cup {None}],
             series'[x] \in SeriesWork,
             \A y \in Series \ {x} : series'[y] = series[y]
      PROVE  Live' = Live
  BY <1>3, LiveType, NoneAssumption DEF Live
<1>4. ASSUME NEW u \in Users, NEW s \in Services, NEW x \in Series,
             WatchService(u, s, x)
      PROVE  CallsInv'
  <2>1. \A y \in Live : series[y].user # u
    BY <1>4, NoneAssumption DEF CallsInv, WatchService, MayCall
  <2>2. /\ x \notin Live
        /\ series'[x] = [service |-> s, phase |-> "discover", user |-> u,
                         answer |-> None]
        /\ \A y \in Series \ {x} : series'[y] = series[y]
        /\ users'[u] = [pc |-> "watch", service |-> s, installed |-> FALSE]
        /\ \A v \in Users \ {u} : users'[v] = users[v]
    BY <1>4 DEF WatchService, Shape
  <2>3. Live' \subseteq Live \cup {x}
    BY <2>2 DEF Live
  <2>4. \A y \in Live : y # x /\ series'[y] = series[y]
    BY <2>2 DEF Live
  <2>5. \A y \in Live : series[y].user # None =>
          users'[series[y].user] = users[series[y].user]
    BY <2>1, <2>2 DEF CallsInv
  <2> QED
    BY <2>1, <2>2, <2>3, <2>4, <2>5 DEF CallsInv
<1>5. ASSUME NEW u \in Users,
             WatchReturn(u) \/ SpuriousWakeup(u) \/ UnwatchFinish(u)
      PROVE  CallsInv'
  <2>1. UNCHANGED series /\ \A v \in Users : users[v].pc = "watch" =>
                                               users'[v] = users[v]
    BY <1>5 DEF WatchReturn, SpuriousWakeup, UnwatchFinish, Shape
  <2> QED
    BY <1>2, <2>1, CallsKeep
<1>6. ASSUME NEW u \in Users, NEW s \in Services,
             UnwatchNotFound(u, s) \/ UnwatchAtOnce(u, s) \/ UnwatchWait(u, s)
      PROVE  CallsInv'
  <2>1. UNCHANGED series /\ \A v \in Users : users[v].pc = "watch" =>
                                               users'[v] = users[v]
    BY <1>6 DEF UnwatchNotFound, UnwatchAtOnce, UnwatchWait, MayUnwatch,
                MayCall, Shape
  <2> QED
    BY <1>2, <2>1, CallsKeep
<1>7. ASSUME NEW x \in Live, NEW b \in BOOLEAN, Release(x, b),
             Advance(x, "end") \/ Advance(x, "timer")
      PROVE  CallsInv'
  BY <1>3, <1>7, ReleaseType, AdvanceType, CallsAdvance
<1>8. ASSUME NEW x \in Live,
             \A v \in Users : users[v].pc = "watch" => users'[v] = users[v],
             Advance(x, "end") \/ Advance(x, "timer") \/ Advance(x, "rearm")
               \/ Advance(x, "discover")
      PROVE  CallsInv'
  BY <1>3, <1>8, AdvanceType, CallsAdvance
<1>9. ASSUME NEW x \in Series, DiscoverExited(x)
      PROVE  CallsInv'
  BY <1>8, <1>9 DEF DiscoverExited, InPhase
<1>10. ASSUME NEW x \in Series, NEW answer \in Answers(x),
              InPhase(x, "discover"), DiscoverCallback(x, answer)
       PROVE  CallsInv'
  <2>1. x \in Live /\ series[x] \in SeriesWork
    BY <1>10, LiveType DEF InPhase
  <2>2. CASE Release(x, FALSE) /\ Advance(x, "end")
    BY <1>7, <2>1, <2>2
  <2>3. CASE /\ GoUpdate(x, answer)
             /\ UNCHANGED users
             /\ series[x].user # None => answer # None
    <3>1. /\ Live' = Live
          /\ series'[x] = [series[x] EXCEPT !.phase = "update",
                                            !.answer = answer]
          /\ \A y \in Series \ {x} : series'[y] = series[y]
      BY <1>3, <2>1, <2>3, GoUpdateType
    <3>2. /\ series'[x].user = series[x].user
          /\ series'[x].service = series[x].service
          /\ series'[x].phase = "update"
          /\ series'[x].answer = answer
      BY <2>1, <3>1 DEF SeriesWork
    <3>3. \A y \in Live : /\ series'[y].user = series[y].user
                          /\ series'[y].service = series[y].service
      BY <3>1, <3>2, LiveType
    <3>4. \A y \in Live \ {x} : series'[y] = series[y]
      BY <3>1, LiveType
    <3>5. ASSUME NEW y \in Live, series'[y].user # None
          PROVE  /\ series'[y].user \in Users
                 /\ users'[series'[y].user].pc = "watch"
                 /\ users'[series'[y].user].service = series'[y].service
                 /\ series'[y].phase \in {"discover", "update"} \cup Tables
                 /\ series'[y].phase # "discover" => series'[y].answer # None
      <4>1. CASE y = x
        BY <2>3, <3>2, <3>5, <4>1 DEF CallsInv
      <4>2. CASE y # x
        BY <2>3, <3>4, <3>5, <4>2 DEF CallsInv
      <4> QED
        BY <4>1, <4>2
    <3> QED
      BY <3>1, <3>3, <3>5 DEF CallsInv
  <2> QED
    BY <1>10, <2>2, <2>3
    DEF DiscoverCallback, DiscoverForUser, DiscoverForRefresh, Fail
<1>11. ASSUME NEW x \in Series, UpdateDouble(x) \/ UpdateOutbounds(x)
       PROVE  CallsInv'
  BY <1>7, <1>11 DEF UpdateDouble, UpdateOutbounds, AtUpdate, InPhase
<1>17. ASSUME NEW x \in Series,
              UpdateBegin(x) \/ UpdateInstances(x) \/ UpdateInbounds(x)
       PROVE  CallsInv'
  <2>1. PICK ph \in Tables :
          /\ x \in Live
          /\ series[x].phase # "discover"
          /\ series' = [series EXCEPT ![x].phase = ph]
          /\ UNCHANGED users
    BY <1>17 DEF UpdateBegin, UpdateInstances, UpdateInbounds, AtPolicy,
                 AtUpdate, InPhase, Tables
  <2>2. /\ Live' = Live
        /\ series'[x].phase = ph
        /\ series'[x].service = series[x].service
        /\ series'[x].user = series[x].user
        /\ series'[x].answer = series[x].answer
        /\ \A y \in Series \ {x} : series'[y] = series[y]
    BY <1>3, <2>1, PhaseType
  <2>3. \A y \in Live : /\ series'[y].user = series[y].user
                        /\ series'[y].service = series[y].service
                        /\ series'[y].answer = series[y].answer
                        /\ \/ series'[y].phase = series[y].phase
                           \/ y = x
    BY <2>2, LiveType
  <2> QED
    BY <2>1, <2>2, <2>3 DEF CallsInv
<1>12. ASSUME NEW x \in Series, UpdateUnwatched(x) \/ UpdateNoPolicy(x)
       PROVE  CallsInv'
  <2>1. /\ x \in Live
        /\ Advance(x, "end")
        /\ \A v \in Users : users[v].pc = "watch" => users'[v] = users[v]
    BY <1>12
    DEF UpdateUnwatched, UpdateNoPolicy, AtPolicy, AtUpdate, InPhase, NotifyOne,
        Shape
  <2> QED
    BY <1>8, <2>1
<1>13. ASSUME NEW x \in Series,
              DiscoverTimerCallback(x) \/ DiscoverTimerLocked(x)
       PROVE  CallsInv'
  <2>1. /\ x \in Live
        /\ UNCHANGED users
        /\ Advance(x, "end") \/ Advance(x, "rearm") \/ Advance(x, "discover")
    BY <1>13 DEF DiscoverTimerCallback, DiscoverTimerLocked, InPhase
  <2> QED
    BY <1>8, <2>1
<1>14. ASSUME NEW x \in Series, EndSeries(x)
       PROVE  CallsInv'
  BY <1>14 DEF EndSeries, CallsInv, Live, Shape
<1>15. CASE ExitDecrement \/ ExitFinish \/ Terminated
  BY <1>15 DEF ExitDecrement, ExitFinish, Terminated, CallsInv, Live
<1>16. ASSUME NEW s \in Services, NEW k \in Kinds, ServerPublish(s, k)
       PROVE  CallsInv'
  BY <1>16 DEF ServerPublish, CallsInv, Live
<1> QED
  BY <1>1, <1>4, <1>5, <1>6, <1>9, <1>10, <1>11, <1>12, <1>13, <1>14, <1>15,
     <1>16, <1>17, NextCases

-----------------------------------------------------------------------------
(* What the three tables hold.                                             *)

(* Service by service, that the policy is there and that the entry knows   *)
(* what it shows; and writer by writer, how far the policy has come to     *)
(* what the entry will remember.                                           *)
Published(s) ==
  /\ name_service[s] # None <=> s \in Watching \/ BeingWritten(s)
  /\ name_service[s] = None \/ unwatch_policies[s] = None
  /\ s \in Watching =>
       /\ watch_status[s].revision \in Data
       /\ BeingWritten(s) \/ Shows(name_service[s], watch_status[s].revision)

Target(x) == Apply(x, RevisionOf(series[x].service))

(* The tables that a series in this phase has written.                     *)
Done(phase, table) == \/ phase = "inbounds" /\ table = "instances"
                      \/ phase = "outbounds" /\ table # "outbounds"

OnTheWay(x) ==
  \A p \in DOMAIN Brings[Target(x)] :
    \/ Done(series[x].phase, Table[p])
    \/ KindOf(Table[p]) \notin Changed(x)
    => name_service[series[x].service][p] = Brings[Target(x)][p]

Writer(x) ==
  LET s == series[x].service
  IN  Writing(x) => /\ s \in Watching <=> series[x].user = None
                    /\ s \in Watching => watch_status[s].watching
                    /\ Target(x) \in Data
                    /\ OnTheWay(x)

TablesInv == /\ \A s \in Services : Published(s)
             /\ \A x \in Series : Writer(x)

LEMMA TablesMeaning ==
  TablesInv => WatchedIffPublished /\ PolicyHeldOnce /\ RevisionCacheSound
BY DEF TablesInv, Published, WatchedIffPublished, PolicyHeldOnce,
       RevisionCacheSound, Watching

LEMMA TablesInit == Init => TablesInv
BY DEF Init, TablesInv, Published, Writer, Writing, BeingWritten, Watching, Live

(* A step that leaves the writer and its service alone.                    *)
LEMMA WriterRests ==
  ASSUME NEW x \in Series, Writer(x), SameWriters,
         watch_status'[series[x].service] = watch_status[series[x].service],
         name_service'[series[x].service] = name_service[series[x].service],
         series[x].service \in Services
  PROVE  Writer(x)'
<1> SUFFICES ASSUME Writing(x)' PROVE Writer(x)'
  BY DEF Writer
<1>1. series'[x] = series[x] /\ Writing(x)
  BY DEF SameWriters, Writing, Live
<1>2. /\ Changed(x)' = Changed(x)
      /\ Target(x)' = Target(x)
  BY <1>1 DEF Changed, Target, Apply, RevisionOf, Watching
<1>3. OnTheWay(x) => OnTheWay(x)'
  BY <1>1, <1>2 DEF OnTheWay, Done
<1> QED
  BY <1>1, <1>2, <1>3 DEF Writer, Watching

LEMMA SameBeingWritten ==
  ASSUME SameWriters, NEW s
  PROVE  BeingWritten(s)' <=> BeingWritten(s)
BY DEF SameWriters, BeingWritten, Writing, Live

LEMMA MutexNoWriter ==
  ASSUME MutexFree
  PROVE  /\ \A x \in Series : ~Writing(x)
         /\ \A s \in Services : ~BeingWritten(s)
         /\ SameWriters => \A x \in Series : ~Writing(x)'
BY DEF MutexFree, BeingWritten, SameWriters, Writing, Live

LEMMA RemoveWatchTables ==
  ASSUME Shape, TablesInv, MutexFree, UNCHANGED series, NEW s, RemoveWatch(s)
  PROVE  TablesInv'
<1>1. SameWriters
  BY DEF SameWriters
<1>2. \A t \in Services : ~BeingWritten(t) /\ ~BeingWritten(t)'
  BY <1>1, MutexNoWriter, SameBeingWritten
<1>3. ASSUME NEW t \in Services
      PROVE  Published(t)'
  <2>1. CASE t = s
    BY <1>2, <2>1 DEF Published, RemoveWatch, Shape, Watching
  <2>2. CASE t # s
    BY <1>2, <2>2, <1>3 DEF TablesInv, Published, RemoveWatch, Shape, Watching, Shows
  <2> QED
    BY <2>1, <2>2
<1>4. \A x \in Series : Writer(x)'
  BY <1>1, MutexNoWriter DEF Writer
<1> QED
  BY <1>3, <1>4 DEF TablesInv

LEMMA SetWatchingTables ==
  ASSUME Shape, TablesInv, MutexFree, SameWriters, NEW s \in Watching,
         NEW b \in BOOLEAN, SetWatching(s, b),
         UNCHANGED <<name_service, unwatch_policies>>
  PROVE  TablesInv'
<1>1. /\ s \in Services
      /\ watch_status'[s] # None
      /\ watch_status'[s].revision = watch_status[s].revision
      /\ \A t \in Services \ {s} : watch_status'[t] = watch_status[t]
  BY SetWatchingType, NoneAssumption DEF Watching
<1>2. \A t \in Services : ~BeingWritten(t) /\ ~BeingWritten(t)'
  BY MutexNoWriter, SameBeingWritten
<1>3. ASSUME NEW t \in Services
      PROVE  Published(t)'
  <2>1. t \in Watching' <=> t \in Watching
    BY <1>1 DEF Watching
  <2>2. t \in Watching => watch_status'[t].revision = watch_status[t].revision
    BY <1>1
  <2> QED
    BY <1>2, <2>1, <2>2 DEF TablesInv, Published, Shows
<1>4. \A x \in Series : Writer(x)'
  BY MutexNoWriter DEF Writer
<1> QED
  BY <1>3, <1>4 DEF TablesInv

LEMMA RestTables ==
  ASSUME Shape, TablesInv, SameWriters, UNCHANGED <<watch_status, name_service>>,
         \A s \in Services : unwatch_policies'[s] \in {None, unwatch_policies[s]}
  PROVE  TablesInv'
<1>1. ASSUME NEW t \in Services
      PROVE  Published(t)'
  BY <1>1, SameBeingWritten DEF TablesInv, Published, Watching, Shows
<1>2. ASSUME NEW x \in Series
      PROVE  Writer(x)'
  <2>1. CASE Writing(x)
    BY <1>2, <2>1, LiveType, WriterRests DEF TablesInv, Writing, SeriesWork
  <2>2. CASE ~Writing(x)
    BY <1>2, <2>2 DEF Writer, SameWriters, Writing, Live
  <2> QED
    BY <2>1, <2>2
<1> QED
  BY <1>1, <1>2 DEF TablesInv

(* What the entry will remember: the entry was there, or all of the answer *)
(* goes to the new one.                                                    *)
LEMMA TargetKinds ==
  ASSUME Shape, CallsInv, NEW x \in Live, series[x].phase # "discover",
         series[x].service \in Watching <=> series[x].user = None,
         series[x].service \in Watching =>
           watch_status[series[x].service].revision \in Data
  PROVE  /\ Target(x) \in Data
         /\ \A k \in Changed(x) : /\ series[x].answer \in Data
                                  /\ Target(x)[k] = series[x].answer[k]
         /\ \A k \in Kinds \ Changed(x) :
              /\ series[x].service \in Watching
              /\ Target(x)[k] = watch_status[series[x].service].revision[k]
<1> DEFINE s == series[x].service
           ans == series[x].answer
<1>1. s \in Services /\ ans \in Data \cup {None}
  BY LiveType DEF SeriesWork
<1>2. \A k \in Changed(x) : ans \in Data /\ ans[k] \in Revisions
  BY <1>1 DEF Changed, Data
<1>3. CASE s \in Watching
  <2>1. RevisionOf(s) = watch_status[s].revision /\ RevisionOf(s) \in Data
    BY <1>3 DEF RevisionOf
  <2> QED
    BY <1>2, <1>3, <2>1 DEF Target, Apply, Data, Changed
<1>4. CASE s \notin Watching
  <2>1. ans \in Data
    BY <1>1, <1>4 DEF CallsInv
  <2>2. \A k \in Kinds : ans[k] \in Revisions /\ ans[k] \in Nat
    BY <2>1, MaxRevAssumption DEF Data, Revisions
  <2>3. \A k \in Kinds : ans[k] # NoData[k]
    BY <2>2 DEF NoData, NoRev
  <2>4. Changed(x) = Kinds
    BY <1>4, <2>1, <2>3, NoneAssumption DEF Changed, RevisionOf
  <2> QED
    BY <2>1, <2>2, <2>4 DEF Target, Apply, Data
<1> QED
  BY <1>3, <1>4

(* The writing begins: what the answer does not change is shown already.   *)
LEMMA BeginTables ==
  ASSUME Shape, CallsInv, TablesInv, NEW x \in Series, UpdateBegin(x),
         NEW s, s = series[x].service
  PROVE  TablesInv'
<1>1. /\ x \in Live /\ s \in Services /\ series[x].phase = "update"
      /\ \A y \in Series : ~Writing(y)
      /\ \A t \in Services : ~BeingWritten(t)
      /\ Writing(x)'
      /\ UNCHANGED watch_status
  BY BeginEffect, MutexNoWriter DEF UpdateBegin
<1>2. \A y \in Series \ {x} : ~Writing(y)'
  BY <1>1, BeginEffect DEF Writing, Live
<1>3. \A t \in Services : BeingWritten(t)' <=> t = s
  BY <1>1, <1>2, BeginEffect DEF BeingWritten
<1>4. Published(s)
  BY <1>1 DEF TablesInv
<1>5. /\ s \in Watching <=> series[x].user = None
      /\ s \in Watching => watch_status[s].watching
  BY <1>1, <1>4 DEF UpdateBegin, AtPolicy, MayMakePolicy, Published
<1>6. /\ Target(x) \in Data
      /\ \A k \in Kinds \ Changed(x) :
           /\ s \in Watching
           /\ Target(x)[k] = watch_status[s].revision[k]
  BY <1>1, <1>4, <1>5, TargetKinds DEF Published
<1>7. /\ series'[x].service = s
      /\ series'[x].user = series[x].user
      /\ series'[x].answer = series[x].answer
      /\ series'[x].phase = "instances"
      /\ name_service'[s] = PolicyOf(s)
      /\ PolicyOf(s) \in Policies
      /\ unwatch_policies'[s] = None
  BY <1>4, BeginEffect DEF Published, UpdateBegin, TakeFromAside, Shape
<1>8. Changed(x)' = Changed(x) /\ Target(x)' = Target(x)
  BY <1>1, <1>7 DEF Changed, Target, Apply, RevisionOf, Watching
<1>9. OnTheWay(x)'
  <2> SUFFICES ASSUME NEW p \in DOMAIN Brings[Target(x)],
                      KindOf(Table[p]) \notin Changed(x)
               PROVE  name_service'[s][p] = Brings[Target(x)][p]
    BY <1>7, <1>8 DEF OnTheWay, Done
  <2>1. KindOf(Table[p]) \in Kinds
    BY DEF KindOf, Kinds
  <2>2. /\ s \in Watching
        /\ Target(x)[KindOf(Table[p])]
             = watch_status[s].revision[KindOf(Table[p])]
    BY <1>6, <2>1
  <2>3. p \in Parts
    BY <1>6 DEF Brings
  <2>4. /\ p \in DOMAIN Brings[watch_status[s].revision]
        /\ Brings[watch_status[s].revision][p] = Brings[Target(x)][p]
    BY <1>4, <1>6, <2>2, <2>3, BringsSame DEF Published
  <2>5. name_service[s][p] = Brings[watch_status[s].revision][p]
    BY <1>1, <1>4, <2>2, <2>4 DEF Published, Shows
  <2>6. PolicyOf(s) = name_service[s]
    BY <1>1, <1>4, <2>2 DEF PolicyOf, Published
  <2> QED
    BY <1>7, <2>4, <2>5, <2>6
<1>10. Writer(x)'
  BY <1>1, <1>5, <1>6, <1>7, <1>8, <1>9 DEF Writer, Watching
<1>11. \A y \in Series \ {x} : Writer(y)'
  BY <1>2 DEF Writer
<1>12. Published(s)'
  BY <1>1, <1>3, <1>4, <1>7, NoneAssumption DEF Published, Watching
<1>13. ASSUME NEW t \in Services \ {s}
       PROVE  Published(t)'
  <2>1. /\ name_service'[t] = name_service[t]
        /\ unwatch_policies'[t] = unwatch_policies[t]
    BY BeginEffect
  <2>2. Published(t) /\ ~BeingWritten(t) /\ ~BeingWritten(t)'
    BY <1>1, <1>3 DEF TablesInv
  <2> QED
    BY <1>1, <2>1, <2>2 DEF Published, Watching, Shows
<1> QED
  BY <1>10, <1>11, <1>12, <1>13 DEF TablesInv

(* A table is written: it comes to what the entry will remember, and the   *)
(* other tables stay.                                                      *)
LEMMA WriteProgress ==
  ASSUME Shape, CallsInv, WritersInv, TablesInv, NEW x \in Series,
         WriteStep(x),
         NEW p \in DOMAIN Brings[Target(x)],
         \/ Done(series[x].phase, Table[p])
         \/ Table[p] = series[x].phase
         \/ KindOf(Table[p]) \notin Changed(x)
  PROVE  name_service'[series[x].service][p] = Brings[Target(x)][p]
<1> DEFINE s == series[x].service
           t == series[x].phase
           held == name_service[s]
           ans == series[x].answer
<1>1. /\ x \in Live /\ s \in Services /\ t \in Tables
      /\ held \in Policies
      /\ name_service'[s] = Replacement(x, t, held)
      /\ Writing(x)
  BY WriteEffect
<1>2. Target(x) \in Data /\ OnTheWay(x) /\ p \in Parts
  BY <1>1 DEF TablesInv, Writer, Brings
<1>3. CASE Table[p] = t /\ KindOf(t) \in Changed(x)
  <2>1. ans \in Data /\ Target(x)[KindOf(t)] = ans[KindOf(t)]
    BY <1>1, <1>3, LiveType DEF SeriesWork, Changed, Target, Apply
  <2>2. p \in DOMAIN Brings[ans] /\ Brings[ans][p] = Brings[Target(x)][p]
    BY <1>2, <1>3, <2>1, BringsSame
  <2> QED
    BY <1>1, <1>3, <2>2, ReplacementPart
<1>4. CASE ~(Table[p] = t /\ KindOf(t) \in Changed(x))
  <2>1. name_service'[s][p] = held[p]
    BY <1>1, <1>2, <1>4, ReplacementPart
  <2>2. Done(t, Table[p]) \/ KindOf(Table[p]) \notin Changed(x)
    BY <1>4
  <2> QED
    BY <1>2, <2>1, <2>2 DEF OnTheWay
<1> QED
  BY <1>3, <1>4

LEMMA WriteTables ==
  ASSUME Shape, CallsInv, WritersInv, TablesInv, NEW x \in Series, WriteStep(x),
         NEW s, s = series[x].service
  PROVE  TablesInv'
<1>1. /\ x \in Live /\ s \in Services /\ Writing(x)
      /\ name_service'[s] # None
      /\ \A r \in Services \ {s} : name_service'[r] = name_service[r]
      /\ UNCHANGED unwatch_policies
      /\ series'[x].service = s
      /\ \A y \in Series \ {x} : series'[y] = series[y]
  BY WriteEffect
<1>2. \A y \in Series \ {x} : ~Writing(y) /\ ~Writing(y)'
  BY <1>1 DEF WritersInv, Writing, Live
<1>3. /\ BeingWritten(s)
      /\ \A r \in Services \ {s} : ~BeingWritten(r) /\ ~BeingWritten(r)'
      /\ BeingWritten(s)' <=> Writing(x)'
  BY <1>1, <1>2 DEF BeingWritten
<1>4. Published(s) /\ Writer(x) /\ name_service[s] # None
  BY <1>1 DEF TablesInv, WritersInv
<1>5. \A r \in Services \ {s} : watch_status'[r] = watch_status[r]
  BY <1>1
  DEF WriteStep, UpdateInstances, UpdateInbounds, UpdateOutbounds, Shape
<1>6. ASSUME NEW r \in Services \ {s}
      PROVE  Published(r)'
  BY <1>1, <1>3, <1>5 DEF TablesInv, Published, Watching, Shows
<1>7. \A y \in Series \ {x} : Writer(y)'
  BY <1>2 DEF Writer
<1>8. ASSUME NEW ph \in {"inbounds", "outbounds"},
             series[x].phase = IF ph = "inbounds" THEN "instances"
                                                  ELSE "inbounds",
             series' = [series EXCEPT ![x].phase = ph],
             UNCHANGED watch_status
      PROVE  Published(s)' /\ Writer(x)'
  <2>1. /\ series'[x].phase = ph
        /\ series'[x].user = series[x].user
        /\ series'[x].answer = series[x].answer
    BY <1>1, <1>8, PhaseType DEF Tables
  <2>2. Changed(x)' = Changed(x) /\ Target(x)' = Target(x)
    BY <1>1, <1>8, <2>1 DEF Changed, Target, Apply, RevisionOf, Watching
  <2>3. Writing(x)'
    BY <1>1, <2>1, WriteEffect DEF Writing, Tables
  <2>4. OnTheWay(x)'
    <3> SUFFICES ASSUME NEW p \in DOMAIN Brings[Target(x)],
                        \/ Done(ph, Table[p])
                        \/ KindOf(Table[p]) \notin Changed(x)
                 PROVE  name_service'[s][p] = Brings[Target(x)][p]
      BY <1>1, <2>1, <2>2 DEF OnTheWay
    <3>1. p \in Parts
      BY <1>1, <1>4 DEF Writer, Brings
    <3>2. Table[p] \in Tables
      BY <3>1, PartsAssumption
    <3>3. \/ Done(series[x].phase, Table[p])
          \/ Table[p] = series[x].phase
          \/ KindOf(Table[p]) \notin Changed(x)
      BY <1>8, <3>2 DEF Done, Tables
    <3> QED
      BY <3>3, WriteProgress
  <2>5. Writer(x)'
    BY <1>1, <1>4, <1>8, <2>1, <2>2, <2>4 DEF Writer, Watching
  <2>6. Published(s)'
    BY <1>1, <1>3, <1>4, <1>8, <2>3 DEF Published, Watching
  <2> QED
    BY <2>5, <2>6
<1>9. ASSUME UpdateOutbounds(x)
      PROVE  Published(s)' /\ Writer(x)'
  <2>1. series[x].phase = "outbounds" /\ series'[x].phase = "timer"
    <3>1. /\ series[x] \in SeriesWork
          /\ series[x].phase = "outbounds"
          /\ Advance(x, "timer")
      BY <1>1, <1>9, LiveType DEF UpdateOutbounds, InPhase
    <3> DEFINE w == [series[x] EXCEPT !.phase = "timer", !.user = None,
                                      !.answer = None]
    <3>2. series' = [series EXCEPT ![x] = w] /\ w.phase = "timer"
      BY <1>1, <3>1 DEF Advance, SeriesWork, Shape
    <3> QED
      BY <3>1, <3>2 DEF Shape
  <2>2. ~Writing(x)'
    BY <2>1 DEF Writing, Tables
  <2>3. watch_status'[s] = [watching |-> FALSE, revision |-> Target(x)]
    BY <1>1, <1>9 DEF UpdateOutbounds, Target, Shape
  <2>4. Target(x) \in Data /\ Target(x) \in Cached
    BY <1>1, <1>4 DEF Writer, Data, Cached
  <2>5. watch_status'[s] # None /\ watch_status'[s].revision = Target(x)
    <3>1. [watching |-> FALSE, revision |-> Target(x)] \in WatchInfo
      BY <2>4 DEF WatchInfo
    <3> DEFINE w == [watching |-> FALSE, revision |-> Target(x)]
    <3>2. w # None /\ w.revision = Target(x)
      BY <3>1, NoneAssumption
    <3> QED
      BY <2>3, <3>2
  <2>6. Shows(name_service'[s], Target(x))
    <3> SUFFICES ASSUME NEW p \in DOMAIN Brings[Target(x)]
                 PROVE  name_service'[s][p] = Brings[Target(x)][p]
      BY DEF Shows
    <3>1. Table[p] \in Tables
      BY <2>4, PartsAssumption DEF Brings
    <3>2. Done(series[x].phase, Table[p]) \/ Table[p] = series[x].phase
      BY <2>1, <3>1 DEF Done, Tables
    <3> QED
      BY <3>2, WriteProgress
  <2>7. Published(s)'
    <3>1. s \in Watching' /\ unwatch_policies'[s] = None
      BY <1>1, <1>4, <2>5 DEF Published, Watching
    <3>2. Shows(name_service[s], watch_status[s].revision)'
      BY <2>5, <2>6 DEF Shows
    <3> QED
      BY <1>1, <2>4, <2>5, <3>1, <3>2 DEF Published
  <2> QED
    BY <2>2, <2>7 DEF Writer
<1>10. Published(s)' /\ Writer(x)'
  <2>1. CASE UpdateInstances(x)
    BY <1>8, <2>1 DEF UpdateInstances, InPhase
  <2>2. CASE UpdateInbounds(x)
    BY <1>8, <2>2 DEF UpdateInbounds, InPhase
  <2> QED
    BY <1>9, <2>1, <2>2 DEF WriteStep
<1> QED
  BY <1>6, <1>7, <1>10 DEF TablesInv

LEMMA TablesStep ==
  Shape /\ CallsInv /\ WritersInv /\ TablesInv /\ [Next]_vars => TablesInv'
<1> SUFFICES ASSUME Shape, CallsInv, WritersInv, TablesInv, [Next]_vars
             PROVE  TablesInv'
  OBVIOUS
<1>1. CASE UNCHANGED tables /\ SameWriters
  BY <1>1, RestTables DEF tables
<1>2. CASE DecRef /\ UNCHANGED <<watch_status, name_service>> /\ SameWriters
  BY <1>2, RestTables DEF DecRef
<1> QED
  BY <1>1, <1>2, TablesCases, RemoveWatchTables, SetWatchingTables, BeginTables,
     WriteTables

(* The invariant that carries everything below.                            *)
IInv == Shape /\ WritersInv /\ CallsInv /\ TablesInv

LEMMA IInvInductive == Spec => []IInv
<1>1. Init => IInv
  BY ShapeInit, WritersInit, CallsInit, TablesInit DEF IInv
<1>2. IInv /\ [Next]_vars => IInv'
  BY ShapeStep, WritersStep, CallsStep, TablesStep DEF IInv
<1> QED
  BY <1>1, <1>2, PTL DEF Spec

(* A service is in the watching list exactly when the name service has a   *)
(* policy for it, whatever mix of old and new chains is under way.         *)
THEOREM PublishedCorrect == Spec => []WatchedIffPublished
<1>1. IInv => WatchedIffPublished
  BY TablesMeaning DEF IInv
<1> QED
  BY <1>1, IInvInductive, PTL

(* No policy is both in the name service and in unwatch_policies: emplace  *)
(* never drops one.                                                        *)
THEOREM PolicyOnceCorrect == Spec => []PolicyHeldOnce
<1>1. IInv => PolicyHeldOnce
  BY TablesMeaning DEF IInv
<1> QED
  BY <1>1, IInvInductive, PTL

(* The revisions that an entry remembers are those its policy holds: an    *)
(* answer skipped as unchanged is installed.                               *)
THEOREM RevisionCacheCorrect == Spec => []RevisionCacheSound
<1>1. IInv => RevisionCacheSound
  BY TablesMeaning DEF IInv
<1> QED
  BY <1>1, IInvInductive, PTL

-----------------------------------------------------------------------------
(* What a step may never do.                                               *)

(* A policy, once made, is kept, in the one map or in the other, until     *)
(* ~Manager.                                                               *)
THEOREM PolicyKeptCorrect == Spec => PolicyKept
<1> DEFINE Kept == \A s \in Services :
                     name_service[s] # None \/ unwatch_policies[s] # None =>
                       \/ name_service'[s] # None
                       \/ unwatch_policies'[s] # None
                       \/ ref' = 0
<1>1. ASSUME IInv, [Next]_vars
      PROVE  Kept
  <2>1. CASE UNCHANGED <<name_service, unwatch_policies>>
    BY <2>1
  <2>2. ASSUME NEW s, RemoveWatch(s)
        PROVE  Kept
    BY <1>1, <2>2 DEF RemoveWatch, IInv, Shape
  <2>3. ASSUME NEW x \in Series, UpdateBegin(x)
        PROVE  Kept
    BY <1>1, <2>3, BeginEffect, NoneAssumption DEF IInv
  <2>4. ASSUME NEW x \in Series, WriteStep(x)
        PROVE  Kept
    BY <1>1, <2>4, WriteEffect DEF IInv
  <2>5. CASE DecRef /\ UNCHANGED <<watch_status, name_service>>
    BY <2>5 DEF DecRef
  <2> QED
    BY <1>1, <2>1, <2>2, <2>3, <2>4, <2>5, TablesCases DEF tables, IInv
<1>2. IInv /\ [Next]_vars => [Kept]_vars
  BY <1>1
<1> QED
  BY <1>2, IInvInductive, PTL DEF Spec, PolicyKept

(* Only a user's request starts to watch a service.                        *)
THEOREM OnlyUserAddsCorrect == Spec => OnlyUserAdds
<1> DEFINE Asked == \A s \in Services :
                      watch_status[s] = None /\ watch_status'[s] # None =>
                        \E u \in Users : /\ users[u].pc = "watch"
                                         /\ users[u].service = s
                                         /\ users'[u].pc = "released"
<1>1. ASSUME IInv, [Next]_vars, NEW s \in Services,
             watch_status[s] = None, watch_status'[s] # None
      PROVE  \E u \in Users : /\ users[u].pc = "watch"
                              /\ users[u].service = s
                              /\ users'[u].pc = "released"
  <2>1. PICK x \in Series : UpdateOutbounds(x) /\ series[x].service = s
    <3>1. ~(UNCHANGED watch_status)
      BY <1>1
    <3>2. ASSUME NEW t, RemoveWatch(t)
          PROVE  FALSE
      BY <1>1, <3>2 DEF RemoveWatch, IInv, Shape
    <3>3. ASSUME NEW t \in Watching, NEW b \in BOOLEAN, SetWatching(t, b)
          PROVE  FALSE
      BY <1>1, <3>3, SetWatchingType DEF Watching, IInv
    <3>4. ASSUME NEW x \in Series, UpdateBegin(x)
          PROVE  UNCHANGED watch_status
      BY <3>4 DEF UpdateBegin
    <3>5. ASSUME NEW x \in Series, WriteStep(x)
          PROVE  UNCHANGED watch_status \/ UpdateOutbounds(x)
      BY <3>5 DEF WriteStep, UpdateInstances, UpdateInbounds
    <3>6. PICK x \in Series : UpdateOutbounds(x)
      BY <1>1, <3>1, <3>2, <3>3, <3>4, <3>5, TablesCases DEF tables, IInv
    <3>7. series[x].service = s
      BY <1>1, <3>6 DEF UpdateOutbounds, IInv, Shape
    <3> QED
      BY <3>6, <3>7
  <2>2. x \in Live /\ Writing(x)
    BY <1>1, <2>1, WriteEffect DEF IInv, WriteStep
  <2>3. series[x].user # None
    BY <1>1, <2>1, <2>2 DEF IInv, TablesInv, Writer, Watching
  <2>4. /\ series[x].user \in Users
        /\ users[series[x].user].pc = "watch"
        /\ users[series[x].user].service = s
    BY <1>1, <2>1, <2>2, <2>3 DEF IInv, CallsInv
  <2>5. users'[series[x].user].pc = "released"
    BY <1>1, <2>1, <2>2, <2>4, ReleaseType DEF UpdateOutbounds, IInv
  <2> QED
    BY <2>4, <2>5
<1>2. IInv /\ [Next]_vars => [Asked]_vars
  BY <1>1
<1> QED
  BY <1>2, IInvInductive, PTL DEF Spec, OnlyUserAdds

-----------------------------------------------------------------------------
(* What watch_service returns.                                             *)

(* A user is let go by the release of a series' task or not at all.        *)
LEMMA ReleasedBy ==
  ASSUME Shape, [Next]_vars
  PROVE  \/ \A u \in Users : users'[u].pc = "released" => users'[u] = users[u]
         \/ \E x \in Live : Release(x, TRUE)
         \/ \E x \in Live : Release(x, FALSE) /\ error' # "NONE"
<1> USE DEF vars, life, tables
<1>1. CASE UNCHANGED users
  BY <1>1
<1>2. ASSUME NEW u \in Users,
             \/ \E s \in Services : \/ UnwatchWait(u, s)
                                   \/ \E x \in Series : WatchService(u, s, x)
             \/ WatchReturn(u) \/ SpuriousWakeup(u) \/ UnwatchFinish(u)
      PROVE  \A v \in Users : users'[v].pc = "released" => users'[v] = users[v]
  <2>1. /\ \A v \in Users \ {u} : users'[v] = users[v]
        /\ users'[u].pc \in {"watch", "unwatch", "notified", "idle"}
    <3>1. CASE SpuriousWakeup(u)
      <4>1. users[u] \in User
        BY DEF Shape
      <4>2. [users[u] EXCEPT !.pc = "notified"].pc = "notified"
        BY <4>1 DEF User
      <4> QED
        BY <3>1, <4>2 DEF SpuriousWakeup, Shape
    <3>2. ASSUME NEW s \in Services, UnwatchWait(u, s)
          PROVE  users' = [users EXCEPT ![u] = [pc |-> "unwatch", service |-> s,
                                                installed |-> FALSE]]
      BY <3>2 DEF UnwatchWait
    <3>3. ASSUME NEW s \in Services, NEW x \in Series, WatchService(u, s, x)
          PROVE  users' = [users EXCEPT ![u] = [pc |-> "watch", service |-> s,
                                                installed |-> FALSE]]
      BY <3>3 DEF WatchService
    <3>4. CASE WatchReturn(u) \/ UnwatchFinish(u)
      BY <3>4 DEF WatchReturn, UnwatchFinish, Idle, Shape
    <3> QED
      BY <1>2, <3>1, <3>2, <3>3, <3>4 DEF Shape
  <2> QED
    BY <2>1
<1>3. ASSUME NEW x \in Series, UpdateUnwatched(x)
      PROVE  \A v \in Users : users'[v].pc = "released" => users'[v] = users[v]
  <2>1. series[x].service \in Services
    BY <1>3 DEF UpdateUnwatched, Watching
  <2> QED
    BY <1>3, <2>1, NotifyOneType DEF UpdateUnwatched, Shape, User
<1>4. ASSUME NEW x \in Series, NEW answer \in Answers(x),
             InPhase(x, "discover"), DiscoverCallback(x, answer)
      PROVE  \/ UNCHANGED users
             \/ x \in Live /\ Release(x, FALSE) /\ error' # "NONE"
  BY <1>4 DEF DiscoverCallback, DiscoverForUser, DiscoverForRefresh, InPhase
<1>5. ASSUME NEW x \in Series, UpdateDouble(x)
      PROVE  x \in Live /\ Release(x, FALSE) /\ error' # "NONE"
  BY <1>5 DEF UpdateDouble, AtUpdate, InPhase, Fail
<1>6. ASSUME NEW x \in Series, UpdateOutbounds(x)
      PROVE  x \in Live /\ Release(x, TRUE)
  BY <1>6 DEF UpdateOutbounds, InPhase
<1>7. ASSUME NEW x \in Series,
             \/ DiscoverExited(x) \/ UpdateNoPolicy(x) \/ UpdateBegin(x)
             \/ UpdateInstances(x) \/ UpdateInbounds(x)
             \/ DiscoverTimerCallback(x) \/ DiscoverTimerLocked(x)
             \/ EndSeries(x)
      PROVE  UNCHANGED users
  BY <1>7 DEF DiscoverExited, UpdateNoPolicy, UpdateBegin, UpdateInstances,
              UpdateInbounds, DiscoverTimerCallback, DiscoverTimerLocked,
              EndSeries
<1>8. ASSUME NEW u \in Users, NEW s \in Services,
             UnwatchNotFound(u, s) \/ UnwatchAtOnce(u, s)
      PROVE  UNCHANGED users
  BY <1>8 DEF UnwatchNotFound, UnwatchAtOnce
<1>9. CASE ExitDecrement \/ ExitFinish \/ Terminated
              \/ \E s \in Services, k \in Kinds : ServerPublish(s, k)
  BY <1>9 DEF ExitDecrement, ExitFinish, Terminated, ServerPublish
<1> QED
  BY <1>1, <1>2, <1>3, <1>4, <1>5, <1>6, <1>7, <1>8, <1>9, NextCases

(* Manager::error never becomes 0 again.                                   *)
LEMMA ErrorStays == [Next]_vars /\ error # "NONE" => error' # "NONE"
<1> SUFFICES ASSUME [Next]_vars, error # "NONE" PROVE error' # "NONE"
  OBVIOUS
<1> QED
  BY NextCases
  DEF vars, WatchService, WatchReturn, UnwatchNotFound, UnwatchAtOnce,
      UnwatchWait, SpuriousWakeup, UnwatchFinish, DiscoverExited,
      DiscoverCallback, DiscoverForUser, DiscoverForRefresh, UpdateDouble,
      UpdateUnwatched, UpdateNoPolicy, UpdateBegin, UpdateInstances,
      UpdateInbounds, UpdateOutbounds, DiscoverTimerCallback,
      DiscoverTimerLocked, EndSeries, ExitDecrement, ExitFinish, ServerPublish,
      Terminated, Fail

(* watch_service returns 0 only when its own answer was installed, though  *)
(* it reads the one error of all calls.                                    *)
THEOREM WatchOkCorrect == Spec => []WatchOkInstalled
<1>1. Init => WatchOkInstalled
  BY DEF Init, Idle, WatchOkInstalled
<1>2. ASSUME Shape, WatchOkInstalled, [Next]_vars
      PROVE  WatchOkInstalled'
  <2>1. CASE \A u \in Users : users'[u].pc = "released" => users'[u] = users[u]
    BY <1>2, <2>1, ErrorStays DEF WatchOkInstalled
  <2>2. ASSUME NEW x \in Live, Release(x, TRUE)
        PROVE  WatchOkInstalled'
    BY <1>2, <2>2, ErrorStays, ReleaseType DEF WatchOkInstalled
  <2>3. CASE error' # "NONE"
    BY <2>3 DEF WatchOkInstalled
  <2> QED
    BY <1>2, <2>1, <2>2, <2>3, ReleasedBy
<1>3. IInv => Shape
  BY DEF IInv
<1> QED
  BY <1>1, <1>2, <1>3, IInvInductive, PTL DEF Spec

-----------------------------------------------------------------------------
(* The chain that comes back to a watched service.                         *)
Serves(x, s) == /\ x \in Live
                /\ series[x].service = s
                /\ series[x].user = None
                /\ IF watch_status[s].watching
                   THEN series[x].phase \in {"discover", "update"} \cup Tables
                   ELSE series[x].phase \in {"timer", "rearm"}

(* The entry of s counts on a chain: also while someone unwatches s, when  *)
(* the timer of an old chain has set `watching' to true again.             *)
Awaits(s) == /\ s \in Watching
             /\ status # "MANAGER_EXITED"
             /\ watch_status[s].watching \/ Unwatching(s) = {}

Served(s) == Awaits(s) => \E x \in Series : Serves(x, s)

LEMMA ServedMeaning == (\A s \in Services : Served(s)) => WatchedIsRefreshed
BY DEF Served, Awaits, Serves, WatchedIsRefreshed, Watching

(* No one stops unwatching.                                                *)
StillUnwatching(s) == \A v \in Users : v \in Unwatching(s) => v \in Unwatching(s)'

LEMMA ReleaseUnwatching ==
  ASSUME Shape, CallsInv, NEW s, NEW x \in Live, NEW b \in BOOLEAN,
         Release(x, b)
  PROVE  StillUnwatching(s)
<1>1. ASSUME NEW v \in Users, v \in Unwatching(s)
      PROVE  users'[v] = users[v]
  <2>1. v # series[x].user
    BY <1>1, NoneAssumption DEF CallsInv, Unwatching
  <2> QED
    BY <2>1, ReleaseType
<1> QED
  BY <1>1 DEF StillUnwatching, Unwatching

(* A step leaves the entry and the policy of s as they are, and whoever    *)
(* unwatches s.                                                            *)
Rests(s) == /\ StillUnwatching(s)
            /\ watch_status'[s] = watch_status[s]
            /\ name_service'[s] = name_service[s]
            /\ status = "MANAGER_EXITED" => status' = "MANAGER_EXITED"

LEMMA RestsAwaits ==
  ASSUME NEW s, Rests(s), Awaits(s)'
  PROVE  Awaits(s)
BY DEF Rests, Awaits, Watching, StillUnwatching, Unwatching

(* Then a series that the step does not touch goes on to serve s.          *)
LEMMA RestsServes ==
  ASSUME NEW s, Rests(s), NEW y \in Series, series'[y] = series[y],
         Serves(y, s)
  PROVE  Serves(y, s)'
BY DEF Rests, Serves, Live

LEMMA RestsServed ==
  ASSUME NEW s, Served(s), Rests(s),
         \A y \in Series : Serves(y, s) => \/ series'[y] = series[y]
                                           \/ Serves(y, s)'
  PROVE  Served(s)'
BY RestsAwaits, RestsServes DEF Served

-----------------------------------------------------------------------------
(* A user's call or his return from it: an entry it changes is removed or  *)
(* is waited for, and a series it makes is that of a user.                 *)
LEMMA UserEntry ==
  ASSUME Shape, NEW s \in Services, NEW u \in Users, UserStep(u)
  PROVE  /\ ~Awaits(s)' \/ Rests(s)
         /\ \/ UNCHANGED series
            \/ \E x \in Series \ Live :
                 /\ series'[x].user \in Users
                 /\ \A y \in Series \ {x} : series'[y] = series[y]
<1> USE DEF vars, life, tables
<1>1. ASSUME NEW t \in Services, NEW x \in Series, WatchService(u, t, x)
      PROVE  /\ Rests(s) /\ x \notin Live /\ series'[x].user \in Users
             /\ \A y \in Series \ {x} : series'[y] = series[y]
  <2>1. StillUnwatching(s)
    BY <1>1 DEF WatchService, MayCall, StillUnwatching, Unwatching, Shape
  <2>2. /\ \A y \in Series \ {x} : series'[y] = series[y]
        /\ series'[x].user = u
    BY <1>1 DEF WatchService, Shape
  <2> QED
    BY <1>1, <2>1, <2>2 DEF WatchService, Rests
<1>2. ASSUME NEW t \in Services, UnwatchNotFound(u, t)
      PROVE  Rests(s) /\ UNCHANGED series
  BY <1>2 DEF UnwatchNotFound, Rests, StillUnwatching, Unwatching
<1>3. ASSUME NEW t \in Services, UnwatchAtOnce(u, t)
      PROVE  (~Awaits(s)' \/ Rests(s)) /\ UNCHANGED series
  <2>1. CASE s = t
    BY <1>3, <2>1
    DEF UnwatchAtOnce, RemoveWatch, Awaits, Watching, Shape
  <2>2. CASE s # t
    BY <1>3, <2>2
    DEF UnwatchAtOnce, RemoveWatch, Rests, StillUnwatching, Unwatching, Shape
  <2> QED
    BY <2>1, <2>2
<1>4. ASSUME NEW t \in Services, UnwatchWait(u, t)
      PROVE  (~Awaits(s)' \/ Rests(s)) /\ UNCHANGED series
  <2>1. /\ watch_status'[t].watching = FALSE
        /\ s # t => watch_status'[s] = watch_status[s]
    BY <1>4, SetWatchingType DEF UnwatchWait
  <2>2. CASE s = t
    <3>1. u \in Unwatching(s)'
      BY <1>4, <2>2 DEF UnwatchWait, Unwatching, Shape
    <3> QED
      BY <1>4, <2>1, <2>2, <3>1 DEF UnwatchWait, Awaits
  <2>3. CASE s # t
    <3>1. StillUnwatching(s)
      BY <1>4 DEF UnwatchWait, MayUnwatch, MayCall, StillUnwatching, Unwatching,
                  Shape
    <3> QED
      BY <1>4, <2>1, <2>3, <3>1 DEF UnwatchWait, Rests
  <2> QED
    BY <2>2, <2>3
<1>5. CASE WatchReturn(u)
  <2>1. StillUnwatching(s)
    BY <1>5 DEF WatchReturn, StillUnwatching, Unwatching, Shape
  <2> QED
    BY <1>5, <2>1 DEF WatchReturn, Rests
<1>6. CASE SpuriousWakeup(u)
  <2>1. /\ users[u] \in User
        /\ users'[u] = [users[u] EXCEPT !.pc = "notified"]
        /\ \A v \in Users \ {u} : users'[v] = users[v]
    BY <1>6 DEF SpuriousWakeup, Shape
  <2>2. users'[u].pc = "notified" /\ users'[u].service = users[u].service
    BY <2>1 DEF User
  <2>3. StillUnwatching(s)
    BY <2>1, <2>2 DEF StillUnwatching, Unwatching
  <2> QED
    BY <1>6, <2>3 DEF SpuriousWakeup, Rests
<1>7. CASE UnwatchFinish(u)
  <2>1. CASE s = users[u].service
    BY <1>7, <2>1
    DEF UnwatchFinish, RemoveWatch, Awaits, Watching, Shape
  <2>2. CASE s # users[u].service
    <3>1. StillUnwatching(s)
      BY <1>7, <2>2 DEF UnwatchFinish, StillUnwatching, Unwatching, Shape
    <3> QED
      BY <1>7, <2>2, <3>1 DEF UnwatchFinish, RemoveWatch, Rests, Shape
  <2> QED
    BY <2>1, <2>2
<1> QED
  BY <1>1, <1>2, <1>3, <1>4, <1>5, <1>6, <1>7 DEF UserStep

(* What Advance leaves in a series, field by field.                        *)
LEMMA AdvancePhase ==
  ASSUME Shape, NEW x \in Live, NEW ph \in {"end", "timer", "rearm", "discover"},
         Advance(x, ph)
  PROVE  /\ series'[x].phase = ph
         /\ series'[x].service = series[x].service
         /\ series'[x].user = None
         /\ series'[x].answer = None
         /\ x \in Live'
         /\ \A y \in Series \ {x} : series'[y] = series[y]
<1>1. x \in Series /\ series[x] \in SeriesWork
  BY LiveType
<1> DEFINE w == [series[x] EXCEPT !.phase = ph, !.user = None, !.answer = None]
<1>2. series' = [series EXCEPT ![x] = w]
  BY <1>1 DEF Advance, Shape
<1>3. /\ w.phase = ph /\ w.service = series[x].service
      /\ w.user = None /\ w.answer = None
  BY <1>1 DEF SeriesWork
<1> QED
  BY <1>1, <1>2, <1>3, AdvanceType, NoneAssumption DEF Live, Shape

(* A step of a chain: the chain that serves goes on to serve, and a chain  *)
(* that ends, or that rewrites an entry, leaves an entry that it serves.   *)
LEMMA ChainEntry ==
  ASSUME Shape, WritersInv, CallsInv, TablesInv, NEW s \in Services,
         NEW x \in Series, SeriesStep(x)
  PROVE  /\ \A y \in Series \ {x} : series'[y] = series[y]
         /\ \/ ~Awaits(s)'
            \/ Serves(x, s)'
            \/ Rests(s) /\ ~Serves(x, s)
<1> DEFINE Others == \A y \in Series \ {x} : series'[y] = series[y]
           Entry  == \/ ~Awaits(s)'
                     \/ Serves(x, s)'
                     \/ Rests(s) /\ ~Serves(x, s)
<1> USE DEF vars, life, tables
<1>1. UNCHANGED users => StillUnwatching(s)
  BY DEF StillUnwatching, Unwatching
<1>2. CASE DiscoverExited(x)
  BY <1>2, AdvancePhase DEF DiscoverExited, InPhase, Awaits
<1>3. ASSUME NEW answer \in Answers(x), InPhase(x, "discover"),
             DiscoverCallback(x, answer)
      PROVE  Others /\ Entry
  <2>1. x \in Live
    BY <1>3 DEF InPhase
  <2>2. CASE DiscoverForUser(x, answer)
    <3>1. ~Serves(x, s)
      BY <2>2 DEF DiscoverForUser, Serves
    <3>2. StillUnwatching(s)
      BY <1>1, <2>1, <2>2, ReleaseUnwatching DEF DiscoverForUser
    <3>3. Others
      BY <2>1, <2>2, AdvancePhase, GoUpdateType DEF DiscoverForUser
    <3> QED
      BY <1>3, <3>1, <3>2, <3>3 DEF DiscoverCallback, Rests
  <2>3. CASE DiscoverForRefresh(x, answer)
    <3>1. /\ series'[x] = [series[x] EXCEPT !.phase = "update",
                                            !.answer = answer]
          /\ series'[x] \in SeriesWork
          /\ Others
      BY <2>1, <2>3, GoUpdateType DEF DiscoverForRefresh
    <3>2. /\ series'[x].phase = "update"
          /\ series'[x].user = series[x].user
          /\ series'[x].service = series[x].service
          /\ x \in Live'
      BY <2>1, <3>1, LiveType, NoneAssumption DEF SeriesWork, Live
    <3>3. Serves(x, s) => Serves(x, s)'
      BY <1>3, <3>2 DEF Serves, InPhase, DiscoverCallback
    <3>4. Rests(s)
      BY <1>1, <1>3, <2>3 DEF DiscoverCallback, DiscoverForRefresh, Rests
    <3> QED
      BY <3>1, <3>3, <3>4
  <2> QED
    BY <1>3, <2>2, <2>3 DEF DiscoverCallback
<1>4. CASE UpdateDouble(x)
  <2>1. x \in Live /\ ~Serves(x, s)
    BY <1>4 DEF UpdateDouble, AtUpdate, InPhase, Serves
  <2>2. StillUnwatching(s)
    BY <1>4, <2>1, ReleaseUnwatching DEF UpdateDouble
  <2> QED
    BY <1>4, <2>1, <2>2, AdvancePhase DEF UpdateDouble, Rests
<1>5. CASE UpdateUnwatched(x)
  <2>1. x \in Live /\ series[x].service \in Services
    BY <1>5 DEF UpdateUnwatched, AtUpdate, InPhase, Watching
  <2>2. ~Serves(x, s)
    BY <1>5 DEF UpdateUnwatched, AtUpdate, InPhase, Serves
  <2>3. StillUnwatching(s)
    BY <1>5, <2>1, NotifyOneType DEF UpdateUnwatched, StillUnwatching, Unwatching
  <2> QED
    BY <1>5, <2>1, <2>2, <2>3, AdvancePhase DEF UpdateUnwatched, Rests
<1>6. CASE UpdateNoPolicy(x)
  <2>1. x \in Live
    BY <1>6 DEF UpdateNoPolicy, AtPolicy, AtUpdate, InPhase
  <2>2. CASE s = series[x].service
    <3>1. s \notin Watching'
      BY <1>6, <2>2 DEF UpdateNoPolicy, TablesInv, Published, Watching
    <3> QED
      BY <1>6, <2>1, <3>1, AdvancePhase DEF UpdateNoPolicy, Awaits
  <2>3. CASE s # series[x].service
    BY <1>1, <1>6, <2>1, <2>3, AdvancePhase DEF UpdateNoPolicy, Serves, Rests
  <2> QED
    BY <2>2, <2>3
<1>7. CASE UpdateOutbounds(x)
  <2>1. x \in Live
    BY <1>7 DEF UpdateOutbounds, InPhase
  <2>2. /\ series'[x].phase = "timer"
        /\ series'[x].service = series[x].service
        /\ series'[x].user = None
        /\ x \in Live'
        /\ Others
    BY <1>7, <2>1, AdvancePhase DEF UpdateOutbounds
  <2>3. CASE s = series[x].service
    <3>1. watch_status'[s].watching = FALSE
      BY <1>7, <2>3 DEF UpdateOutbounds, Shape
    <3> QED
      BY <2>2, <2>3, <3>1 DEF Serves
  <2>4. CASE s # series[x].service
    <3>1. StillUnwatching(s)
      BY <1>7, <2>1, ReleaseUnwatching DEF UpdateOutbounds
    <3>2. /\ watch_status'[s] = watch_status[s]
          /\ name_service'[s] = name_service[s]
      BY <1>7, <2>4, WriteEffect DEF UpdateOutbounds, WriteStep, Shape
    <3> QED
      BY <1>7, <2>2, <2>4, <3>1, <3>2 DEF UpdateOutbounds, Serves, Rests
  <2> QED
    BY <2>3, <2>4
<1>11. CASE UpdateBegin(x) \/ UpdateInstances(x) \/ UpdateInbounds(x)
  <2>1. /\ x \in Live
        /\ \A t \in Services \ {series[x].service} :
             name_service'[t] = name_service[t]
        /\ series[x].service \in Watching =>
             /\ series[x].user = None
             /\ watch_status[series[x].service].watching
    <3>1. CASE UpdateBegin(x)
      BY <3>1, BeginEffect DEF UpdateBegin, AtPolicy
    <3>2. CASE WriteStep(x)
      BY <3>2, WriteEffect DEF TablesInv, Writer
    <3> QED
      BY <1>11, <3>1, <3>2 DEF WriteStep
  <2>2. /\ \E ph \in Tables : series' = [series EXCEPT ![x].phase = ph]
        /\ UNCHANGED <<users, watch_status, status>>
    BY <1>11 DEF UpdateBegin, UpdateInstances, UpdateInbounds, Tables
  <2>3. /\ series'[x].phase \in Tables
        /\ series'[x].service = series[x].service
        /\ series'[x].user = series[x].user
        /\ x \in Live'
        /\ Others
    BY <2>1, <2>2, PhaseType, LiveType, NoneAssumption DEF Live
  <2>4. CASE s = series[x].service
    BY <2>1, <2>2, <2>3, <2>4 DEF Serves, Awaits, Watching
  <2>5. CASE s # series[x].service
    BY <1>1, <2>1, <2>2, <2>3, <2>5 DEF Serves, Rests
  <2> QED
    BY <2>3, <2>4, <2>5
<1>8. CASE DiscoverTimerCallback(x)
  <2>1. x \in Live
    BY <1>8 DEF DiscoverTimerCallback, InPhase
  <2>2. CASE status = "MANAGER_EXITED"
    BY <1>8, <2>1, <2>2, AdvancePhase DEF DiscoverTimerCallback, Awaits
  <2>3. CASE status # "MANAGER_EXITED"
    <3>1. /\ series'[x].phase = "rearm"
          /\ series'[x].service = series[x].service
          /\ series'[x].user = None
          /\ x \in Live'
          /\ Others
      BY <1>8, <2>1, <2>3, AdvancePhase DEF DiscoverTimerCallback
    <3>2. Serves(x, s) => Serves(x, s)'
      <4>1. UNCHANGED watch_status /\ series[x].phase = "timer"
        BY <1>8 DEF DiscoverTimerCallback, InPhase
      <4>2. Serves(x, s) => ~watch_status[s].watching
        BY <4>1 DEF Serves, Tables
      <4> QED
        BY <3>1, <4>1, <4>2 DEF Serves
    <3>3. Rests(s)
      BY <1>1, <1>8 DEF DiscoverTimerCallback, Rests
    <3> QED
      BY <3>1, <3>2, <3>3
  <2> QED
    BY <2>2, <2>3
<1>9. CASE DiscoverTimerLocked(x)
  <2>1. x \in Live
    BY <1>9 DEF DiscoverTimerLocked, InPhase
  <2>2. CASE series[x].service \in Watching
    <3>1. /\ series'[x].phase = "discover"
          /\ series'[x].service = series[x].service
          /\ series'[x].user = None
          /\ x \in Live'
          /\ Others
      BY <1>9, <2>1, <2>2, AdvancePhase DEF DiscoverTimerLocked
    <3>2. /\ watch_status'[series[x].service].watching = TRUE
          /\ \A t \in Services \ {series[x].service} :
               watch_status'[t] = watch_status[t]
      BY <1>9, <2>2, SetWatchingType DEF DiscoverTimerLocked
    <3>3. CASE s = series[x].service
      BY <3>1, <3>2, <3>3 DEF Serves
    <3>4. CASE s # series[x].service
      BY <1>1, <1>9, <3>1, <3>2, <3>4 DEF DiscoverTimerLocked, Serves, Rests
    <3> QED
      BY <3>3, <3>4
  <2>3. CASE series[x].service \notin Watching
    <3>1. Others
      BY <1>9, <2>1, <2>3, AdvancePhase DEF DiscoverTimerLocked
    <3>2. CASE s \in Watching
      BY <1>1, <1>9, <2>3, <3>1, <3>2 DEF DiscoverTimerLocked, Serves, Rests
    <3>3. CASE s \notin Watching
      BY <1>9, <2>3, <3>1, <3>3 DEF DiscoverTimerLocked, Awaits, Watching
    <3> QED
      BY <3>2, <3>3
  <2> QED
    BY <2>2, <2>3
<1>10. CASE EndSeries(x)
  <2>1. ~Serves(x, s)
    BY <1>10 DEF EndSeries, InPhase, Serves, Tables
  <2>2. Others
    BY <1>10 DEF EndSeries, Shape
  <2> QED
    BY <1>1, <1>10, <2>1, <2>2 DEF EndSeries, Rests
<1> QED
  BY <1>2, <1>3, <1>4, <1>5, <1>6, <1>7, <1>8, <1>9, <1>10, <1>11
  DEF SeriesStep, UpdatePolicyLocked

(* The other steps.                                                        *)
LEMMA OtherEntry ==
  ASSUME NEW s \in Services,
         \/ ExitDecrement \/ ExitFinish \/ Terminated \/ UNCHANGED vars
         \/ \E t \in Services, k \in Kinds : ServerPublish(t, k)
  PROVE  UNCHANGED series /\ (~Awaits(s)' \/ Rests(s))
<1> USE DEF vars, life, tables
<1>1. CASE ExitFinish
  BY <1>1 DEF ExitFinish, Awaits
<1>2. CASE \/ ExitDecrement \/ Terminated \/ UNCHANGED vars
           \/ \E t \in Services, k \in Kinds : ServerPublish(t, k)
  BY <1>2 DEF ExitDecrement, Terminated, ServerPublish, Rests,
              StillUnwatching, Unwatching
<1> QED
  BY <1>1, <1>2

(* A watched service that nobody is unwatching has a chain that will come  *)
(* back to it, however the chains of its old watches mix with that of the  *)
(* present one.                                                            *)
THEOREM RefreshCorrect == Spec => []WatchedIsRefreshed
<1> DEFINE AllServed == \A s \in Services : Served(s)
<1>1. Init => AllServed
  BY DEF Init, Served, Awaits, Watching
<1>2. ASSUME IInv, AllServed, [Next]_vars
      PROVE  AllServed'
  <2> SUFFICES ASSUME NEW s \in Services
               PROVE  Served(s)'
    OBVIOUS
  <2>1. ASSUME NEW u \in Users, UserStep(u)
        PROVE  Served(s)'
    <3>1. ~Awaits(s)' \/ Rests(s)
      BY <1>2, <2>1, UserEntry DEF IInv
    <3>2. \A y \in Series : Serves(y, s) => series'[y] = series[y]
      BY <1>2, <2>1, UserEntry DEF IInv, Serves
    <3> QED
      BY <1>2, <3>1, <3>2, RestsServed DEF Served
  <2>2. ASSUME NEW x \in Series, SeriesStep(x)
        PROVE  Served(s)'
    <3>1. /\ \A y \in Series \ {x} : series'[y] = series[y]
          /\ \/ ~Awaits(s)'
             \/ Serves(x, s)'
             \/ Rests(s) /\ ~Serves(x, s)
      BY <1>2, <2>2, ChainEntry DEF IInv
    <3>2. CASE Rests(s) /\ ~Serves(x, s)
      <4>1. \A y \in Series : Serves(y, s) => series'[y] = series[y]
        BY <3>1, <3>2
      <4> QED
        BY <1>2, <3>2, <4>1, RestsServed
    <3> QED
      BY <3>1, <3>2 DEF Served
  <2>3. CASE \/ ExitDecrement \/ ExitFinish \/ Terminated \/ UNCHANGED vars
             \/ \E t \in Services, k \in Kinds : ServerPublish(t, k)
    <3>1. UNCHANGED series /\ (~Awaits(s)' \/ Rests(s))
      BY <2>3, OtherEntry
    <3> QED
      BY <1>2, <3>1, RestsServed DEF Served
  <2> QED
    BY <1>2, <2>1, <2>2, <2>3 DEF Next
<1>3. AllServed => WatchedIsRefreshed
  BY ServedMeaning
<1> QED
  BY <1>1, <1>2, <1>3, IInvInductive, PTL DEF Spec
-----------------------------------------------------------------------------
(* An answer that comes late.                                              *)

(* What has been answered, or is held, of s is no news to the platform.    *)
UpTo(answer, s) == answer # None =>
                     \A k \in Kinds : answer[k] <= server[s][k]

HeldUpTo(held, s) == held # None =>
                       \A p \in Parts : held[p] <= server[s][KindOf(Table[p])]

KnownPolicies == \A s \in Services : /\ HeldUpTo(name_service[s], s)
                                     /\ HeldUpTo(unwatch_policies[s], s)

KnownAnswers == \A x \in Live : UpTo(series[x].answer, series[x].service)

LEMMA PartKind ==
  ASSUME NEW p \in Parts
  PROVE  KindOf(Table[p]) \in Kinds
BY DEF KindOf, Kinds

LEMMA ServerGrows ==
  ASSUME Shape, [Next]_vars, NEW s \in Services, NEW k \in Kinds
  PROVE  server[s][k] \in Nat /\ server'[s][k] \in Nat
           /\ server[s][k] <= server'[s][k]
<1>1. server[s] \in Data /\ server[s][k] \in Nat
  BY MaxRevAssumption DEF Shape, Data, Revisions
<1>2. CASE UNCHANGED server
  BY <1>1, <1>2
<1>3. ASSUME NEW t \in Services, NEW j \in Kinds, ServerPublish(t, j)
      PROVE  /\ server'[s][k] \in Nat
             /\ server[s][k] <= server'[s][k]
  BY <1>1, <1>3 DEF ServerPublish, Shape, Data
<1>4. UNCHANGED server \/ \E t \in Services, j \in Kinds : ServerPublish(t, j)
  BY NextCases
  DEF vars, WatchService, WatchReturn, UnwatchNotFound, UnwatchAtOnce,
      UnwatchWait, SpuriousWakeup, UnwatchFinish, DiscoverExited,
      DiscoverCallback, UpdateDouble, UpdateUnwatched, UpdateNoPolicy,
      UpdateBegin, UpdateInstances, UpdateInbounds, UpdateOutbounds,
      DiscoverTimerCallback, DiscoverTimerLocked, EndSeries, ExitDecrement,
      ExitFinish, Terminated
<1> QED
  BY <1>1, <1>2, <1>3, <1>4

LEMMA UpToStays ==
  ASSUME Shape, [Next]_vars, NEW s \in Services,
         NEW answer \in Data \cup {None}, UpTo(answer, s)
  PROVE  answer # None => \A k \in Kinds : answer[k] <= server'[s][k]
<1> SUFFICES ASSUME answer # None, NEW k \in Kinds
             PROVE  answer[k] <= server'[s][k]
  OBVIOUS
<1>1. answer[k] \in Int /\ answer[k] <= server[s][k]
  BY MaxRevAssumption DEF UpTo, Data, Revisions
<1> QED
  BY <1>1, ServerGrows

LEMMA HeldUpToStays ==
  ASSUME Shape, [Next]_vars, NEW s \in Services,
         NEW held \in Policies \cup {None}, HeldUpTo(held, s)
  PROVE  held # None => \A p \in Parts : held[p] <= server'[s][KindOf(Table[p])]
<1> SUFFICES ASSUME held # None, NEW p \in Parts
             PROVE  held[p] <= server'[s][KindOf(Table[p])]
  OBVIOUS
<1>1. held[p] \in Int /\ held[p] <= server[s][KindOf(Table[p])]
  BY MaxRevAssumption DEF HeldUpTo, Policies, Revisions, NoRev
<1> QED
  BY <1>1, PartKind, ServerGrows

(* A step of a chain leaves it without an answer, or with the one that its *)
(* discover task just brought, or goes on to write the one it had.         *)
LEMMA ChainAnswer ==
  ASSUME Shape, NEW x \in Series, SeriesStep(x)
  PROVE  \/ series'[x] = None
         \/ series'[x].answer = None
         \/ /\ x \in Live
            /\ series'[x].service = series[x].service
            /\ series'[x].answer = server[series[x].service]
            /\ UNCHANGED <<server, name_service>>
         \/ /\ x \in Live
            /\ UpdateBegin(x) \/ UpdateInstances(x) \/ UpdateInbounds(x)
            /\ series'[x].service = series[x].service
            /\ series'[x].user = series[x].user
            /\ series'[x].answer = series[x].answer
<1> USE DEF tables
<1>1. ASSUME NEW answer \in Answers(x), InPhase(x, "discover"),
             DiscoverCallback(x, answer)
      PROVE  \/ series'[x].answer = None
             \/ /\ x \in Live
                /\ series'[x].service = series[x].service
                /\ series'[x].answer = server[series[x].service]
                /\ UNCHANGED <<server, name_service>>
  <2>1. x \in Live /\ UNCHANGED <<server, name_service>>
    BY <1>1 DEF InPhase, DiscoverCallback
  <2>2. CASE Advance(x, "end")
    BY <2>1, <2>2, AdvancePhase
  <2>3. CASE GoUpdate(x, answer)
    <3>1. /\ series[x] \in SeriesWork
          /\ series'[x] = [series[x] EXCEPT !.phase = "update",
                                            !.answer = answer]
      BY <2>1, <2>3, LiveType, GoUpdateType
    <3>2. series'[x].answer = answer /\ series'[x].service = series[x].service
      BY <3>1 DEF SeriesWork
    <3> QED
      BY <2>1, <3>2 DEF Answers
  <2> QED
    BY <1>1, <2>2, <2>3 DEF DiscoverCallback, DiscoverForUser, DiscoverForRefresh
<1>2. CASE EndSeries(x)
  BY <1>2 DEF EndSeries, Shape
<1>3. CASE \/ DiscoverExited(x) \/ UpdateDouble(x) \/ UpdateUnwatched(x)
           \/ UpdateNoPolicy(x) \/ UpdateOutbounds(x)
           \/ DiscoverTimerCallback(x) \/ DiscoverTimerLocked(x)
  <2>1. x \in Live
    BY <1>3
    DEF DiscoverExited, UpdateDouble, UpdateUnwatched, UpdateNoPolicy,
        UpdateOutbounds, AtPolicy, AtUpdate, InPhase, DiscoverTimerCallback,
        DiscoverTimerLocked
  <2>2. \E ph \in {"end", "timer", "rearm", "discover"} : Advance(x, ph)
    BY <1>3
    DEF DiscoverExited, UpdateDouble, UpdateUnwatched, UpdateNoPolicy,
        UpdateOutbounds, DiscoverTimerCallback, DiscoverTimerLocked
  <2> QED
    BY <2>1, <2>2, AdvancePhase
<1>4. CASE UpdateBegin(x) \/ UpdateInstances(x) \/ UpdateInbounds(x)
  <2>1. /\ x \in Live
        /\ \E ph \in Tables : series' = [series EXCEPT ![x].phase = ph]
    BY <1>4 DEF UpdateBegin, UpdateInstances, UpdateInbounds, AtPolicy,
                AtUpdate, InPhase, Tables
  <2> QED
    BY <1>4, <2>1, PhaseType
<1> QED
  BY <1>1, <1>2, <1>3, <1>4 DEF SeriesStep, UpdatePolicyLocked

(* A user's call makes a series that has no answer yet.                    *)
LEMMA UserAnswer ==
  ASSUME Shape, NEW u \in Users, UserStep(u), NEW x \in Series
  PROVE  series'[x] = series[x] \/ series'[x].answer = None
<1>1. ASSUME NEW s \in Services, NEW y \in Series, WatchService(u, s, y)
      PROVE  series'[x] = series[x] \/ series'[x].answer = None
  BY <1>1 DEF WatchService, Shape
<1> QED
  BY <1>1
  DEF UserStep, UnwatchNotFound, UnwatchAtOnce, UnwatchWait, WatchReturn,
      SpuriousWakeup, UnwatchFinish

LEMMA KnownAnswersStep ==
  ASSUME IInv, KnownAnswers, [Next]_vars
  PROVE  KnownAnswers'
<1> SUFFICES ASSUME NEW x \in Series, series'[x] # None,
                    series'[x].answer # None, NEW k \in Kinds
             PROVE  series'[x].answer[k] <= server'[series'[x].service][k]
  BY DEF KnownAnswers, UpTo, Live
<1> USE DEF IInv
<1>1. CASE /\ x \in Live
           /\ series'[x].service = series[x].service
           /\ series'[x].answer = series[x].answer
  <2>1. /\ series[x].service \in Services
        /\ series[x].answer \in Data \cup {None}
    BY <1>1, LiveType DEF SeriesWork
  <2> QED
    BY <1>1, <2>1, UpToStays DEF KnownAnswers
<1>5. series'[x] = series[x] => x \in Live
  BY DEF Live
<1>2. ASSUME NEW y \in Series, SeriesStep(y)
      PROVE  series'[x].answer[k] <= server'[series'[x].service][k]
  <2>1. CASE x # y
    <3>1. y \in Live
      BY <1>2
      DEF SeriesStep, DiscoverExited, UpdatePolicyLocked, UpdateDouble,
          UpdateUnwatched, UpdateNoPolicy, UpdateBegin, UpdateInstances,
          UpdateInbounds, UpdateOutbounds, AtPolicy, AtUpdate, InPhase,
          DiscoverTimerCallback, DiscoverTimerLocked, EndSeries
    <3>2. series[y].service \in Services
      BY <3>1, LiveType DEF SeriesWork
    <3>3. series'[x] = series[x]
      BY <1>2, <2>1, <3>2, ChainEntry
    <3> QED
      BY <1>1, <1>5, <3>3
  <2>2. CASE x = y
    <3>1. CASE /\ x \in Live
               /\ series'[x].service = series[x].service
               /\ series'[x].answer = server[series[x].service]
      <4>1. series[x].service \in Services
        BY <3>1, LiveType DEF SeriesWork
      <4> QED
        BY <3>1, <4>1, ServerGrows
    <3> QED
      BY <1>1, <1>2, <2>2, <3>1, ChainAnswer
  <2> QED
    BY <2>1, <2>2
<1>3. ASSUME NEW u \in Users, UserStep(u)
      PROVE  series'[x] = series[x]
  BY <1>3, UserAnswer
<1>4. CASE \/ ExitDecrement \/ ExitFinish \/ Terminated \/ UNCHANGED vars
           \/ \E t \in Services, j \in Kinds : ServerPublish(t, j)
  BY <1>1, <1>4, <1>5
  DEF vars, ExitDecrement, ExitFinish, Terminated, ServerPublish
<1> QED
  BY <1>1, <1>2, <1>3, <1>4, <1>5 DEF Next

(* What is written is no newer than the answer, and what a writing begins  *)
(* with no newer than what was held.                                       *)
LEMMA KnownWrite ==
  ASSUME IInv, KnownPolicies, KnownAnswers, NEW x \in Series, WriteStep(x)
  PROVE  HeldUpTo(name_service'[series[x].service], series[x].service)
<1> DEFINE s == series[x].service
           ans == series[x].answer
<1> SUFFICES ASSUME NEW p \in Parts
             PROVE  name_service'[s][p] <= server[s][KindOf(Table[p])]
  BY DEF HeldUpTo
<1>1. /\ x \in Live /\ s \in Services
      /\ series[x].phase \in Tables
      /\ name_service[s] \in Policies
      /\ name_service[s] # None
      /\ name_service'[s] = Replacement(x, series[x].phase, name_service[s])
  BY WriteEffect, NoneAssumption DEF IInv
<1>2. CASE name_service'[s][p] = name_service[s][p]
  BY <1>1, <1>2 DEF KnownPolicies, HeldUpTo
<1>3. CASE /\ KindOf(series[x].phase) \in Changed(x)
           /\ p \in DOMAIN Brings[ans]
           /\ name_service'[s][p] = Brings[ans][p]
  <2>1. ans \in Data
    BY <1>1, <1>3, LiveType DEF IInv, SeriesWork, Changed
  <2>2. Brings[ans][p] = ans[KindOf(Table[p])]
    BY <1>3, <2>1, BringsPart
  <2>3. ans[KindOf(Table[p])] <= server[s][KindOf(Table[p])]
    BY <1>1, <2>1, NoneAssumption, PartKind DEF KnownAnswers, UpTo
  <2> QED
    BY <1>3, <2>2, <2>3
<1> QED
  BY <1>1, <1>2, <1>3, ReplacementPart DEF IInv

LEMMA KnownBegin ==
  ASSUME IInv, KnownPolicies, NEW x \in Series, UpdateBegin(x)
  PROVE  HeldUpTo(name_service'[series[x].service], series[x].service)
<1> DEFINE s == series[x].service
<1> SUFFICES ASSUME NEW p \in Parts
             PROVE  PolicyOf(s)[p] <= server[s][KindOf(Table[p])]
  BY BeginEffect DEF HeldUpTo, IInv
<1>1. s \in Services
  BY BeginEffect DEF IInv
<1>2. server[s][KindOf(Table[p])] \in Nat
  BY <1>1, PartKind, MaxRevAssumption DEF IInv, Shape, Data, Revisions
<1>3. EmptyPolicy[p] <= server[s][KindOf(Table[p])]
  BY <1>2 DEF EmptyPolicy, NoRev
<1> QED
  BY <1>1, <1>3 DEF PolicyOf, KnownPolicies, HeldUpTo

LEMMA KnownPoliciesStep ==
  ASSUME IInv, KnownPolicies, KnownAnswers, [Next]_vars
  PROVE  KnownPolicies'
<1> USE DEF IInv
<1>1. ASSUME NEW s \in Services, NEW held \in Policies \cup {None},
             HeldUpTo(held, s)
      PROVE  held # None =>
               \A p \in Parts : held[p] <= server'[s][KindOf(Table[p])]
  BY <1>1, HeldUpToStays
<1> SUFFICES ASSUME NEW s \in Services
             PROVE  /\ name_service'[s] \in {None, name_service[s],
                                             unwatch_policies[s]}
                         \/ HeldUpTo(name_service'[s], s)
                    /\ name_service'[s] \in Policies \cup {None}
                    /\ unwatch_policies'[s] \in {None, name_service[s],
                                                 unwatch_policies[s]}
                    /\ unwatch_policies'[s] \in Policies \cup {None}
  BY <1>1 DEF KnownPolicies, HeldUpTo
<1>2. Shape'
  BY ShapeStep
<1>3. ASSUME NEW t, RemoveWatch(t)
      PROVE  /\ name_service'[s] \in {None, name_service[s]}
             /\ unwatch_policies'[s] \in {name_service[s], unwatch_policies[s]}
  BY <1>3 DEF RemoveWatch, Shape
<1>4. ASSUME NEW x \in Series, UpdateBegin(x)
      PROVE  /\ name_service'[s] = name_service[s]
                  \/ HeldUpTo(name_service'[s], s)
             /\ unwatch_policies'[s] \in {None, unwatch_policies[s]}
  BY <1>4, BeginEffect, KnownBegin
<1>5. ASSUME NEW x \in Series, WriteStep(x)
      PROVE  /\ name_service'[s] = name_service[s]
                  \/ HeldUpTo(name_service'[s], s)
             /\ unwatch_policies'[s] \in {None, unwatch_policies[s]}
  BY <1>5, WriteEffect, KnownWrite
<1>6. ASSUME DecRef, UNCHANGED <<watch_status, name_service>>
      PROVE  /\ name_service'[s] = name_service[s]
             /\ unwatch_policies'[s] \in {None, unwatch_policies[s]}
  BY <1>6 DEF DecRef
<1>7. /\ name_service'[s] \in {None, name_service[s], unwatch_policies[s]}
            \/ HeldUpTo(name_service'[s], s)
      /\ unwatch_policies'[s] \in {None, name_service[s], unwatch_policies[s]}
  BY <1>3, <1>4, <1>5, <1>6, TablesCases DEF tables
<1> QED
  BY <1>2, <1>7 DEF Shape

-----------------------------------------------------------------------------
(* An answer of a periodic request that waits to be written, or is being   *)
(* written, and is older than what the policy shows.                       *)
Behind(x, s) == /\ x \in Live
                /\ series[x].phase \in {"update"} \cup Tables
                /\ series[x].service = s
                /\ series[x].user = None
                /\ series[x].answer # None
                /\ \E p \in DOMAIN Brings[series[x].answer] :
                     Brings[series[x].answer][p] < name_service[s][p]

(* Then it is not the chain that serves s alone: another one does, which   *)
(* made the policy newer while the answer was waiting.                     *)
Overtaken(x, s) ==
  Awaits(s) /\ Behind(x, s) => \E y \in Series \ {x} : Serves(y, s)

LEMMA RestsOvertaken ==
  ASSUME NEW s \in Services, NEW x \in Series, Overtaken(x, s), Rests(s),
         series'[x] = series[x],
         \A y \in Series : Serves(y, s) => series'[y] = series[y]
  PROVE  Overtaken(x, s)'
<1> SUFFICES ASSUME Awaits(s)', Behind(x, s)'
             PROVE  \E y \in Series \ {x} : Serves(y, s)'
  BY DEF Overtaken
<1>1. Behind(x, s)
  BY DEF Behind, Live, Rests
<1>2. Awaits(s)
  BY RestsAwaits
<1>3. PICK y \in Series \ {x} : Serves(y, s)
  BY <1>1, <1>2 DEF Overtaken
<1>4. series'[y] = series[y]
  BY <1>3
<1> QED
  BY <1>3, <1>4, RestsServes

(* A chain that a step has just moved is behind only if it was, and leaves *)
(* the entry and the other chains: what a request brings is what the       *)
(* platform has, and what is written is what the answer says.              *)
LEMMA MovedBehind ==
  ASSUME IInv, KnownPolicies, NEW s \in Services, NEW x \in Series,
         SeriesStep(x), Awaits(s)', Behind(x, s)'
  PROVE  Behind(x, s) /\ Awaits(s) /\ UNCHANGED watch_status
<1> DEFINE ans == series[x].answer
<1> USE DEF IInv
<1>1. /\ series'[x] # None
      /\ series'[x].answer # None
      /\ series'[x].service = s
      /\ series'[x].user = None
  BY DEF Behind, Live
<1>2. PICK p \in DOMAIN Brings[series'[x].answer] :
             Brings[series'[x].answer][p] < name_service'[s][p]
  BY DEF Behind
<1>3. CASE /\ x \in Live
           /\ series[x].service = s
           /\ series'[x].answer = server[s]
           /\ UNCHANGED <<server, name_service>>
  <2>1. server[s] \in Data
    BY DEF Shape
  <2>2. p \in Parts /\ Brings[server[s]][p] = server[s][KindOf(Table[p])]
    BY <1>2, <1>3, <2>1, BringsPart DEF Brings
  <2>3. server[s][KindOf(Table[p])] \in Nat
    BY <2>1, <2>2, PartKind, MaxRevAssumption DEF Data, Revisions
  <2>4. s \in Watching' /\ TablesInv'
    BY TablesStep DEF Awaits, Next
  <2>5. name_service[s] # None
    BY <1>3, <2>4 DEF TablesInv, Published
  <2>6. name_service[s][p] \in Int
    BY <2>2, <2>5, MaxRevAssumption DEF Shape, Policies, Revisions, NoRev
  <2>7. name_service[s][p] <= server[s][KindOf(Table[p])]
    BY <2>2, <2>5 DEF KnownPolicies, HeldUpTo
  <2> QED
    BY <1>2, <1>3, <2>2, <2>3, <2>6, <2>7
<1>4. CASE /\ x \in Live
           /\ UpdateBegin(x) \/ UpdateInstances(x) \/ UpdateInbounds(x)
           /\ series[x].service = s
           /\ series[x].user = None
           /\ ans # None
           /\ series'[x].answer = ans
  <2>1. UNCHANGED <<users, watch_status, status>> /\ Awaits(s)
    BY <1>4 DEF UpdateBegin, UpdateInstances, UpdateInbounds, life, Awaits,
                Watching, Unwatching
  <2>2. /\ s \in Watching /\ ans \in Data /\ p \in Parts
        /\ name_service[s] # None
    BY <1>2, <1>4, <2>1, LiveType
    DEF Awaits, TablesInv, Published, SeriesWork, Brings
  <2>3. Brings[ans][p] < name_service[s][p]
    <3>1. CASE UpdateBegin(x)
      BY <1>2, <1>4, <2>2, <3>1, BeginEffect DEF PolicyOf
    <3>2. CASE WriteStep(x)
      <4>1. Brings[ans][p] \in Int
        BY <1>2, <1>4, <2>2, BringsPart, MaxRevAssumption DEF Revisions
      <4>2. name_service'[s][p] # Brings[ans][p]
        BY <1>2, <1>4, <4>1
      <4>3. name_service'[s][p] = name_service[s][p]
        BY <1>4, <2>2, <3>2, <4>2, WriteEffect, ReplacementPart
      <4> QED
        BY <1>2, <1>4, <4>3
    <3> QED
      BY <1>4, <3>1, <3>2 DEF WriteStep
  <2>4. series[x].phase \in {"update"} \cup Tables
    BY <1>4 DEF UpdateBegin, UpdateInstances, UpdateInbounds, AtPolicy,
                AtUpdate, InPhase, Tables
  <2> QED
    BY <1>2, <1>4, <2>1, <2>3, <2>4 DEF Behind
<1> QED
  BY <1>1, <1>3, <1>4, ChainAnswer

LEMMA OvertakenStep ==
  ASSUME IInv, KnownPolicies, [Next]_vars, NEW s \in Services,
         NEW x \in Series, Overtaken(x, s)
  PROVE  Overtaken(x, s)'
<1>1. ASSUME NEW u \in Users, UserStep(u)
      PROVE  Overtaken(x, s)'
  <2>1. ~Awaits(s)' \/ Rests(s)
    BY <1>1, UserEntry DEF IInv
  <2>2. \A y \in Series : Serves(y, s) => series'[y] = series[y]
    BY <1>1, UserEntry DEF IInv, Serves
  <2>3. series'[x] = series[x] \/ ~Behind(x, s)'
    BY <1>1, UserAnswer DEF IInv, Behind
  <2> QED
    BY <2>1, <2>2, <2>3, RestsOvertaken DEF Overtaken
<1>2. ASSUME NEW z \in Series, SeriesStep(z)
      PROVE  Overtaken(x, s)'
  <2>1. /\ \A y \in Series \ {z} : series'[y] = series[y]
        /\ \/ ~Awaits(s)'
           \/ Serves(z, s)'
           \/ Rests(s) /\ ~Serves(z, s)
    BY <1>2, ChainEntry DEF IInv
  <2>2. CASE z = x
    <3> SUFFICES ASSUME Awaits(s)', Behind(x, s)'
                 PROVE  \E y \in Series \ {x} : Serves(y, s)'
      BY DEF Overtaken
    <3>1. Behind(x, s) /\ Awaits(s) /\ UNCHANGED watch_status
      BY <1>2, <2>2, MovedBehind
    <3>2. PICK y \in Series \ {x} : Serves(y, s)
      BY <3>1 DEF Overtaken
    <3>3. Serves(y, s)'
      BY <2>1, <2>2, <3>1, <3>2 DEF Serves, Live
    <3> QED
      BY <3>3
  <2>3. CASE z # x /\ Rests(s) /\ ~Serves(z, s)
    <3>1. /\ series'[x] = series[x]
          /\ \A y \in Series : Serves(y, s) => series'[y] = series[y]
      BY <2>1, <2>3
    <3> QED
      BY <2>3, <3>1, RestsOvertaken
  <2> QED
    BY <2>1, <2>2, <2>3 DEF Overtaken
<1>3. CASE \/ ExitDecrement \/ ExitFinish \/ Terminated \/ UNCHANGED vars
           \/ \E t \in Services, k \in Kinds : ServerPublish(t, k)
  <2>1. UNCHANGED series /\ (~Awaits(s)' \/ Rests(s))
    BY <1>3, OtherEntry
  <2> QED
    BY <2>1, RestsOvertaken DEF Overtaken
<1> QED
  BY <1>1, <1>2, <1>3 DEF Next

(* The status is written when the handle is given up.                      *)
OpenRuns == handle = "open" => status # "MANAGER_EXITED"

LEMMA OpenRunsStep == OpenRuns /\ [Next]_vars => OpenRuns'
<1> SUFFICES ASSUME OpenRuns, [Next]_vars PROVE OpenRuns'
  OBVIOUS
<1>1. CASE UNCHANGED <<handle, status>>
  BY <1>1 DEF OpenRuns
<1>2. CASE ExitDecrement \/ ExitFinish
  BY <1>2 DEF ExitDecrement, ExitFinish, OpenRuns
<1>3. UNCHANGED <<handle, status>> \/ ExitDecrement \/ ExitFinish
  BY NextCases
  DEF vars, life, WatchService, WatchReturn, UnwatchNotFound, UnwatchAtOnce,
      UnwatchWait, SpuriousWakeup, UnwatchFinish, DiscoverExited,
      DiscoverCallback, UpdateDouble, UpdateUnwatched, UpdateNoPolicy,
      UpdateBegin, UpdateInstances, UpdateInbounds, UpdateOutbounds,
      DiscoverTimerCallback, DiscoverTimerLocked, EndSeries, ServerPublish,
      Terminated
<1> QED
  BY <1>1, <1>2, <1>3

LEMMA TwoChains ==
  ASSUME NEW s, NEW x \in Live, NEW y \in Live, x # y,
         series[x].service = s, series[y].service = s
  PROVE  Leftover(s)
<1>1. IsFiniteSet(Chains(s)) /\ Cardinality(Chains(s)) \in Nat
  BY LiveFinite, FS_Subset, FS_CardinalityType DEF Chains
<1>2. {x, y} \subseteq Chains(s)
  BY DEF Chains
<1>3. Cardinality({x, y}) = 2
  <2>1. Cardinality({x}) = 1 /\ IsFiniteSet({x})
    BY FS_Singleton
  <2>2. {x} \cup {y} = {x, y} /\ y \notin {x}
    OBVIOUS
  <2>3. Cardinality({x} \cup {y}) = Cardinality({x}) + 1
    BY <2>1, <2>2, FS_AddElement
  <2> QED
    BY <2>1, <2>2, <2>3
<1>4. Cardinality({x, y}) <= Cardinality(Chains(s))
  BY <1>1, <1>2, FS_Subset
<1> QED
  BY <1>1, <1>3, <1>4 DEF Leftover

LateInv == /\ KnownPolicies
           /\ KnownAnswers
           /\ OpenRuns
           /\ \A s \in Services, x \in Series : Overtaken(x, s)

LEMMA LateInvInductive == Spec => [](IInv /\ LateInv)
<1>1. Init => LateInv
  BY DEF Init, LateInv, KnownPolicies, KnownAnswers, HeldUpTo, OpenRuns,
         Overtaken, Behind, Live
<1>2. IInv /\ LateInv /\ [Next]_vars => LateInv'
  <2> SUFFICES ASSUME IInv, LateInv, [Next]_vars PROVE LateInv'
    OBVIOUS
  <2>1. KnownPolicies' /\ KnownAnswers' /\ OpenRuns'
    BY KnownPoliciesStep, KnownAnswersStep, OpenRunsStep DEF LateInv
  <2>2. ASSUME NEW s \in Services, NEW x \in Series
        PROVE  Overtaken(x, s)'
    BY OvertakenStep DEF LateInv
  <2> QED
    BY <2>1, <2>2 DEF LateInv
<1> QED
  BY <1>1, <1>2, IInvInductive, PTL DEF Spec

(* A periodic answer that would take a part back finds another chain.      *)
LEMMA WriteMonotone ==
  ASSUME IInv, LateInv, NEW x \in Series, WriteStep(x), handle = "open",
         NEW s, s = series[x].service, s \in Watching, NEW p \in Parts
  PROVE  name_service'[s][p] >= name_service[s][p] \/ Leftover(s)
<1> DEFINE ans == series[x].answer
           t == series[x].phase
<1>1. /\ x \in Live /\ s \in Services /\ Writing(x)
      /\ t \in Tables
      /\ name_service[s] \in Policies
      /\ name_service'[s] = Replacement(x, t, name_service[s])
  BY WriteEffect DEF IInv
<1>2. name_service[s][p] \in Int
  BY <1>1, MaxRevAssumption DEF Policies, Revisions, NoRev
<1>3. CASE name_service'[s][p] = name_service[s][p]
  BY <1>2, <1>3
<1>4. CASE /\ KindOf(t) \in Changed(x)
           /\ p \in DOMAIN Brings[ans]
           /\ name_service'[s][p] = Brings[ans][p]
  <2>1. ans \in Data /\ ans # None
    BY <1>1, <1>4, LiveType DEF IInv, SeriesWork, Changed
  <2>2. Brings[ans][p] \in Int
    BY <1>4, <2>1, BringsPart, MaxRevAssumption DEF Revisions
  <2>3. CASE Brings[ans][p] < name_service[s][p]
    <3>1. series[x].user = None /\ watch_status[s].watching
      BY <1>1 DEF IInv, TablesInv, Writer
    <3>2. Behind(x, s) /\ Awaits(s)
      BY <1>1, <1>4, <2>1, <2>3, <3>1
      DEF Behind, Writing, Awaits, LateInv, OpenRuns
    <3>3. PICK y \in Series \ {x} : Serves(y, s)
      BY <1>1, <3>2 DEF LateInv, Overtaken
    <3> QED
      BY <1>1, <3>3, TwoChains DEF Serves
  <2> QED
    BY <1>2, <1>4, <2>2, <2>3
<1> QED
  BY <1>1, <1>3, <1>4, ReplacementPart DEF IInv

(* No part of a policy goes back to an older revision before the exit,     *)
(* once the entry of the watch is there, unless an earlier watch of the    *)
(* service has left a chain.                                               *)
THEOREM AppliedCorrect == Spec => AppliedMonotone
<1> DEFINE Forward ==
      \A s \in Watching, p \in Parts :
        handle = "open" /\ name_service[s] # None /\ name_service'[s] # None =>
          \/ name_service'[s][p] >= name_service[s][p]
          \/ Leftover(s)
<1>1. ASSUME IInv, LateInv, [Next]_vars
      PROVE  Forward
  <2> SUFFICES ASSUME NEW s \in Watching, NEW p \in Parts, handle = "open",
                      name_service[s] # None, name_service'[s] # None
               PROVE  name_service'[s][p] >= name_service[s][p] \/ Leftover(s)
    OBVIOUS
  <2>1. s \in Services /\ name_service[s][p] \in Int
    BY <1>1, MaxRevAssumption
    DEF IInv, Shape, Watching, Policies, Revisions, NoRev
  <2>2. ASSUME NEW x \in Series, WriteStep(x)
        PROVE  \/ name_service'[s] = name_service[s]
               \/ name_service'[s][p] >= name_service[s][p]
               \/ Leftover(s)
    <3>1. CASE s = series[x].service
      BY <1>1, <2>2, <3>1, WriteMonotone
    <3>2. CASE s # series[x].service
      BY <1>1, <2>1, <2>2, <3>2, WriteEffect DEF IInv
    <3> QED
      BY <3>1, <3>2
  <2>3. ASSUME NEW t, RemoveWatch(t)
        PROVE  name_service'[s] = name_service[s]
    BY <1>1, <2>1, <2>3 DEF RemoveWatch, IInv, Shape
  <2>4. ASSUME NEW x \in Series, UpdateBegin(x)
        PROVE  name_service'[s] = name_service[s]
    <3>1. CASE s = series[x].service
      BY <1>1, <2>4, <3>1, BeginEffect DEF IInv, PolicyOf
    <3>2. CASE s # series[x].service
      BY <1>1, <2>1, <2>4, <3>2, BeginEffect DEF IInv
    <3> QED
      BY <3>1, <3>2
  <2> QED
    BY <1>1, <2>1, <2>2, <2>3, <2>4, TablesCases DEF IInv, tables
<1>2. IInv /\ LateInv /\ [Next]_vars => [Forward]_vars
  BY <1>1
<1> QED
  BY <1>2, LateInvInductive, PTL DEF Spec, AppliedMonotone
=============================================================================

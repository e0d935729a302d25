----------------------- MODULE HeartbeatManagerProofs -----------------------
(***************************************************************************)
(* Theorems about HeartbeatManager, for any services, instances, users,     *)
(* registrations and series (finitely many) and any number of handler      *)
(* threads.                                                                *)
(***************************************************************************)
EXTENDS HeartbeatManager, FiniteSetTheorems, TLAPS

(* TypeOK without the reference count, which is a natural number only      *)
(* because it counts.                                                      *)
Shape == /\ ref \in Int
         /\ status \in {"INIT_SUCCESS", "INIT_FAILED", "MANAGER_EXITED"}
         /\ error \in Errors
         /\ register_status \in [Instances -> RegisterInfo \cup {None}]
         /\ series \in [Series -> SeriesWork \cup {None}]
         /\ users \in [Users -> User]
         /\ handle \in {"open", "exiting", "gone"}
         /\ platform \subseteq Services \X Instances

Phases == {"register", "heartbeat", "beat", "timer", "rearm", "end"}

-----------------------------------------------------------------------------
(* A step is a step of one of the actions.                                 *)
LEMMA NextCases ==
  ASSUME Next
  PROVE  \/ \E u \in Users, r \in Registrations, x \in Series :
              RegisterService(u, r, x)
         \/ \E u \in Users, i \in Instances : DeregisterNotFound(u, i)
         \/ \E u \in Users, s \in Services, i \in Instances :
              DeregisterService(u, s, i)
         \/ \E u \in Users : DeregisterAtOnce(u)
         \/ \E u \in Users : DeregisterWait(u)
         \/ \E u \in Users : DeregisterFinish(u)
         \/ \E u \in Users : CallReturn(u)
         \/ \E u \in Users : SpuriousWakeup(u)
         \/ \E x \in Series : SeriesStep(x)
         \/ ExitDecrement
         \/ ExitFinish
         \/ Terminated
<1>1. CASE \E u \in Users : UserCall(u)
  BY <1>1 DEF UserCall
<1>2. CASE \E u \in Users : UserStep(u)
  BY <1>2 DEF UserStep, DeregisterCallback
<1> QED
  BY <1>1, <1>2 DEF Next, Step

LEMMA SeriesCases ==
  ASSUME NEW x, SeriesStep(x)
  PROVE  \/ RegisterFailed(x)    \/ RegisterThenHeartbeat(x)
         \/ RegisterOnly(x)      \/ HeartbeatExited(x)
         \/ HeartbeatDisabled(x) \/ HeartbeatAnswered(x)
         \/ UpdateDouble(x)      \/ UpdateDeregistered(x)
         \/ UpdateBeat(x)        \/ HeartbeatTimerCallback(x)
         \/ HeartbeatTimerLocked(x)
         \/ EndSeries(x)
BY DEF SeriesStep, RegisterCallback, HeartbeatCallback, UpdateHeartbeatLocked

(* A live series is a SeriesWork, and not None.                            *)
LEMMA LiveType ==
  ASSUME Shape, NEW x \in Live
  PROVE  /\ x \in Series
         /\ series[x] \in SeriesWork
         /\ series[x].reg \in Registrations
         /\ series[x].reg.instance \in Instances
BY RegistrationsAssumption DEF Shape, Live, SeriesWork, Provisions

(* What Advance, Release, NotifyOne and SetHeartbeating make of the        *)
(* series, the users and the entries.                                      *)
LEMMA AdvanceType ==
  ASSUME Shape, NEW x \in Live, NEW ph \in Phases, Advance(x, ph)
  PROVE  /\ series' \in [Series -> SeriesWork \cup {None}]
         /\ series'[x] \in SeriesWork
         /\ series'[x].phase = ph
         /\ series'[x].user = None
         /\ series'[x].reg = series[x].reg
         /\ \A y \in Series \ {x} : series'[y] = series[y]
<1> DEFINE w == [series[x] EXCEPT !.phase = ph, !.user = None]
<1>1. x \in Series /\ series[x] \in SeriesWork
  BY LiveType
<1>2. series' = [series EXCEPT ![x] = w]
  BY <1>1 DEF Advance, Shape
<1>3. /\ w \in SeriesWork
      /\ w.phase = ph /\ w.user = None /\ w.reg = series[x].reg
  BY <1>1 DEF SeriesWork, Phases
<1> QED
  BY <1>1, <1>2, <1>3 DEF Shape

LEMMA AdvanceForUserType ==
  ASSUME Shape, NEW x \in Live, NEW ph \in Phases, AdvanceForUser(x, ph)
  PROVE  /\ series' \in [Series -> SeriesWork \cup {None}]
         /\ series'[x] \in SeriesWork
         /\ series'[x].phase = ph
         /\ series'[x].user = series[x].user
         /\ series'[x].reg = series[x].reg
         /\ \A y \in Series \ {x} : series'[y] = series[y]
<1> DEFINE w == [series[x] EXCEPT !.phase = ph]
<1>1. x \in Series /\ series[x] \in SeriesWork
  BY LiveType
<1>2. series' = [series EXCEPT ![x] = w]
  BY <1>1 DEF AdvanceForUser, Shape
<1>3. /\ w \in SeriesWork
      /\ w.phase = ph /\ w.user = series[x].user
      /\ w.reg = series[x].reg
  BY <1>1 DEF SeriesWork, Phases
<1> QED
  BY <1>1, <1>2, <1>3 DEF Shape

LEMMA ReleaseType ==
  ASSUME Shape, NEW x \in Live, NEW out \in BOOLEAN, Release(x, out)
  PROVE  /\ users' \in [Users -> User]
         /\ \A u \in Users : u # series[x].user => users'[u] = users[u]
         /\ \A u \in Users : u = series[x].user =>
              /\ users'[u].pc = "released"
              /\ users'[u].reg = users[u].reg
              /\ users'[u].succeeded = out
<1>1. \A u \in Users :
        LET v == [users[u] EXCEPT !.pc = "released", !.succeeded = out]
        IN  /\ v \in User /\ v.pc = "released"
            /\ v.reg = users[u].reg
            /\ v.succeeded = out
  BY DEF Shape, User
<1> QED
  BY <1>1 DEF Release, Shape

LEMMA NotifyOneType ==
  ASSUME Shape, NEW i, NotifyOne(i)
  PROVE  /\ users' \in [Users -> User]
         /\ \A u \in Users : users'[u].reg = users[u].reg
         /\ \A u \in Users : users'[u].succeeded = users[u].succeeded
         /\ \A u \in Users : users[u].pc # "blocked" => users'[u] = users[u]
         /\ \A u \in Users : users[u].pc = "blocked" =>
                               users'[u].pc \in {"blocked", "notified"}
<1>1. \A u \in Users :
        LET v == [users[u] EXCEPT !.pc = "notified"]
        IN  /\ v \in User /\ v.pc = "notified"
            /\ v.reg = users[u].reg
            /\ v.succeeded = users[u].succeeded
  BY DEF Shape, User
<1> QED
  BY <1>1 DEF NotifyOne, Shape

LEMMA SetHeartbeatingType ==
  ASSUME Shape, NEW i \in Instances, NEW b \in BOOLEAN, NEW c \in Registrations,
         SetHeartbeating(i, b, c)
  PROVE  /\ register_status' \in [Instances -> RegisterInfo \cup {None}]
         /\ register_status'[i] # None
         /\ register_status'[i].heartbeating = b
         /\ register_status'[i].reg = c
         /\ \A j \in Instances \ {i} : register_status'[j] = register_status[j]
<1> DEFINE w == [heartbeating |-> b, reg |-> c]
<1>1. w \in RegisterInfo
  BY DEF RegisterInfo
<1>2. register_status' = [register_status EXCEPT ![i] = w]
  BY DEF SetHeartbeating
<1> QED
  BY <1>1, <1>2, NoneAssumption DEF Shape

LEMMA OwnerType ==
  ASSUME Shape, NEW i \in Instances, NEW reg \in Registrations
  PROVE  Owner(i, reg) \in Registrations
BY DEF Shape, Owner, Registered, RegisterInfo

(* The user of a deregister_service.                                       *)
LEMMA LeavingType ==
  ASSUME NEW reg \in Provisions
  PROVE  [pc |-> "deregister", reg |-> reg, succeeded |-> FALSE] \in User
BY DEF User

LEMMA EntryType ==
  ASSUME Shape, NEW i \in Instances, register_status[i] # None
  PROVE  register_status[i].reg \in Registrations
BY DEF Shape, RegisterInfo

(* What a step of series x makes of the entry of its instance.             *)
LEMMA SeriesSetsType ==
  ASSUME Shape, NEW x \in Live, NEW b \in BOOLEAN,
         \/ SetHeartbeating(series[x].reg.instance, b, series[x].reg)
         \/ SetHeartbeating(series[x].reg.instance, b,
                            Owner(series[x].reg.instance, series[x].reg))
  PROVE  /\ register_status' \in [Instances -> RegisterInfo \cup {None}]
         /\ register_status'[series[x].reg.instance] # None
         /\ register_status'[series[x].reg.instance].heartbeating = b
         /\ \A j \in Instances \ {series[x].reg.instance} :
              register_status'[j] = register_status[j]
<1>1. /\ series[x].reg.instance \in Instances
      /\ series[x].reg \in Registrations
  BY LiveType
<1>2. Owner(series[x].reg.instance, series[x].reg) \in Registrations
  BY <1>1, OwnerType
<1> QED
  BY <1>1, <1>2, SetHeartbeatingType

(* What the platform may be told of.                                       *)
LEMMA IdentityType ==
  ASSUME NEW reg \in Registrations
  PROVE  Identity(reg) \in Services \X Instances
BY RegistrationsAssumption DEF Identity, Provisions

(* What a step of deregister_callback makes of its user.                   *)
LEMMA UserType ==
  ASSUME Shape, NEW u \in Users, NEW pc \in {"blocked", "notified", "released"},
         NEW out \in BOOLEAN
  PROVE  LET v == [users[u] EXCEPT !.pc = pc, !.succeeded = out]
         IN  /\ v \in User /\ v.pc = pc /\ v.succeeded = out
             /\ v.reg = users[u].reg
BY DEF Shape, User

-----------------------------------------------------------------------------
(* Type correctness.                                                       *)

LEMMA ShapeInit == Init => Shape
<1>1. Idle \in User
  BY DEF Idle, User
<1> QED
  BY <1>1 DEF Init, Shape, Errors

LEMMA ShapeSeries == ASSUME Shape, NEW x \in Series, SeriesStep(x)
                     PROVE  Shape'
<1> USE DEF life
<1> DEFINE known == Identity(series[x].reg)
<1>0. x \in Live => known \in Services \X Instances
  BY LiveType, IdentityType
<1> HIDE DEF known
<1>1. CASE RegisterFailed(x)
  <2>1. /\ x \in Live
        /\ platform' \in {platform, platform \cup {known}}
        /\ error' \in Errors
        /\ Release(x, FALSE)
        /\ Advance(x, "end")
        /\ UNCHANGED <<life, register_status>>
    BY <1>1 DEF RegisterFailed, InPhase, Fail, Errors, known
  <2>2. /\ users' \in [Users -> User]
        /\ series' \in [Series -> SeriesWork \cup {None}]
    BY <2>1, AdvanceType, ReleaseType DEF Phases
  <2> QED
    BY <1>0, <2>1, <2>2 DEF Shape
<1>2. CASE RegisterThenHeartbeat(x)
  <2>1. /\ x \in Live
        /\ platform' = platform \cup {known}
        /\ AdvanceForUser(x, "heartbeat")
        /\ UNCHANGED <<life, error, register_status, users>>
    BY <1>2 DEF RegisterThenHeartbeat, InPhase, known
  <2>2. series' \in [Series -> SeriesWork \cup {None}]
    BY <2>1, AdvanceForUserType DEF Phases
  <2> QED
    BY <1>0, <2>1, <2>2 DEF Shape
<1>3. CASE RegisterOnly(x)
  <2>1. /\ x \in Live
        /\ platform' = platform \cup {known}
        /\ SetHeartbeating(series[x].reg.instance, FALSE, series[x].reg)
        /\ Release(x, TRUE)
        /\ Advance(x, "end")
        /\ UNCHANGED <<life, error>>
    BY <1>3 DEF RegisterOnly, InPhase, known
  <2>2. /\ users' \in [Users -> User]
        /\ series' \in [Series -> SeriesWork \cup {None}]
        /\ register_status' \in [Instances -> RegisterInfo \cup {None}]
    BY <2>1, AdvanceType, ReleaseType, SeriesSetsType DEF Phases
  <2> QED
    BY <1>0, <2>1, <2>2 DEF Shape
<1>4. CASE HeartbeatExited(x)
  BY <1>4, AdvanceType DEF HeartbeatExited, InPhase, Shape, Phases
<1>5. CASE HeartbeatDisabled(x)
  BY <1>5, AdvanceType, ReleaseType
  DEF HeartbeatDisabled, InPhase, Fail, Errors, Shape, Phases
<1>6. CASE HeartbeatAnswered(x)
  BY <1>6, AdvanceForUserType DEF HeartbeatAnswered, InPhase, Shape, Phases
<1>7. CASE UpdateDouble(x)
  BY <1>7, AdvanceType, ReleaseType
  DEF UpdateDouble, AtUpdate, InPhase, Fail, Errors, Shape, Phases
<1>8. CASE UpdateDeregistered(x)
  BY <1>8, AdvanceType, NotifyOneType
  DEF UpdateDeregistered, AtUpdate, InPhase, Shape, Phases
<1>9. CASE UpdateBeat(x)
  <2>1. x \in Live
    BY <1>9 DEF UpdateBeat, AtUpdate, InPhase
  <2>2. register_status' \in [Instances -> RegisterInfo \cup {None}]
    BY <1>9, <2>1, SeriesSetsType DEF UpdateBeat
  <2>3. /\ users' \in [Users -> User]
        /\ series' \in [Series -> SeriesWork \cup {None}]
    BY <1>9, <2>1, AdvanceType, ReleaseType DEF UpdateBeat, Phases
  <2> QED
    BY <1>9, <2>2, <2>3 DEF UpdateBeat, Shape
<1>10. CASE HeartbeatTimerCallback(x)
  BY <1>10, AdvanceType DEF HeartbeatTimerCallback, InPhase, Shape, Phases
<1>11. CASE HeartbeatTimerLocked(x)
  BY <1>11, AdvanceType, SeriesSetsType
  DEF HeartbeatTimerLocked, InPhase, Shape, Phases
<1>12. CASE EndSeries(x)
  BY <1>12 DEF EndSeries, Shape
<1> QED
  BY <1>1, <1>2, <1>3, <1>4, <1>5, <1>6, <1>7, <1>8, <1>9, <1>10, <1>11,
     <1>12, SeriesCases

LEMMA ShapeStep == Shape /\ [Next]_vars => Shape'
<1> SUFFICES ASSUME Shape, [Next]_vars PROVE Shape'
  OBVIOUS
<1> USE DEF vars, life
<1>1. CASE UNCHANGED vars
  BY <1>1 DEF Shape
<1>2. ASSUME NEW u \in Users, NEW r \in Registrations, NEW x \in Series,
             RegisterService(u, r, x)
      PROVE  Shape'
  <2>1. r \in Provisions
    BY RegistrationsAssumption
  <2>2. [reg |-> r, phase |-> "register", user |-> u]
          \in SeriesWork
    BY <2>1 DEF SeriesWork
  <2>3. [pc |-> "register", reg |-> r, succeeded |-> FALSE] \in User
    BY <2>1 DEF User
  <2> QED
    BY <1>2, <2>2, <2>3 DEF RegisterService, Shape
<1>3. ASSUME NEW u \in Users, NEW i \in Instances, DeregisterNotFound(u, i)
      PROVE  Shape'
  BY <1>3 DEF DeregisterNotFound, Fail, Errors, Shape
<1>4. ASSUME NEW u \in Users, NEW s \in Services, NEW i \in Instances,
             DeregisterService(u, s, i)
      PROVE  Shape'
  <2>1. [service |-> s, instance |-> i, interval |-> 0] \in Provisions
    BY DEF Provisions
  <2> QED
    BY <1>4, <2>1, LeavingType DEF DeregisterService, Shape
<1>5. ASSUME NEW u \in Users, DeregisterAtOnce(u)
      PROVE  Shape'
  <2>1. users' \in [Users -> User]
    BY <1>5, UserType DEF DeregisterAtOnce, ReleaseDeregister, Shape
  <2>2. register_status' \in [Instances -> RegisterInfo \cup {None}]
    BY <1>5 DEF DeregisterAtOnce, Shape
  <2> QED
    BY <1>5, <2>1, <2>2 DEF DeregisterAtOnce, PlatformDeregisters, Shape
<1>6. ASSUME NEW u \in Users, DeregisterWait(u)
      PROVE  Shape'
  <2>1. /\ users[u].reg.instance \in Instances
        /\ register_status[users[u].reg.instance].reg \in Registrations
    BY <1>6, EntryType DEF DeregisterWait, Registered
  <2>2. [users[u] EXCEPT !.pc = "blocked"] \in User
    BY DEF Shape, User
  <2> QED
    BY <1>6, <2>1, <2>2, SetHeartbeatingType
    DEF DeregisterWait, PlatformDeregisters, Shape
<1>7. ASSUME NEW u \in Users, DeregisterFinish(u)
      PROVE  Shape'
  BY <1>7, UserType DEF DeregisterFinish, ReleaseDeregister, Shape
<1>8. ASSUME NEW u \in Users, CallReturn(u)
      PROVE  Shape'
  <2>1. Idle \in User
    BY DEF Idle, User
  <2> QED
    BY <1>8, <2>1 DEF CallReturn, Shape
<1>9. ASSUME NEW u \in Users, SpuriousWakeup(u)
      PROVE  Shape'
  <2>1. [users[u] EXCEPT !.pc = "notified"] \in User
    BY DEF Shape, User
  <2> QED
    BY <1>9, <2>1 DEF SpuriousWakeup, Shape
<1>10. CASE ExitDecrement
  BY <1>10 DEF ExitDecrement, Shape
<1>11. CASE ExitFinish
  BY <1>11 DEF ExitFinish, Shape
<1>12. CASE Terminated
  BY <1>12 DEF Terminated, Shape
<1> QED
  BY <1>1, <1>2, <1>3, <1>4, <1>5, <1>6, <1>7, <1>8, <1>9, <1>10, <1>11,
     <1>12, ShapeSeries, NextCases

-----------------------------------------------------------------------------
(* The reference count is the number of live series, and one for the       *)
(* handle until exit_locked has given it back.                             *)
Counted == ref = Cardinality(Live) + IF handle = "open" THEN 1 ELSE 0

LEMMA LiveFinite == IsFiniteSet(Live) /\ Cardinality(Live) \in Nat
BY SeriesAssumption, FS_Subset, FS_CardinalityType DEF Live

LEMMA LiveSeries ==
  ASSUME Shape, NEW x \in Series, SeriesStep(x)
  PROVE  \/ Live' = Live /\ UNCHANGED <<ref, handle>>
         \/ x \in Live /\ Live' = Live \ {x} /\ ref' = ref - 1
              /\ UNCHANGED handle
<1> USE DEF life
<1>1. ASSUME NEW ph \in Phases, x \in Live, Advance(x, ph)
      PROVE  Live' = Live
  BY <1>1, AdvanceType, NoneAssumption DEF Live
<1>2. CASE RegisterThenHeartbeat(x)
  BY <1>2, AdvanceForUserType, NoneAssumption
  DEF RegisterThenHeartbeat, InPhase, Phases, Live
<1>3. CASE HeartbeatAnswered(x)
  BY <1>3, AdvanceForUserType, NoneAssumption
  DEF HeartbeatAnswered, InPhase, Phases, Live
<1>4. CASE RegisterFailed(x) \/ RegisterOnly(x) \/ HeartbeatExited(x)
             \/ HeartbeatDisabled(x)
  BY <1>1, <1>4 DEF RegisterFailed, RegisterOnly, HeartbeatExited,
                    HeartbeatDisabled, InPhase, Phases
<1>5. CASE UpdateDouble(x) \/ UpdateDeregistered(x) \/ UpdateBeat(x)
  BY <1>1, <1>5 DEF UpdateDouble, UpdateDeregistered, UpdateBeat, AtUpdate,
                    InPhase, Phases
<1>6. CASE HeartbeatTimerCallback(x) \/ HeartbeatTimerLocked(x)
  BY <1>1, <1>6 DEF HeartbeatTimerCallback, HeartbeatTimerLocked, InPhase,
                    Phases
<1>7. CASE EndSeries(x)
  BY <1>7 DEF EndSeries, InPhase, Live, Shape
<1> QED
  BY <1>2, <1>3, <1>4, <1>5, <1>6, <1>7, SeriesCases

LEMMA LiveNew ==
  ASSUME Shape, NEW u \in Users, NEW r \in Registrations, NEW x \in Series,
         RegisterService(u, r, x)
  PROVE  x \notin Live /\ Live' = Live \cup {x}
<1>1. [reg |-> r, phase |-> "register", user |-> u]
        \in SeriesWork
  BY RegistrationsAssumption DEF SeriesWork
<1> QED
  BY <1>1, NoneAssumption DEF RegisterService, Shape, Live

LEMMA CountedStep == Shape /\ Counted /\ [Next]_vars => Counted'
<1> SUFFICES ASSUME Shape, Counted, [Next]_vars PROVE Counted'
  OBVIOUS
<1> USE DEF life
<1>1. CASE UNCHANGED <<ref, handle, series>>
  BY <1>1 DEF Counted, Live
<1>2. ASSUME NEW u \in Users, NEW r \in Registrations, NEW x \in Series,
             RegisterService(u, r, x)
      PROVE  Counted'
  <2>1. x \notin Live /\ Live' = Live \cup {x}
    BY <1>2, LiveNew
  <2>2. Cardinality(Live') = Cardinality(Live) + 1
    BY <2>1, LiveFinite, FS_AddElement
  <2>3. ref' = ref + 1 /\ handle' = handle
    BY <1>2 DEF RegisterService
  <2> QED
    BY <2>2, <2>3, LiveFinite DEF Counted
<1>3. ASSUME NEW x \in Series, SeriesStep(x)
      PROVE  Counted'
  <2>1. CASE Live' = Live /\ UNCHANGED <<ref, handle>>
    BY <2>1 DEF Counted
  <2>2. CASE x \in Live /\ Live' = Live \ {x} /\ ref' = ref - 1
               /\ UNCHANGED handle
    <3>1. Cardinality(Live \ {x}) = Cardinality(Live) - 1
      BY <2>2, LiveFinite, FS_RemoveElement
    <3> QED
      BY <2>2, <3>1, LiveFinite DEF Counted
  <2> QED
    BY <1>3, <2>1, <2>2, LiveSeries
<1>4. CASE ExitDecrement
  BY <1>4, LiveFinite DEF ExitDecrement, Counted, Live
<1>5. CASE ExitFinish
  BY <1>5 DEF ExitFinish, Counted, Live
<1> QED
  BY <1>1, <1>2, <1>3, <1>4, <1>5, NextCases
  DEF vars, DeregisterNotFound, DeregisterService, DeregisterAtOnce,
      DeregisterWait, DeregisterFinish, CallReturn, SpuriousWakeup, Terminated

(* Every variable keeps to the shape of the C++ member it stands for; the  *)
(* reference count never goes below zero.                                  *)
THEOREM TypeCorrect == Spec => []TypeOK
<1>1. Init => Shape /\ Counted
  <2> SUFFICES ASSUME Init PROVE Counted
    BY ShapeInit
  <2>1. Live = {}
    BY DEF Init, Live
  <2> QED
    BY <2>1, FS_EmptySet DEF Init, Counted
<1>2. Shape /\ Counted /\ [Next]_vars => (Shape /\ Counted)'
  BY ShapeStep, CountedStep
<1>3. Shape /\ Counted => TypeOK
  BY LiveFinite DEF Shape, Counted, TypeOK
<1> QED
  BY <1>1, <1>2, <1>3, PTL DEF Spec

-----------------------------------------------------------------------------
(* The threads that wait in register_service and the series that will let  *)
(* them go.                                                                *)
CallsInv ==
  \A x \in Live :
    /\ series[x].phase = "register" => series[x].user # None
    /\ series[x].user # None =>
         /\ series[x].phase \notin {"timer", "rearm"}
         /\ series[x].user \in Users
         /\ users[series[x].user].pc = "register"
         /\ users[series[x].user].reg = series[x].reg
         /\ \A y \in Live : series[y].user = series[x].user => y = x

(* Nobody's wait has changed but that of the threads in U, and no series   *)
(* but x has changed, which is for the same thread or for none.            *)
LEMMA CallsKeep ==
  ASSUME Shape, CallsInv, NEW x \in Live,
         \A y \in Series \ {x} : series'[y] = series[y],
         series'[x].user \in {None, series[x].user},
         series'[x].reg = series[x].reg,
         series'[x].phase # "register",
         series'[x].phase \in {"timer", "rearm"} => series'[x].user = None,
         \A u \in Users : users[u].pc = "register" =>
           \/ users'[u] = users[u]
           \/ u = series[x].user /\ series'[x].user = None
  PROVE  CallsInv'
<1>1. Live' \subseteq Series
  BY DEF Live
<1>2. \A y \in Live' \ {x} : y \in Live /\ series'[y] = series[y]
  BY <1>1 DEF Live
<1>3. ASSUME NEW y \in Live', series'[y].user # None
      PROVE  /\ y \in Live
             /\ series'[y].user = series[y].user
             /\ series[y].user \in Users
             /\ users'[series[y].user] = users[series[y].user]
             /\ users[series[y].user].pc = "register"
  <2>1. y \in Live /\ series'[y].user = series[y].user
    BY <1>2, <1>3
  <2>2. series[y].user \in Users /\ users[series[y].user].pc = "register"
    BY <1>3, <2>1 DEF CallsInv
  <2>3. series'[x].user = None => series[y].user # series[x].user
    BY <1>3, <2>1 DEF CallsInv
  <2> QED
    BY <2>1, <2>2, <2>3
<1>4. \A y \in Live' :
        /\ series'[y].reg = series[y].reg
        /\ series'[y].phase = "register" => series'[y].user # None
        /\ series'[y].user # None => series'[y].phase \notin {"timer", "rearm"}
  BY <1>2 DEF CallsInv
<1> QED
  BY <1>3, <1>4 DEF CallsInv

LEMMA CallsStep == Shape /\ CallsInv /\ [Next]_vars => CallsInv'
<1> SUFFICES ASSUME Shape, CallsInv, [Next]_vars PROVE CallsInv'
  OBVIOUS
<1>1. ASSUME UNCHANGED series,
             \A u \in Users : users[u].pc = "register" => users'[u] = users[u]
      PROVE  CallsInv'
  BY <1>1 DEF CallsInv, Live
<1>2. ASSUME NEW u \in Users, NEW r \in Registrations, NEW x \in Series,
             RegisterService(u, r, x)
      PROVE  CallsInv'
  <2>1. x \notin Live /\ Live' = Live \cup {x}
    BY <1>2, LiveNew
  <2>2. /\ series'[x].user = u
        /\ \A y \in Live : series'[y] = series[y]
        /\ series'[x].phase = "register" /\ series'[x].reg = r
        /\ users'[u].pc = "register" /\ users'[u].reg = r
        /\ users[u].pc = "idle"
        /\ \A v \in Users \ {u} : users'[v] = users[v]
    BY <1>2 DEF RegisterService, MayCall, Shape, Live
  <2>3. \A y \in Live : series[y].user # u
    BY <2>2, NoneAssumption DEF CallsInv
  <2> QED
    BY <2>1, <2>2, <2>3, NoneAssumption DEF CallsInv
<1>3. ASSUME NEW x \in Series, SeriesStep(x)
      PROVE  CallsInv'
  <2>1. ASSUME NEW ph \in Phases \ {"register"}, x \in Live, Advance(x, ph),
               \/ UNCHANGED users
               \/ \E out \in BOOLEAN : Release(x, out)
               \/ \E i \in Instances : NotifyOne(i)
        PROVE  CallsInv'
    <3>1. \A u \in Users : users[u].pc = "register" =>
            users'[u] = users[u] \/ u = series[x].user
      BY <2>1, ReleaseType, NotifyOneType
    <3> QED
      BY <2>1, <3>1, AdvanceType, CallsKeep
  <2>2. ASSUME NEW ph \in {"heartbeat", "beat"}, x \in Live,
               AdvanceForUser(x, ph), UNCHANGED users
        PROVE  CallsInv'
    BY <2>2, AdvanceForUserType, CallsKeep DEF Phases
  <2>3. CASE RegisterThenHeartbeat(x) \/ HeartbeatAnswered(x)
    BY <2>2, <2>3 DEF RegisterThenHeartbeat, HeartbeatAnswered, InPhase
  <2>4. CASE \/ RegisterFailed(x) \/ RegisterOnly(x) \/ HeartbeatExited(x)
             \/ HeartbeatDisabled(x)
    BY <2>1, <2>4 DEF RegisterFailed, RegisterOnly, HeartbeatExited,
                      HeartbeatDisabled, InPhase, Phases
  <2>5. CASE UpdateDouble(x) \/ UpdateBeat(x)
    BY <2>1, <2>5 DEF UpdateDouble, UpdateBeat, AtUpdate, InPhase, Phases
  <2>6. CASE UpdateDeregistered(x)
    BY <2>1, <2>6, LiveType DEF UpdateDeregistered, AtUpdate, InPhase, Phases
  <2>7. CASE HeartbeatTimerCallback(x) \/ HeartbeatTimerLocked(x)
    BY <2>1, <2>7 DEF HeartbeatTimerCallback, HeartbeatTimerLocked, InPhase,
                      Phases
  <2>8. CASE EndSeries(x)
    <3>1. Live' = Live \ {x} /\ \A y \in Live' : series'[y] = series[y]
      BY <2>8 DEF EndSeries, InPhase, Live, Shape
    <3>2. UNCHANGED users
      BY <2>8 DEF EndSeries
    <3> QED
      BY <3>1, <3>2 DEF CallsInv
  <2> QED
    BY <1>3, <2>3, <2>4, <2>5, <2>6, <2>7, <2>8, SeriesCases
<1>4. ASSUME NEW u \in Users, UNCHANGED series, users[u].pc # "register",
             \A v \in Users \ {u} : users'[v] = users[v]
      PROVE  CallsInv'
  BY <1>1, <1>4
<1>5. ASSUME NEW u \in Users,
             DeregisterAtOnce(u) \/ DeregisterWait(u) \/ DeregisterFinish(u)
               \/ CallReturn(u) \/ SpuriousWakeup(u)
      PROVE  CallsInv'
  BY <1>4, <1>5 DEF DeregisterAtOnce, DeregisterWait, DeregisterFinish,
                    CallReturn, SpuriousWakeup, ReleaseDeregister, Shape
<1>6. ASSUME NEW u \in Users, NEW i \in Instances,
             \/ DeregisterNotFound(u, i)
             \/ \E s \in Services : DeregisterService(u, s, i)
      PROVE  CallsInv'
  BY <1>1, <1>4, <1>6 DEF DeregisterNotFound, DeregisterService, MayDeregister,
                          MayCall, Shape
<1>7. CASE ExitDecrement \/ ExitFinish \/ Terminated \/ UNCHANGED vars
  BY <1>1, <1>7 DEF ExitDecrement, ExitFinish, Terminated, vars
<1> QED
  BY <1>2, <1>3, <1>5, <1>6, <1>7, NextCases

IInv == Shape /\ CallsInv

LEMMA IInvInductive == Spec => []IInv
<1>1. Init => IInv
  BY ShapeInit DEF Init, Live, CallsInv, IInv
<1>2. IInv /\ [Next]_vars => IInv'
  BY ShapeStep, CallsStep DEF IInv
<1> QED
  BY <1>1, <1>2, PTL DEF Spec

-----------------------------------------------------------------------------
(* What register_service returns.                                          *)

(* The one error of the Manager is never reset.                            *)
LEMMA ErrorStays == [Next]_vars /\ error # "NONE" => error' # "NONE"
<1> SUFFICES ASSUME [Next]_vars, error # "NONE" PROVE error' # "NONE"
  OBVIOUS
<1>1. ASSUME NEW x \in Series, SeriesStep(x)
      PROVE  error' # "NONE"
  BY <1>1, SeriesCases
  DEF RegisterFailed, RegisterThenHeartbeat, RegisterOnly, HeartbeatExited,
      HeartbeatDisabled, HeartbeatAnswered, UpdateDouble, UpdateDeregistered,
      UpdateBeat, HeartbeatTimerCallback, HeartbeatTimerLocked, EndSeries, Fail
<1> QED
  BY <1>1, NextCases
  DEF vars, RegisterService, DeregisterNotFound, DeregisterService,
      DeregisterAtOnce, DeregisterWait, DeregisterFinish, CallReturn,
      SpuriousWakeup, ExitDecrement, ExitFinish, Terminated, Fail

(* Whoever is let go either has succeeded or leaves an error.              *)
LEMMA ReleasedBy ==
  ASSUME IInv, [Next]_vars, NEW u \in Users, users'[u].pc = "released"
  PROVE  \/ users'[u] = users[u]
         \/ users'[u].succeeded
         \/ error' # "NONE"
<1>1. ASSUME NEW x \in Series, SeriesStep(x)
      PROVE  users'[u] = users[u] \/ users'[u].succeeded
               \/ error' # "NONE"
  <2>1. ASSUME x \in Live, Release(x, TRUE)
        PROVE  users'[u] = users[u] \/ users'[u].succeeded
    BY <2>1, ReleaseType DEF IInv
  <2>2. CASE RegisterOnly(x) \/ UpdateBeat(x)
    BY <2>1, <2>2 DEF RegisterOnly, UpdateBeat, AtUpdate, InPhase
  <2>3. CASE UpdateDeregistered(x)
    <3>1. NotifyOne(series[x].reg.instance) /\ series[x].reg.instance \in Instances
      BY <2>3, LiveType DEF UpdateDeregistered, AtUpdate, InPhase, IInv
    <3> QED
      BY <3>1, NotifyOneType DEF IInv
  <2>4. CASE RegisterFailed(x) \/ HeartbeatDisabled(x) \/ UpdateDouble(x)
    BY <2>4 DEF RegisterFailed, HeartbeatDisabled, UpdateDouble, Fail
  <2>5. CASE \/ RegisterThenHeartbeat(x) \/ HeartbeatExited(x)
             \/ HeartbeatAnswered(x) \/ HeartbeatTimerCallback(x)
             \/ HeartbeatTimerLocked(x) \/ EndSeries(x)
    BY <2>5 DEF RegisterThenHeartbeat, HeartbeatExited, HeartbeatAnswered,
                HeartbeatTimerCallback, HeartbeatTimerLocked, EndSeries
  <2> QED
    BY <1>1, <2>2, <2>3, <2>4, <2>5, SeriesCases
<1>2. ASSUME NEW v \in Users, ReleaseDeregister(v)
      PROVE  users'[u] = users[u] \/ users'[u].succeeded
  <2>1. users' = [users EXCEPT ![v] = [users[v] EXCEPT
                    !.pc = "released", !.succeeded = TRUE]]
    BY <1>2 DEF ReleaseDeregister, IInv, Shape
  <2>2. [users[v] EXCEPT !.pc = "released", !.succeeded = TRUE].succeeded
    BY DEF IInv, Shape, User
  <2> QED
    BY <2>1, <2>2 DEF IInv, Shape
<1>3. ASSUME NEW v \in Users, DeregisterAtOnce(v) \/ DeregisterFinish(v)
      PROVE  users'[u] = users[u] \/ users'[u].succeeded
  BY <1>2, <1>3 DEF DeregisterAtOnce, DeregisterFinish
<1>4. ASSUME NEW v \in Users, users'[v].pc # "released",
             \A w \in Users \ {v} : users'[w] = users[w]
      PROVE  users'[u] = users[u]
  BY <1>4
<1>5. ASSUME NEW v \in Users, NEW r \in Registrations, NEW x \in Series,
             RegisterService(v, r, x)
      PROVE  users'[u] = users[u]
  BY <1>4, <1>5 DEF RegisterService, IInv, Shape
<1>6. ASSUME NEW v \in Users, NEW i \in Instances,
             \/ DeregisterNotFound(v, i)
             \/ \E s \in Services : DeregisterService(v, s, i)
      PROVE  users'[u] = users[u]
  BY <1>4, <1>6 DEF DeregisterService, DeregisterNotFound, IInv, Shape
<1>7. ASSUME NEW v \in Users,
             DeregisterWait(v) \/ CallReturn(v) \/ SpuriousWakeup(v)
      PROVE  users'[u] = users[u]
  <2>1. users'[v].pc \in {"blocked", "idle", "notified"}
    <3>1. v \in Users /\ users \in [Users -> User]
      BY DEF IInv, Shape
    <3>2. CASE DeregisterWait(v)
      BY <3>1, <3>2 DEF DeregisterWait, User
    <3>3. CASE CallReturn(v)
      BY <3>1, <3>3 DEF CallReturn, Idle
    <3>4. CASE SpuriousWakeup(v)
      BY <3>1, <3>4 DEF SpuriousWakeup, User
    <3> QED
      BY <1>7, <3>2, <3>3, <3>4
  <2>2. \A w \in Users \ {v} : users'[w] = users[w]
    BY <1>7 DEF DeregisterWait, CallReturn, SpuriousWakeup, IInv, Shape
  <2> QED
    BY <1>4, <2>1, <2>2
<1>8. CASE ExitDecrement \/ ExitFinish \/ Terminated \/ UNCHANGED vars
  BY <1>8 DEF ExitDecrement, ExitFinish, Terminated, vars
<1> QED
  BY <1>1, <1>3, <1>5, <1>6, <1>7, <1>8, NextCases

(* register_service returns 0 only when its own requests succeeded, though *)
(* what it returns is the one error that all calls share.                  *)
THEOREM RegisterOkCorrect == Spec => []RegisterOkAccepted
<1>1. Init => RegisterOkAccepted
  BY DEF Init, Idle, RegisterOkAccepted
<1>2. IInv /\ RegisterOkAccepted /\ [Next]_vars => RegisterOkAccepted'
  BY ReleasedBy, ErrorStays DEF RegisterOkAccepted
<1> QED
  BY <1>1, <1>2, IInvInductive, PTL DEF Spec

-----------------------------------------------------------------------------
(* RegisteredIsBeating, instance by instance.                              *)
Detained(u, i) == /\ users[u].pc \in {"blocked", "notified"}
                  /\ users[u].reg.instance = i

Needs(i) == /\ register_status[i] # None
            /\ status # "MANAGER_EXITED"
            /\ Beats(register_status[i].reg)
            /\ \A u \in Users : ~Detained(u, i)

Serves(x, i) == /\ x \in Live
               /\ series[x].reg.instance = i
               /\ series[x].user = None
               /\ IF register_status[i].heartbeating
                  THEN series[x].phase \in {"heartbeat", "beat"}
                  ELSE series[x].phase \in {"timer", "rearm"}

Beating(i) == Needs(i) => \E x \in Series : Serves(x, i)

LEMMA BeatingMeaning ==
  (\A i \in Instances : Beating(i)) => RegisteredIsBeating
BY DEF Beating, Needs, Serves, Detained, RegisteredIsBeating, CountedOn,
       Serving, Registered,
       Deregistering, Blocked, Live

(* The entry of i is left alone, and so are those that serve it and those  *)
(* that deregister it.                                                     *)
LEMMA BeatingKeep ==
  ASSUME NEW i \in Instances, Beating(i),
         register_status'[i] = register_status[i],
         status' \in {status, "MANAGER_EXITED"},
         \A u \in Users : Detained(u, i) => Detained(u, i)',
         \A x \in Series : Serves(x, i) => Serves(x, i)'
  PROVE  Beating(i)'
<1>1. Needs(i)' => Needs(i)
  BY DEF Needs
<1> QED
  BY <1>1 DEF Beating

LEMMA ServesOther ==
  ASSUME NEW i, NEW x \in Series, NEW y \in Series, Serves(y, i),
         register_status'[i] = register_status[i],
         \A z \in Series \ {x} : series'[z] = series[z],
         y # x
  PROVE  Serves(y, i)'
BY DEF Serves, Live

(* A release is of a thread that waits in register_service.                *)
LEMMA DetainedStays ==
  ASSUME IInv, NEW i \in Instances, NEW x \in Live,
         \/ UNCHANGED users
         \/ \E out \in BOOLEAN : Release(x, out)
         \/ \E j \in Instances : NotifyOne(j)
  PROVE  \A u \in Users : Detained(u, i) => Detained(u, i)'
<1>1. CASE UNCHANGED users
  BY <1>1 DEF Detained
<1>2. ASSUME NEW out \in BOOLEAN, Release(x, out), NEW u \in Users,
             Detained(u, i)
      PROVE  Detained(u, i)'
  <2>1. u # series[x].user
    BY <1>2, NoneAssumption DEF IInv, CallsInv, Detained
  <2> QED
    BY <1>2, <2>1, ReleaseType DEF IInv, Detained
<1>3. ASSUME NEW j \in Instances, NotifyOne(j), NEW u \in Users,
             Detained(u, i)
      PROVE  Detained(u, i)'
  <2>1. CASE users[u].pc = "blocked"
    BY <1>3, <2>1, NotifyOneType DEF IInv, Detained
  <2>2. CASE users[u].pc # "blocked"
    BY <1>3, <2>2, NotifyOneType DEF IInv, Detained
  <2> QED
    BY <2>1, <2>2
<1> QED
  BY <1>1, <1>2, <1>3

LEMMA BeatingSeries ==
  ASSUME IInv, NEW i \in Instances, Beating(i), NEW x \in Series, SeriesStep(x)
  PROVE  Beating(i)'
<1> USE DEF life
(* Steps that leave all entries alone, of a series that does not beat.     *)
<1>1. ASSUME NEW ph \in Phases, x \in Live, Advance(x, ph), ~Serves(x, i),
             register_status'[i] = register_status[i], UNCHANGED status,
             \A u \in Users : Detained(u, i) => Detained(u, i)'
      PROVE  Beating(i)'
  <2>1. \A z \in Series \ {x} : series'[z] = series[z]
    BY <1>1, AdvanceType DEF IInv
  <2>2. \A y \in Series : Serves(y, i) => Serves(y, i)'
    BY <1>1, <2>1, ServesOther
  <2> QED
    BY <1>1, <2>2, BeatingKeep
<1>2. CASE RegisterFailed(x)
  <2>1. x \in Live /\ ~Serves(x, i)
    BY <1>2 DEF RegisterFailed, InPhase, Serves
  <2>2. \A u \in Users : Detained(u, i) => Detained(u, i)'
    BY <1>2, <2>1, DetainedStays DEF RegisterFailed
  <2> QED
    BY <1>1, <1>2, <2>1, <2>2 DEF RegisterFailed, Phases
<1>3. CASE RegisterThenHeartbeat(x)
  <2>1. x \in Live /\ ~Serves(x, i)
    BY <1>3 DEF RegisterThenHeartbeat, InPhase, Serves
  <2>2. \A z \in Series \ {x} : series'[z] = series[z]
    BY <1>3, <2>1, AdvanceForUserType DEF RegisterThenHeartbeat, IInv, Phases
  <2>3. UNCHANGED <<register_status, status, users>>
    BY <1>3 DEF RegisterThenHeartbeat
  <2>4. \A y \in Series : Serves(y, i) => Serves(y, i)'
    BY <2>1, <2>2, <2>3, ServesOther
  <2> QED
    BY <2>3, <2>4, BeatingKeep DEF Detained
<1>4. CASE RegisterOnly(x)
  <2>1. x \in Live /\ series[x].reg.instance \in Instances /\ ~Serves(x, i)
    BY <1>4, LiveType DEF RegisterOnly, InPhase, Serves, IInv
  <2>2. \A u \in Users : Detained(u, i) => Detained(u, i)'
    BY <1>4, <2>1, DetainedStays DEF RegisterOnly
  <2>3. CASE series[x].reg.instance = i
    <3>1. ~Beats(register_status'[i].reg)
      BY <1>4, <2>1, <2>3, LiveType, SetHeartbeatingType DEF RegisterOnly, IInv
    <3> QED
      BY <3>1 DEF Beating, Needs
  <2>4. CASE series[x].reg.instance # i
    <3>1. register_status'[i] = register_status[i]
      BY <1>4, <2>1, <2>4, SeriesSetsType DEF RegisterOnly, IInv
    <3> QED
      BY <1>1, <1>4, <2>1, <2>2, <3>1 DEF RegisterOnly, Phases
  <2> QED
    BY <2>3, <2>4
<1>5. CASE HeartbeatExited(x)
  BY <1>5 DEF HeartbeatExited, Beating, Needs
<1>6. CASE HeartbeatDisabled(x)
  <2>1. x \in Live /\ ~Serves(x, i)
    BY <1>6 DEF HeartbeatDisabled, InPhase, Serves
  <2>2. \A u \in Users : Detained(u, i) => Detained(u, i)'
    BY <1>6, <2>1, DetainedStays DEF HeartbeatDisabled
  <2> QED
    BY <1>1, <1>6, <2>1, <2>2 DEF HeartbeatDisabled, Phases
<1>7. CASE HeartbeatAnswered(x)
  <2>1. /\ x \in Live
        /\ series[x].phase = "heartbeat"
        /\ AdvanceForUser(x, "beat")
        /\ UNCHANGED <<register_status, status, users>>
    BY <1>7 DEF HeartbeatAnswered, InPhase
  <2>2. /\ series'[x] \in SeriesWork
        /\ series'[x].phase = "beat"
        /\ series'[x].user = series[x].user
        /\ series'[x].reg = series[x].reg
        /\ \A z \in Series \ {x} : series'[z] = series[z]
    BY <2>1, AdvanceForUserType DEF IInv, Phases
  <2>3. Serves(x, i) => Serves(x, i)'
    BY <2>1, <2>2, NoneAssumption DEF Serves, Live
  <2>4. \A y \in Series : Serves(y, i) => Serves(y, i)'
    BY <2>1, <2>2, <2>3, ServesOther
  <2> QED
    BY <2>1, <2>4, BeatingKeep DEF Detained
<1>8. CASE UpdateDouble(x)
  <2>1. x \in Live /\ ~Serves(x, i)
    BY <1>8 DEF UpdateDouble, AtUpdate, InPhase, Serves
  <2>2. \A u \in Users : Detained(u, i) => Detained(u, i)'
    BY <1>8, <2>1, DetainedStays DEF UpdateDouble
  <2> QED
    BY <1>1, <1>8, <2>1, <2>2 DEF UpdateDouble, Phases
<1>9. CASE UpdateDeregistered(x)
  <2>1. x \in Live /\ series[x].reg.instance \in Instances /\ ~Serves(x, i)
    BY <1>9, LiveType DEF UpdateDeregistered, AtUpdate, InPhase, Serves, IInv
  <2>2. \A u \in Users : Detained(u, i) => Detained(u, i)'
    BY <1>9, <2>1, DetainedStays DEF UpdateDeregistered
  <2> QED
    BY <1>1, <1>9, <2>1, <2>2 DEF UpdateDeregistered, Phases
<1>10. CASE UpdateBeat(x)
  <2>1. /\ x \in Live /\ series[x].reg.instance \in Instances
        /\ series[x].phase = "beat"
    BY <1>10, LiveType DEF UpdateBeat, AtUpdate, InPhase, IInv
  <2>2. \A u \in Users : Detained(u, i) => Detained(u, i)'
    BY <1>10, <2>1, DetainedStays DEF UpdateBeat
  <2>3. /\ series'[x] \in SeriesWork
        /\ series'[x].phase = "timer"
        /\ series'[x].user = None
        /\ series'[x].reg = series[x].reg
    BY <1>10, <2>1, AdvanceType DEF UpdateBeat, IInv, Phases
  <2>4. /\ register_status'[series[x].reg.instance].heartbeating = FALSE
        /\ \A j \in Instances \ {series[x].reg.instance} :
             register_status'[j] = register_status[j]
    BY <1>10, <2>1, SeriesSetsType DEF UpdateBeat, IInv
  <2>5. CASE series[x].reg.instance = i
    <3>1. Serves(x, i)'
      BY <2>3, <2>4, <2>5, NoneAssumption DEF Serves, Live
    <3> QED
      BY <3>1 DEF Beating
  <2>6. CASE series[x].reg.instance # i
    <3>1. ~Serves(x, i)
      BY <2>6 DEF Serves
    <3> QED
      BY <1>1, <1>10, <2>1, <2>2, <2>4, <2>6, <3>1 DEF UpdateBeat, Phases
  <2> QED
    BY <2>5, <2>6
<1>11. CASE HeartbeatTimerCallback(x)
  <2>1. CASE status = "MANAGER_EXITED"
    BY <1>11, <2>1 DEF HeartbeatTimerCallback, Beating, Needs
  <2>2. CASE status # "MANAGER_EXITED"
    <3>1. /\ x \in Live
          /\ series[x].phase = "timer"
          /\ Advance(x, "rearm")
          /\ UNCHANGED <<register_status, status, users>>
      BY <1>11, <2>2 DEF HeartbeatTimerCallback, InPhase
    <3>2. /\ series'[x] \in SeriesWork
          /\ series'[x].phase = "rearm"
          /\ series'[x].user = None
          /\ series'[x].reg = series[x].reg
          /\ \A z \in Series \ {x} : series'[z] = series[z]
      BY <3>1, AdvanceType DEF IInv, Phases
    <3>3. Serves(x, i) => Serves(x, i)'
      BY <3>1, <3>2, NoneAssumption DEF Serves, Live
    <3>4. \A y \in Series : Serves(y, i) => Serves(y, i)'
      BY <3>1, <3>2, <3>3, ServesOther
    <3> QED
      BY <3>1, <3>4, BeatingKeep DEF Detained
  <2> QED
    BY <2>1, <2>2
<1>12. CASE HeartbeatTimerLocked(x)
  <2>1. /\ x \in Live /\ series[x].reg.instance \in Instances
        /\ series[x].phase = "rearm"
        /\ UNCHANGED <<status, users>>
    BY <1>12, LiveType DEF HeartbeatTimerLocked, InPhase, IInv
  <2>2. CASE series[x].reg.instance \in Registered
    <3>1. /\ Advance(x, "heartbeat")
          /\ SetHeartbeating(series[x].reg.instance, TRUE,
                             Owner(series[x].reg.instance, series[x].reg))
      BY <1>12, <2>2 DEF HeartbeatTimerLocked
    <3>2. /\ series'[x] \in SeriesWork
          /\ series'[x].phase = "heartbeat"
          /\ series'[x].user = None
          /\ series'[x].reg = series[x].reg
      BY <2>1, <3>1, AdvanceType DEF IInv, Phases
    <3>3. /\ register_status'[series[x].reg.instance].heartbeating = TRUE
          /\ \A j \in Instances \ {series[x].reg.instance} :
               register_status'[j] = register_status[j]
      BY <2>1, <3>1, SeriesSetsType DEF IInv
    <3>4. CASE series[x].reg.instance = i
      <4>1. Serves(x, i)'
        BY <3>2, <3>3, <3>4, NoneAssumption DEF Serves, Live
      <4> QED
        BY <4>1 DEF Beating
    <3>5. CASE series[x].reg.instance # i
      <4>1. ~Serves(x, i)
        BY <3>5 DEF Serves
      <4> QED
        BY <1>1, <2>1, <3>1, <3>3, <3>5, <4>1 DEF Detained, Phases
    <3> QED
      BY <3>4, <3>5
  <2>3. CASE series[x].reg.instance \notin Registered
    <3>1. Advance(x, "end") /\ UNCHANGED register_status
      BY <1>12, <2>3 DEF HeartbeatTimerLocked
    <3>2. CASE series[x].reg.instance = i
      BY <2>1, <2>3, <3>1, <3>2 DEF Beating, Needs, Registered
    <3>3. CASE series[x].reg.instance # i
      <4>1. ~Serves(x, i)
        BY <3>3 DEF Serves
      <4> QED
        BY <1>1, <2>1, <3>1, <4>1 DEF Detained, Phases
    <3> QED
      BY <3>2, <3>3
  <2> QED
    BY <2>2, <2>3
<1>13. CASE EndSeries(x)
  <2>1. ~Serves(x, i)
    BY <1>13 DEF EndSeries, InPhase, Serves
  <2>2. \A z \in Series \ {x} : series'[z] = series[z]
    BY <1>13 DEF EndSeries, IInv, Shape
  <2>3. UNCHANGED <<register_status, status, users>>
    BY <1>13 DEF EndSeries
  <2>4. \A y \in Series : Serves(y, i) => Serves(y, i)'
    BY <2>1, <2>2, <2>3, ServesOther
  <2> QED
    BY <2>3, <2>4, BeatingKeep DEF Detained
<1> QED
  BY <1>2, <1>3, <1>4, <1>5, <1>6, <1>7, <1>8, <1>9, <1>10, <1>11, <1>12,
     <1>13, SeriesCases

LEMMA BeatingUser ==
  ASSUME IInv, NEW i \in Instances, Beating(i), NEW u \in Users,
         \/ \E r \in Registrations, x \in Series :
              RegisterService(u, r, x)
         \/ \E j \in Instances :
              \/ DeregisterNotFound(u, j)
              \/ \E s \in Services : DeregisterService(u, s, j)
         \/ UserStep(u)
         \/ SpuriousWakeup(u)
  PROVE  Beating(i)'
<1> USE DEF life
<1>1. ASSUME register_status'[i] = register_status[i], UNCHANGED <<series, status>>,
             \A v \in Users : Detained(v, i) => Detained(v, i)'
      PROVE  Beating(i)'
  <2>1. \A y \in Series : Serves(y, i) => Serves(y, i)'
    BY <1>1 DEF Serves, Live
  <2> QED
    BY <1>1, <2>1, BeatingKeep
<1>2. ASSUME register_status'[i] = None
      PROVE  Beating(i)'
  BY <1>2 DEF Beating, Needs
<1>3. ASSUME \A v \in Users \ {u} : users'[v] = users[v],
             Detained(u, i) => Detained(u, i)'
      PROVE  \A v \in Users : Detained(v, i) => Detained(v, i)'
  BY <1>3 DEF Detained
<1>4. ASSUME NEW r \in Registrations, NEW x \in Series,
             RegisterService(u, r, x)
      PROVE  Beating(i)'
  <2>1. ~Serves(x, i) /\ \A z \in Series \ {x} : series'[z] = series[z]
    BY <1>4 DEF RegisterService, Serves, IInv, Shape
  <2>2. UNCHANGED <<register_status, status>>
    BY <1>4 DEF RegisterService
  <2>3. \A v \in Users : Detained(v, i) => Detained(v, i)'
    BY <1>3, <1>4 DEF RegisterService, MayCall, Detained, IInv, Shape
  <2>4. \A y \in Series : Serves(y, i) => Serves(y, i)'
    BY <2>1, <2>2, ServesOther
  <2> QED
    BY <2>2, <2>3, <2>4, BeatingKeep
<1>5. ASSUME NEW j \in Instances,
             \/ DeregisterNotFound(u, j)
             \/ \E s \in Services : DeregisterService(u, s, j)
      PROVE  Beating(i)'
  <2>1. \A v \in Users : Detained(v, i) => Detained(v, i)'
    BY <1>3, <1>5 DEF DeregisterNotFound, DeregisterService, MayDeregister,
                      MayCall, Detained, IInv, Shape
  <2> QED
    BY <1>1, <1>5, <2>1 DEF DeregisterNotFound, DeregisterService
<1>6. ASSUME DeregisterAtOnce(u) \/ DeregisterFinish(u)
      PROVE  Beating(i)'
  <2>1. /\ register_status' = [register_status EXCEPT ![users[u].reg.instance] = None]
        /\ ReleaseDeregister(u)
        /\ UNCHANGED <<series, status>>
    BY <1>6 DEF DeregisterAtOnce, DeregisterFinish
  <2>2. CASE users[u].reg.instance = i
    BY <1>2, <2>1, <2>2 DEF IInv, Shape
  <2>3. CASE users[u].reg.instance # i
    <3>1. register_status'[i] = register_status[i]
      BY <2>1, <2>3 DEF IInv, Shape
    <3>2. \A v \in Users : Detained(v, i) => Detained(v, i)'
      BY <1>3, <2>1, <2>3 DEF ReleaseDeregister, Detained, IInv, Shape
    <3> QED
      BY <1>1, <2>1, <3>1, <3>2
  <2> QED
    BY <2>2, <2>3
<1>7. ASSUME DeregisterWait(u)
      PROVE  Beating(i)'
  <2>1. /\ users[u].reg.instance \in Instances
        /\ UNCHANGED <<series, status>>
    BY <1>7 DEF DeregisterWait, Registered
  <2>2. /\ users'[u].pc = "blocked"
        /\ users'[u].reg = users[u].reg
        /\ \A v \in Users \ {u} : users'[v] = users[v]
    BY <1>7 DEF DeregisterWait, IInv, Shape, User
  <2>3. CASE users[u].reg.instance = i
    BY <2>2, <2>3 DEF Beating, Needs, Detained
  <2>4. CASE users[u].reg.instance # i
    <3>1. register_status'[i] = register_status[i]
      BY <1>7, <2>1, <2>4, SetHeartbeatingType, EntryType
      DEF DeregisterWait, Registered, IInv
    <3>2. \A v \in Users : Detained(v, i) => Detained(v, i)'
      BY <1>3, <2>2, <2>4 DEF Detained
    <3> QED
      BY <1>1, <2>1, <3>1, <3>2
  <2> QED
    BY <2>3, <2>4
<1>8. ASSUME CallReturn(u) \/ SpuriousWakeup(u)
      PROVE  Beating(i)'
  <2>1. \A v \in Users \ {u} : users'[v] = users[v]
    BY <1>8 DEF CallReturn, SpuriousWakeup, IInv, Shape
  <2>2. Detained(u, i) => Detained(u, i)'
    BY <1>8 DEF CallReturn, SpuriousWakeup, Detained, IInv, Shape, User
  <2> QED
    BY <1>1, <1>3, <1>8, <2>1, <2>2 DEF CallReturn, SpuriousWakeup
<1> QED
  BY <1>4, <1>5, <1>6, <1>7, <1>8 DEF UserStep, DeregisterCallback

(* A registered instance with a health check that nobody is deregistering  *)
(* keeps sending heartbeats, with any number of chains, users, instances   *)
(* and handler threads.                                                    *)
THEOREM BeatingCorrect == Spec => []RegisteredIsBeating
<1> DEFINE AllBeating == \A i \in Instances : Beating(i)
<1>1. Init => AllBeating
  BY DEF Init, Beating, Needs
<1>2. ASSUME IInv, AllBeating, [Next]_vars
      PROVE  AllBeating'
  <2> SUFFICES ASSUME NEW i \in Instances
               PROVE  Beating(i)'
    OBVIOUS
  <2>1. CASE UNCHANGED <<series, users, register_status, status>>
    BY <1>2, <2>1 DEF Beating, Needs, Serves, Detained, Live
  <2>2. CASE ExitFinish
    BY <2>2 DEF ExitFinish, Beating, Needs
  <2>3. CASE ExitDecrement \/ Terminated \/ UNCHANGED vars
    BY <2>1, <2>3 DEF ExitDecrement, Terminated, vars, life
  <2> QED
    BY <1>2, <2>2, <2>3, BeatingUser, BeatingSeries
    DEF Next, Step, UserCall
<1>3. AllBeating => RegisteredIsBeating
  BY BeatingMeaning
<1> QED
  BY <1>1, <1>2, <1>3, IInvInductive, PTL DEF Spec
-----------------------------------------------------------------------------
(* One chain at a time.                                                    *)

(* An instance is registered again only when the chain of its earlier      *)
(* registration has ended.                                                 *)
OneChain ==
  \A x, y \in Live : series[x].reg.instance = series[y].reg.instance => x = y

(* A chain on no user's time, between two heartbeats or in one.            *)
Resting(x, i) == /\ x \in Live
                 /\ series[x].reg.instance = i
                 /\ series[x].user = None
                 /\ series[x].phase \in {"timer", "rearm"}

Asking(x, i) == /\ x \in Live
                /\ series[x].reg.instance = i
                /\ series[x].user = None
                /\ series[x].phase \in {"heartbeat", "beat"}

(* The entry of i keeps to the one chain that i has: a heartbeat is on its *)
(* way only for an entry that is there, and which it, or the thread that   *)
(* waits to remove it, will find as it left it.                            *)
Own(i) ==
  /\ \A u, v \in Deregistering(i) : u = v
  /\ \A u \in Users : Detained(u, i) =>
       register_status[i] # None /\ ~register_status[i].heartbeating
  /\ \A x \in Series : Resting(x, i) =>
       /\ \A u \in Users : ~Detained(u, i)
       /\ register_status[i] # None => ~register_status[i].heartbeating
  /\ \A x \in Series : Asking(x, i) =>
       /\ register_status[i] # None
       /\ \/ register_status[i].heartbeating
          \/ \E u \in Users : users[u].pc = "blocked" /\ users[u].reg.instance = i

LEMMA OwnKeep ==
  ASSUME NEW i \in Instances, Own(i),
         register_status'[i] = register_status[i],
         \A u \in Users : u \in Deregistering(i) \/ u \in Deregistering(i)' =>
                            users'[u] = users[u],
         \A x \in Series : /\ Resting(x, i)' => Resting(x, i)
                           /\ Asking(x, i)' => Asking(x, i)
  PROVE  Own(i)'
BY DEF Own, Detained, Deregistering

(* The chain has ended, and the entry counts on none.                      *)
LEMMA OwnEnds ==
  ASSUME NEW i \in Instances, Own(i),
         \A x \in Series : ~Resting(x, i)' /\ ~Asking(x, i)',
         \A u \in Users : /\ u \in Deregistering(i)' => u \in Deregistering(i)
                          /\ Detained(u, i)' => Detained(u, i),
         \/ register_status'[i] = register_status[i]
         \/ register_status'[i] # None /\ ~register_status'[i].heartbeating
  PROVE  Own(i)'
BY DEF Own, Deregistering

(* No step of a chain begins a deregister_service, and only the wakeup of  *)
(* its own instance's chain changes one.                                   *)
LEMMA OwnUsers ==
  ASSUME IInv, NEW i \in Instances, NEW x \in Live,
         \/ UNCHANGED users
         \/ \E out \in BOOLEAN : Release(x, out)
         \/ NotifyOne(series[x].reg.instance)
  PROVE  \A u \in Users :
           /\ u \in Deregistering(i)' => u \in Deregistering(i)
           /\ Detained(u, i)' => Detained(u, i)
           /\ \/ series[x].reg.instance # i
              \/ ~NotifyOne(series[x].reg.instance)
              => (u \in Deregistering(i) \/ u \in Deregistering(i)'
                    => users'[u] = users[u])
<1> USE DEF Deregistering, Detained
<1>1. CASE UNCHANGED users
  BY <1>1
<1>2. ASSUME NEW out \in BOOLEAN, Release(x, out), NEW u \in Users
      PROVE  \/ users'[u] = users[u]
             \/ u \notin Deregistering(i) /\ u \notin Deregistering(i)'
                  /\ ~Detained(u, i)'
  <2>1. CASE u = series[x].user
    <3>1. users[u].pc = "register" /\ users'[u].pc = "released"
      BY <1>2, <2>1, ReleaseType, NoneAssumption DEF IInv, CallsInv
    <3> QED
      BY <3>1
  <2>2. CASE u # series[x].user
    BY <1>2, <2>2, ReleaseType DEF IInv
  <2> QED
    BY <2>1, <2>2
<1>3. ASSUME NotifyOne(series[x].reg.instance), NEW u \in Users
      PROVE  \/ users'[u] = users[u]
             \/ /\ users[u].pc = "blocked"
                /\ users[u].reg.instance = series[x].reg.instance
                /\ users'[u].reg = users[u].reg
  <2>1. series[x].reg.instance \in Instances
    BY LiveType DEF IInv
  <2>2. users'[u].reg = users[u].reg
    BY <1>3, <2>1, NotifyOneType DEF IInv
  <2> QED
    BY <1>3, <2>2 DEF NotifyOne
<1>4. CASE \E out \in BOOLEAN : Release(x, out)
  BY <1>2, <1>4
<1>5. CASE NotifyOne(series[x].reg.instance)
  BY <1>3, <1>5
<1> QED
  BY <1>1, <1>4, <1>5

(* What a step of a chain leaves alone.                                    *)
LEMMA SeriesEffect ==
  ASSUME IInv, NEW x \in Series, SeriesStep(x)
  PROVE  /\ x \in Live
         /\ series[x].reg.instance \in Instances
         /\ \A y \in Series \ {x} : series'[y] = series[y]
         /\ series'[x] = None \/ series'[x].reg = series[x].reg
         /\ \A j \in Instances \ {series[x].reg.instance} :
              register_status'[j] = register_status[j]
         /\ \/ UNCHANGED users
            \/ \E out \in BOOLEAN : Release(x, out)
            \/ NotifyOne(series[x].reg.instance)
<1>1. x \in Live
  BY SeriesCases
  DEF RegisterFailed, RegisterThenHeartbeat, RegisterOnly, HeartbeatExited,
      HeartbeatDisabled, HeartbeatAnswered, UpdateDouble, UpdateDeregistered,
      UpdateBeat, HeartbeatTimerCallback, HeartbeatTimerLocked, EndSeries,
      AtUpdate, InPhase
<1>2. series[x].reg.instance \in Instances
  BY <1>1, LiveType DEF IInv
<1>3. /\ \A y \in Series \ {x} : series'[y] = series[y]
      /\ series'[x] = None \/ series'[x].reg = series[x].reg
  <2>1. ASSUME NEW ph \in Phases, Advance(x, ph)
        PROVE  /\ \A y \in Series \ {x} : series'[y] = series[y]
               /\ series'[x].reg = series[x].reg
    BY <1>1, <2>1, AdvanceType DEF IInv
  <2>2. ASSUME NEW ph \in Phases, AdvanceForUser(x, ph)
        PROVE  /\ \A y \in Series \ {x} : series'[y] = series[y]
               /\ series'[x].reg = series[x].reg
    BY <1>1, <2>2, AdvanceForUserType DEF IInv
  <2>3. CASE EndSeries(x)
    BY <2>3 DEF EndSeries, IInv, Shape
  <2>4. \/ \E ph \in Phases : Advance(x, ph) \/ AdvanceForUser(x, ph)
        \/ EndSeries(x)
    BY SeriesCases
    DEF RegisterFailed, RegisterThenHeartbeat, RegisterOnly, HeartbeatExited,
        HeartbeatDisabled, HeartbeatAnswered, UpdateDouble,
        UpdateDeregistered, UpdateBeat, HeartbeatTimerCallback,
        HeartbeatTimerLocked, Phases
  <2> QED
    BY <2>1, <2>2, <2>3, <2>4
<1>4. \A j \in Instances \ {series[x].reg.instance} :
        register_status'[j] = register_status[j]
  <2>1. \/ UNCHANGED register_status
        \/ \E b, c : SetHeartbeating(series[x].reg.instance, b, c)
    BY SeriesCases
    DEF life, RegisterFailed, RegisterThenHeartbeat, RegisterOnly,
        HeartbeatExited, HeartbeatDisabled, HeartbeatAnswered, UpdateDouble,
        UpdateDeregistered, UpdateBeat, HeartbeatTimerCallback,
        HeartbeatTimerLocked, EndSeries
  <2> QED
    BY <1>2, <2>1 DEF SetHeartbeating, IInv, Shape
<1>5. \/ UNCHANGED users
      \/ \E out \in BOOLEAN : Release(x, out)
      \/ NotifyOne(series[x].reg.instance)
  BY SeriesCases
  DEF life, RegisterFailed, RegisterThenHeartbeat, RegisterOnly,
      HeartbeatExited, HeartbeatDisabled, HeartbeatAnswered, UpdateDouble,
      UpdateDeregistered, UpdateBeat, HeartbeatTimerCallback,
      HeartbeatTimerLocked, EndSeries
<1> QED
  BY <1>1, <1>2, <1>3, <1>4, <1>5
(* A step of the one chain of i.                                           *)
LEMMA OwnChain ==
  ASSUME IInv, OneChain, NEW i \in Instances, Own(i), NEW x \in Series,
         SeriesStep(x), series[x].reg.instance = i
  PROVE  Own(i)'
<1> USE DEF life
<1>1. /\ x \in Live
      /\ \A y \in Series \ {x} : series'[y] = series[y]
      /\ \A u \in Users : /\ u \in Deregistering(i)' => u \in Deregistering(i)
                          /\ Detained(u, i)' => Detained(u, i)
  BY SeriesEffect, OwnUsers
<1>2. \A y \in Series \ {x} : ~Resting(y, i)' /\ ~Asking(y, i)'
  BY <1>1 DEF OneChain, Resting, Asking, Live
<1>3. ASSUME series'[x] = None \/ series'[x].phase = "end"
               \/ series'[x].user # None,
             \/ register_status'[i] = register_status[i]
             \/ register_status'[i] # None /\ ~register_status'[i].heartbeating
      PROVE  Own(i)'
  <2>1. ~Resting(x, i)' /\ ~Asking(x, i)'
    BY <1>3 DEF Resting, Asking, Live
  <2> QED
    BY <1>1, <1>2, <1>3, <2>1, OwnEnds
<1>4. ASSUME Advance(x, "end")
      PROVE  series'[x].phase = "end"
  BY <1>1, <1>4, AdvanceType DEF Phases, IInv
<1>5. CASE \/ RegisterFailed(x) \/ HeartbeatExited(x) \/ HeartbeatDisabled(x)
           \/ UpdateDouble(x) \/ UpdateDeregistered(x)
  BY <1>3, <1>4, <1>5 DEF RegisterFailed, HeartbeatExited, HeartbeatDisabled,
                          UpdateDouble, UpdateDeregistered
<1>6. CASE EndSeries(x)
  BY <1>3, <1>6 DEF EndSeries, IInv, Shape
<1>7. CASE RegisterOnly(x)
  <2>1. register_status'[i] # None /\ register_status'[i].heartbeating = FALSE
    BY <1>1, <1>7, SeriesSetsType DEF RegisterOnly, IInv
  <2> QED
    BY <1>3, <1>4, <1>7, <2>1 DEF RegisterOnly
<1>8. CASE RegisterThenHeartbeat(x)
  <2>1. series[x].user # None
    BY <1>1, <1>8 DEF RegisterThenHeartbeat, InPhase, IInv, CallsInv
  <2>2. series'[x].user # None
    BY <1>1, <1>8, <2>1, AdvanceForUserType
    DEF RegisterThenHeartbeat, Phases, IInv
  <2> QED
    BY <1>3, <1>8, <2>2 DEF RegisterThenHeartbeat
<1>9. CASE HeartbeatAnswered(x)
  <2>1. /\ series'[x].phase = "beat"
        /\ series'[x].user = series[x].user
        /\ series'[x].reg = series[x].reg
    BY <1>1, <1>9, AdvanceForUserType DEF HeartbeatAnswered, Phases, IInv
  <2>2. /\ Asking(x, i)' => Asking(x, i)
        /\ ~Resting(x, i)'
    BY <1>1, <1>9, <2>1 DEF HeartbeatAnswered, InPhase, Asking, Resting
  <2> QED
    BY <1>2, <1>9, <2>2, OwnKeep DEF HeartbeatAnswered
<1>10. CASE UpdateBeat(x)
  <2>1. \A u \in Users : ~Detained(u, i)
    BY <1>10 DEF UpdateBeat, Own, Registered
  <2>2. register_status'[i] # None /\ register_status'[i].heartbeating = FALSE
    BY <1>1, <1>10, SeriesSetsType DEF UpdateBeat, IInv
  <2>3. series'[x].phase = "timer"
    BY <1>1, <1>10, AdvanceType DEF UpdateBeat, Phases, IInv
  <2>4. ~Asking(x, i)'
    BY <2>3 DEF Asking
  <2> QED
    BY <1>1, <1>2, <2>1, <2>2, <2>4 DEF Own, Deregistering
<1>11. CASE HeartbeatTimerCallback(x)
  <2>1. CASE status = "MANAGER_EXITED"
    BY <1>3, <1>4, <1>11, <2>1 DEF HeartbeatTimerCallback
  <2>2. CASE status # "MANAGER_EXITED"
    <3>1. series'[x].phase = "rearm"
      BY <1>1, <1>11, <2>2, AdvanceType DEF HeartbeatTimerCallback, Phases, IInv
    <3>2. series[x].user = None
      BY <1>1, <1>11 DEF HeartbeatTimerCallback, InPhase, IInv, CallsInv
    <3>3. /\ Resting(x, i)' => Resting(x, i)
          /\ ~Asking(x, i)'
      BY <1>1, <1>11, <3>1, <3>2
      DEF HeartbeatTimerCallback, InPhase, Asking, Resting
    <3> QED
      BY <1>2, <1>11, <3>3, OwnKeep DEF HeartbeatTimerCallback
  <2> QED
    BY <2>1, <2>2
<1>12. CASE HeartbeatTimerLocked(x)
  <2>1. Resting(x, i)
    BY <1>1, <1>12 DEF HeartbeatTimerLocked, InPhase, Resting, IInv, CallsInv
  <2>2. CASE i \in Registered
    <3>1. \A u \in Users : ~Detained(u, i)
      BY <2>1 DEF Own
    <3>2. register_status'[i] # None /\ register_status'[i].heartbeating = TRUE
      BY <1>1, <1>12, <2>2, SeriesSetsType
      DEF HeartbeatTimerLocked, IInv
    <3>3. series'[x].phase = "heartbeat"
      BY <1>1, <1>12, <2>2, AdvanceType DEF HeartbeatTimerLocked, Phases, IInv
    <3>4. ~Resting(x, i)'
      BY <3>3 DEF Resting
    <3> QED
      BY <1>1, <1>2, <3>1, <3>2, <3>4 DEF Own, Deregistering
  <2>3. CASE i \notin Registered
    BY <1>3, <1>4, <1>12, <2>3 DEF HeartbeatTimerLocked
  <2> QED
    BY <2>2, <2>3
<1> QED
  BY <1>5, <1>6, <1>7, <1>8, <1>9, <1>10, <1>11, <1>12, SeriesCases

(* A step of the chain of another instance.                                *)
LEMMA OwnOther ==
  ASSUME IInv, NEW i \in Instances, Own(i), NEW x \in Series,
         SeriesStep(x), series[x].reg.instance # i
  PROVE  Own(i)'
<1>1. /\ x \in Live
      /\ \A y \in Series \ {x} : series'[y] = series[y]
      /\ series'[x] = None \/ series'[x].reg = series[x].reg
      /\ register_status'[i] = register_status[i]
  BY SeriesEffect
<1>2. \A u \in Users : u \in Deregistering(i) \/ u \in Deregistering(i)' =>
                         users'[u] = users[u]
  BY <1>1, SeriesEffect, OwnUsers
<1>3. \A y \in Series : /\ Resting(y, i)' => Resting(y, i)
                        /\ Asking(y, i)' => Asking(y, i)
  BY <1>1 DEF Resting, Asking, Live
<1> QED
  BY <1>1, <1>2, <1>3, OwnKeep

(* A user's call, deregister_callback and the returns.                     *)
LEMMA OwnUser ==
  ASSUME IInv, NEW i \in Instances, Own(i), NEW u \in Users,
         UserCall(u) \/ UserStep(u)
  PROVE  Own(i)'
<1> USE DEF life
<1>1. ASSUME UNCHANGED series
      PROVE  \A x \in Series : /\ Resting(x, i)' <=> Resting(x, i)
                               /\ Asking(x, i)' <=> Asking(x, i)
  BY <1>1 DEF Resting, Asking, Live
<1>2. ASSUME NEW r \in Registrations, NEW x \in Series,
             RegisterService(u, r, x)
      PROVE  Own(i)'
  <2>1. series'[x].user # None /\ \A y \in Series \ {x} : series'[y] = series[y]
    BY <1>2, NoneAssumption DEF RegisterService, IInv, Shape
  <2>2. \A y \in Series : /\ Resting(y, i)' => Resting(y, i)
                          /\ Asking(y, i)' => Asking(y, i)
    BY <2>1 DEF Resting, Asking, Live
  <2>3. \A v \in Users : v \in Deregistering(i) \/ v \in Deregistering(i)' =>
                           users'[v] = users[v]
    BY <1>2 DEF RegisterService, MayCall, Deregistering, IInv, Shape
  <2> QED
    BY <1>2, <2>2, <2>3, OwnKeep DEF RegisterService
<1>3. ASSUME NEW j \in Instances, DeregisterNotFound(u, j)
      PROVE  Own(i)'
  BY <1>1, <1>3, OwnKeep DEF DeregisterNotFound, Deregistering
<1>4. ASSUME NEW s \in Services, NEW j \in Instances,
             DeregisterService(u, s, j)
      PROVE  Own(i)'
  <2>1. /\ users[u].pc = "idle"
        /\ users'[u].pc = "deregister"
        /\ users'[u].reg.instance = j
        /\ \A v \in Users \ {u} : users'[v] = users[v]
        /\ Deregistering(j) = {}
        /\ UNCHANGED <<series, register_status>>
    BY <1>4 DEF DeregisterService, MayDeregister, MayCall, IInv, Shape
  <2>2. CASE i = j
    <3>1. \A v \in Users : v \in Deregistering(i)' => v = u
      BY <2>1, <2>2 DEF Deregistering
    <3>2. \A v \in Users : ~Detained(v, i) /\ ~Detained(v, i)'
      BY <2>1, <2>2 DEF Deregistering, Detained
    <3>3. \A v \in Users : users[v].pc = "blocked" => users[v].reg.instance # i
      BY <3>2 DEF Detained
    <3> QED
      BY <1>1, <2>1, <3>1, <3>2, <3>3 DEF Own, Deregistering
  <2>3. CASE i # j
    <3>1. \A v \in Users : v \in Deregistering(i) \/ v \in Deregistering(i)' =>
                             users'[v] = users[v]
      BY <2>1, <2>3 DEF Deregistering
    <3> QED
      BY <1>1, <2>1, <3>1, OwnKeep
  <2> QED
    BY <2>2, <2>3
<1>5. ASSUME DeregisterAtOnce(u) \/ DeregisterFinish(u)
      PROVE  Own(i)'
  <2>1. /\ register_status' = [register_status EXCEPT ![users[u].reg.instance] = None]
        /\ users[u].pc \in {"deregister", "notified"}
        /\ users'[u].pc = "released"
        /\ \A v \in Users \ {u} : users'[v] = users[v]
        /\ UNCHANGED series
    <3>1. /\ register_status' =
               [register_status EXCEPT ![users[u].reg.instance] = None]
          /\ users[u].pc \in {"deregister", "notified"}
          /\ ReleaseDeregister(u)
          /\ UNCHANGED series
      BY <1>5 DEF DeregisterAtOnce, DeregisterFinish
    <3>2. /\ users'[u] = [users[u] EXCEPT !.pc = "released",
                                          !.succeeded = TRUE]
          /\ \A v \in Users \ {u} : users'[v] = users[v]
      BY <3>1 DEF ReleaseDeregister, IInv, Shape
    <3>3. users'[u].pc = "released"
      BY <3>2 DEF IInv, Shape, User
    <3> QED
      BY <3>1, <3>2, <3>3
  <2>2. CASE users[u].reg.instance = i
    <3>1. register_status'[i] = None
      BY <2>1, <2>2 DEF IInv, Shape
    <3>2. Deregistering(i) = {u} /\ Deregistering(i)' = {}
      BY <2>1, <2>2 DEF Own, Deregistering
    <3>3. \A v \in Users : ~Detained(v, i)'
      BY <3>2 DEF Deregistering, Detained
    <3>4. \A x \in Series : ~Asking(x, i)
      <4> SUFFICES ASSUME NEW x \in Series, Asking(x, i) PROVE FALSE
        OBVIOUS
      <4>1. \/ register_status[i].heartbeating
            \/ \E v \in Users : users[v].pc = "blocked" /\ users[v].reg.instance = i
        BY DEF Own
      <4>2. register_status[i] # None
        BY DEF Own
      <4>3. \A v \in Users : users[v].pc = "blocked" => users[v].reg.instance # i
        BY <2>1, <3>2 DEF Deregistering
      <4>4. CASE DeregisterAtOnce(u)
        BY <2>2, <4>1, <4>2, <4>3, <4>4 DEF DeregisterAtOnce, Registered
      <4>5. CASE DeregisterFinish(u)
        <5>1. Detained(u, i)
          BY <2>2, <4>5 DEF DeregisterFinish, Detained
        <5> QED
          BY <4>1, <4>3, <5>1 DEF Own
      <4> QED
        BY <1>5, <4>4, <4>5
    <3> QED
      BY <1>1, <2>1, <3>1, <3>2, <3>3, <3>4 DEF Own
  <2>3. CASE users[u].reg.instance # i
    <3>1. register_status'[i] = register_status[i]
      BY <2>1, <2>3 DEF IInv, Shape
    <3>2. \A v \in Users : v \in Deregistering(i) \/ v \in Deregistering(i)' =>
                             users'[v] = users[v]
      BY <2>1, <2>3 DEF Deregistering
    <3> QED
      BY <1>1, <2>1, <3>1, <3>2, OwnKeep
  <2> QED
    BY <2>2, <2>3
<1>6. ASSUME DeregisterWait(u)
      PROVE  Own(i)'
  <2>1. /\ users[u].reg.instance \in Instances
        /\ users[u].pc = "deregister"
        /\ users'[u].pc = "blocked"
        /\ users'[u].reg = users[u].reg
        /\ \A v \in Users \ {u} : users'[v] = users[v]
        /\ UNCHANGED series
    BY <1>6 DEF DeregisterWait, Registered, IInv, Shape, User
  <2>2. /\ register_status'[users[u].reg.instance] # None
        /\ register_status'[users[u].reg.instance].heartbeating = FALSE
        /\ \A j \in Instances \ {users[u].reg.instance} :
             register_status'[j] = register_status[j]
    BY <1>6, <2>1, SetHeartbeatingType, EntryType
    DEF DeregisterWait, Registered, IInv
  <2>3. CASE users[u].reg.instance = i
    <3>1. Deregistering(i) = {u} /\ Deregistering(i)' = {u}
      BY <2>1, <2>3 DEF Own, Deregistering
    <3>2. \A x \in Series : ~Resting(x, i)
      BY <1>6, <2>3 DEF Own, DeregisterWait, Registered
    <3> QED
      BY <1>1, <2>1, <2>2, <2>3, <3>1, <3>2 DEF Own
  <2>4. CASE users[u].reg.instance # i
    <3>1. \A v \in Users : v \in Deregistering(i) \/ v \in Deregistering(i)' =>
                             users'[v] = users[v]
      BY <2>1, <2>4 DEF Deregistering
    <3> QED
      BY <1>1, <2>1, <2>2, <2>4, <3>1, OwnKeep
  <2> QED
    BY <2>3, <2>4
<1>7. CASE CallReturn(u)
  <2>1. \A v \in Users : v \in Deregistering(i) \/ v \in Deregistering(i)' =>
                           users'[v] = users[v]
    BY <1>7 DEF CallReturn, Idle, Deregistering, IInv, Shape
  <2> QED
    BY <1>1, <1>7, <2>1, OwnKeep DEF CallReturn
<1> QED
  BY <1>2, <1>3, <1>4, <1>5, <1>6, <1>7
  DEF UserCall, UserStep, DeregisterCallback

LEMMA OwnStep ==
  ASSUME IInv, OneChain, [Step]_vars, NEW i \in Instances, Own(i)
  PROVE  Own(i)'
<1>1. CASE UNCHANGED <<series, users, register_status>>
  BY <1>1 DEF Own, Resting, Asking, Detained, Deregistering, Live
<1>2. CASE ExitDecrement \/ ExitFinish \/ Terminated \/ UNCHANGED vars
  BY <1>1, <1>2 DEF ExitDecrement, ExitFinish, Terminated, vars
<1> QED
  BY <1>2, OwnUser, OwnChain, OwnOther DEF Step

(* An entry is made for a user whose own register request or heartbeat has *)
(* just come back.                                                         *)
LEMMA EntryForUser ==
  ASSUME IInv, [Step]_vars, NEW i \in Instances, Own(i),
         register_status[i] = None, register_status'[i] # None
  PROVE  \E u \in Users : /\ users[u].pc = "register"
                          /\ users[u].reg.instance = i
                          /\ users'[u].pc = "released"
<1> USE DEF life
<1>1. ASSUME NEW x \in Live, NEW out \in BOOLEAN, Release(x, out),
             series[x].reg.instance = i, series[x].user # None
      PROVE  \E u \in Users : /\ users[u].pc = "register"
                              /\ users[u].reg.instance = i
                              /\ users'[u].pc = "released"
  BY <1>1, ReleaseType DEF IInv, CallsInv
<1>2. ASSUME NEW x \in Series, SeriesStep(x)
      PROVE  RegisterOnly(x) \/ UpdateBeat(x)
  <2>1. CASE HeartbeatTimerLocked(x)
    BY <2>1, SeriesEffect, <1>2 DEF HeartbeatTimerLocked, Registered
  <2> QED
    BY <1>2, <2>1, SeriesCases
    DEF RegisterFailed, RegisterThenHeartbeat, HeartbeatExited,
        HeartbeatDisabled, HeartbeatAnswered, UpdateDouble,
        UpdateDeregistered, HeartbeatTimerCallback, EndSeries
<1>3. ASSUME NEW x \in Series, SeriesStep(x)
      PROVE  \E u \in Users : /\ users[u].pc = "register"
                              /\ users[u].reg.instance = i
                              /\ users'[u].pc = "released"
  <2>1. x \in Live /\ series[x].reg.instance = i
    BY <1>3, SeriesEffect
  <2>2. CASE RegisterOnly(x)
    <3>1. series[x].user # None
      BY <2>1, <2>2 DEF RegisterOnly, InPhase, IInv, CallsInv
    <3> QED
      BY <1>1, <2>1, <2>2, <3>1 DEF RegisterOnly
  <2>3. CASE UpdateBeat(x)
    <3>1. series[x].user # None
      BY <2>1, <2>3 DEF UpdateBeat, AtUpdate, InPhase, Own, Asking
    <3> QED
      BY <1>1, <2>1, <2>3, <3>1 DEF UpdateBeat
  <2> QED
    BY <1>2, <1>3, <2>2, <2>3
<1>4. ASSUME NEW u \in Users, UserCall(u) \/ UserStep(u)
      PROVE  FALSE
  BY <1>4, SetHeartbeatingType
  DEF UserCall, UserStep, RegisterService, DeregisterNotFound,
      DeregisterService, DeregisterCallback, DeregisterAtOnce, DeregisterWait,
      DeregisterFinish, CallReturn, SetHeartbeating, Registered, IInv, Shape
<1>5. CASE ExitDecrement \/ ExitFinish \/ Terminated \/ UNCHANGED vars
  BY <1>5 DEF ExitDecrement, ExitFinish, Terminated, vars
<1> QED
  BY <1>3, <1>4, <1>5 DEF Step

(* Where no instance is registered again before the chain of its earlier   *)
(* registration has ended, and no wait returns unnotified, only            *)
(* register_service makes an entry, with any number of users, instances    *)
(* and handler threads.                                                    *)
THEOREM OneChainCorrect == NotifiedSpec /\ []OneChain => OnlyUserRegisters
<1> DEFINE AllOwn == \A i \in Instances : Own(i)
           Asked ==
             \A i \in Instances :
               i \notin Registered /\ register_status'[i] # None =>
                 \E u \in Users : /\ users[u].pc = "register"
                                  /\ users[u].reg.instance = i
                                  /\ users'[u].pc = "released"
<1>1. Init => AllOwn
  BY DEF Init, Own, Deregistering, Detained, Resting, Asking, Live, Idle
<1>2. IInv /\ OneChain /\ AllOwn /\ [Step]_vars => AllOwn'
  BY OwnStep
<1>3. IInv /\ AllOwn /\ [Step]_vars => [Asked]_vars
  BY EntryForUser DEF Registered
<1>4. [Step]_vars => [Next]_vars
  BY DEF Next
<1>5. NotifiedSpec => Spec
  BY <1>4, PTL DEF NotifiedSpec, Spec
<1> QED
  BY <1>1, <1>2, <1>3, <1>5, IInvInductive, PTL
  DEF NotifiedSpec, OnlyUserRegisters
-----------------------------------------------------------------------------
(* One registration per host and port.                                     *)

(* No host and port is registered with heartbeats for two services, nor    *)
(* at two intervals.                                                       *)
OneOwner == \A reg, other \in Registrations :
              Beats(reg) /\ Beats(other) /\ reg.instance = other.instance =>
                reg = other

(* The chains that beat are those of registrations with heartbeats.        *)
BeatInv == \A x \in Live : series[x].phase \notin {"register", "end"} =>
                             Beats(series[x].reg)

(* An entry is of a registration of its host and port.                     *)
OwnerInv == \A i \in Registered : register_status[i].reg.instance = i

LEMMA BeatInvStep == IInv /\ BeatInv /\ [Next]_vars => BeatInv'
<1> SUFFICES ASSUME IInv, BeatInv, [Next]_vars PROVE BeatInv'
  OBVIOUS
<1>1. CASE UNCHANGED series
  BY <1>1 DEF BeatInv, Live
<1>2. ASSUME NEW u \in Users, NEW r \in Registrations, NEW x \in Series,
             RegisterService(u, r, x)
      PROVE  BeatInv'
  BY <1>2 DEF RegisterService, BeatInv, Live, IInv, Shape
<1>3. ASSUME NEW x \in Series, SeriesStep(x)
      PROVE  BeatInv'
  <2>1. /\ x \in Live
        /\ \A y \in Series \ {x} : series'[y] = series[y]
        /\ series'[x] = None \/ series'[x].reg = series[x].reg
    BY <1>3, SeriesEffect
  <2>2. ASSUME \/ Advance(x, "end")
               \/ Beats(series[x].reg)
        PROVE  BeatInv'
    <3>1. CASE Advance(x, "end")
      <4>1. series'[x].phase = "end"
        BY <2>1, <3>1, AdvanceType DEF IInv, Phases
      <4> QED
        BY <2>1, <4>1 DEF BeatInv, Live
    <3>2. CASE Beats(series[x].reg)
      BY <2>1, <3>2 DEF BeatInv, Live
    <3> QED
      BY <2>2, <3>1, <3>2
  <2>3. CASE \/ RegisterFailed(x) \/ RegisterOnly(x) \/ RegisterThenHeartbeat(x)
    BY <2>2, <2>3 DEF RegisterFailed, RegisterOnly, RegisterThenHeartbeat
  <2>4. CASE \/ HeartbeatExited(x) \/ HeartbeatDisabled(x)
             \/ HeartbeatAnswered(x) \/ UpdateDouble(x)
             \/ UpdateDeregistered(x) \/ UpdateBeat(x)
             \/ HeartbeatTimerCallback(x) \/ HeartbeatTimerLocked(x)
    <3>1. Beats(series[x].reg)
      BY <2>1, <2>4
      DEF BeatInv, HeartbeatExited, HeartbeatDisabled, HeartbeatAnswered,
          UpdateDouble, UpdateDeregistered, UpdateBeat, AtUpdate,
          HeartbeatTimerCallback, HeartbeatTimerLocked, InPhase
    <3> QED
      BY <2>2, <3>1
  <2>5. CASE EndSeries(x)
    BY <2>1, <2>5 DEF EndSeries, BeatInv, Live, IInv, Shape
  <2> QED
    BY <1>3, <2>3, <2>4, <2>5, SeriesCases
<1> QED
  BY <1>1, <1>2, <1>3, NextCases
  DEF vars, DeregisterNotFound, DeregisterService, DeregisterAtOnce,
      DeregisterWait, DeregisterFinish, CallReturn, SpuriousWakeup,
      ExitDecrement, ExitFinish, Terminated

LEMMA OwnerInvStep == IInv /\ OwnerInv /\ [Next]_vars => OwnerInv'
<1> SUFFICES ASSUME IInv, OwnerInv, [Next]_vars,
                    NEW i \in Instances, register_status'[i] # None
             PROVE  register_status'[i].reg.instance = i
  BY DEF OwnerInv, Registered
<1>1. CASE register_status'[i] = register_status[i]
  BY <1>1 DEF OwnerInv, Registered
<1>2. ASSUME NEW b \in BOOLEAN, NEW reg \in Registrations,
             reg.instance = i, SetHeartbeating(i, b, reg)
      PROVE  register_status'[i].reg.instance = i
  BY <1>2, SetHeartbeatingType DEF IInv
<1>3. ASSUME NEW x \in Series, SeriesStep(x)
      PROVE  register_status'[i].reg.instance = i
  <2>1. CASE series[x].reg.instance # i
    BY <1>1, <1>3, <2>1, SeriesEffect
  <2>2. CASE series[x].reg.instance = i
    <3>1. x \in Live /\ series[x].reg \in Registrations
      BY <1>3, SeriesEffect, LiveType DEF IInv
    <3>2. /\ Owner(i, series[x].reg) \in Registrations
          /\ Owner(i, series[x].reg).instance = i
      BY <2>2, <3>1, OwnerType DEF Owner, OwnerInv, IInv
    <3>3. CASE RegisterOnly(x) \/ UpdateBeat(x) \/ HeartbeatTimerLocked(x)
      BY <1>1, <1>2, <2>2, <3>1, <3>2, <3>3
      DEF RegisterOnly, UpdateBeat, HeartbeatTimerLocked
    <3> QED
      BY <1>1, <1>3, <3>3, SeriesCases
      DEF life, RegisterFailed, RegisterThenHeartbeat, HeartbeatExited,
          HeartbeatDisabled, HeartbeatAnswered, UpdateDouble,
          UpdateDeregistered, HeartbeatTimerCallback, EndSeries
  <2> QED
    BY <2>1, <2>2
<1>4. ASSUME NEW u \in Users, DeregisterAtOnce(u) \/ DeregisterFinish(u)
      PROVE  register_status'[i].reg.instance = i
  BY <1>1, <1>4 DEF DeregisterAtOnce, DeregisterFinish, IInv, Shape
<1>5. ASSUME NEW u \in Users, DeregisterWait(u)
      PROVE  register_status'[i].reg.instance = i
  <2>1. CASE users[u].reg.instance = i
    BY <1>2, <1>5, <2>1, EntryType
    DEF DeregisterWait, Registered, OwnerInv, IInv
  <2>2. CASE users[u].reg.instance # i
    BY <1>1, <1>5, <2>2 DEF DeregisterWait, SetHeartbeating, IInv, Shape
  <2> QED
    BY <2>1, <2>2
<1> QED
  BY <1>1, <1>3, <1>4, <1>5, NextCases
  DEF vars, RegisterService, DeregisterNotFound, DeregisterService,
      CallReturn, SpuriousWakeup, ExitDecrement, ExitFinish, Terminated

(* Where no host and port is registered with heartbeats in two ways, the   *)
(* chain that keeps an instance in the list is of its own registration,    *)
(* for its service and at its interval.                                    *)
THEOREM BeatsItselfCorrect == OneOwner => (Spec => []RegisteredBeatsItself)
<1> SUFFICES ASSUME OneOwner PROVE Spec => []RegisteredBeatsItself
  OBVIOUS
<1>1. Init => BeatInv /\ OwnerInv
  BY DEF Init, BeatInv, OwnerInv, Registered, Live
<1>2. IInv /\ BeatInv /\ OwnerInv /\ [Next]_vars => (BeatInv /\ OwnerInv)'
  BY BeatInvStep, OwnerInvStep
<1>3. ASSUME IInv, BeatInv, OwnerInv, RegisteredIsBeating
      PROVE  RegisteredBeatsItself
  <2> SUFFICES ASSUME NEW i \in Instances, CountedOn(i)
               PROVE  \E x \in Live :
                        /\ series[x].reg = register_status[i].reg
                        /\ series[x].phase \notin {"register", "end"}
    BY DEF RegisteredBeatsItself
  <2>1. PICK x \in Live : /\ series[x].reg.instance = i
                          /\ series[x].phase \notin {"register", "end"}
    BY <1>3 DEF RegisteredIsBeating, Serving
  <2>2. /\ series[x].reg \in Registrations
        /\ Beats(series[x].reg)
    BY <1>3, <2>1, LiveType DEF IInv, BeatInv
  <2>3. /\ register_status[i].reg \in Registrations
        /\ register_status[i].reg.instance = i
        /\ Beats(register_status[i].reg)
    BY <1>3, EntryType DEF IInv, OwnerInv, CountedOn, Registered
  <2> QED
    BY <2>1, <2>2, <2>3 DEF OneOwner
<1> QED
  BY <1>1, <1>2, <1>3, IInvInductive, BeatingCorrect, PTL DEF Spec
=============================================================================

-------------------------- MODULE HeartbeatManager --------------------------
(***************************************************************************)
(* The provider half of Manager (src/src/PolarisManager.cc): register and  *)
(* deregister_service, and the chain of tasks that registers an instance   *)
(* and then sends its heartbeats:                                          *)
(*                                                                         *)
(*   register task -> register_callback -> heartbeat task                  *)
(*   heartbeat task -> heartbeat_callback -> timer                         *)
(*   timer -> heartbeat_timer_callback -> heartbeat task                   *)
(*                                                                         *)
(* deregister_service sends one request of its own, whose callback waits,  *)
(* on a handler thread, for a heartbeat that is on its way.                *)
(*                                                                         *)
(* Actions, maps and FAULT definitions are as in WatchManager.             *)
(***************************************************************************)
EXTENDS Integers, FiniteSets

CONSTANTS
  Services,        \* <namespace, name, token> of the services to provide
  Instances,       \* keys of register_status, "<host>:<port>"
  Registrations,   \* what may be registered: of which service, where, and
                   \* the interval of its heartbeats, 0 for none
  Users,           \* threads that call register and deregister_service
  Series,          \* identities of SeriesWork objects: at most this many
  HandlerThreads,  \* how many handler threads run callbacks
  None             \* no such key, a null pointer

(* 0, and the POLARIS_ERR_ codes, which nothing in Manager tells apart.    *)
Errors == {"NONE", "SOME"}

Provisions == [service : Services, instance : Instances, interval : Nat]

(* With a health check and an interval that is not zero.                   *)
Beats(reg) == reg.interval # 0

(* What the platform knows a registration by.                              *)
Identity(reg) == <<reg.service, reg.instance>>

(* struct register_info, without its condition variable.  `reg' is         *)
(* history: the registration that entered the instance.                    *)
RegisterInfo == [heartbeating : BOOLEAN, reg : Registrations]

(* A SeriesWork with its provider_context.  All its requests are for its   *)
(* own registration, but the entry it looks up is that of its host and     *)
(* port, whichever registration entered it.                                *)
SeriesWork == [reg   : Registrations,
               phase : {"register", "heartbeat", "beat", "timer", "rearm",
                        "end"},
               user  : Users \cup {None}]

(* A user's thread: outside ("idle"), waiting for register_service or for  *)
(* deregister_service, whose callback may be in cond.wait ("blocked") or   *)
(* just woken there ("notified"), and let go by either ("released").       *)
(* `succeeded' is history: the call's own requests did.                    *)
User == [pc        : {"idle", "register", "deregister", "blocked", "notified",
                      "released"},
         reg       : Provisions \cup {None},
         succeeded : BOOLEAN]

ASSUME RegistrationsAssumption == Registrations \subseteq Provisions

ASSUME SeriesAssumption == IsFiniteSet(Series)

ASSUME HandlerThreadsAssumption == HandlerThreads \in Nat \ {0}

ASSUME NoneAssumption == /\ None \notin Provisions
                         /\ None \notin Users
                         /\ None \notin RegisterInfo
                         /\ None \notin SeriesWork

VARIABLES
  ref,              \* Manager::ref
  status,           \* Manager::status
  error,            \* Manager::error
  register_status,  \* Manager::register_status
  series,           \* the live SeriesWork objects
  users,            \* the callers' threads, with their deregister tasks
  handle,           \* the PolarisManager: "open", "exiting" (it holds the
                    \* mutex, in exit_locked) or "gone"
  platform          \* external: the registrations the platform knows of

life == <<ref, status, handle>>
vars == <<life, error, register_status, series, users, platform>>

-----------------------------------------------------------------------------
Idle == [pc |-> "idle", reg |-> None, succeeded |-> FALSE]

Init == /\ ref = 1
        /\ \/ status = "INIT_SUCCESS" /\ error = "NONE"
           \/ status = "INIT_FAILED"  /\ error = "SOME"
        /\ register_status = [i \in Instances |-> None]
        /\ series          = [x \in Series |-> None]
        /\ users           = [u \in Users |-> Idle]
        /\ handle          = "open"
        /\ platform        = {}

(* The keys of register_status: what get_register_list reports.            *)
Registered == {i \in Instances : register_status[i] # None}

Live == {x \in Series : series[x] # None}

InPhase(x, phase) == x \in Live /\ series[x].phase = phase

MutexFree == handle # "exiting"

(* The deregister_callbacks that hold a handler thread in cond.wait.       *)
Blocked == {u \in Users : users[u].pc \in {"blocked", "notified"}}

ThreadFree == Cardinality(Blocked) < HandlerThreads

MayCall(u) == /\ handle = "open"
              /\ status # "INIT_FAILED"
              /\ users[u].pc = "idle"

Deregistering(i) ==
  {u \in Users : /\ users[u].pc \in {"deregister", "blocked", "notified"}
                 /\ users[u].reg.instance = i}

-----------------------------------------------------------------------------
(* FAULT: the error is not recorded.                                       *)
FailSilently == UNCHANGED error

(* Manager::error is one for all calls and is never reset.                 *)
Fail == error' = "SOME"

(* register_status[i].heartbeating of an entry that is there or, in        *)
(* operator[], of one that this makes.                                     *)
SetHeartbeating(i, heartbeating, reg) ==
  register_status' =
    [register_status EXCEPT ![i] = [heartbeating |-> heartbeating,
                                    reg          |-> reg]]

(* An entry stays whose it was, also when another registration's heartbeat *)
(* or timer finds it; one that this makes belongs to reg.                  *)
Owner(i, reg) == IF i \in Registered THEN register_status[i].reg ELSE reg

(* FAULT: the WaitGroup is forgotten on the early returns.                 *)
ReleaseOnSuccessOnly(x, succeeded) ==
  users' = [u \in Users |->
              IF u = series[x].user /\ succeeded
              THEN [users[u] EXCEPT !.pc = "released", !.succeeded = TRUE]
              ELSE users[u]]

(* user_data->done() of the task that series x runs, if it has user_data.  *)
Release(x, succeeded) ==
  users' = [u \in Users |->
              IF u = series[x].user
              THEN [users[u] EXCEPT !.pc = "released", !.succeeded = succeeded]
              ELSE users[u]]

(* The callback of the running task returns; a new task is in `phase'.     *)
Advance(x, phase) ==
  series' = [series EXCEPT ![x].phase = phase, ![x].user = None]

(* The same, and the new task keeps the user_data.                         *)
AdvanceForUser(x, phase) == series' = [series EXCEPT ![x].phase = phase]

-----------------------------------------------------------------------------
(* register_service up to wait_group.wait().                               *)
RegisterService(u, reg, x) ==
  /\ MayCall(u)
  /\ x \notin Live
  /\ ref' = ref + 1
  /\ series' = [series EXCEPT ![x] = [reg |-> reg, phase |-> "register",
                                      user |-> u]]
  /\ users' = [users EXCEPT ![u] = [pc |-> "register", reg |-> reg,
                                    succeeded |-> FALSE]]
  /\ UNCHANGED <<status, handle, error, register_status, platform>>

(* register_callback.  A request that failed may still have reached the    *)
(* platform.                                                               *)
RegisterFailed(x) ==
  /\ InPhase(x, "register")
  /\ ThreadFree
  /\ platform' \in {platform, platform \cup {Identity(series[x].reg)}}
  /\ Fail
  /\ Release(x, FALSE)
  /\ Advance(x, "end")
  /\ UNCHANGED <<life, register_status>>

(* FAULT: the state of the task is not looked at, as in                    *)
(* deregister_callback.                                                    *)
RegisterThenHeartbeatAnyway(x) ==
  /\ InPhase(x, "register")
  /\ ThreadFree
  /\ Beats(series[x].reg)
  /\ platform' \in {platform, platform \cup {Identity(series[x].reg)}}
  /\ AdvanceForUser(x, "heartbeat")
  /\ UNCHANGED <<life, error, register_status, users>>

(* With a health check the first heartbeat follows, still on the user's    *)
(* time.                                                                   *)
RegisterThenHeartbeat(x) ==
  /\ InPhase(x, "register")
  /\ ThreadFree
  /\ Beats(series[x].reg)
  /\ platform' = platform \cup {Identity(series[x].reg)}
  /\ AdvanceForUser(x, "heartbeat")
  /\ UNCHANGED <<life, error, register_status, users>>

RegisterOnly(x) ==
  /\ InPhase(x, "register")
  /\ ThreadFree
  /\ MutexFree
  /\ ~Beats(series[x].reg)
  /\ platform' = platform \cup {Identity(series[x].reg)}
  /\ SetHeartbeating(series[x].reg.instance, FALSE, series[x].reg)
  /\ Release(x, TRUE)
  /\ Advance(x, "end")
  /\ UNCHANGED <<life, error>>

RegisterCallback(x) == \/ RegisterFailed(x)
                       \/ RegisterThenHeartbeat(x)
                       \/ RegisterOnly(x)

-----------------------------------------------------------------------------
(* heartbeat_callback up to its lock.                                      *)

HeartbeatExited(x) ==
  /\ InPhase(x, "heartbeat")
  /\ ThreadFree
  /\ status = "MANAGER_EXITED"
  /\ Advance(x, "end")
  /\ UNCHANGED <<life, error, register_status, users, platform>>

(* The first heartbeat learns that the platform does no health check.      *)
HeartbeatDisabled(x) ==
  /\ InPhase(x, "heartbeat")
  /\ ThreadFree
  /\ status # "MANAGER_EXITED"
  /\ series[x].user # None
  /\ Fail
  /\ Release(x, FALSE)
  /\ Advance(x, "end")
  /\ UNCHANGED <<life, register_status, platform>>

(* FAULT: a periodic heartbeat that failed ends its chain.                 *)
HeartbeatAnsweredOrStop(x) ==
  /\ InPhase(x, "heartbeat")
  /\ ThreadFree
  /\ status # "MANAGER_EXITED"
  /\ \/ AdvanceForUser(x, "beat")
     \/ series[x].user = None /\ Advance(x, "end")
  /\ UNCHANGED <<life, error, register_status, users, platform>>

(* Any other answer, success or failure, does not matter.                  *)
HeartbeatAnswered(x) ==
  /\ InPhase(x, "heartbeat")
  /\ ThreadFree
  /\ status # "MANAGER_EXITED"
  /\ AdvanceForUser(x, "beat")
  /\ UNCHANGED <<life, error, register_status, users, platform>>

HeartbeatCallback(x) == \/ HeartbeatExited(x)
                        \/ HeartbeatDisabled(x)
                        \/ HeartbeatAnswered(x)

-----------------------------------------------------------------------------
(* heartbeat_callback from its lock on: update_heartbeat_locked, the next  *)
(* timer, and the user's WaitGroup.                                        *)

AtUpdate(x) == InPhase(x, "beat") /\ ThreadFree /\ MutexFree

(* Registered already: DOUBLE_OPERATION.                                   *)
UpdateDouble(x) ==
  /\ AtUpdate(x)
  /\ series[x].reg.instance \in Registered
  /\ series[x].user # None
  /\ Fail
  /\ Release(x, FALSE)
  /\ Advance(x, "end")
  /\ UNCHANGED <<life, register_status, platform>>

(* FAULT: the waiter is not woken.                                         *)
NotifyNobody(i) == UNCHANGED users

(* cond.notify_one() of the entry of i, and its waiter wakes up.           *)
NotifyOne(i) ==
  users' = [u \in Users |->
              IF users[u].pc = "blocked" /\ users[u].reg.instance = i
              THEN [users[u] EXCEPT !.pc = "notified"]
              ELSE users[u]]

(* Someone is calling deregister(): he is woken, and the chain ends.       *)
UpdateDeregistered(x) ==
  /\ AtUpdate(x)
  /\ series[x].reg.instance \in Registered
  /\ series[x].user = None
  /\ ~register_status[series[x].reg.instance].heartbeating
  /\ NotifyOne(series[x].reg.instance)
  /\ Advance(x, "end")
  /\ UNCHANGED <<life, error, register_status, platform>>

(* The entry is made or made anew, for a user or not, and the timer set.   *)
UpdateBeat(x) ==
  /\ AtUpdate(x)
  /\ series[x].reg.instance \in Registered =>
       /\ series[x].user = None
       /\ register_status[series[x].reg.instance].heartbeating
  /\ SetHeartbeating(series[x].reg.instance, FALSE,
                     Owner(series[x].reg.instance, series[x].reg))
  /\ Release(x, TRUE)
  /\ Advance(x, "timer")
  /\ UNCHANGED <<life, error, platform>>

UpdateHeartbeatLocked(x) == \/ UpdateDouble(x)
                            \/ UpdateDeregistered(x)
                            \/ UpdateBeat(x)

-----------------------------------------------------------------------------
(* heartbeat_timer_callback: its unlocked read of the status, then its     *)
(* critical section, where it takes any entry of its name.                 *)
HeartbeatTimerCallback(x) ==
  /\ InPhase(x, "timer")
  /\ ThreadFree
  /\ Advance(x, IF status = "MANAGER_EXITED" THEN "end" ELSE "rearm")
  /\ UNCHANGED <<life, error, register_status, users, platform>>

(* FAULT: operator[] instead of find makes the entry when it is gone.      *)
HeartbeatTimerLockedMakes(x) ==
  /\ InPhase(x, "rearm")
  /\ ThreadFree
  /\ MutexFree
  /\ SetHeartbeating(series[x].reg.instance, TRUE,
                     Owner(series[x].reg.instance, series[x].reg))
  /\ Advance(x, "heartbeat")
  /\ UNCHANGED <<life, error, users, platform>>

HeartbeatTimerLocked(x) ==
  /\ InPhase(x, "rearm")
  /\ ThreadFree
  /\ MutexFree
  /\ IF series[x].reg.instance \in Registered
     THEN /\ SetHeartbeating(series[x].reg.instance, TRUE,
                             Owner(series[x].reg.instance, series[x].reg))
          /\ Advance(x, "heartbeat")
     ELSE UNCHANGED register_status /\ Advance(x, "end")
  /\ UNCHANGED <<life, error, users, platform>>

(* FAULT: a reference is given back twice.                                 *)
EndSeriesTwice(x) ==
  /\ InPhase(x, "end")
  /\ ThreadFree
  /\ ref' = ref - 2
  /\ series' = [series EXCEPT ![x] = None]
  /\ UNCHANGED <<status, handle, error, register_status, users, platform>>

(* The callback of the series: decref, without the mutex.                  *)
EndSeries(x) ==
  /\ InPhase(x, "end")
  /\ ThreadFree
  /\ ref' = ref - 1
  /\ series' = [series EXCEPT ![x] = None]
  /\ UNCHANGED <<status, handle, error, register_status, users, platform>>

-----------------------------------------------------------------------------
(* deregister_service.  Precondition of the calls: nobody else is          *)
(* deregistering i (the second would erase the condition variable under    *)
(* the first).                                                             *)
MayDeregister(u, i) == MayCall(u) /\ Deregistering(i) = {}

DeregisterNotFound(u, i) ==
  /\ MayDeregister(u, i)
  /\ i \notin Registered
  /\ Fail
  /\ UNCHANGED <<life, register_status, series, users, platform>>

(* Whatever service it is for: the entry is that of the host and port.     *)
DeregisterService(u, s, i) ==
  /\ MayDeregister(u, i)
  /\ i \in Registered
  /\ users' = [users EXCEPT
                 ![u] = [pc |-> "deregister",
                         reg |-> [service |-> s, instance |-> i, interval |-> 0],
                         succeeded |-> FALSE]]
  /\ UNCHANGED <<life, error, register_status, series, platform>>

ReleaseDeregister(u) ==
  users' = [users EXCEPT ![u].pc = "released", ![u].succeeded = TRUE]

(* deregister_callback does not look at the state of its task: the         *)
(* platform may have removed the registration or not.                      *)
PlatformDeregisters(reg) ==
  platform' \in {platform, platform \ {Identity(reg)}}

(* The lock of deregister_callback, with nothing to wait for.              *)
DeregisterAtOnce(u) ==
  LET i == users[u].reg.instance
  IN  /\ users[u].pc = "deregister"
      /\ ThreadFree
      /\ MutexFree
      /\ i \in Registered => ~register_status[i].heartbeating
      /\ PlatformDeregisters(users[u].reg)
      /\ register_status' = [register_status EXCEPT ![i] = None]
      /\ ReleaseDeregister(u)
      /\ UNCHANGED <<life, error, series>>

(* A heartbeat is on its way: the callback waits for it on its thread.     *)
DeregisterWait(u) ==
  LET i == users[u].reg.instance
  IN  /\ users[u].pc = "deregister"
      /\ ThreadFree
      /\ MutexFree
      /\ i \in Registered
      /\ register_status[i].heartbeating
      /\ PlatformDeregisters(users[u].reg)
      /\ SetHeartbeating(i, FALSE, register_status[i].reg)
      /\ users' = [users EXCEPT ![u].pc = "blocked"]
      /\ UNCHANGED <<life, error, series>>

DeregisterCallback(u) == DeregisterAtOnce(u) \/ DeregisterWait(u)

(* cond.wait has no predicate.                                             *)
SpuriousWakeup(u) ==
  /\ users[u].pc = "blocked"
  /\ users' = [users EXCEPT ![u].pc = "notified"]
  /\ UNCHANGED <<life, error, register_status, series, platform>>

DeregisterFinish(u) ==
  /\ users[u].pc = "notified"
  /\ MutexFree
  /\ register_status' = [register_status EXCEPT ![users[u].reg.instance] = None]
  /\ ReleaseDeregister(u)
  /\ UNCHANGED <<life, error, series, platform>>

(* Both calls return `error == 0 ? 0 : -1'.                                *)
CallReturn(u) ==
  /\ users[u].pc = "released"
  /\ users' = [users EXCEPT ![u] = Idle]
  /\ UNCHANGED <<life, error, register_status, series, platform>>

-----------------------------------------------------------------------------
(* exit_locked, called by ~PolarisManager when no user is in a call.       *)
ExitDecrement ==
  /\ handle = "open"
  /\ \A u \in Users : users[u].pc = "idle"
  /\ ref' = ref - 1
  /\ handle' = IF ref' = 0 THEN "gone" ELSE "exiting"
  /\ UNCHANGED <<status, error, register_status, series, users, platform>>

ExitFinish ==
  /\ handle = "exiting"
  /\ status' = "MANAGER_EXITED"
  /\ handle' = "gone"
  /\ UNCHANGED <<ref, error, register_status, series, users, platform>>

(* All is freed: not a deadlock.                                           *)
Terminated == ref = 0 /\ handle = "gone" /\ UNCHANGED vars

UserCall(u) ==
  \/ \E reg \in Registrations, x \in Series : RegisterService(u, reg, x)
  \/ \E i \in Instances : \/ DeregisterNotFound(u, i)
                         \/ \E s \in Services : DeregisterService(u, s, i)

UserStep(u) == \/ DeregisterCallback(u)
               \/ DeregisterFinish(u)
               \/ CallReturn(u)

SeriesStep(x) == \/ RegisterCallback(x)
                 \/ HeartbeatCallback(x)
                 \/ UpdateHeartbeatLocked(x)
                 \/ HeartbeatTimerCallback(x)
                 \/ HeartbeatTimerLocked(x)
                 \/ EndSeries(x)

(* Every step but a wakeup that nobody asked for.                          *)
Step == \/ \E u \in Users : UserCall(u) \/ UserStep(u)
        \/ \E x \in Series : SeriesStep(x)
        \/ ExitDecrement
        \/ ExitFinish
        \/ Terminated

Next == Step \/ \E u \in Users : SpuriousWakeup(u)

Spec == Init /\ [][Next]_vars

(* Requests end (by an answer or a timeout), free handler threads run the  *)
(* callbacks, and a thread that was let go runs on.  Nobody has to call.   *)
Fairness == /\ \A x \in Series : WF_vars(SeriesStep(x))
            /\ \A u \in Users : WF_vars(UserStep(u))
            /\ WF_vars(ExitFinish)

(* On a platform whose condition variables wake only when notified.        *)
NotifiedSpec == Init /\ [][Step]_vars /\ Fairness
-----------------------------------------------------------------------------
(* Properties.                                                             *)

(* Every variable keeps to the shape of the C++ member it stands for.      *)
TypeOK == /\ ref \in Nat
          /\ status \in {"INIT_SUCCESS", "INIT_FAILED", "MANAGER_EXITED"}
          /\ error \in Errors
          /\ register_status \in [Instances -> RegisterInfo \cup {None}]
          /\ series \in [Series -> SeriesWork \cup {None}]
          /\ users \in [Users -> User]
          /\ handle \in {"open", "exiting", "gone"}
          /\ platform \subseteq Services \X Instances

(* The chains that beat for an instance, as the flag of its entry says:    *)
(* `heartbeating' false, a timer is pending; true, a heartbeat is on its   *)
(* way.                                                                    *)
Serving(i) ==
  {x \in Live : /\ series[x].reg.instance = i
                /\ series[x].user = None
                /\ IF register_status[i].heartbeating
                   THEN series[x].phase \in {"heartbeat", "beat"}
                   ELSE series[x].phase \in {"timer", "rearm"}}

(* An entry whose heartbeats are counted on: with a health check, and      *)
(* nobody is told to take it away.                                         *)
CountedOn(i) == /\ i \in Registered
                /\ status # "MANAGER_EXITED"
                /\ Beats(register_status[i].reg)
                /\ Deregistering(i) \cap Blocked = {}

(* Heartbeats for such an instance go on, however the chains of earlier    *)
(* registrations of its host and port, for whichever service, mix with the *)
(* present one: some chain beats, and does what the flag says.  Whose it   *)
(* is this does not say: where two registrations with heartbeats share a   *)
(* host and port it may be the other's (RegisteredBeatsItself).            *)
RegisteredIsBeating ==
  \A i \in Instances : CountedOn(i) => Serving(i) # {}

(* README.md:188: with a health check heartbeats are sent at the interval  *)
(* of the registration.  So an instance in the list has a chain of its own *)
(* registration, for its service and at its interval: no chain that an     *)
(* earlier registration of the host and port, for another service or with  *)
(* another interval, has left takes over the entry and ends it.            *)
RegisteredBeatsItself ==
  \A i \in Instances : CountedOn(i) =>
    \E x \in Live : /\ series[x].reg = register_status[i].reg
                    /\ series[x].phase \notin {"register", "end"}

(* register_service returns 0 only when its own requests succeeded, though *)
(* what it returns is read from the one error that all calls share.        *)
RegisterOkAccepted ==
  \A u \in Users : users[u].pc = "released" /\ error = "NONE" =>
                      users[u].succeeded

(* The registrations whose heartbeats some chain keeps sending.            *)
Kept == {reg \in Registrations :
           \E x \in Live : /\ series[x].reg = reg
                           /\ series[x].user = None
                           /\ series[x].phase \notin {"register", "end"}}

(* The platform has accepted what u registers.                             *)
Accepted(u) ==
  \E x \in Live : series[x].user = u /\ series[x].phase # "register"

Stage(u) ==
  CASE users[u].pc = "idle"       -> "none"
    [] users[u].pc = "register"   -> IF Accepted(u) THEN "accepted" ELSE "asked"
    [] users[u].pc = "deregister" -> "leaving"
    [] users[u].pc = "released"   -> "answered"
    [] OTHER                      -> "told"

Call(u) == [stage |-> Stage(u), reg |-> users[u].reg]

Listing(i) == IF register_status[i] = None THEN None ELSE register_status[i].reg

Abstract == INSTANCE RegisteredService
              WITH listed <- [i \in Instances |-> Listing(i)],
                   kept   <- Kept,
                   calls  <- [u \in Users |-> Call(u)],
                   failed <- (error # "NONE"),
                   closed <- (handle # "open")

(* The provider implements RegisteredService: although chains of earlier   *)
(* registrations, of other services too, share the entry, the flag and the *)
(* condition variable of a host and port, an instance is listed only after *)
(* the platform accepted it, no step but a deregistration takes it off the *)
(* list, and heartbeats end only when they are not counted on or give way  *)
(* to those of another registration of the same host and port.             *)
ImplementsRegisteredService == Abstract!Spec

(* Every register_service and every deregister_service returns.            *)
RegisterReturns ==
  \A u \in Users : users[u].pc = "register" ~> users[u].pc = "idle"

DeregisterReturns ==
  \A u \in Users : users[u].pc = "deregister" ~> users[u].pc = "idle"

(* README.md:190: deregister_service stops the periodic heartbeats.  So    *)
(* only register_service makes an entry: no heartbeat that comes back late *)
(* enters an instance again (and sets the timer of the next heartbeat).    *)
OnlyUserRegisters ==
  [][\A i \in Instances :
       i \notin Registered /\ register_status'[i] # None =>
         \E u \in Users : /\ users[u].pc = "register"
                          /\ users[u].reg.instance = i
                          /\ users'[u].pc = "released"]_vars
=============================================================================

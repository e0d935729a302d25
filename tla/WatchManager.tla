---------------------------- MODULE WatchManager ----------------------------
(***************************************************************************)
(* The consumer half of Manager (src/src/PolarisManager.cc): what          *)
(* watch_service and unwatch_service do, and the chain of tasks that a     *)
(* watch leaves behind.  One watch is one SeriesWork of the workflow       *)
(* library, whose tasks follow each other:                                 *)
(*                                                                         *)
(*   discover task -> discover_callback -> timer -> discover_timer_callback*)
(*        ^                                                     |          *)
(*        +-----------------------------------------------------+          *)
(*                                                                         *)
(* Callbacks of different series run on different handler threads and meet *)
(* the calls of the users' threads at Manager::mutex.  An action is a      *)
(* stretch of code that no other thread can cut: a critical section, with  *)
(* the thread-local code that follows it, or the code before it.           *)
(*                                                                         *)
(* A std::unordered_map is a function from every key to its value or, for  *)
(* a key that is absent, to None.                                          *)
(*                                                                         *)
(* A definition marked FAULT is not part of the specification: it is the   *)
(* definition below it with a plausible bug, kept to show that a property  *)
(* notices.                                                                *)
(***************************************************************************)
EXTENDS Integers, FiniteSets

CONSTANTS
  Services,   \* policy names, "<namespace>.<service>"
  Users,      \* threads that call watch_service and unwatch_service
  Series,     \* identities of SeriesWork objects: at most this many at once
  MaxRev,     \* bound: how often the platform changes the data of a service
  Parts,      \* what a policy is made of: its instances, and for every source
              \* name its inbound and its outbound rules
  Table,      \* which member of the policy a part is in
  Listed,     \* the names that the rules of a revision have rules for
  None        \* no such key, a null pointer, no answer

(* What the platform publishes of a service, each part under a revision of *)
(* its own: its instances and its routing rules.                           *)
Kinds == {"instances", "rules"}

(* The revision "" of a watch_info that was just made.                     *)
NoRev == -1

Revisions == 0 .. MaxRev
Data      == [Kinds -> Revisions]
Cached    == [Kinds -> Revisions \cup {NoRev}]

(* The three members of a policy that an answer is written to, each under  *)
(* a lock of its own, and the half of the answer that goes there.          *)
Tables == {"instances", "inbounds", "outbounds"}

KindOf(table) == IF table = "instances" THEN "instances" ELSE "rules"

(* The revision of which a policy holds every part, NoRev for an empty one.*)
Policies == [Parts -> Revisions \cup {NoRev}]

(* 0, and the POLARIS_ERR_ codes, which nothing in Manager tells apart.    *)
Errors == {"NONE", "SOME"}

(* struct watch_info, without its condition variable: a thread that waits  *)
(* on it is a user whose pc is "unwatch".                                  *)
WatchInfo == [watching : BOOLEAN, revision : Cached]

(* A SeriesWork with its consumer_context: where its chain is, the user    *)
(* whose WaitGroup the running task carries as user_data, and what that    *)
(* task brought home (None: it failed).                                    *)
(* In a phase that is named after a table its callback holds the mutex and *)
(* is about to write that table.                                           *)
SeriesWork == [service : Services,
               phase   : {"discover", "update", "timer", "rearm", "end"}
                           \cup Tables,
               user    : Users \cup {None},
               answer  : Data \cup {None}]

(* A user's thread: outside of the Manager ("idle"), in wait_group.wait()  *)
(* of watch_service ("watch"), let go by it ("released"), in cond.wait of  *)
(* unwatch_service ("unwatch"), or woken there and about to take the mutex *)
(* again ("notified").  `installed' is history: the call's own answer was  *)
(* handed to a policy.                                                     *)
User == [pc        : {"idle", "watch", "released", "unwatch", "notified"},
         service   : Services \cup {None},
         installed : BOOLEAN]

ASSUME MaxRevAssumption == MaxRev \in Nat

ASSUME PartsAssumption == /\ Table \in [Parts -> Tables]
                          /\ Listed \in [Revisions -> SUBSET Parts]

ASSUME SeriesAssumption == IsFiniteSet(Series)

ASSUME NoneAssumption == /\ None \notin Users
                         /\ None \notin Services
                         /\ None \notin WatchInfo
                         /\ None \notin SeriesWork
                         /\ None \notin Data
                         /\ None \notin Policies

VARIABLES
  ref,               \* Manager::ref
  status,            \* Manager::status
  error,             \* Manager::error
  watch_status,      \* Manager::watch_status
  unwatch_policies,  \* Manager::unwatch_policies: what each policy holds
  name_service,      \* WFGlobal's name service: what each policy holds
  series,            \* the live SeriesWork objects
  users,             \* the callers' threads
  handle,            \* the PolarisManager that owns the Manager: "open", in
                     \* exit_locked ("exiting": it holds the mutex) or "gone"
  server             \* the platform's current revisions

life   == <<ref, status, handle>>
tables == <<watch_status, unwatch_policies, name_service>>
vars   == <<life, error, tables, series, users, server>>

-----------------------------------------------------------------------------
Idle == [pc |-> "idle", service |-> None, installed |-> FALSE]

NoData == [k \in Kinds |-> NoRev]

(* A policy that was just constructed.                                     *)
EmptyPolicy == [p \in Parts |-> NoRev]

Init == /\ ref = 1
        /\ \/ status = "INIT_SUCCESS" /\ error = "NONE"
           \/ status = "INIT_FAILED"  /\ error = "SOME"
        /\ watch_status     = [s \in Services |-> None]
        /\ unwatch_policies = [s \in Services |-> None]
        /\ name_service     = [s \in Services |-> None]
        /\ series           = [x \in Series |-> None]
        /\ users            = [u \in Users |-> Idle]
        /\ handle           = "open"
        /\ server           = [s \in Services |-> [k \in Kinds |-> 0]]

(* The keys of watch_status: what get_watching_list reports.               *)
Watching == {s \in Services : watch_status[s] # None}

Live == {x \in Series : series[x] # None}

InPhase(x, phase) == x \in Live /\ series[x].phase = phase

(* Writing the parts of a policy: select, which takes no Manager mutex,    *)
(* sees it as it is between the steps.                                     *)
Writing(x) == x \in Live /\ series[x].phase \in Tables

BeingWritten(s) == \E x \in Series : Writing(x) /\ series[x].service = s

(* Manager::mutex is held only inside actions, but for exit_locked and for *)
(* the writing of a policy.                                                *)
MutexFree == handle # "exiting" /\ \A x \in Series : ~Writing(x)

MayCall(u) == /\ handle = "open"
              /\ status # "INIT_FAILED"
              /\ users[u].pc = "idle"

(* The users that wait, or were just woken, inside unwatch_service(s).     *)
Unwatching(s) == {u \in Users : /\ users[u].service = s
                                /\ users[u].pc \in {"unwatch", "notified"}}

-----------------------------------------------------------------------------
(* FAULT: the error is not recorded.                                       *)
FailSilently == UNCHANGED error

(* Manager::error is one for all calls and is never reset.                 *)
Fail == error' = "SOME"

(* FAULT: an entry is not told that a request is on its way, nor that      *)
(* someone unwatches it.                                                   *)
SetWatchingNot(s, watching) == UNCHANGED watch_status

SetWatching(s, watching) ==
  watch_status' = [watch_status EXCEPT ![s].watching = watching]

(* FAULT: a series takes no reference.                                     *)
IncRefNot == UNCHANGED ref

IncRef == ref' = ref + 1

(* FAULT: a reference is given back twice.                                 *)
DecRefTwice ==
  /\ ref' = ref - 2
  /\ unwatch_policies' = IF ref' = 0 THEN [s \in Services |-> None]
                                     ELSE unwatch_policies

(* FAULT: a reference is never given back.                                 *)
DecRefNot == UNCHANGED <<ref, unwatch_policies>>

(* The last reference deletes the Manager, and ~Manager the policies that  *)
(* are in unwatch_policies.                                                *)
DecRef ==
  /\ ref' = ref - 1
  /\ unwatch_policies' = IF ref' = 0 THEN [s \in Services |-> None]
                                     ELSE unwatch_policies

(* FAULT: the WaitGroup is forgotten on the early returns.                 *)
ReleaseOnSuccessOnly(x, installed) ==
  users' = [u \in Users |->
              IF u = series[x].user /\ installed
              THEN [users[u] EXCEPT !.pc = "released", !.installed = TRUE]
              ELSE users[u]]

(* user_data->done() of the task that series x runs, if it has user_data.  *)
Release(x, installed) ==
  users' = [u \in Users |->
              IF u = series[x].user
              THEN [users[u] EXCEPT !.pc = "released", !.installed = installed]
              ELSE users[u]]

(* The callback of the running task returns; a new task is in `phase'.     *)
Advance(x, phase) ==
  series' = [series EXCEPT ![x].phase = phase, ![x].user = None,
                           ![x].answer = None]

-----------------------------------------------------------------------------
(* watch_service, up to wait_group.wait(): the first discover task starts, *)
(* in a series that holds a reference to the Manager.                      *)
WatchService(u, s, x) ==
  /\ MayCall(u)
  /\ x \notin Live
  /\ IncRef
  /\ series' = [series EXCEPT ![x] = [service |-> s, phase |-> "discover",
                                      user |-> u, answer |-> None]]
  /\ users' = [users EXCEPT ![u] = [pc |-> "watch", service |-> s,
                                    installed |-> FALSE]]
  /\ UNCHANGED <<status, handle, error, tables, server>>

(* The thread returns `error == 0 ? 0 : -1'.                               *)
WatchReturn(u) ==
  /\ users[u].pc = "released"
  /\ users' = [users EXCEPT ![u] = Idle]
  /\ UNCHANGED <<life, error, tables, series, server>>

-----------------------------------------------------------------------------
(* unwatch_service.  Precondition of the calls: nobody else is unwatching  *)
(* s (the second would erase the condition variable under the first).      *)

(* FAULT: the policy stays in the name service.                            *)
RemoveWatchNoDelPolicy(s) ==
  /\ watch_status' = [watch_status EXCEPT ![s] = None]
  /\ unwatch_policies' = [unwatch_policies EXCEPT ![s] = name_service[s]]
  /\ UNCHANGED name_service

(* FAULT: the policy is not put aside.                                     *)
RemoveWatchNoEmplace(s) ==
  /\ watch_status' = [watch_status EXCEPT ![s] = None]
  /\ name_service' = [name_service EXCEPT ![s] = None]
  /\ UNCHANGED unwatch_policies

(* The tail of unwatch_service: the entry goes, and the policy moves from  *)
(* the name service to unwatch_policies, where emplace does not replace    *)
(* what is there.                                                          *)
RemoveWatch(s) ==
  /\ watch_status' = [watch_status EXCEPT ![s] = None]
  /\ name_service' = [name_service EXCEPT ![s] = None]
  /\ unwatch_policies' = IF unwatch_policies[s] = None
                         THEN [unwatch_policies EXCEPT ![s] = name_service[s]]
                         ELSE unwatch_policies

MayUnwatch(u, s) == MayCall(u) /\ MutexFree /\ Unwatching(s) = {}

UnwatchNotFound(u, s) ==
  /\ MayUnwatch(u, s)
  /\ s \notin Watching
  /\ Fail
  /\ UNCHANGED <<life, tables, series, users, server>>

(* No request is on its way: the entry is removed at once.                 *)
UnwatchAtOnce(u, s) ==
  /\ MayUnwatch(u, s)
  /\ s \in Watching
  /\ ~watch_status[s].watching
  /\ RemoveWatch(s)
  /\ UNCHANGED <<life, error, series, users, server>>

(* A request is on its way: the flag tells its callback to wake us.        *)
UnwatchWait(u, s) ==
  /\ MayUnwatch(u, s)
  /\ s \in Watching
  /\ watch_status[s].watching
  /\ SetWatching(s, FALSE)
  /\ users' = [users EXCEPT ![u] = [pc |-> "unwatch", service |-> s,
                                    installed |-> FALSE]]
  /\ UNCHANGED <<life, error, unwatch_policies, name_service, series, server>>

(* cond.wait has no predicate: it may return though nobody notified it.    *)
SpuriousWakeup(u) ==
  /\ users[u].pc = "unwatch"
  /\ users' = [users EXCEPT ![u].pc = "notified"]
  /\ UNCHANGED <<life, error, tables, series, server>>

UnwatchFinish(u) ==
  /\ users[u].pc = "notified"
  /\ MutexFree
  /\ RemoveWatch(users[u].service)
  /\ users' = [users EXCEPT ![u] = Idle]
  /\ UNCHANGED <<life, error, series, server>>

-----------------------------------------------------------------------------
(* discover_callback up to its lock.                                       *)

(* After the PolarisManager is gone the chain stops.                       *)
DiscoverExited(x) ==
  /\ InPhase(x, "discover")
  /\ status = "MANAGER_EXITED"
  /\ Advance(x, "end")
  /\ UNCHANGED <<life, error, tables, users, server>>

(* What the discover task brings: on success both bodies, which            *)
(* get_discover_result and get_route_result can always read (a task        *)
(* succeeds only with both), and nothing on failure.                       *)
Answers(x) == {server[series[x].service], None}

GoUpdate(x, answer) ==
  series' = [series EXCEPT ![x].phase = "update", ![x].answer = answer]

(* A user's first request: set_error on failure, and an early return when  *)
(* Manager::error is set, by this task or by anything that came before it. *)
DiscoverForUser(x, answer) ==
  /\ series[x].user # None
  /\ IF answer = None THEN Fail ELSE UNCHANGED error
  /\ IF error' # "NONE"
     THEN Release(x, FALSE) /\ Advance(x, "end")
     ELSE GoUpdate(x, answer) /\ UNCHANGED users

(* FAULT: a periodic request that failed ends its chain.                   *)
DiscoverForRefreshOrStop(x, answer) ==
  /\ series[x].user = None
  /\ IF answer = None THEN Advance(x, "end") ELSE GoUpdate(x, answer)
  /\ UNCHANGED <<error, users>>

(* A periodic request: a failure is not reported, it only leaves nothing   *)
(* to update.                                                              *)
DiscoverForRefresh(x, answer) ==
  /\ series[x].user = None
  /\ GoUpdate(x, answer)
  /\ UNCHANGED <<error, users>>

DiscoverCallback(x, answer) ==
  /\ InPhase(x, "discover")
  /\ status # "MANAGER_EXITED"
  /\ DiscoverForUser(x, answer) \/ DiscoverForRefresh(x, answer)
  /\ UNCHANGED <<life, tables, server>>

-----------------------------------------------------------------------------
(* discover_callback from its lock on: update_policy_locked, the next      *)
(* timer, and the user's WaitGroup.                                        *)

AtUpdate(x) == InPhase(x, "update") /\ MutexFree

(* The service is watched already: POLARIS_ERR_DOUBLE_OPERATION.           *)
UpdateDouble(x) ==
  /\ AtUpdate(x)
  /\ series[x].service \in Watching
  /\ series[x].user # None
  /\ Fail
  /\ Release(x, FALSE)
  /\ Advance(x, "end")
  /\ UNCHANGED <<life, tables, server>>

(* FAULT: the waiter is not woken.                                         *)
NotifyNobody(s) == UNCHANGED users

(* cond.notify_one() of the entry of s, and its waiter wakes up.           *)
NotifyOne(s) ==
  users' = [u \in Users |->
              IF users[u].pc = "unwatch" /\ users[u].service = s
              THEN [users[u] EXCEPT !.pc = "notified"]
              ELSE users[u]]

(* Someone is calling unwatch(): he is woken, and the chain ends.          *)
UpdateUnwatched(x) ==
  /\ AtUpdate(x)
  /\ series[x].service \in Watching
  /\ series[x].user = None
  /\ ~watch_status[series[x].service].watching
  /\ NotifyOne(series[x].service)
  /\ Advance(x, "end")
  /\ UNCHANGED <<life, error, tables, server>>

(* update_policy_locked goes on to the policy.                             *)
AtPolicy(x) ==
  /\ AtUpdate(x)
  /\ series[x].service \in Watching =>
       series[x].user = None /\ watch_status[series[x].service].watching

(* FAULT: a periodic answer, too, makes the policy when there is none.     *)
MayMakePolicyAny(x) == TRUE

MayMakePolicy(x) == series[x].user # None

(* A periodic answer whose policy was deleted meanwhile.                   *)
UpdateNoPolicy(x) ==
  /\ AtPolicy(x)
  /\ name_service[series[x].service] = None
  /\ ~MayMakePolicy(x)
  /\ Fail
  /\ Advance(x, "end")
  /\ UNCHANGED <<life, tables, users, server>>

(* FAULT: a new policy at every update.                                    *)
PolicyOfAlwaysNew(s) == EmptyPolicy

(* The policy that update_policy_locked works on: the registered one, or   *)
(* one that an unwatch put aside, or a new one.                            *)
PolicyOf(s) == CASE name_service[s] # None     -> name_service[s]
                 [] /\ name_service[s] = None
                    /\ unwatch_policies[s] # None -> unwatch_policies[s]
                 [] OTHER                      -> EmptyPolicy

(* FAULT: a policy that was put aside is used again and stays there.       *)
TakeFromAsideNoErase(s) == UNCHANGED unwatch_policies

TakeFromAside(s) ==
  unwatch_policies' = IF name_service[s] = None
                      THEN [unwatch_policies EXCEPT ![s] = None]
                      ELSE unwatch_policies

(* The policy is in the name service from here on, with what it held.      *)
UpdateBegin(x) ==
  LET s == series[x].service
  IN  /\ AtPolicy(x)
      /\ name_service[s] # None \/ MayMakePolicy(x)
      /\ name_service' = [name_service EXCEPT ![s] = PolicyOf(s)]
      /\ TakeFromAside(s)
      /\ series' = [series EXCEPT ![x].phase = "instances"]
      /\ UNCHANGED <<life, error, watch_status, users, server>>

(* The revisions in the entry of s, or in the one operator[] would create. *)
RevisionOf(s) == IF s \in Watching THEN watch_status[s].revision ELSE NoData

(* Only the kinds whose revision is not the one the entry remembers are    *)
(* handed to the policy.                                                   *)
Changed(x) == {k \in Kinds : /\ series[x].answer # None
                             /\ series[x].answer[k]
                                  # RevisionOf(series[x].service)[k]}

(* The revisions that the entry remembers then.                            *)
Apply(x, old) == [k \in Kinds |-> IF k \in Changed(x) THEN series[x].answer[k]
                                                      ELSE old[k]]

(* What an answer names, and of which revision: all instances, and the     *)
(* rules of the names that are in its lists.                               *)
Brings ==
  [d \in Data |-> [p \in {q \in Parts : \/ Table[q] = "instances"
                                        \/ q \in Listed[d["rules"]]}
                     |-> d[KindOf(Table[p])]]]

(* FAULT: the table is replaced whole, names without new rules included.   *)
WrittenWhole(table, brings, held) ==
  [p \in Parts |-> IF Table[p] # table     THEN held[p]
                   ELSE IF p \in DOMAIN brings THEN brings[p] ELSE NoRev]

(* A policy that holds `held' once one of its tables was written: the      *)
(* rules of a name that the answer has none for stay.                      *)
Written(table, brings, held) ==
  [p \in Parts |-> IF p \in DOMAIN brings /\ Table[p] = table THEN brings[p]
                                                              ELSE held[p]]

(* FAULT: an `else' too many: rules that came with new instances are left. *)
ReplacementElse(x, table, held) ==
  IF KindOf(table) \in Changed(x) /\ (table = "instances" \/
                                        "instances" \notin Changed(x))
  THEN Written(table, Brings[series[x].answer], held)
  ELSE held

Replacement(x, table, held) ==
  IF KindOf(table) \in Changed(x)
  THEN Written(table, Brings[series[x].answer], held)
  ELSE held

WriteTable(x, table) ==
  LET s == series[x].service
  IN  name_service' =
        [name_service EXCEPT ![s] = Replacement(x, table, @)]

(* update_instances, and update_inbounds after it.                         *)
UpdateInstances(x) ==
  /\ InPhase(x, "instances")
  /\ WriteTable(x, "instances")
  /\ series' = [series EXCEPT ![x].phase = "inbounds"]
  /\ UNCHANGED <<life, error, watch_status, unwatch_policies, users, server>>

UpdateInbounds(x) ==
  /\ InPhase(x, "inbounds")
  /\ WriteTable(x, "inbounds")
  /\ series' = [series EXCEPT ![x].phase = "outbounds"]
  /\ UNCHANGED <<life, error, watch_status, unwatch_policies, users, server>>

(* update_outbounds; the entry, which only the mutex guards, remembers the *)
(* revisions, the timer of the next request is set and a user who waits is *)
(* let go.                                                                 *)
UpdateOutbounds(x) ==
  LET s == series[x].service
  IN  /\ InPhase(x, "outbounds")
      /\ WriteTable(x, "outbounds")
      /\ watch_status' =
           [watch_status EXCEPT ![s] = [watching |-> FALSE,
                                        revision |-> Apply(x, RevisionOf(s))]]
      /\ Release(x, TRUE)
      /\ Advance(x, "timer")
      /\ UNCHANGED <<life, error, unwatch_policies, server>>

UpdatePolicyLocked(x) == \/ UpdateDouble(x)
                         \/ UpdateUnwatched(x)
                         \/ UpdateNoPolicy(x)
                         \/ UpdateBegin(x)
                         \/ UpdateInstances(x)
                         \/ UpdateInbounds(x)
                         \/ UpdateOutbounds(x)

-----------------------------------------------------------------------------
(* discover_timer_callback, first its unlocked read of the status, then    *)
(* its critical section, where it takes any entry of its name.             *)
DiscoverTimerCallback(x) ==
  /\ InPhase(x, "timer")
  /\ Advance(x, IF status = "MANAGER_EXITED" THEN "end" ELSE "rearm")
  /\ UNCHANGED <<life, error, tables, users, server>>

DiscoverTimerLocked(x) ==
  /\ InPhase(x, "rearm")
  /\ MutexFree
  /\ IF series[x].service \in Watching
     THEN SetWatching(series[x].service, TRUE) /\ Advance(x, "discover")
     ELSE UNCHANGED watch_status /\ Advance(x, "end")
  /\ UNCHANGED <<life, error, unwatch_policies, name_service, users, server>>

(* The callback of the series: decref, without the mutex.                  *)
EndSeries(x) ==
  /\ InPhase(x, "end")
  /\ DecRef
  /\ series' = [series EXCEPT ![x] = None]
  /\ UNCHANGED <<status, handle, error, watch_status, name_service, users,
                 server>>

-----------------------------------------------------------------------------
(* exit_locked, called by ~PolarisManager when no user is in a call: up to *)
(* `--ref', then the write of the status and the unlock.                   *)
ExitDecrement ==
  /\ handle = "open"
  /\ MutexFree
  /\ \A u \in Users : users[u].pc = "idle"
  /\ DecRef
  /\ handle' = IF ref' = 0 THEN "gone" ELSE "exiting"
  /\ UNCHANGED <<status, error, watch_status, name_service, series, users,
                 server>>

ExitFinish ==
  /\ handle = "exiting"
  /\ status' = "MANAGER_EXITED"
  /\ handle' = "gone"
  /\ UNCHANGED <<ref, error, tables, series, users, server>>

-----------------------------------------------------------------------------
(* External: a provider or an operator changes a part of a service.        *)
ServerPublish(s, k) ==
  /\ server[s][k] < MaxRev
  /\ server' = [server EXCEPT ![s][k] = @ + 1]
  /\ UNCHANGED <<life, error, tables, series, users>>

(* All is freed: not a deadlock.                                           *)
Terminated == ref = 0 /\ handle = "gone" /\ UNCHANGED vars

UserStep(u) == \/ \E s \in Services :
                    \/ \E x \in Series : WatchService(u, s, x)
                    \/ UnwatchNotFound(u, s)
                    \/ UnwatchAtOnce(u, s)
                    \/ UnwatchWait(u, s)
               \/ WatchReturn(u)
               \/ SpuriousWakeup(u)
               \/ UnwatchFinish(u)

SeriesStep(x) == \/ DiscoverExited(x)
                 \/ InPhase(x, "discover")
                      /\ \E answer \in Answers(x) : DiscoverCallback(x, answer)
                 \/ UpdatePolicyLocked(x)
                 \/ DiscoverTimerCallback(x)
                 \/ DiscoverTimerLocked(x)
                 \/ EndSeries(x)

Next == \/ \E u \in Users : UserStep(u)
        \/ \E x \in Series : SeriesStep(x)
        \/ ExitDecrement
        \/ ExitFinish
        \/ \E s \in Services, k \in Kinds : ServerPublish(s, k)
        \/ Terminated

Spec == Init /\ [][Next]_vars

(* Handler threads run every callback and every timer, a thread that was   *)
(* let go runs on, and one that wants the mutex, which is held only for a  *)
(* few writes at a time, gets it in the end.  Nobody has to call, to exit, *)
(* or to publish, and no wakeup has to be spurious.                        *)
Fairness == /\ \A x \in Series : SF_vars(SeriesStep(x))
            /\ \A u \in Users : SF_vars(WatchReturn(u) \/ UnwatchFinish(u))
            /\ WF_vars(ExitFinish)

(* Of the answers to the requests of one series infinitely many succeed.   *)
AnswersFairness ==
  \A x \in Series :
    SF_vars(InPhase(x, "discover")
              /\ DiscoverCallback(x, server[series[x].service]))

FairSpec == Spec /\ Fairness /\ AnswersFairness
-----------------------------------------------------------------------------
(* Properties.                                                             *)

(* Every variable keeps to the shape of the C++ member it stands for.      *)
TypeOK == /\ ref \in Nat
          /\ status \in {"INIT_SUCCESS", "INIT_FAILED", "MANAGER_EXITED"}
          /\ error \in Errors
          /\ watch_status \in [Services -> WatchInfo \cup {None}]
          /\ unwatch_policies \in [Services -> Policies \cup {None}]
          /\ name_service \in [Services -> Policies \cup {None}]
          /\ series \in [Series -> SeriesWork \cup {None}]
          /\ users \in [Users -> User]
          /\ handle \in {"open", "exiting", "gone"}
          /\ server \in [Services -> Data]

(* A service is in the watching list exactly when the name service has a   *)
(* policy for it, but while its first answer is being written, when the    *)
(* policy is there and the entry not yet: a late task of an old chain      *)
(* brings neither back, and no unwatch_service comes in between.           *)
WatchedIffPublished ==
  \A s \in Services :
    name_service[s] # None <=> s \in Watching \/ BeingWritten(s)

(* A policy is in the name service or in unwatch_policies, never in both:  *)
(* so unwatch_policies.emplace, which keeps an older entry, drops (and     *)
(* leaks) none.                                                            *)
PolicyHeldOnce ==
  \A s \in Services : name_service[s] = None \/ unwatch_policies[s] = None

(* A policy holds whatever an answer names.                                *)
Shows(held, d) == \A p \in DOMAIN Brings[d] : held[p] = Brings[d][p]

(* The policy of an entry holds what the revisions that the entry          *)
(* remembers bring, although unwatch_service forgets the one and keeps the *)
(* other, and one half of an answer may be new while the other is not: so  *)
(* what update_policy_locked skips as unchanged is indeed installed.       *)
RevisionCacheSound ==
  \A s \in Watching :
    ~BeingWritten(s) => /\ watch_status[s].revision \in Data
                        /\ Shows(name_service[s], watch_status[s].revision)

(* A watched service that nobody is unwatching has a chain that will come  *)
(* back to it: `watching' false, a timer is pending; true, a periodic      *)
(* request is on its way.  It holds however the chains of old watches of   *)
(* the same service mix with the present one (discover_timer_callback      *)
(* takes any entry of its name for its own).                               *)
WatchedIsRefreshed ==
  \A s \in Watching :
    status # "MANAGER_EXITED" /\ Unwatching(s) = {} =>
      \E x \in Live :
        /\ series[x].service = s
        /\ series[x].user = None
        /\ IF watch_status[s].watching
           THEN series[x].phase \in {"discover", "update"} \cup Tables
           ELSE series[x].phase \in {"timer", "rearm"}

(* The Manager is alive exactly as long as its handle or a series needs    *)
(* it: every series holds one reference from incref in watch_service to    *)
(* the decref of its end.                                                  *)
RefCount ==
  ref = Cardinality(Live) + (IF handle = "open" THEN 1 ELSE 0)

(* watch_service returns 0 only when its own answer was installed, though  *)
(* what it returns is read from the one error that all calls share.        *)
WatchOkInstalled ==
  \A u \in Users : users[u].pc = "released" /\ error = "NONE" =>
                      users[u].installed

(* Only a user's request starts to watch a service: no periodic answer or  *)
(* timer of an old chain brings back what unwatch_service took away.       *)
OnlyUserAdds ==
  [][\A s \in Services :
       watch_status[s] = None /\ watch_status'[s] # None =>
         \E u \in Users : /\ users[u].pc = "watch"
                          /\ users[u].service = s
                          /\ users'[u].pc = "released"]_vars

(* A policy, once made, is kept, in the one map or in the other, until     *)
(* ~Manager: so a service watched again starts from the policy it had.     *)
PolicyKept ==
  [][\A s \in Services :
       name_service[s] # None \/ unwatch_policies[s] # None =>
         \/ name_service'[s] # None
         \/ unwatch_policies'[s] # None
         \/ ref' = 0]_vars

(* A chain of an earlier watch of s is still there beside another.         *)
Chains(s)   == {x \in Live : series[x].service = s}
Leftover(s) == Cardinality(Chains(s)) > 1

(* No part of a policy goes back to an older revision before the exit,     *)
(* once the entry is there: the first answer of a watch may be older than  *)
(* what an earlier watch had put aside, and a later one only if a chain of *)
(* such a watch is left beside the present one.                            *)
AppliedMonotone ==
  [][\A s \in Watching, p \in Parts :
       handle = "open" /\ name_service[s] # None /\ name_service'[s] # None =>
         \/ name_service'[s][p] >= name_service[s][p]
         \/ Leftover(s)]_vars

(* The answers of a service that wait for the mutex, and the one that is   *)
(* being written.                                                          *)
Waiting(s) == {series[x].answer :
                 x \in {y \in Live : /\ series[y].phase = "update"
                                     /\ series[y].service = s
                                     /\ series[y].answer # None}}

WrittenNow(s) == IF BeingWritten(s)
                 THEN series[CHOOSE x \in Series :
                               Writing(x) /\ series[x].service = s].answer
                 ELSE None

Abstract == INSTANCE WatchedService
              WITH Empty    <- EmptyPolicy,
                   platform <- server,
                   answers  <- [s \in Services |-> Waiting(s)],
                   writing  <- [s \in Services |-> WrittenNow(s)],
                   shown    <- name_service,
                   aside    <- unwatch_policies,
                   closed   <- (handle # "open")

(* The consumer implements WatchedService: although instances and rules    *)
(* are compared with two revisions, and written one by one into a policy   *)
(* that may be an old one, by any of several chains, a policy is written   *)
(* by one answer at a time, shows all that the answer brought when that is *)
(* done, and loses no part that the answer did not name; only              *)
(* unwatch_service takes it away, and nothing is lost.                     *)
ImplementsWatchedService == Abstract!Spec

(* Every watch_service returns.                                            *)
WatchReturns == \A u \in Users : users[u].pc = "watch" ~> users[u].pc = "idle"

(* Every unwatch_service returns: the request it waits for does come back  *)
(* and does find `watching' false, unless the timer of a chain that an     *)
(* earlier watch has left sets it to true again.                           *)
UnwatchReturns ==
  \A u \in Users : users[u].pc = "unwatch" ~>
                     \/ users[u].pc = "idle"
                     \/ Leftover(users[u].service)

(* As long as a service stays watched, what the platform published last is *)
(* installed in the end, whatever requests fail in between: its instances, *)
(* and the rules of every name that it has rules for.                      *)
WatchedEventuallyFresh ==
  \A s \in Services :
    []<>(\/ s \notin Watching
         \/ Unwatching(s) # {}
         \/ handle # "open"
         \/ name_service[s] # None /\ Shows(name_service[s], server[s]))

(* After the PolarisManager is gone every chain stops, and the Manager is  *)
(* deleted.                                                                *)
ExitFreesManager == handle = "gone" ~> ref = 0

(* What README.md:101 implies (to unwatch before the end is not needed):   *)
(* ~PolarisManager may run with chains still there, so the Manager is not  *)
(* deleted before exit_locked wrote its status and unlocked its mutex.     *)
ExitTailSafe == handle = "exiting" => ref > 0
=============================================================================

# workflow-polaris in TLA+

workflow-polaris is a C++ client of the Polaris service governance platform,
built on the task library Sogou C++ Workflow.  A *consumer* watches services:
the client fetches their instances and routing rules, installs them as a
*policy* of Workflow's name service, and refreshes them for ever.  A *provider*
registers instances and keeps sending their heartbeats.

The repository is `src/`; its sources are `src/src/*.cc` and `*.h`.  Line
numbers below are of those files.

| file | what it is |
|---|---|
| `WatchManager.tla` | the consumer half of `Manager` |
| `WatchedService.tla` | what the consumer promises an application; `WatchManager` implements it |
| `HeartbeatManager.tla` | the provider half of `Manager` |
| `RegisteredService.tla` | what the provider promises an application; `HeartbeatManager` implements it |
| `PolarisTask.tla` | `PolarisTask` and the `PolarisCluster` that tasks share |
| `PolicyRouting.tla` | the settings of a policy and what `PolarisPolicy` computes of its arguments alone |
| `PolarisPolicy.tla` | the tables, reference counts and calls of a `PolarisPolicy` |
| `*Proofs.tla` | theorems about each of these, and the refinement, with proofs for TLAPS |
| `MC*.tla`, `MC*.cfg` | instances for TLC |
| `PROJECT.json` | components, runs, mutants, map to the code, hazards, theorems |

## 1. The system

### Components

| component | state | operations | talks to |
|---|---|---|---|
| **Manager, consumer** (`PolarisManager.cc`) | `ref`, `status`, `error`, `mutex`, `watch_status` (per service: `watching`, two revisions, a condition variable), `unwatch_policies` | `watch_service`, `unwatch_service`, `discover_callback`, `update_policy_locked`, `discover_timer_callback`, `exit_locked` | name service (policies), client (tasks), Workflow (series, timers, handler threads) |
| **Manager, provider** (same file) | `register_status` (per `host:port`: `heartbeating`, a condition variable), and the shared `ref`, `status`, `error`, `mutex` | `register_service`, `deregister_service`, `register_callback`, `heartbeat_callback`, `update_heartbeat_locked`, `heartbeat_timer_callback`, `deregister_callback` | client, Workflow |
| **PolarisTask** (`PolarisTask.cc`) | `finish`, `state`, `error`, result bodies | `dispatch`, `done`, nine http callbacks, `check_failed` | the platform by http; the cluster |
| **PolarisCluster** (`PolarisCluster.h`) | server lists, two state bits, two failure counters, revision map, one mutex; shared by reference count | read and written by tasks | tasks |
| **PolarisClient** | the protocol and the cluster | `init` (parses the url), `create_*_task` | makes tasks |
| **PolarisPolicy** (a `WFNameServicePolicy`) | `servers`, inbound and outbound rules, each under a read-write lock; of each address a reference count and a failure count | `update_instances`, `update_inbounds`, `update_outbounds`, `select`, `success`/`failed` | called by the Manager and by every http request of the application |
| **PolarisConfig** | switches, intervals, names | `init_from_yaml`, `from_json`/`to_json`, `ParseTimeValue` | read by all |

### How they interact

A user's call makes a series with one task in it and blocks on a WaitGroup that
travels with the task as `user_data`.  The task's callback runs on one of
Workflow's handler threads, does its work under `Manager::mutex`, appends a
timer to the series and lets the user go.  When the timer fires, its callback
appends the next task, without `user_data`.  So every `watch_service` and every
`register_service` leaves a *chain* behind: a series that refreshes for ever.
A series holds one reference to the Manager, which its last callback gives
back.  Nothing cancels a chain from outside: it ends when it sees, at its next
step, that its entry is gone, that `watching` (`heartbeating`) was set to
false, or that the Manager has exited.

### What is hard

* Chains look up their entry by *name*.  A chain that outlived an unwatch finds
  the entry of a later watch and takes it for its own: several chains then share
  one flag, one condition variable and one policy.
* One flag has two meanings: `watching == false` says both "no request is on its
  way" and "somebody waits for the request that is".
* The provider's entry is keyed by host and port only, a chain sends the
  heartbeats of its own service, token and interval: a chain may keep up, or end,
  an entry that is not its own.
* An answer is installed in three writes, each under a lock of its own, which
  `select` sees one after the other.
* `cond.wait` has no predicate, so it may return before the request has.
* `Manager::error` is shared by all calls, is set without reset, and is what
  every call returns.
* The Manager is deleted by hand-made reference counts, without the mutex.
* `deregister_callback` blocks a handler thread.
* Tasks of one client share server lists that each may drop, fill or bypass.
* `select` carries addresses and a pointer to a rule from one read lock into the
  next, while the Manager replaces instances and rules; the counts of addresses
  are kept by hand at a dozen places.
* The nearby router assigns the list of servers under a *read* lock, while other
  calls go through that list.
* Rules, metadata, the nearby router, recovery, degradation and the breaker
  decide one after another, each on what the one before has left.

### What makes each component correct

| component | properties |
|---|---|
| consumer | `WatchedIffPublished`, `PolicyHeldOnce`, `RevisionCacheSound`, `WatchedIsRefreshed`, `RefCount`, `WatchOkInstalled`, `OnlyUserAdds`, `PolicyKept`, `AppliedMonotone`; calls return; what the platform published gets installed; exit frees all |
| provider | `RegisteredIsBeating`, `RegisteredBeatsItself`, `RegisterOkAccepted`, `OnlyUserRegisters`; calls return |
| task and cluster | `RequestsGoToServers`, `RequestHasServer`, `SuccessIsWhole`, `TaskEnds`, `ListsFollowServers` |
| policy | `AddressesLive`, `NothingLeaks`, `StrictStaysNear`, `MetaHonoured`, `ProportionalDraws`, `UnfitIsLastResort`, `NearbyKeepsRegion`, `BestDestination` |
| configuration | what of it reaches the policy, through the properties of the policy |

## 2. Plan

The order in which the development was built; all steps are done.

1. `WatchManager`, `HeartbeatManager`, `PolarisTask`: the concurrent core, with
   its invariants, step properties and liveness.
2. `WatchedService`, an abstract specification of the consumer (a policy is
   written by one answer at a time, part by part, and taken away only by an
   unwatch), and the refinement.  `RegisteredService` is the same for the provider
   (a host and port is listed on account of one registration, or not listed, and
   heartbeats are kept up for registrations).
3. `PolicyRouting`: the pure part of routing and selection as operators;
   `PolarisPolicy`: the tables under their locks, concurrent selections and
   updates, the reference counts, the list that the nearby router narrows in
   place, the failure counts.
4. Proofs: the consumer and the provider, with their refinements, the tasks, the policy.

What could still be added is named in section 8.

Constants, not literals, fix all sizes, so that the same modules serve TLC and
TLAPS; no module declares a recursive operator.  The one recursion, the loops of `get_one`
over a list, is a recursive function (`Sums` in `PolicyRouting`), which TLAPS can
reason about.

## 3. How modules correspond to code

An action is a stretch of code no other thread can cut: one critical section
of the mutex, with the thread-local code around it.  Reads outside of the mutex
that matter (the `status` at the head of each callback, lines 577, 645, 750, 824)
are actions of their own.  `PROJECT.json` maps each definition to its lines.

A definition marked **FAULT** is never used by a specification.  It is a
definition of the model with a plausible programming error; replacing the one
by the other must break the property that guards against it (`mutants` in
`PROJECT.json`).

### `WatchManager`

| model | code |
|---|---|
| `ref`, `status`, `error`, `watch_status`, `unwatch_policies` | the members of `Manager` of that name |
| `name_service` | the policies that `WFGlobal::get_name_service()` has |
| `series[x]`: `service`, `phase`, `user`, `answer` | a `SeriesWork` with its `consumer_context`; where its chain is; the task's `user_data`; what the task brought |
| `users[u]` | a thread of the application |
| `handle` | the `PolarisManager` object, and whether its destructor is in `exit_locked` |
| `server` | the platform's current revisions |

A policy is a function of `Parts`: each part is of one of the three tables of a
policy (`Table`: its instances, or the rules of a source name inbound or
outbound) and has the revision it was last written with.

| action | code |
|---|---|
| `WatchService`, `WatchReturn` | `watch_service` before and after `wait_group.wait()` |
| `UnwatchNotFound`, `UnwatchAtOnce`, `UnwatchWait`, `UnwatchFinish` | `unwatch_service`, at its early return, without waiting, up to `cond.wait`, and after it |
| `DiscoverExited`, `DiscoverCallback` | `discover_callback` before its lock |
| `UpdateDouble`, `UpdateUnwatched`, `UpdateNoPolicy` | the three ways in which `update_policy_locked` returns false, each with the rest of `discover_callback` |
| `UpdateBegin` | `update_policy_locked` as far as `add_policy` (529-549) |
| `UpdateInstances`, `UpdateInbounds`, `UpdateOutbounds` | 560, 566 and 567, each the write lock of one table; the last with the rest of `discover_callback` |
| `DiscoverTimerCallback`, `DiscoverTimerLocked` | `discover_timer_callback` |
| `EndSeries` | the callback of the series: `decref` |
| `ExitDecrement`, `ExitFinish` | `exit_locked` |

The mutex is held from `UpdateBegin` to `UpdateOutbounds` (`MutexFree` is false),
so that no other critical section comes in between; `select`, which does not take
it, may (`WatchedService` is about what it sees).  `Brings` says what an answer
names: all instances, and the rules of the names `Listed` in its revision.
`Written` replaces these parts of a table and leaves the others, as
`update_inbounds` and `update_outbounds` do (`PolarisPolicy.cc` 193-214, 225-246):
the rules of a name that the platform has removed stay in the policy.  `Changed`
is the comparison of 521-526 with the two revisions of the entry.

Abstractions: both bodies of an answer are read together; revisions are numbers
that grow, the code only compares them for equality; the two revisions are written
to the entry, which only the mutex guards, with the last table.  A service name
stands for the policy name.

Preconditions on the callers, without which the C++ has undefined behaviour:
at most one `unwatch_service` of a service at a time, and no call in progress
when the `PolarisManager` is destroyed.

### `HeartbeatManager`

| model | code |
|---|---|
| `Instances` | the keys of `register_status`, `host:port` |
| `Registrations` | what may be registered: `service` (with namespace and token), `instance`, and `interval`, 0 for one without a health check |
| `register_status[i]`: `heartbeating`, `reg` | the entry; `reg` is history: the registration that made it, of which the code keeps no trace |
| `series[x]`: `reg`, `phase`, `user` | a `SeriesWork` with its `provider_context`; all its requests are for `reg` |
| `users[u]` | a thread of the application, with its deregister task |
| `platform` | the pairs of service and instance that the platform knows |

A chain looks up `series[x].reg.instance`, and nothing else of its registration
(424, 713, 772, 821): it may find, adopt and end the entry of another service, or
of another interval, at the same host and port.  `Owner` says whose the entry is
then: it stays whose it was.  `deregister_service` may be called for any service at
an instance that is registered.  A user whose `deregister_callback` is in
`cond.wait` has pc `"blocked"`, and occupies one of `HandlerThreads` threads; all
callbacks need a free one.  What the platform did is decided in the callback, not
before it; `deregister_callback` does not look (`PlatformDeregisters`).
`RegisterOnly`, a registration without a health check, overwrites `heartbeating` of
an entry that has heartbeats (717).

### `WatchedService`

| abstract | in `WatchManager` |
|---|---|
| `platform` | `server` |
| `answers[s]` | the answers that series hold between the two halves of `discover_callback` |
| `writing[s]` | the answer of the series that is between `UpdateBegin` and `UpdateOutbounds` |
| `shown` | `name_service` |
| `aside` | `unwatch_policies` |
| `closed` | `handle # "open"` |

The abstract specification has no chains, entries, flags or revisions of halves.
It says that a policy is written by one answer at a time (`Begin`), part by part
(`Write`), so that an application may select from new instances by old rules, or
from a policy that is still empty; that when the writing is done (`Finish`) the
policy shows *all* that the answer brought, although the code skips a half whose
revision it remembers; that nothing is changed which the answer does not name, so
that the rules of a name which the platform removed stay; that nothing is written
which was not published; that a policy is put aside and not lost; and that nothing
is withdrawn by anyone but `unwatch_service` before the exit.

### `RegisteredService`

| abstract | in `HeartbeatManager` |
|---|---|
| `listed[i]` | `None`, or the registration that entered `i` in `register_status` |
| `kept` | the registrations that a chain without a user sends heartbeats of |
| `calls` | the stage of each user's call: of `register_service`, what its chain has come to; of `deregister_service`, whether its callback waits |
| `failed` | `error # "NONE"` |
| `closed` | `handle # "open"` |

There are no chains, flags, condition variables or handler threads.  The platform
has accepted what is listed by a call (`AcceptPlain`, or `Accept` and then `List`);
what is listed is taken off the list by `Unlist` of a call that deregisters it, and
replaced by nothing but an `AcceptPlain`.  The heartbeats of a registration end
(`Stop`) only when its host and port is not listed with heartbeats, or a call that
deregisters it waits for them, or the Manager is being destroyed, or heartbeats of
another registration of the same host and port are kept up: this last is what the
key of `register_status` costs (section 7, 4).  `Relist` is what the code also does,
and a document rules out (section 7, 2): it needs heartbeats that are still kept up.

### `PolarisTask`

A task goes round `dispatch -> one http request -> dispatch`.  `phase` says
which request it has before itself in its series.  `protocol`, `status`
(the bits), `clusters` (the two lists, as sets), `failed` (the counters) and
`revision_map` are the members of the shared `PolarisCluster` and its client;
`listed` is the address that the Polaris servers have at present, `data` the
current revision of each service.

| action | code |
|---|---|
| `Create` | `create_*_task` with the Manager's `set_platform_id`, which `deregister_service` (437-448) does not call |
| `DispatchPull`, `DispatchRequest`, `DispatchLost`, `DispatchFinished` | `dispatch`: a list is missing, a request is made, the protocol has none, the task is finished (`check_failed` and `done`) |
| `PullAnswered`, `PullFailed` | `discover_cluster_http_callback`, `healthcheck_cluster_http_callback` |
| `InstancesAnswered`, `RouteAnswered`, `RegisterAnswered`, `RequestFailed` | the callbacks of the requests |

`Pulled` takes the answer to a pull to be of what was asked: the code picks the list
by the service that the first instance of the answer names (528-535), and leaves it
alone for code 200001, "data not changed", which a pull, that sends no revision, is
never told.

A key of the revision map is a sequence of parts that is concatenated in the
order the code uses, so that keys of different services coincide in the model
exactly when their parts do.

### `PolicyRouting` and `PolarisPolicy`

`PolicyRouting` has operators only: the settings (`FromYaml`, `PolicyConfig`), the
fragment of a URL (`MetaOf`, `Splits`), rules (`RuleMatches`, `FirstRule`), the
destinations (`InstanceMatches`, `TopBounds`, `DrawnBounds`), the nearby router
(`NearMatch`, `Degrades`, `NearbyFilter`) and the choice by weight (`Drawn`, the
addresses for which some random number ends the walk of `get_one`).

| model | code |
|---|---|
| `config` | `PolarisPolicyConfig` |
| `servers`, `inbound_rules`, `outbound_rules` | the members of that name; a vector of addresses is the set of its members |
| `twice`, `torn` | the addresses that may be in `servers` more than once; history: a call has changed `servers` while another was going through it |
| `inst[a]`, `ref[a]`, `fail_count[a]` | an `EndpointAddress` with its `PolarisInstanceParams`; `None`: it was deleted |
| `calls[c]` | a thread in `select`, with its locals, and the request that follows; `seen`: all that `servers` has been since it took the read lock |
| `alive` | FALSE once `rand()` was taken modulo 0, or a deleted address was counted |

| action | code |
|---|---|
| `UpdateInstances`, `UpdateInbounds`, `UpdateOutbounds` | the three updates of the Manager |
| `ClearDeleted` | `clear_instances_locked` meeting an address that it has just deleted, because it is listed twice |
| `Select` | `select` up to its first lock: `check_breaker`, `split_fragment` |
| `MatchingInbound`, `MatchingOutbound` | `matching_bounds` under the one lock (345-352) and under the other (353-381) |
| `MatchingSubset`, `MatchingMeta` | the functions of that name, each one read lock |
| `GetOneOfSubset` | `get_one` of the subset a call has brought, and the rest of `select` |
| `LockServers` | with the nearby router: the read lock of `servers` is taken (289, and in the two functions above) |
| `NarrowServers`, `ChooseServer` | `get_one` of `servers`: `nearby_router_filter`, then the choice and the rest of `select` |
| `Success`, `Failed` | the end of the request: Workflow's `WFServiceGovernance`, external |

`inbound_rules` and `outbound_rules` have for each name the rules of a list that
concern it, under their places in that list, which keeps their order.  A list of
instances is a set of addresses, ordered by when they were made; `Sums` are the
partial sums of weights along it, of which `TotalWeight` and `Walked` are the two
loops of `get_one`.

`dst_bounds`, which points into a rule, has a name and is `valid` until a list with
that name is installed; a read through a pointer that is not finds any
destinations.  Metadata is a set of pairs, and a fragment a sequence of parsed
pairs; addresses are numbers in the order in which they were made.

*The nearby router under a read lock.*  `nearby_router_filter` assigns into
`servers` itself (647) while the lock is held for reading only (289), so that
several calls may be in it, or in the other loops over `servers`, at once.  A call
that has the lock is in no action: it remembers in `seen` what `servers` has been
meanwhile.  As long as that is one vector (`Whole`), its loops read that.  When
another call has written, its loops may miss addresses and meet dropped ones
(`Reads`), it may write back any of what passes its filter (`Leaves`, `Reachable`),
with addresses listed twice (`twice`), and it may choose any address in sight.  An
address that is listed twice has one reference; `UpdateInstances` then lets it go
twice, and it may be freed under a call.  From there on nothing is said: `Next`
ends where a deleted address is in use (`Usable`).

Approximations: two calls that assign `servers` (or the outbound rules over the
inbound ones) at the very same time are taken one after the other; an address that
is listed twice counts once in the sums of `get_one` and in the degradation of the
nearby router, which the properties about these except.  In `split_fragment` a
fragment whose every element has an `=` is its own caller element (712); whether
its last part has a dot is part of the fragments given.

## 4. Runs

All with TLC, each within three minutes on two cores; the largest are
`policy_safety` (1.3 million states), `heartbeat_safety`, and `watch_safety`
(190,000).

| run | instance | shows |
|---|---|---|
| `watch_safety` | 1 service with instances and the rules of one name each way, 2 users, 3 chains | the tables of the consumer stay consistent, a watched service keeps a chain, the Manager implements `WatchedService`; with no leftover chain no part of a policy goes back to older data |
| `watch_refresh` | the same, 1 user, 2 chains, fair | `watch_service` returns, a watched service converges to the platform, exit frees the Manager; with no leftover chain `unwatch_service` returns |
| `watch_exit` | 1 user, 1 chain | **violation**: the Manager is deleted under `exit_locked` |
| `heartbeat_safety` | 1 host and port, registered for two services with a health check and for one of them without, 2 users, 3 chains | an entry with heartbeats keeps a chain; 0 means accepted; the Manager implements `RegisteredService` |
| `heartbeat_one_chain` | 1 instance, 2 users, 1 chain, 2 threads, fair | deregister stops the heartbeats, both calls return |
| `heartbeat_two_chains` | 1 instance, 1 user, 2 chains | **violation**: a late heartbeat enters a deregistered instance again |
| `heartbeat_threads` | 2 instances, 2 users, 2 threads, fair | **violation**: every handler thread waits for a callback that needs a handler thread |
| `heartbeat_shared` | two services at 1 host and port, 1 user, 2 chains | **violation**: the chain of the first service takes over the entry of the second and ends its heartbeats |
| `task_safety` | 2 tasks, with or without ids, servers and instances change once, fair | requests go to servers that a pull has brought, every request has a server, success brings both bodies and the instances; tasks end, both lists follow the servers |
| `task_deregister` | 1 task | **violation**: a deregister task makes requests go to the platform access |
| `policy_safety` | 2 calls, 3 addresses, 3 lists of instances, 2 of rules, 3 URLs, 5 configurations (rules; nearby; rules and strict nearby; rules, metadata and nearby; metadata with failover `all`) | no use of a deleted address but for two known causes, no leak where the counts balance; strictNearby, metadata, weights, failures and priorities are honoured |
| `policy_no_match` | the same | **violation**: a call whose rule has no destination with an instance is given any server |

The consumer's safety properties are checked with three chains and proved for any
number (section 6).  `task_safety` has one service; which keys two services share
does not matter by `SuccessCorrect`.

The properties of the policy except what the code does not do:

* `AddressesLive` ends where two calls have been in the nearby router at once and
  one has changed `servers` under the other (`torn`), and excludes the failover
  `all`: there it is false of the code (section 7).  Those are the only causes:
  `AddressesCorrect`, and `FreeOfRaces` for configurations that have neither.
* `StrictStaysNear` and `MetaHonoured` say nothing once a deleted address is in use;
  that two calls narrow the list at once is no exception to either.
* `NearbyKeepsRegion`: the list never becomes empty by a call, whatever others do;
  that no near instance is dropped holds of a call whose list nobody changed since
  it took the lock.
* `NothingLeaks` excludes routing by metadata and the nearby router, which lose
  references (section 7).
* `ProportionalDraws` excludes a list with an instance exactly at `max_fails`,
  which the walk of `get_one` passes and the total of the weights does not count.
* `UnfitIsLastResort` and `BestDestination` are about what a call reads that no
  other call has changed meanwhile, the latter also about a rule that is still there.

`UnwatchReturns` and `AppliedMonotone` except a service that an earlier watch has
left a chain for (`Leftover`): a timer of that chain sets `watching` to true
again under an `unwatch_service` that waits, and its answer may be installed
after that of the present chain.  Without the exception TLC refutes both; no
document of the repository promises them.  `AppliedMonotone` ends at the exit,
after which the present chain may stop before the old answer comes.

### Bounds

* *Chains*: with one chain nothing is confused, with two an old and a present
  chain meet, with three (the safety runs) two old ones meet while a user starts
  another.
  A chain is never tied to its position, so more repeat the same meetings; the
  theorems of section 6 drop this bound.
* *Users*: two, because unwatch needs a second caller to race with.
* *`MaxRev` = 1*: there is an old and a new revision of each part; the code only
  asks whether two are equal.
* *Parts*: the instances and the rules of one source name each way, of which the
  inbound ones are missing from the newer revision: what an answer does not name
  must stay.  Two names in one table would be written in the same step.
* *Registrations*: two services with heartbeats and one registration without, all
  at one host and port: every pair that may share an entry.  Entries of different
  keys share only threads, `error`, `ref` and `status`; `heartbeat_threads` has two.
* *`HandlerThreads` = 2*: the pool is exhausted by two waiting callbacks, with
  one user there is always a spare.
* *`FailedMax` = 2* instead of 20: one failure that does not reach the limit, one
  that does.
* *`MaxMoves` = 1*: one address before, one after.
* *Policy*: three addresses allow a list of two to be replaced while a call holds
  one of it; two calls are the one that carries something and the one that
  disturbs it, also in the nearby router (`MaxRef` = 2 stops a third start on one address); weights 0, 1 and
  2, two values of one key and none, two regions and two zones, a destination
  below another and one beside it, a rule that does not match, `MaxFails` = 1
  (below, at and above the limit).
* *One service* in the consumer's runs: services share only `ref`, `status`,
  `error` and `exit_locked`, and the theorems are for any number.

Symmetry sets (users, chains, tasks) are used for runs with only invariants and step properties, never for
liveness.

### Deadlock

It is checked in every run but `heartbeat_threads`, whose point is a stop, and
those of the policy, where the addresses of the bound run out and the process may
end.  The states in which everything is freed, or every task of the bound is lost on an
unsupported protocol, stutter explicitly (`Terminated`, `AllLost`).

## 5. Fairness

* Weak fairness of each chain's (each task's) next step: Workflow's tasks end by
  an answer or a timeout, and their callbacks run as handler threads are free.
* Weak fairness of a thread that was released or notified, and of the end of
  `exit_locked`.
* In the consumer both are strong for steps that need the mutex, because the mutex
  is held over the three writes of an installation (`MutexFree`) and so is not free
  all the time: a thread that wants a `std::mutex`, which others hold for a moment
  only, gets it in the end.
* `AnswersFairness` (consumer): of the requests of a chain infinitely many
  succeed; a service whose requests fail for ever cannot converge.
* `ChainsFairness` (task): the Manager's chains go on making tasks of each kind.
* Users need not call, destroy or publish anything; failures and spurious
  wakeups may happen and need not.  `NotifiedSpec` leaves spurious wakeups out
  altogether: with one, `deregister_service` may return early and
  `OnlyUserRegisters` fails even with one chain.
* `TaskEnds` excepts a task whose lists are dropped for ever by others, and
  `ListsFollowServers` a platform that can be reached and fails for ever: TLC
  shows that without the exceptions the failures of tasks that arrive late keep
  clearing the bit of a list that was just pulled.

## 6. Proofs

TLAPS checks the theorems for every value of the constants that the named
assumptions of the modules allow (finite sets of series or calls, bounds that are
natural numbers, `None` apart from all values).  `PROJECT.json` lists them.

### `WatchManagerProofs`

| theorem | property |
|---|---|
| `TypeCorrect` | `TypeOK` |
| `RefCountCorrect` | `RefCount` |
| `PublishedCorrect` | `WatchedIffPublished` |
| `PolicyOnceCorrect` | `PolicyHeldOnce` |
| `RevisionCacheCorrect` | `RevisionCacheSound` |
| `PolicyKeptCorrect` | `PolicyKept` (a step property) |
| `OnlyUserAddsCorrect` | `OnlyUserAdds` (a step property) |
| `WatchOkCorrect` | `WatchOkInstalled` |
| `RefreshCorrect` | `WatchedIsRefreshed` |
| `AppliedCorrect` | `AppliedMonotone` (a step property) |

The argument has these layers.

* `Shape` is `TypeOK` with `ref \in Int`: that `ref` is not negative follows
  only from what it counts, so `RefCount` is proved from `Shape`, and `TypeOK`
  from both.
* `CallsInv` says who waits for what: a series with a `user` is in its first
  request, that user is in `watch_service` for the same service, it is his only
  series, and when its answer is about to be installed there is one.
* `WritersInv`: at most one series writes, and then the mutex is not free.
* `TablesInv` says for each service (`Published`) that entry and policy are there
  together, but while the first answer is written, that then no policy is put
  aside, and that the policy shows what the revisions of the entry bring; and for
  each series that writes (`Writer`, `OnTheWay`) that the policy already has all
  that these revisions will bring, but for the tables that are still to come.  The
  three properties of the tables need each other, and they need `CallsInv`: a
  policy that comes back from `unwatch_policies` meets an entry with the revisions
  "", and the two agree only because a user's answer is there and all of it differs
  from "", so all of it is written.
* `IInv`, the conjunction of these layers, is inductive (`IInvInductive`).  What a
  step does to the tables is one of a few cases (`TablesCases`, `BeginEffect`,
  `WriteEffect`), from which the step properties follow.
* `WatchOkInstalled` is inductive on top of `Shape`, because `error` never
  becomes 0 again (`ErrorStays`) and only a release lets a user go
  (`ReleasedBy`).
* `Served(s)`: when the entry of a service counts on a chain (`Awaits`), some chain
  `Serves` it: it is in the phase that `watching` announces.  A step of a user
  leaves that chain in place or ends the need (`UserEntry`).  A step of a chain hands
  over to itself (timer to request and back); an old chain's timer that sets
  `watching` becomes the one that serves; an old chain that finds `watching` false
  ends, but then the one with the pending timer is another (`ChainEntry`).  What
  the step of one chain leaves to another is `Rests` and `OtherEntry`.
* `LateInv` is what `AppliedMonotone` needs, inductive on top of `IInv` and the layer
  above.  Nobody holds a part that the platform has not had (`KnownPolicies`,
  `KnownAnswers`), so an answer that was just fetched cannot be older than the
  policy.  An answer without a user that is `Behind` is so only because, while it
  waited, somebody else wrote a newer one: then it is not the one that the entry
  counts on, and a second chain is (`Overtaken`).  So whoever replaces newer parts by
  older meets two live chains of the service (`TwoChains`, `WriteMonotone`), which is
  the exception that the property makes.

Each lemma about steps has one step for each action.

### `WatchRefinementProofs`

`Refinement`: `Spec => ImplementsWatchedService`, for any division of policies into
parts and tables and any names in the rules of an answer.  The mapping is that of
section 3.  `Quiet` is added to the invariant: after the destructor has begun no user
is in a call.  A series takes its place in `answers` while it holds an answer between
its two critical sections (`Holding`), and `Waiting*` say what one step does to that
set; `OneWriting` says whose answer is being written.  `SeriesMaps` covers the steps
that only fetch or drop, `BeginMaps` the publication.  `WriteMaps` is the heart: each
write brings parts of the answer and no other, and after the last one the policy
shows all that the answer brought, although a half that has not changed is skipped,
because what is skipped agrees with what the policy holds (`OnTheWay`).

### `HeartbeatManagerProofs`

| theorem | property |
|---|---|
| `TypeCorrect` | `TypeOK` |
| `RegisterOkCorrect` | `RegisterOkAccepted` |
| `BeatingCorrect` | `RegisteredIsBeating` |
| `OneChainCorrect` | `OnlyUserRegisters` (a step property), under `NotifiedSpec` and `[]OneChain` |
| `BeatsItselfCorrect` | `RegisteredBeatsItself`, under `OneOwner` |

`Shape` and `Counted` (the count is the number of live series, and one for the
handle) give `TypeOK`; `CallsInv` ties a waiting user to one series;
`Beating(i)` is `RegisteredIsBeating` for one instance, preserved by a step of a
series (`BeatingSeries`: the chain that beats hands over to itself, or to the
chain that adopts the entry) and by a step of a user (`BeatingUser`).  No theorem
bounds the number of chains or of handler threads.

`RegisteredIsBeating` is about the entry, that is about a host and port: some chain
does what its flag says, but it may be a chain of another registration.  That it is
the entry's own, `RegisteredBeatsItself`, is what run `heartbeat_shared` refutes.
`BeatsItselfCorrect` says when it holds: `OneOwner`, no host and port is registered
with heartbeats in two ways (for two services or at two intervals).  Then the chain
that serves the entry has a registration with heartbeats (`BeatInv`), the entry has
one of the same host and port (`OwnerInv`), and these are one and the same.

`OnlyUserRegisters` is not true of the code: run `heartbeat_two_chains` refutes it.
`OneChainCorrect` says when it is: `OneChain`, no two live chains of one instance,
is what an application has that registers an instance again only after the chain
of its last registration has ended, and `NotifiedSpec` is a wait that does not
return unnotified.  Both are needed, and states satisfy both: with one series of
the bound, `heartbeat_one_chain` has the first by its size.  The invariant is
`Own(i)`: while a heartbeat is on its way its entry is there, `heartbeating` unless
a thread waits to remove it; while the timer runs nobody waits for it and the flag
is false; at most one thread deregisters.  A step of the chain keeps it (`OwnChain`) because it finds the
entry as it left it; a step of another chain does not touch the entry (`OwnOther`);
a step of a user changes it only where the chain will look (`OwnUser`).  `CallsInv`
says of the series of a user that it is in no timer and is of his instance, so
that with `OneChain` his registration is the only chain of it.

### `HeartbeatRefinementProofs`

`Refinement`: `Spec => ImplementsRegisteredService`, by the mapping of section 3.
`Quiet` says that nobody is in a call when the destructor has begun, and
`Awaited` that nobody waits for a chain that has ended; with `CallsInv` the stage of a call is that of its one chain
(`StageOfChain`).  `CallStays`, `CallReleased` and `CallGoesOn` are what a step of a
chain does to the calls, `KeptStays`, `KeptMore` and `KeptLess` what it does to the
heartbeats that are kept up, `ListedSet` and `ListedErased` what the entry shows of
it.  Most steps of a chain are stutters.  The heart is `UpdateMaps`: a chain that
finds the flag false ends, and although it may be the chain of an earlier registration
that met the entry of the present one, or of another service, this is a `Stop` that the
abstract specification allows (`StopMaps`): heartbeats are not counted on, or those of
the same registration or of another one for the host and port go on, which is
`RegisteredIsBeating`.

### `PolarisTaskProofs`

| theorem | property | under |
|---|---|---|
| `TypeCorrect` | `TypeOK` | |
| `ServersCorrect` | `RequestsGoToServers` | no deregister task (section 7, 5) |
| `HasServerCorrect` | `RequestHasServer` | `HttpListed` |
| `SuccessCorrect` | `SuccessIsWhole` | no service looks up the key that it stores |

`Sound` adds to the types what a step relies on.  `Pure` says that with ids no list
and no request has the address of the platform access; `Filled` that every list
that was pulled has a member, also when its bit was cleared; `Filed` that the
revision map holds, under the key of a service, revisions of services with that
key, so that an answer without instances can only be one that another service's
revision asked for, which the platform does not give.

### `PolarisPolicyProofs`

| theorem | property |
|---|---|
| `AddressesCorrect` | `AddressesLive` |
| `FreeOfRaces` | no deleted address is met, without exception, if neither the nearby router nor the failover `all` is on |
| `LeaksCorrect` | `NothingLeaks` |
| `StrictCorrect` | `StrictStaysNear` |
| `MetaCorrect` | `MetaHonoured` |
| `NearbyCorrect` | `NearbyKeepsRegion` (a step property) |
| `TypeCorrect` | `TypeOK` |
| `ProportionalCorrect` | `ProportionalDraws` |
| `LastResortCorrect` | `UnfitIsLastResort` (a step property) |
| `BestCorrect` | `BestDestination` (a step property) |

`Counted(a)` is the core: the reference count of an address is at least the number
of calls that hold it, and one if it is in `servers`, as long as the two causes of
counts that are too low have not occurred (`Undisturbed`); exactly that many without
metadata and the nearby router (`Exact`); an address is deleted when and only when
its count is 0; and numbers not used yet have count 0.  It needs `Placed`, what a
call holds at each place of `select`, so that what is let go was held, and `Calm`:
until two calls have met in the nearby router, `servers` has no address twice and
every call that reads it has seen nothing else.  `HoldersStep` counts for a step of one
call, and `CallStep`, `TakenStep` and `LetGoStep` are the three kinds of such steps.
`CallEffect` says what any step does to one call; `SameHeld`, that an address which a
call has, sees or chooses, and which is not deleted, is the same instance before and
after a step.

`StrictStaysNear` needs more than itself, because a call that chooses from `servers`
may meet whatever others have written there: `StrictInv` adds that all a call sees
between the filter and the choice is in the region.  `StrictLeaves` shows it of what a
filter leaves however its loops mix up, and `SightStep` that nothing else comes into
sight.  `MetaInv` adds to `MetaHonoured` that a call with metadata does not come to
`get_one` with nothing matched.

`Tables` types what these leave open: the rule tables, the failure counts and, of a
call, its metadata, its caller and its pointer (`Fields`).  It is inductive on top of
the invariant above.  That a pointer, dangling or not, leads to destinations that the
platform has answered (`PointsAtRule`) is what makes `TypeOK` more than a list of
ranges.  `ProportionalCorrect` and `LastResortCorrect` apply the theorems about the
walk of `get_one` (below) to any state: `WalkFacts` shows that its hypotheses hold
there, and `ChosenDrawn` that a call that gets an address gets it from `get_one`.
`BestCorrect`: `CallEffect` singles out the step of `matching_subset`, and by
`BestIsTop` and `SubsetsBest` what it draws are the destinations of the best
priority that have an instance.

### `PolicyRoutingProofs`

Theorems about what the policy computes from its arguments, for any lists and weights.

| theorem | says |
|---|---|
| `DrawsAreWeights` | of the random numbers of `get_one` as many pick an instance as its weight says, when none is exactly at its limit of failures |
| `UnfitDrawnLast` | the walk stops at an instance with a weight and within its limit, unless those it may choose from have no weight or are at their limit |
| `FirstRuleMatches` | `matching_bounds` takes the first rule that matches |
| `DrawnBoundsFilled` | one destination is drawn, and of those with instances |
| `MetaIsMap` | the metadata of a call has one value for a key |
| `LevelsAreRegion` | all levels of the nearby router ask for the region (section 7) |
| `NeverDegradesByDefault` | with 100 percent it never degrades (section 7) |

The walk is about partial sums along a list of any length.  Instead of the
library's induction theorems, which take an operator as a parameter, `Least` gives
the least element of a set of numbers: `SumsExist` builds the recursive function from
the least place where none exists, `SumsGrow` and `SumsMore` compare two places or
two sums from the least place where they would fail, and `StopsWhere` finds the
interval of random numbers that end the walk at an instance; the length of that
interval is its weight.

### Only model-checked

Every safety invariant, every step property and both refinements of the passing runs
are stated by theorems.  Liveness is TLC's alone, because it needs fairness and `ENABLED`, which
TLAPS does not treat: `WatchReturns`, `UnwatchReturns`, `WatchedEventuallyFresh` and
`ExitFreesManager` of the consumer, `RegisterReturns` and `DeregisterReturns` of the
provider, `TaskEnds` and `ListsFollowServers` of the tasks.  So are the
counterexamples of section 7.

## 7. Disagreements between code and documents

Each is a run that ends in a counterexample; `findings` in `PROJECT.json`
quotes the documents.

1. `exit_locked` (171) writes to a Manager that a series may have deleted.
2. A heartbeat that is late re-enters an instance after its deregistration
   (813), and its chain goes on for ever.
3. `deregister_callback` (737) waits on handler threads: as many concurrent
   deregistrations as threads hang for ever.
4. `register_status` is keyed by host and port only (424, 713, 772, 821), and a
   chain's heartbeats carry the service, token and interval of its own registration
   (110-118).  Register a service with heartbeats at `h:p`, deregister it, and
   register another service, or the same with another interval, at `h:p` before the
   timer of the first fires: that timer adopts the entry (835), its answer clears the
   flag, and the answer of the second's own heartbeat then ends the second's chain
   (806).  Heartbeats of the service that is registered stop, those of the first go
   on, against `README.md` 188.
5. A deregister task carries no platform id (`PolarisTask.cc` 36): it poisons
   the shared server lists with the address of the platform access.
6. `matching_instances` (`PolarisPolicy.cc` 528) always returns true, so a rule
   without instances falls back to any server of the service; the comments before
   `matching_subset` and in `matching_instances` say that false is returned.

Two more disagreements with the documents are single lines, in the model as they are
but no run of their own:

* `deregister_callback` (725) ignores whether its request succeeded:
  `deregister_service` returns 0 although the platform has not removed the instance.
* `Manager::error` is never reset, so that (413) a registration that succeeded
  returns -1 after any earlier failure, of any call.

Weak points that no document speaks of.  Those of the policy are in the model
as they are, and are why its properties have the exceptions of section 4:

* *The nearby router writes under a read lock* (`PolarisPolicy.cc` 289, 647).  With
  `servers` = far, near 1, near 2: a call has passed the first; another assigns near
  1, near 2; the first goes on at the second place, finds near 2 and, in the stale
  third place, near 2 again, and assigns these.  Near 1 is lost to all later calls,
  and near 2 is listed twice with one reference: the next `update_instances` counts
  it down twice and frees it under a call that has it, or under itself.
* *The failover `all`* (830-832) returns the list of servers uncounted, and `select`
  lets go what it does not choose: it frees addresses that are listed.
* *An answer is installed table by table* (`PolarisManager.cc` 549, 560, 566, 567),
  without a lock that `select` takes: an application may be told that a service has no
  instances, or select from new instances by old rules.  Rules of a source name that
  the platform no longer has stay for ever (`PolarisPolicy.cc` 193-214, 225-246), also
  where `WatchedEventuallyFresh` calls the policy fresh: that is about the instances
  and the names that the platform still has rules for.

* `HttpListed`: a pulled list always names a server whose protocol is `http`.
  With `HttpListed = FALSE`, `RequestHasServer` fails: `parse_cluster_response`
  leaves an empty list and sets its bit, and `PolarisTask.cc` 156 computes
  `rand() % 0`.
* No service has the name of its namespace.  The revision map is written under
  `namespace.name` (398) and read under `name.namespace` (168), so revisions are
  not sent, except where the two agree; with the service `a.a`, `SuccessIsWhole`
  fails: an answer without instances counts as success.
  Both of these are assumptions of `task_safety`.
* A registration without a health check during a heartbeat of the same instance
  clears the flag that the heartbeat will look at: its chain ends, or, after a
  deregistration that did not wait, it comes back.
* `matching_meta` counts unhealthy matches and never lets them go; the nearby
  router loses the references of what it drops, and the instances until the next
  update.
* `matching_bounds` returns a pointer into a rule after its lock is released, and
  assigns the outbound rules over the inbound ones (357) through a reference,
  without the lock of the inbound table.
* Two destinations of the best priority without an instance: `rand() % 0` (470).
* An instance whose failures are exactly `max_fails` still gets calls, up to all of
  those of the instances behind it.
* The levels of the nearby router are all the region, by a `switch` without
  `break`s (569); a maximal level `zone` means `none`, by a missing `else`
  (79); an instance that names a region is dropped for a client that has no
  location; with the default of 100 percent nothing ever degrades, because the
  comparison is `>` (602).
* An empty `chain` in the configuration leaves the default routers on.
* The refresh interval in microseconds is an `unsigned int` (`PolarisManager.cc`
  628): the default of 6000000 ms, whose comment says `10 * 60 * 1000`, is ten times
  ten minutes, and wraps to a timer of about 28 minutes.
* A `trpc://` client's tasks end without a callback (`DispatchLost`).
* Copies of a `PolarisInstance` or a `PolarisConfig` share one structure: changing
  the one changes the other.

## 8. Not modelled

* Of the configuration all that does not reach the policy: the fields are read one
  by one, most of them by nobody afterwards.  `ParseTimeValue` and the conversions
  between JSON and structures are sequential and keep no state.
* The parsing of a url with several addresses (`PolarisClient.cc` 33): one loop
  over a string, which puts the scheme before an address that has one.
* Rate limit and circuit breaker tasks: their creators exist, and nobody calls
  them.
* `nalives` and `available_weight` of the policy, which nothing in the repository
  reads.
* The growth of the server lists without platform id (one entry for each
  dispatch): lists are sets here, the choice among their members is all that
  the properties see.
* Clients of `trpc://` urls in the Manager modules, which assume http:
  `watch_service` never returns.
* Two Managers over one name service: a second that unwatches the same service
  deletes the policy of the first.
* Undefined behaviour outside the preconditions of section 3; a torn copy of the
  rules, or a torn assignment of `servers`, by two calls at the same instant (section
  3); the moment in which `deregister_callback` deletes a
  WaitGroup that a thread is leaving; a rule without sources.
* Bodies of requests and answers, JSON, the vendored `json.hpp`, examples,
  tests and build files.

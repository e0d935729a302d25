---------------------------- MODULE PolarisPolicy ----------------------------
(***************************************************************************)
(* A PolarisPolicy (src/src/PolarisPolicy.cc): the addresses and the rules *)
(* of one service, which the Manager replaces while calls select from      *)
(* them.  A call of the user's program takes several read locks, one after *)
(* another:                                                                *)
(*                                                                         *)
(*   check_breaker, split_fragment -> matching_bounds -> matching_subset   *)
(*                                 -> matching_meta                        *)
(*                -> get_one -> the request -> success or failed           *)
(*                                                                         *)
(* and what it has found is used after the lock is released: addresses are *)
(* counted for it, the rule is only pointed at.  An action is what one     *)
(* lock covers, but for one case: the nearby router narrows the vector     *)
(* `servers' itself, under the read lock only, while other calls that have *)
(* the lock read it.  There a call takes the lock, reads and chooses in    *)
(* steps of their own, and what it reads while another writes may be mixed *)
(* of what both see.  FAULT definitions are as in WatchManager.            *)
(***************************************************************************)
EXTENDS PolicyRouting

CONSTANTS
  Calls,          \* threads that select an address at once
  Configs,        \* configuration files, each with a failover type
  Fragments,      \* of the URLs that are called
  InstanceLists,  \* lists of instances that the platform may answer
  RuleLists,      \* lists of routing rules that the platform may answer
  MaxAddrs,       \* bound: how many EndpointAddress objects are made
  MaxRef          \* bound: references of an address when a call starts

Addrs == 1 .. MaxAddrs

Elements(list) == {list[i] : i \in DOMAIN list}

Instances == UNION {Elements(list) : list \in InstanceLists}
Rules     == UNION {Elements(list) : list \in RuleLists}
Bounds    == {rule.destinations : rule \in Rules}
Destinations == UNION {Elements(bounds) : bounds \in Bounds}

(* The names that rules are kept under.                                    *)
Names == {rule.source.service : rule \in Rules}

(* What `dst_bounds' of a call points at: a rule's destinations under a    *)
(* name, and whether they are still there.                                 *)
Pointer == [name : Names, bounds : Bounds, valid : BOOLEAN]

(* A call: where it is in select, the `meta' and the caller it has split   *)
(* off the URL, its `dst_bounds', its `matched_subset', all that `servers' *)
(* has been since the call has the read lock, and the address it selected. *)
Callers == {f.caller : f \in Fragments \ {None}}
Pairs   == UNION {{<<p.key, p.value>>, <<p.stripped, p.value>>} :
                    p \in UNION {Elements(f.pairs) :
                                   f \in Fragments \ {None}}}
Call == [pc         : {"idle", "bounds", "outbound", "subset", "meta", "one",
                       "choose", "holding"},
         meta       : SUBSET Pairs,
         caller     : Callers \cup {None},
         dst_bounds : Pointer \cup {None},
         matched    : SUBSET Addrs,
         seen       : SUBSET SUBSET Addrs,
         addr       : Addrs \cup {None}]

ASSUME BoundsAssumption == /\ MaxAddrs \in Nat
                           /\ MaxRef \in Nat \ {0}
                           /\ MaxFails \in Nat \ {0}

ASSUME CallsAssumption == IsFiniteSet(Calls)

ASSUME ListsAssumption ==
  /\ InstanceLists \subseteq Seq(Instances)
  /\ RuleLists \subseteq Seq(Rules)
  /\ \A instance \in Instances : instance.weight \in Nat
  /\ Bounds \subseteq Seq(Destinations)
  /\ \A bound \in Destinations : bound.priority \in Int

ASSUME NoneAssumption == /\ None \notin Instances
                         /\ None \notin Addrs
                         /\ None \notin Pointer

VARIABLES
  config,          \* PolarisPolicy::config
  servers,         \* PolarisPolicy::servers, what is in it
  twice,           \* what may be in it more than once
  inbound_rules,   \* PolarisPolicy::inbound_rules
  outbound_rules,  \* PolarisPolicy::outbound_rules
  made,            \* how many EndpointAddress objects were made
  inst,            \* PolarisInstanceParams of each, None once it is deleted
  ref,             \* EndpointAddress::ref
  fail_count,      \* EndpointAddress::fail_count
  calls,           \* the callers' threads
  torn,            \* history: a call has changed `servers' while another
                   \* was reading it
  alive            \* FALSE: the process has divided by zero, or counted
                   \* an address that it had deleted

rules   == <<inbound_rules, outbound_rules>>
objects == <<inst, ref, fail_count>>
vector  == <<servers, twice, torn>>
vars    == <<config, vector, rules, made, objects, calls, alive>>

-----------------------------------------------------------------------------
NoCall == [pc |-> "idle", meta |-> {}, caller |-> None, dst_bounds |-> None,
           matched |-> {}, seen |-> {}, addr |-> None]

(* The Manager gives a policy its instances and rules after making it.     *)
Init == /\ \E c \in Configs :
             config = PolicyConfig(FromYaml(c.yaml), c.failover)
        /\ servers        = {}
        /\ twice          = {}
        /\ inbound_rules  = [n \in Names |-> None]
        /\ outbound_rules = [n \in Names |-> None]
        /\ made           = 0
        /\ inst           = [a \in Addrs |-> None]
        /\ ref            = [a \in Addrs |-> 0]
        /\ fail_count     = [a \in Addrs |-> 0]
        /\ calls          = [c \in Calls |-> NoCall]
        /\ torn           = FALSE
        /\ alive          = TRUE

Weight == [a \in Addrs |-> IF inst[a] = None THEN 0 ELSE inst[a].weight]

Healthy == {a \in Addrs : IsHealthy(fail_count[a])}

Move(c, call) == calls' = [calls EXCEPT ![c] = call]

(* FAULT: what a call has found is not counted.                            *)
TakenNot(S) == ref

(* The counts after the addresses in S are referenced, or let go.          *)
Taken(S) == [a \in Addrs |-> IF a \in S THEN ref[a] + 1 ELSE ref[a]]
(* FAULT: also addresses that nobody counted are let go.                   *)
LetGoAll(S) == [a \in Addrs |-> ref[a] - 1]

LetGo(S) == [a \in Addrs |-> IF a \in S THEN ref[a] - 1 ELSE ref[a]]

(* An address is deleted, and out of the breaker's list, when its last     *)
(* reference is let go.                                                    *)
Count(count, fails) ==
  /\ ref'        = count
  /\ inst'       = [a \in Addrs |-> IF count[a] = 0 THEN None ELSE inst[a]]
  /\ fail_count' = [a \in Addrs |-> IF count[a] = 0 THEN 0 ELSE fails[a]]

-----------------------------------------------------------------------------
(* The Manager replaces the instances: every address is made anew.         *)

(* clear_instances_locked, then add_server_locked for each, under the      *)
(* write lock.  An address that is listed again is let go again.           *)
UpdateInstances(list) ==
  LET n     == Len(list)
      fresh == made + 1 .. made + n
  IN  /\ \A c \in Calls : calls[c].seen = {}
      /\ made + n <= MaxAddrs
      /\ servers' = fresh
      /\ twice'   = {}
      /\ made'    = made + n
      /\ \E again \in SUBSET twice :
           LET left == [a \in Addrs |-> LetGo(servers)[a]
                                          - (IF a \in again THEN 1 ELSE 0)]
           IN  /\ \A a \in again : left[a] >= 0
               /\ ref'  = [a \in Addrs |-> IF a \in fresh THEN 1 ELSE left[a]]
               /\ inst' = [a \in Addrs |-> IF a \in fresh THEN list[a - made]
                                           ELSE IF left[a] = 0 THEN None
                                           ELSE inst[a]]
               /\ fail_count' = [a \in Addrs |->
                                   IF a \in fresh \/ left[a] = 0 THEN 0
                                   ELSE fail_count[a]]
      /\ UNCHANGED <<config, rules, calls, torn, alive>>

(* clear_instances_locked deletes an address, and counts it once more.     *)
ClearDeleted ==
  /\ \A c \in Calls : calls[c].seen = {}
  /\ \E a \in twice : ref[a] < 2
  /\ alive' = FALSE
  /\ UNCHANGED <<config, vector, rules, made, objects, calls>>

(* The rules of a list that are kept under a name.  Their order is that of *)
(* their places in the list, which they keep here.                         *)
RulesOf(list, n) ==
  [i \in {j \in DOMAIN list : list[j].source.service = n} |-> list[i]]

(* What a table may have under a name.                                     *)
Kept == {RulesOf(list, n) : list \in RuleLists, n \in Names}

(* The tables after a list of rules: a name that the list does not have    *)
(* keeps its rules.                                                        *)
Replaced(table, list) ==
  [n \in Names |-> IF DOMAIN RulesOf(list, n) = {} THEN table[n]
                   ELSE RulesOf(list, n)]

(* The calls, when the inbound rules under the names N are destroyed.      *)
Unpointed(N) ==
  [c \in Calls |->
     IF calls[c].dst_bounds # None /\ calls[c].dst_bounds.name \in N
     THEN [calls[c] EXCEPT !.dst_bounds.valid = FALSE]
     ELSE calls[c]]

UpdateInbounds(list) ==
  /\ inbound_rules' = Replaced(inbound_rules, list)
  /\ calls' = Unpointed({rule.source.service : rule \in Elements(list)})
  /\ UNCHANGED <<config, vector, outbound_rules, made, objects, alive>>

(* No call points into the outbound rules: matching_bounds copies them.    *)
UpdateOutbounds(list) ==
  /\ outbound_rules' = Replaced(outbound_rules, list)
  /\ UNCHANGED <<config, vector, inbound_rules, made, objects, calls, alive>>

-----------------------------------------------------------------------------
(* select.                                                                 *)

(* What select does first of what the configuration allows.                *)
FirstStep(meta) == IF meta = {}        THEN "one"
                   ELSE IF config.rule THEN "bounds"
                   ELSE IF config.meta THEN "meta"
                   ELSE "one"

(* check_breaker gives those addresses another try whose time in the       *)
(* breaker is over; then split_fragment, which may refuse the URL.         *)
Select(c) ==
  /\ calls[c].pc = "idle"
  /\ \A a \in Addrs : ref[a] <= MaxRef
  /\ \E over \in SUBSET {a \in Addrs : fail_count[a] >= MaxFails} :
       fail_count' = [a \in Addrs |-> IF a \in over THEN MaxFails - 1
                                      ELSE fail_count[a]]
  /\ \E f \in Fragments :
       IF Splits(config, f)
       THEN LET meta == MetaOf(config, f.pairs)
            IN  Move(c, [NoCall EXCEPT !.pc     = FirstStep(meta),
                                       !.meta   = meta,
                                       !.caller = IF config.rule THEN f.caller
                                                  ELSE None])
       ELSE UNCHANGED calls
  /\ UNCHANGED <<config, vector, rules, made, inst, ref, alive>>

(* The rules that a caller's name, or else "*", leads to.                  *)
NameFor(table, service) ==
  LET keys == {n \in Names : table[n] # None}
  IN  IF service \in keys  THEN service
      ELSE IF Wildcard \in keys THEN Wildcard
      ELSE None

(* A call that has looked in a table: on its way to the destinations of    *)
(* the first rule that matches, if there is one.  Nothing reads its caller *)
(* and its `meta' after that.                                              *)
Ruled(call, table) ==
  LET name  == NameFor(table, call.caller.service)
      first == IF name = None THEN 0
               ELSE FirstRule(table[name], call.caller, call.meta)
  IN  IF first = 0 THEN [NoCall EXCEPT !.pc = "one"]
      ELSE [NoCall EXCEPT !.pc = "subset",
                          !.dst_bounds =
                            [name   |-> name,
                             bounds |-> table[name][first].destinations,
                             valid  |-> TRUE]]

(* matching_bounds, under the inbound lock; without a key for the caller   *)
(* it unlocks it and goes on with the outbound rules.                      *)
MatchingInbound(c) ==
  /\ calls[c].pc = "bounds"
  /\ Move(c, IF NameFor(inbound_rules, calls[c].caller.service) = None
             THEN [calls[c] EXCEPT !.pc = "outbound"]
             ELSE Ruled(calls[c], inbound_rules))
  /\ UNCHANGED <<config, vector, rules, made, objects, alive>>

(* matching_bounds, under the outbound lock: `rules' is a reference to the *)
(* inbound rules, so the outbound rules are assigned to these, whatever an *)
(* update_inbounds has brought since.  The inbound lock is not held: what  *)
(* others do to the inbound rules at the same time is a data race, taken   *)
(* here as one after the other.                                            *)
MatchingOutbound(c) ==
  /\ calls[c].pc = "outbound"
  /\ inbound_rules' = outbound_rules
  /\ calls' = [Unpointed(Names) EXCEPT ![c] = Ruled(calls[c], outbound_rules)]
  /\ UNCHANGED <<config, vector, outbound_rules, made, objects, alive>>

(* With the nearby router: c takes the read lock of `servers'.             *)
LockServers(c) ==
  /\ config.nearby
  /\ calls[c].pc \in {"subset", "meta", "one"}
  /\ calls[c].matched = {}
  /\ calls[c].seen = {}
  /\ Move(c, [calls[c] EXCEPT !.seen = {servers}])
  /\ UNCHANGED <<config, vector, rules, made, objects, alive>>

MayRead(c) == config.nearby => calls[c].seen # {}

(* c has met one vector only, with no address twice.                       *)
Whole(c) == calls[c].seen \subseteq {servers} /\ twice = {}

(* All that c may find in `servers'.                                       *)
InSight(c) == servers \cup (UNION calls[c].seen)

(* What a loop of c over `servers' may go through: when another call has   *)
(* written, it may miss an address, or meet one that was dropped.          *)
Reads(c) == IF Whole(c) THEN {servers} ELSE SUBSET InSight(c)

(* What a read through `dst_bounds' finds: when the rule is gone, what is  *)
(* now in its place.                                                       *)
Pointed(c) == IF calls[c].dst_bounds.valid THEN {calls[c].dst_bounds.bounds}
              ELSE Bounds

(* Those of the addresses in S that match one of the destinations.         *)
Matching(S, bound) == {a \in S : InstanceMatches(inst[a], bound)}

(* The subsets that matching_subset may take of S.                         *)
Subsets(S, bounds) ==
  LET top    == TopBounds(bounds)
      filled == {i \in top : Matching(S, bounds[i]) # {}}
  IN  IF Cardinality(top) = 1
      THEN {Matching(S, bounds[i]) : i \in top}
      ELSE {Matching(S, bounds[i]) : i \in DrawnBounds(bounds, filled, top)}

(* rand() is taken modulo the number of destinations with instances.       *)
DividesByZero(S, bounds) == /\ Cardinality(TopBounds(bounds)) > 1
                            /\ \A i \in TopBounds(bounds) :
                                 Matching(S, bounds[i]) = {}

(* matching_subset returns true, with an empty subset, too; for a rule     *)
(* without destinations it is not called.                                  *)
MatchingSubset(c) ==
  LET onward == [calls[c] EXCEPT !.pc = "one", !.seen = {}]
  IN  /\ calls[c].pc = "subset"
      /\ MayRead(c)
      /\ \E bounds \in Pointed(c), S \in Reads(c) :
           \/ /\ bounds = <<>>
              /\ Move(c, onward)
              /\ UNCHANGED <<objects, alive>>
           \/ /\ bounds # <<>>
              /\ ~DividesByZero(S, bounds)
              /\ \E subset \in Subsets(S, bounds) :
                   /\ Move(c, [onward EXCEPT !.matched = subset])
                   /\ ref' = Taken(subset)
              /\ UNCHANGED <<inst, fail_count, alive>>
           \/ /\ bounds # <<>>
              /\ DividesByZero(S, bounds)
              /\ alive' = FALSE
              /\ UNCHANGED <<objects, calls>>
      /\ UNCHANGED <<config, vector, rules, made>>

(* The instances with all that the URL asks for.                           *)
MetaMatch(meta, S) == {a \in S : meta \subseteq inst[a].meta}

(* matching_meta_notkey: those that have none of its keys.                 *)
NoKeyMatch(meta, S) ==
  {a \in S : \A pair \in inst[a].meta, m \in meta : pair[1] # m[1]}

(* FAULT: without a match, any server will do.                             *)
MetaFoundAny(meta, S) ==
  IF MetaMatch(meta, S) # {} THEN MetaMatch(meta, S) ELSE S

(* What matching_meta counts: matches, or those of the failover "NotKey".  *)
MetaFound(meta, S) ==
  IF MetaMatch(meta, S) # {} \/ config.failover # "NotKey"
  THEN MetaMatch(meta, S)
  ELSE NoKeyMatch(meta, S)

(* matching_meta counts the healthy and the unhealthy that match, and      *)
(* returns the healthy, if any: the other references are never let go.     *)
(* The failover "All" returns all servers, and counts none of them.        *)
MatchingMeta(c) ==
  /\ calls[c].pc = "meta"
  /\ MayRead(c)
  /\ \E S \in Reads(c) :
       LET found   == MetaFound(calls[c].meta, S)
           well    == found \cap Healthy
           matched == IF found = {}   THEN S
                      ELSE IF well # {} THEN well
                      ELSE found
       IN  /\ ref' = Taken(found)
           /\ IF found = {} /\ config.failover # "All" THEN Move(c, NoCall)
              ELSE Move(c, [calls[c] EXCEPT !.pc      = "one",
                                            !.seen    = {},
                                            !.matched = matched])
  /\ UNCHANGED <<config, vector, rules, made, inst, fail_count, alive>>

-----------------------------------------------------------------------------
(* get_one and what follows it in select.                                  *)

Place == [a \in Addrs |-> IF inst[a] = None THEN config.location
                          ELSE inst[a].place]

(* What get_one chooses from; {} when it returns NULL.                     *)
Candidates(S) == IF config.nearby
                 THEN NearbyFilter(config, Place, Healthy, S)
                 ELSE S

(* The filter works on the vector itself: when it keeps anything, this is  *)
(* what the vector has afterwards.                                         *)
Narrowed(S) == IF Candidates(S) = {} THEN S ELSE Candidates(S)

(* FAULT: the rest of the subset stays referenced.                         *)
LetGoRestNot(S, one) == {}

(* What select lets go of a subset: what is left of it but the chosen one. *)
LetGoRest(S, one) == Narrowed(S) \ {one}

(* A call with a subset, which is its own; the chosen one keeps the        *)
(* subset's reference.                                                     *)
GetOneOfSubset(c) ==
  LET S == calls[c].matched
  IN  /\ calls[c].pc = "one"
      /\ S # {}
      /\ \/ \E one \in Drawn(Weight, fail_count, Candidates(S)) :
              /\ Move(c, [calls[c] EXCEPT !.pc = "holding", !.matched = {},
                                          !.dst_bounds = None, !.addr = one])
              /\ Count(LetGo(LetGoRest(S, one)), fail_count)
         \/ /\ Candidates(S) = {}
            /\ Move(c, NoCall)
            /\ Count(LetGo(LetGoRest(S, None)), fail_count)
      /\ UNCHANGED <<config, vector, rules, made, alive>>

(* What the filter may leave of `servers', {} when it returns false.  If   *)
(* another call writes meanwhile, its loops need not see the same.         *)
Leaves(c) ==
  IF Whole(c) THEN {Candidates(servers)}
  ELSE ((SUBSET Reachable(config, Place, InSight(c))) \ {{}})
         \cup {IF MayRecover(config) THEN servers ELSE {}}

(* A call without a subset takes any server: nearby_router_filter narrows  *)
(* `servers' itself, with only the read lock, and without letting go what  *)
(* it drops.  Two calls that assign at the same time are taken as one      *)
(* after the other.                                                        *)
NarrowServers(c) ==
  /\ calls[c].pc = "one"
  /\ calls[c].seen # {}
  /\ \E left \in Leaves(c) :
       IF left = {}
       THEN Move(c, NoCall) /\ UNCHANGED vector
       ELSE LET readers == {d \in Calls \ {c} : calls[d].seen # {}}
            IN  /\ servers' = left
                /\ twice'   \in IF Whole(c) THEN {{}}
                               ELSE {twice \cap left, left}
                /\ torn'    = (torn \/ (readers # {} /\ left # servers))
                /\ calls'   =
                     [d \in Calls |->
                        IF d = c THEN [calls[c] EXCEPT !.pc   = "choose",
                                                       !.seen = {left}]
                        ELSE IF d \in readers
                        THEN [calls[d] EXCEPT !.seen = @ \cup {left}]
                        ELSE calls[d]]
  /\ UNCHANGED <<config, rules, made, objects, alive>>

(* get_one draws from `servers', or, when another call has changed them    *)
(* meanwhile, takes any address that it may find there.                    *)
ChooseServer(c) ==
  /\ \/ calls[c].pc = "choose"
     \/ calls[c].pc = "one" /\ calls[c].matched = {} /\ ~config.nearby
  /\ \/ \E one \in IF Whole(c) THEN Drawn(Weight, fail_count, servers)
                    ELSE InSight(c) :
          /\ Move(c, [calls[c] EXCEPT !.pc = "holding", !.dst_bounds = None,
                                      !.seen = {}, !.addr = one])
          /\ ref' = Taken({one})
     \/ /\ servers = {}
        /\ Move(c, NoCall)
        /\ UNCHANGED ref
  /\ UNCHANGED <<config, vector, rules, made, inst, fail_count, alive>>

-----------------------------------------------------------------------------
(* The end of the request, in WFServiceGovernance: the count of failures,  *)
(* capped at what makes a difference, and the call's reference.            *)
Success(c) ==
  /\ calls[c].pc = "holding"
  /\ Move(c, NoCall)
  /\ Count(LetGo({calls[c].addr}), [fail_count EXCEPT ![calls[c].addr] = 0])
  /\ UNCHANGED <<config, vector, rules, made, alive>>

Failed(c) ==
  LET a == calls[c].addr
  IN  /\ calls[c].pc = "holding"
      /\ Move(c, NoCall)
      /\ Count(LetGo({a}),
               [fail_count EXCEPT ![a] = IF @ > MaxFails THEN @ ELSE @ + 1])
      /\ UNCHANGED <<config, vector, rules, made, alive>>

-----------------------------------------------------------------------------
(* What a call may do an access to.                                        *)
InUse == servers \cup (UNION {InSight(c) \cup calls[c].matched : c \in Calls})
                 \cup ({calls[c].addr : c \in Calls} \ {None})

(* None of it is deleted.  What the process does with a deleted address is *)
(* anybody's guess: the model ends there.                                  *)
Usable == \A a \in InUse : inst[a] # None

Next == /\ alive
        /\ Usable
        /\ \/ \E list \in InstanceLists : UpdateInstances(list)
           \/ ClearDeleted
           \/ \E list \in RuleLists : UpdateInbounds(list)
           \/ \E list \in RuleLists : UpdateOutbounds(list)
           \/ \E c \in Calls : \/ Select(c)
                               \/ MatchingInbound(c)
                               \/ MatchingOutbound(c)
                               \/ LockServers(c)
                               \/ MatchingSubset(c)
                               \/ MatchingMeta(c)
                               \/ GetOneOfSubset(c)
                               \/ NarrowServers(c)
                               \/ ChooseServer(c)
                               \/ Success(c)
                               \/ Failed(c)

Spec == Init /\ [][Next]_vars

-----------------------------------------------------------------------------
(* Type invariant: the members of PolarisPolicy, of its addresses and of   *)
(* its callers.                                                            *)
TypeOK == /\ servers \subseteq Addrs
          /\ twice \subseteq servers
          /\ inbound_rules \in [Names -> Kept \cup {None}]
          /\ outbound_rules \in [Names -> Kept \cup {None}]
          /\ made \in 0 .. MaxAddrs
          /\ inst \in [Addrs -> Instances \cup {None}]
          /\ ref \in [Addrs -> Nat]
          /\ fail_count \in [Addrs -> 0 .. MaxFails + 1]
          /\ calls \in [Calls -> Call]
          /\ torn \in BOOLEAN
          /\ alive \in BOOLEAN

(* The two ways in which the counts come to be too low: two calls that     *)
(* narrow `servers' at once may leave an address in it twice, with one     *)
(* reference; and the failover "All" hands out addresses uncounted.        *)
Undisturbed == ~torn /\ ~(config.meta /\ config.failover = "All")

(* No use after free: but for those two, an address that is in `servers',  *)
(* in the subset that a call has carried out of a read lock, or in a       *)
(* call's hands is not deleted, however often the Manager replaces the     *)
(* instances meanwhile.                                                    *)
AddressesLive == Undisturbed => Usable

(* No leak where the counts balance: by rules and without the nearby       *)
(* router, an address is deleted once the Manager has replaced it and no   *)
(* call has it any more.                                                   *)
NothingLeaks ==
  ~config.meta /\ ~config.nearby =>
    \A a \in Addrs : inst[a] # None => a \in InUse

(* With strictNearby a call never leaves the region of the client, in      *)
(* spite of recovery, degradation, replaced instances, empty subsets and   *)
(* other calls that narrow `servers' under its hands.                      *)
StrictStaysNear ==
  Usable /\ config.nearby /\ config.strict =>
    \A c \in Calls :
      calls[c].addr # None =>
        /\ ~NoLocation(config)
        /\ inst[calls[c].addr].place.region = config.location.region

(* By metadata, a call gets an instance with all the metadata of its URL,  *)
(* or, by the failover "NotKey", one with none of its keys: never any      *)
(* other, though the instances may be replaced, and `servers' narrowed,    *)
(* between the match and the choice.                                       *)
MetaHonoured ==
  Usable /\ config.meta /\ config.failover # "All" =>
    \A c \in Calls :
      calls[c].addr # None =>
        LET meta == calls[c].meta
            have == inst[calls[c].addr].meta
        IN  \/ meta \subseteq have
            \/ /\ config.failover = "NotKey"
               /\ \A pair \in have, m \in meta : pair[1] # m[1]

(* get_one is fair by weight: as long as no server stands exactly at its   *)
(* limit of failures, as many random numbers pick a server as its weight   *)
(* says, and none one that failed too often.                               *)
ProportionalDraws ==
  twice = {} /\ (\A a \in servers : fail_count[a] # MaxFails)
    /\ TotalWeight(Weight, fail_count, servers) > 0 =>
    \A a \in servers :
      Cardinality(DrawsOf(Weight, fail_count, servers, a))
        = IF a \in Healthy THEN Weight[a] ELSE 0

(* c gets an address from get_one in this step.                            *)
Chooses(c) == calls[c].addr = None /\ calls'[c].addr # None

(* An instance of weight 0, or one that failed more often than its limit,  *)
(* gets a call only when every instance that the call could choose from    *)
(* has weight 0 or is at its limit; of `servers', if it stays as it is     *)
(* while get_one goes through it.                                          *)
UnfitIsLastResort ==
  [][\A c \in Calls :
       (Chooses(c) /\ (calls[c].matched # {} \/ Whole(c))) =>
         LET one  == calls'[c].addr
             from == IF calls[c].matched # {} THEN Candidates(calls[c].matched)
                     ELSE servers
             fit  == {a \in from : Weight[a] > 0 /\ fail_count[a] < MaxFails}
         IN  \/ Weight[one] > 0 /\ one \in Healthy
             \/ fit = {}]_vars

(* The nearby router narrows `servers' in place, for all later calls.  The *)
(* calls never take the last instance out of it; and, as long as no other  *)
(* call has narrowed it since this one took the read lock, none that is in *)
(* the client's region.                                                    *)
NearbyKeepsRegion ==
  [][\A c \in Calls :
       (calls[c].pc = "one" /\ calls'[c].pc = "choose") =>
         /\ servers' # {}
         /\ Whole(c) => \A a \in servers \ servers' :
                          inst[a].place.region # config.location.region]_vars

(* By rules: of the destinations of the first rule that matches the call   *)
(* (as long as it is still there), those of the best priority with an      *)
(* instance get the call; it has the instances of one of them, all of them *)
(* that are in `servers' (which no other call narrows meanwhile).          *)
BestDestination ==
  [][\A c \in Calls :
       (calls[c].pc = "subset" /\ calls'[c].pc = "one" /\ Whole(c)
          /\ calls[c].dst_bounds.valid) =>
         LET bounds == calls[c].dst_bounds.bounds
             best   == {i \in DOMAIN bounds :
                          ~\E j \in DOMAIN bounds :
                             bounds[j].priority < bounds[i].priority}
         IN  \A i \in best :
               Matching(servers, bounds[i]) # {} =>
                 \E j \in best : /\ calls'[c].matched =
                                          Matching(servers, bounds[j])
                                 /\ calls'[c].matched # {}]_vars

(* The comment before matching_subset: "If no instancs is matched by any   *)
(* dst_bounds, return false", so select does not return an address that    *)
(* none of the destinations of the call's rule matches.                    *)
NoMatchFails ==
  [][\A c \in Calls :
       (Chooses(c) /\ calls[c].dst_bounds # None
          /\ calls[c].dst_bounds.valid) =>
         LET bounds == calls[c].dst_bounds.bounds
         IN  bounds # <<>> =>
               \E i \in DOMAIN bounds :
                 InstanceMatches(inst[calls'[c].addr], bounds[i])]_vars
=============================================================================

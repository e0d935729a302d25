---------------------------- MODULE PolicyRouting ----------------------------
(***************************************************************************)
(* What PolarisPolicy (src/src/PolarisPolicy.cc) computes of its arguments *)
(* alone: the settings of a policy, the fragment of a URL, which rules and *)
(* instances match, and which instance a random number picks.              *)
(*                                                                         *)
(* Metadata is a set of <<key, value>> pairs with one pair of a key.  A    *)
(* vector of addresses is the set of its members: addresses are numbers,   *)
(* in the order in which they were made, which is the order of `servers'   *)
(* and of all that is filtered from it.  FAULT definitions are as in       *)
(* WatchManager.                                                           *)
(***************************************************************************)
EXTENDS Integers, FiniteSets, FiniteSetsExt, Sequences

CONSTANTS
  MaxFails,  \* AddressParams::max_fails of every address
  None       \* no fragment, no caller, no rules under a name

Wildcard == "*"

-----------------------------------------------------------------------------
(* The settings: `conf' is what a PolarisConfig says.                      *)

(* What a PolarisConfig says of routing before it has read a file, and     *)
(* what a file says that leaves a name out.                                *)
Defaults ==
  [chain         |-> <<"ruleBasedRouter", "nearbyBasedRouter">>,
   matchLevel    |-> "zone",
   maxMatchLevel |-> "none",
   degrade       |-> TRUE,
   percent       |-> 100,
   recoverAll    |-> TRUE,
   strict        |-> FALSE,
   region        |-> "unknown",
   zone          |-> "unknown",
   campus        |-> "unknown"]

(* init_from_yaml, of a file that gives some of the names; an empty chain  *)
(* does not replace the default.                                           *)
FromYaml(yaml) ==
  LET given == {name \in DOMAIN yaml : name = "chain" => yaml.chain # <<>>}
  IN  [name \in DOMAIN Defaults |->
         IF name \in given THEN yaml[name] ELSE Defaults[name]]

(* nearby_match_level, of a string of the configuration.                   *)
MatchLevel(name) == CASE name = "zone"   -> "Zone"
                      [] name = "campus" -> "Campus"
                      [] name = "region" -> "Region"
                      [] OTHER           -> "None"

(* The chain of `if' for the maximal level lacks an `else': "zone" is set, *)
(* and overwritten.                                                        *)
MaxMatchLevel(name) == IF name = "zone" THEN "None" ELSE MatchLevel(name)

(* Of the two routers that exclude each other the later in the chain holds.*)
LastRouter(chain) ==
  LET exclusive == {i \in DOMAIN chain :
                      chain[i] \in {"ruleBasedRouter", "dstMetaRouter"}}
  IN  IF exclusive = {} THEN "" ELSE chain[Max(exclusive)]

Known(name) == IF name = "unknown" THEN "" ELSE name

(* A PolarisPolicyConfig.  The failover type is not of the configuration:  *)
(* a program that makes its policies itself may set it.                    *)
PolicyConfig(conf, failover) ==
  [rule       |-> LastRouter(conf.chain) = "ruleBasedRouter",
   meta       |-> LastRouter(conf.chain) = "dstMetaRouter",
   nearby     |-> \E i \in DOMAIN conf.chain :
                    conf.chain[i] = "nearbyBasedRouter",
   level      |-> MatchLevel(conf.matchLevel),
   maxLevel   |-> MaxMatchLevel(conf.maxMatchLevel),
   percent    |-> IF conf.degrade THEN conf.percent ELSE 100,
   recoverAll |-> conf.recoverAll,
   strict     |-> conf.strict,
   location   |-> [part \in {"region", "zone", "campus"} |->
                     Known(conf[part])],
   failover   |-> failover]

-----------------------------------------------------------------------------
(* split_fragment.  A fragment is a sequence of `k=v' pairs, each with its *)
(* whole key, the key behind "meta." (None: it has no "meta."), its value, *)
(* and what it says of the caller, as "namespace.service": that is in its  *)
(* last element without a `=', or, if every element has one, the whole     *)
(* fragment is taken for it (None: there is no dot).                       *)

(* The key a pair has for the router in use; None: the pair is skipped.    *)
KeyFor(config, pair) == IF config.meta THEN pair.stripped ELSE pair.key

(* std::map::emplace: the first pair of a key stays.                       *)
MetaOf(config, pairs) ==
  {<<KeyFor(config, pairs[i]), pairs[i].value>> : i \in
     {j \in DOMAIN pairs :
        /\ KeyFor(config, pairs[j]) # None
        /\ \A h \in 1 .. j - 1 :
             KeyFor(config, pairs[h]) # KeyFor(config, pairs[j])}}

(* split_fragment returns true.                                            *)
Splits(config, fragment) ==
  /\ fragment # None
  /\ \A i \in DOMAIN fragment.pairs : /\ fragment.pairs[i].key   # ""
                                      /\ fragment.pairs[i].value # ""
  /\ config.rule => fragment.caller # None

-----------------------------------------------------------------------------
(* Rules.                                                                  *)

Agree(x, y) == x = y \/ x = Wildcard \/ y = Wildcard

(* matching_rules: the caller, and every pair that it sends, is in the     *)
(* source of the rule; more metadata in the rule does not matter.          *)
RuleMatches(rule, caller, meta) ==
  /\ Agree(caller.service, rule.source.service)
  /\ Agree(caller.namespace, rule.source.namespace)
  /\ \A pair \in meta :
       \E label \in rule.source.meta :
         label[1] = pair[1] /\ label[2] \in {Wildcard, pair[2]}

(* matching_bounds finds the first rule of a name that matches: its index, *)
(* or 0.                                                                   *)
FirstRule(rules, caller, meta) ==
  LET hits == {i \in DOMAIN rules : RuleMatches(rules[i], caller, meta)}
  IN  IF hits = {} THEN 0 ELSE Min(hits)

(* matching_instances: one instance and one destination of a rule.         *)
InstanceMatches(instance, bound) ==
  /\ bound.namespace = instance.namespace
  /\ \A label \in bound.meta :
       \E pair \in instance.meta :
         pair[1] = label[1] /\ label[2] \in {Wildcard, pair[2]}

(* matching_subset groups the destinations by priority and, because        *)
(* matching_instances always returns true, looks at the first group only.  *)
TopBounds(bounds) ==
  {i \in DOMAIN bounds :
     \A j \in DOMAIN bounds : bounds[i].priority <= bounds[j].priority}

(* FAULT: destinations without instances are drawn, too.                   *)
DrawnBoundsAny(bounds, filled, top) == top

(* subsets_weighted_random: the destinations that the random number may    *)
(* fall on.  With weights of 0 only, the walk ends at the last.            *)
DrawnBounds(bounds, filled, top) ==
  LET heavy == {i \in filled : bounds[i].weight > 0}
  IN  IF heavy = {} THEN {Max(filled)} ELSE heavy

-----------------------------------------------------------------------------
(* The nearby router.                                                      *)

(* nearby_match_level: the cases of the switch fall through to the next.   *)
NearMatch(here, place, level) ==
  \/ /\ level = "Zone"
     /\ here.zone = place.zone
     /\ here.region = place.region
  \/ /\ level \in {"Zone", "Campus"}
     /\ here.campus = place.campus
     /\ here.zone = place.zone
     /\ here.region = place.region
  \/ /\ level \in {"Zone", "Campus", "Region"}
     /\ here.region = place.region

(* nearby_match_degrade.                                                   *)
Degrades(config, unhealthy, total) ==
  /\ config.maxLevel # "None"
  /\ ~config.strict
  /\ total = 0 \/ (unhealthy * 100) \div total > config.percent

NoLocation(config) == \A part \in DOMAIN config.location :
                        config.location[part] = ""

(* FAULT: unhealthy instances are left out when the level degrades.        *)
WidenedHealthy(config, place, healthy, S) ==
  {a \in S : a \in healthy /\ NearMatch(config.location, place[a],
                                        config.maxLevel)}

(* The second loop of nearby_router_filter.                                *)
Widened(config, place, healthy, S) ==
  {a \in S : NearMatch(config.location, place[a], config.maxLevel)}

(* What the loops may keep of S, whatever else they meet.                  *)
Reachable(config, place, S) ==
  {a \in S : /\ ~(config.strict /\ NoLocation(config))
             /\ \/ NearMatch(config.location, place[a], config.level)
                \/ /\ config.maxLevel # "None"
                   /\ ~config.strict
                   /\ NearMatch(config.location, place[a], config.maxLevel)}

(* FAULT: strictNearby does not hold recovery back.                        *)
MayRecoverAlways(config) == config.recoverAll

MayRecover(config) == config.recoverAll /\ ~config.strict

(* nearby_router_filter: what it leaves of S; {} when it returns false.    *)
NearbyFilter(config, place, healthy, S) ==
  LET near == {a \in S : NearMatch(config.location, place[a], config.level)}
      left == IF Degrades(config, Cardinality(near \ healthy),
                          Cardinality(near))
              THEN Widened(config, place, healthy, S)
              ELSE near
  IN  IF config.strict /\ NoLocation(config) THEN {}
      ELSE IF left # {} THEN left
      ELSE IF MayRecover(config) THEN S
      ELSE {}

-----------------------------------------------------------------------------
(* get_one: the instance a random number falls on.                         *)

(* check_server_health.                                                    *)
IsHealthy(fail_count) == fail_count <= MaxFails

Last(S) == Max(S \cup {0})

(* The loops over a vector S that add up the weights of `counted': the sum *)
(* after address n.                                                        *)
Sums(weight, S, counted) ==
  LET sum[n \in 0 .. Last(S)] ==
        IF n = 0 THEN 0
        ELSE sum[n - 1] + (IF n \in S \cap counted THEN weight[n] ELSE 0)
  IN  sum

(* What the random number is taken modulo of.  An instance whose           *)
(* fail_count has just reached max_fails does not count here.              *)
TotalWeight(weight, fails, S) ==
  Sums(weight, S, {a \in S : fails[a] < MaxFails})[Last(S)]

(* FAULT: the walk stops when the sum reaches x.                           *)
PastEarly(sum, x) == sum >= x

Past(sum, x) == sum > x

(* The sum of the weights that the walk has seen when it comes to a: in    *)
(* the walk it counts.                                                     *)
Walked(weight, fails, S, a) ==
  Sums(weight, S, {b \in S : IsHealthy(fails[b])})[a]

(* The walk for x stops at the first instance where the sum exceeds x, and *)
(* otherwise takes the last.                                               *)
StopsAt(weight, fails, S, a, x) ==
  LET stops == {b \in S : /\ IsHealthy(fails[b])
                          /\ Past(Walked(weight, fails, S, b), x)}
  IN  a = IF stops = {} THEN Max(S) ELSE Min(stops)

(* The random numbers for which get_one returns a.                         *)
DrawsOf(weight, fails, S, a) ==
  {x \in 0 .. TotalWeight(weight, fails, S) - 1 :
     StopsAt(weight, fails, S, a, x)}

(* FAULT: the random number may be the total itself.                       *)
DrawnToTotal(weight, fails, S) ==
  {a \in S : \E x \in 0 .. TotalWeight(weight, fails, S) :
                StopsAt(weight, fails, S, a, x)}

(* What get_one may return, of all instances if none has a weight left.    *)
Drawn(weight, fails, S) ==
  IF TotalWeight(weight, fails, S) = 0
  THEN S
  ELSE {a \in S : DrawsOf(weight, fails, S, a) # {}}
=============================================================================

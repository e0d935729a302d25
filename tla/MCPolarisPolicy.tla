--------------------------- MODULE MCPolarisPolicy ---------------------------
(* Instances of PolarisPolicy for TLC.                                     *)
EXTENDS PolarisPolicy, TLC

CONSTANTS c1, c2

Symmetry == Permutations({c1, c2})

Here  == [region |-> "r", zone |-> "z", campus |-> "unknown"]
Near  == [region |-> "r", zone |-> "y", campus |-> ""]
Far   == [region |-> "q", zone |-> "z", campus |-> ""]

(* Instances, of weights 0, 1 and 2, with two values of k and without k.   *)
Instance(values, weight, place) ==
  [namespace |-> "n", meta |-> {<<"k", v>> : v \in values}, weight |-> weight,
   place |-> place]

Heavy == Instance({"v"}, 2, Here)
Twin  == Instance({"w"}, 1, Near)
Idle  == Instance({"w"}, 0, Far)
Plain == Instance({}, 1, Here)

Lists == {<<Idle, Heavy>>, <<Plain, Twin>>, <<Plain>>}

(* Rules: inbound two destinations of one priority; outbound one that does *)
(* not match, and one whose first destination is below the second.         *)
To(value, priority, weight) ==
  [namespace |-> "n", meta |-> {<<"k", value>>}, priority |-> priority,
   weight |-> weight]

From(service, value, destinations) ==
  [source |-> [service |-> service, namespace |-> "n",
               meta |-> {<<"meta.k", value>>}],
   destinations |-> destinations]

RulesIn  == <<From("a", "v", <<To("v", 1, 1), To("w", 1, 1)>>)>>
RulesOut == <<From("*", "w", <<>>),
              From("*", "*", <<To("w", 2, 1), To("*", 1, 1)>>)>>
RuleSets == {RulesIn, RulesOut}

(* URLs: "n.a", "meta.k=v&n.a", and "k=v", which has no dot.               *)
Pair   == [key |-> "meta.k", stripped |-> "k", value |-> "v"]
Other  == [key |-> "k", stripped |-> None, value |-> "v"]
Caller == [service |-> "a", namespace |-> "n"]
URLs   == {[pairs |-> <<>>, caller |-> Caller],
           [pairs |-> <<Pair>>, caller |-> Caller],
           [pairs |-> <<Other>>, caller |-> None]}

(* Files that leave out what they want as it is by default, as the chain.  *)
Routed(chain) ==
  [chain |-> chain, maxMatchLevel |-> "region", percent |-> 40]

At(place) == [region |-> place.region, zone |-> place.zone]

Confs ==
  {[yaml |-> Routed(<<"ruleBasedRouter">>), failover |-> "None"],
   [yaml |-> Routed(<<"nearbyBasedRouter">>) @@ At(Here), failover |-> "None"],
   [yaml |-> Routed(<<>>) @@ At(Here) @@ [strict |-> TRUE],
    failover |-> "None"],
   [yaml |-> At(Here) @@
      Routed(<<"ruleBasedRouter", "dstMetaRouter", "nearbyBasedRouter">>),
    failover |-> "NotKey"],
   [yaml |-> Routed(<<"dstMetaRouter">>), failover |-> "All"]}
=============================================================================

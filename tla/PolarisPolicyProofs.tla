------------------------- MODULE PolarisPolicyProofs -------------------------
(***************************************************************************)
(* Theorems about PolarisPolicy, for any calls (finitely many), fragments, *)
(* configurations, lists and bounds.                                       *)
(***************************************************************************)
EXTENDS PolarisPolicy, PolicyRoutingProofs

(* Whatever get_one chooses from is of the vector it was given, and so is  *)
(* what it chooses.                                                        *)
LEMMA CandidatesType ==
  ASSUME NEW S
  PROVE  /\ Candidates(S) \subseteq S
         /\ Narrowed(S) \subseteq S
         /\ ~config.nearby => Narrowed(S) = S
BY DEF Candidates, Narrowed, NearbyFilter, Widened

LEMMA DrawnType ==
  ASSUME NEW w, NEW fails, NEW S
  PROVE  Drawn(w, fails, S) \subseteq S
BY DEF Drawn

-----------------------------------------------------------------------------
(* The inductive invariant.                                                *)

One(b) == IF b THEN 1 ELSE 0

(* A call has a: in its subset, or as its address.                         *)
Holds(call, a) == a \in call.matched \/ a = call.addr

Holders(a) == {c \in Calls : Holds(calls[c], a)}

Held(a) == Cardinality(Holders(a)) + One(a \in servers)

(* The counts balance: matching_meta and the nearby router are the two     *)
(* places that count and do not let go.                                    *)
Exact == ~config.meta /\ ~config.nearby

Counted(a) == /\ Undisturbed => ref[a] >= Held(a)
              /\ Exact => ref[a] = Held(a)
              /\ inst[a] = None <=> ref[a] = 0
              /\ a > made => ref[a] = 0

(* What is needed of the types; a field that does not matter may be any.   *)
CallShape(call) ==
  call \in [pc : {"idle", "bounds", "outbound", "subset", "meta", "one",
                  "choose", "holding"},
            meta : {call.meta}, caller : {call.caller},
            dst_bounds : {call.dst_bounds},
            matched : SUBSET Addrs, seen : SUBSET SUBSET Addrs,
            addr : Addrs \cup {None}]

Shape == /\ made \in 0 .. MaxAddrs
         /\ servers \in SUBSET Addrs
         /\ inst \in [Addrs -> Instances \cup {None}]
         /\ ref \in [Addrs -> Nat]
         /\ calls = [c \in Calls |-> calls[c]]
         /\ \A c \in Calls : CallShape(calls[c])
         /\ twice \in SUBSET servers
         /\ torn \in BOOLEAN
         /\ ~(config.rule /\ config.meta)

(* The vector is whole, until two calls are in the nearby router at once.  *)
Calm == /\ torn => config.nearby
        /\ ~torn => /\ twice = {}
                    /\ \A c \in Calls : calls[c].seen \subseteq {servers}

(* What a call has at each place of select.                                *)
Placed(conf, call) ==
  /\ call.pc \notin {"one", "holding"} => call.matched = {} /\ call.addr = None
  /\ call.pc = "one" => call.addr = None
  /\ call.pc = "holding" => call.matched = {} /\ call.addr # None
  /\ call.pc = "meta" => conf.meta
  /\ call.pc \in {"bounds", "outbound", "subset"} => ~conf.meta
  /\ call.pc = "choose" => call.seen # {}
  /\ call.seen # {} => /\ conf.nearby /\ call.matched = {}
                       /\ call.pc \in {"subset", "meta", "one", "choose"}

IInv == /\ Shape
        /\ Calm
        /\ \A c \in Calls : Placed(config, calls[c])
        /\ \A a \in Addrs : Counted(a)

-----------------------------------------------------------------------------
(* Counting.                                                               *)

LEMMA HoldersType ==
  ASSUME NEW a
  PROVE  /\ IsFiniteSet(Holders(a))
         /\ Cardinality(Holders(a)) \in Nat
         /\ Cardinality(Holders(a)) = 0 <=> Holders(a) = {}
BY CallsAssumption, FS_Subset, FS_CardinalityType, FS_EmptySet DEF Holders

LEMMA HeldType ==
  ASSUME NEW a
  PROVE  /\ Held(a) \in Nat
         /\ Held(a) = 0 <=> a \notin servers /\ Holders(a) = {}
BY HoldersType DEF Held, One

(* A step in which c alone takes and lets go.                              *)
LEMMA HoldersStep ==
  ASSUME NEW c \in Calls, NEW a,
         \A d \in Calls \ {c} : /\ calls'[d].matched = calls[d].matched
                                /\ calls'[d].addr = calls[d].addr
  PROVE  Cardinality(Holders(a)') + One(Holds(calls[c], a))
           = Cardinality(Holders(a)) + One(Holds(calls'[c], a))
<1> DEFINE Rest == Holders(a) \ {c}
<1>1. IsFiniteSet(Rest) /\ Cardinality(Rest) \in Nat
  BY HoldersType, FS_RemoveElement, FS_CardinalityType
<1>2. Holders(a) = IF Holds(calls[c], a) THEN Rest \cup {c} ELSE Rest
  BY DEF Holders
<1>3. Holders(a)' = IF Holds(calls'[c], a) THEN Rest \cup {c} ELSE Rest
  BY DEF Holders, Holds
<1>4. Cardinality(Rest \cup {c}) = Cardinality(Rest) + 1
  BY <1>1, FS_AddElement
<1> HIDE DEF Rest
<1> QED
  BY <1>1, <1>2, <1>3, <1>4 DEF One

(* A step in which no call does.                                           *)
LEMMA HoldersSame ==
  ASSUME NEW a,
         \A d \in Calls : /\ calls'[d].matched = calls[d].matched
                          /\ calls'[d].addr = calls[d].addr
  PROVE  Cardinality(Holders(a)') = Cardinality(Holders(a))
BY DEF Holders, Holds

(* An address stays counted when the step of c changes its reference by    *)
(* what c takes or lets go.                                                *)
LEMMA CountedStep ==
  ASSUME IInv, UNCHANGED <<config, made, vector>>, NEW c \in Calls,
         \A d \in Calls \ {c} : /\ calls'[d].matched = calls[d].matched
                                /\ calls'[d].addr = calls[d].addr,
         NEW a \in Addrs, ref'[a] \in Nat,
         inst'[a] = IF ref'[a] = 0 THEN None ELSE inst[a],
         ref[a] = 0 => ref'[a] = 0,
         Undisturbed => ref'[a] + One(Holds(calls[c], a))
                          >= ref[a] + One(Holds(calls'[c], a)),
         Exact => ref'[a] + One(Holds(calls[c], a))
                    = ref[a] + One(Holds(calls'[c], a))
  PROVE  Counted(a)'
<1> DEFINE n  == Cardinality(Holders(a))
           n2 == Cardinality(Holders(a)')
           h  == One(Holds(calls[c], a))
           h2 == One(Holds(calls'[c], a))
           s  == One(a \in servers)
<1>1. n2 + h = n + h2
  BY HoldersStep
<1>2. n \in Nat /\ n2 \in Nat
  <2>1. n \in Nat
    BY HoldersType
  <2>2. n2 \in Nat
    BY CallsAssumption, FS_Subset, FS_CardinalityType DEF Holders
  <2> QED BY <2>1, <2>2
<1>3. h \in {0, 1} /\ h2 \in {0, 1} /\ s \in {0, 1}
  BY DEF One
<1>4. /\ Counted(a) /\ ref[a] \in Nat
      /\ Held(a) = n + s /\ Held(a)' = n2 + s
      /\ Exact' = Exact /\ Undisturbed' = Undisturbed
  BY DEF IInv, Shape, Held, Exact, One, Undisturbed, vector
<1> HIDE DEF n, n2, h, h2, s
<1>5. /\ Undisturbed => ref'[a] >= Held(a)'
      /\ Exact => ref'[a] = Held(a)'
  <2>1. /\ Undisturbed => ref[a] >= n + s
        /\ Exact => ref[a] = n + s
    BY <1>4 DEF Counted
  <2>2. /\ Undisturbed => ref'[a] + h >= ref[a] + h2
        /\ Exact => ref'[a] + h = ref[a] + h2
    BY DEF h, h2
  <2> QED BY <1>1, <1>2, <1>3, <1>4, <2>1, <2>2
<1>7. inst'[a] = None <=> ref'[a] = 0
  BY <1>4 DEF Counted
<1>8. a > made' => ref'[a] = 0
  BY <1>4 DEF Counted
<1> QED
  BY <1>4, <1>5, <1>7, <1>8 DEF Counted

(* A step of c.                                                            *)
LEMMA MoveStep ==
  ASSUME IInv, config' = config, NEW c \in Calls, NEW w, Move(c, w),
         CallShape(w), Placed(config, w)
  PROVE  /\ calls' = [d \in Calls |-> calls'[d]]
         /\ calls'[c] = w
         /\ \A d \in Calls \ {c} : calls'[d] = calls[d]
         /\ \A d \in Calls : CallShape(calls'[d]) /\ Placed(config, calls'[d])
<1>1. calls = [d \in Calls |-> calls[d]]
  BY DEF IInv, Shape
<1>2. /\ calls' = [d \in Calls |-> calls'[d]]
      /\ calls'[c] = w
      /\ \A d \in Calls \ {c} : calls'[d] = calls[d]
  BY <1>1 DEF Move
<1>3. \A d \in Calls : CallShape(calls'[d])
  BY <1>2 DEF IInv, Shape
<1>4. \A d \in Calls : Placed(config, calls'[d])
  BY <1>2 DEF IInv, Placed
<1> QED
  BY <1>2, <1>3, <1>4

(* In a step that only points calls elsewhere every call keeps the rest.   *)
LEMMA UnpointedCalls ==
  ASSUME IInv, NEW N, NEW c \in Calls
  PROVE  /\ CallShape(Unpointed(N)[c])
         /\ \A f \in {"pc", "meta", "matched", "seen", "addr"} :
              Unpointed(N)[c][f] = calls[c][f]
<1> DEFINE w == [calls[c] EXCEPT !.dst_bounds.valid = FALSE]
<1>1. CallShape(calls[c])
  BY DEF IInv, Shape
<1>2. CallShape(w) /\ \A f \in {"pc", "meta", "matched", "seen", "addr"} :
                        w[f] = calls[c][f]
  BY <1>1 DEF CallShape
<1>3. Unpointed(N)[c] \in {w, calls[c]}
  BY DEF Unpointed
<1> QED
  BY <1>1, <1>2, <1>3

LEMMA FoundNotDeleted ==
  ASSUME IInv, Usable, NEW a \in Addrs,
         \/ a \in servers
         \/ \E c \in Calls : Holds(calls[c], a) \/ a \in InSight(c)
  PROVE  ref[a] \in Nat \ {0} /\ inst[a] # None
<1>1. a \in InUse
  <2>1. CASE a \in servers
    BY <2>1 DEF InUse
  <2>2. CASE \E c \in Calls : Holds(calls[c], a) \/ a \in InSight(c)
    <3>1. PICK c \in Calls : \/ a \in calls[c].matched \/ a = calls[c].addr
                            \/ a \in InSight(c)
      BY <2>2 DEF Holds
    <3>2. a # None
      BY NoneAssumption
    <3> QED
      BY <3>1, <3>2 DEF InUse
  <2> QED
    BY <2>1, <2>2
<1>2. Counted(a) /\ ref[a] \in Nat /\ inst[a] # None
  BY <1>1 DEF IInv, Shape, Usable
<1> QED
  BY <1>2 DEF Counted

LEMMA SightType ==
  ASSUME IInv, NEW c \in Calls
  PROVE  InSight(c) \in SUBSET Addrs /\ Reads(c) \subseteq SUBSET InSight(c)
BY DEF InSight, Reads, IInv, Shape, CallShape

(* While nothing disturbs them, the calls read one vector.                 *)
LEMMA CalmReads ==
  ASSUME IInv, ~torn, NEW c \in Calls
  PROVE  Whole(c) /\ InSight(c) = servers
BY DEF IInv, Calm, Whole, InSight

LEMMA ExactCalm == ASSUME IInv, Exact PROVE Undisturbed
BY DEF IInv, Shape, Calm, Exact, Undisturbed

-----------------------------------------------------------------------------
(* The steps preserve the invariant.                                       *)

LEMMA InitStep == Init => IInv
<1> SUFFICES ASSUME Init PROVE IInv
  OBVIOUS
<1>1. ~(config.rule /\ config.meta)
  <2>1. PICK conf, failover : config = PolicyConfig(conf, failover)
    BY DEF Init
  <2> DEFINE last == LastRouter(conf.chain)
  <2>2. /\ config.rule <=> last = "ruleBasedRouter"
        /\ config.meta <=> last = "dstMetaRouter"
    BY <2>1, Zenon DEF PolicyConfig
  <2> HIDE DEF last
  <2> QED BY <2>2
<1>2. Shape
  <2>1. CallShape(NoCall)
    BY DEF CallShape, NoCall
  <2>2. Addrs = 1 .. MaxAddrs /\ 0 \in 0 .. MaxAddrs
    BY BoundsAssumption DEF Addrs
  <2> QED
    BY <1>1, <2>1, <2>2 DEF Init, Shape
<1>c. Calm
  BY DEF Init, Calm, NoCall
<1>3. \A c \in Calls : Placed(config, calls[c])
  BY DEF Init, Placed, NoCall
<1>4. ASSUME NEW a \in Addrs PROVE Counted(a)
  <2>1. Holders(a) = {} /\ a \notin servers
    BY NoneAssumption DEF Init, Holders, Holds, NoCall
  <2>2. Held(a) = 0
    BY <2>1, HeldType
  <2> QED
    BY <2>2 DEF Counted, Init
<1> QED
  BY <1>2, <1>c, <1>3, <1>4 DEF IInv

(* What update_instances does to the objects, by the counts it leaves.      *)
LEMMA InstancesEffect ==
  ASSUME NEW list \in InstanceLists, UpdateInstances(list)
  PROVE  \E left :
           /\ inst' = [a \in Addrs |->
                         IF a \in made + 1 .. made + Len(list) THEN list[a - made]
                         ELSE IF left[a] = 0 THEN None ELSE inst[a]]
           /\ fail_count' = [a \in Addrs |->
                         IF a \in made + 1 .. made + Len(list) \/ left[a] = 0
                         THEN 0 ELSE fail_count[a]]
<1> DEFINE fresh == made + 1 .. made + Len(list)
           Left(again) == [a \in Addrs |-> LetGo(servers)[a]
                                           - (IF a \in again THEN 1 ELSE 0)]
<1>1. PICK again \in SUBSET twice :
        /\ inst' = [a \in Addrs |-> IF a \in fresh THEN list[a - made]
                                    ELSE IF Left(again)[a] = 0 THEN None
                                    ELSE inst[a]]
        /\ fail_count' = [a \in Addrs |->
                            IF a \in fresh \/ Left(again)[a] = 0 THEN 0
                            ELSE fail_count[a]]
  BY DEF UpdateInstances
<1> DEFINE left == Left(again)
<1> HIDE DEF Left
<1> QED BY <1>1, Zenon

LEMMA UpdateInstancesStep ==
  ASSUME IInv, Usable, NEW list \in InstanceLists, UpdateInstances(list)
  PROVE  IInv'
<1> DEFINE n     == Len(list)
           fresh == made + 1 .. made + n
<1>1. /\ n \in Nat
      /\ \A i \in 1 .. n : list[i] \in Instances
  BY ListsAssumption
<1>2. made \in Nat /\ made + n \in 0 .. MaxAddrs /\ fresh \subseteq Addrs
  BY <1>1, BoundsAssumption DEF IInv, Shape, UpdateInstances, Addrs
<1>3. \A a \in Addrs : /\ ref[a] \in Nat
                       /\ a \in servers => ref[a] # 0
  BY FoundNotDeleted DEF IInv, Shape
<1> DEFINE Left(again) == [a \in Addrs |-> LetGo(servers)[a]
                                           - (IF a \in again THEN 1 ELSE 0)]
<1>p. PICK again \in SUBSET twice :
        /\ \A a \in again : Left(again)[a] >= 0
        /\ ref'  = [a \in Addrs |-> IF a \in fresh THEN 1 ELSE Left(again)[a]]
        /\ inst' = [a \in Addrs |-> IF a \in fresh THEN list[a - made]
                                    ELSE IF Left(again)[a] = 0 THEN None
                                    ELSE inst[a]]
  BY DEF UpdateInstances
<1> DEFINE left == Left(again)
<1>l. \A a \in Addrs : /\ left[a] = (IF a \in servers THEN ref[a] - 1 ELSE ref[a])
                                    - (IF a \in again THEN 1 ELSE 0)
                       /\ left[a] \in Nat
  <2>1. \A a \in Addrs :
          left[a] = (IF a \in servers THEN ref[a] - 1 ELSE ref[a])
                      - (IF a \in again THEN 1 ELSE 0)
    BY DEF LetGo
  <2>2. ASSUME NEW a \in Addrs PROVE left[a] \in Nat
    <3>1. CASE a \in again
      <4>1. left[a] >= 0 /\ left[a] = (IF a \in servers THEN ref[a] - 1 ELSE ref[a]) - 1
        BY <1>p, <2>1, <3>1
      <4> QED BY <1>3, <4>1
    <3>2. CASE a \notin again
      <4>1. left[a] = IF a \in servers THEN ref[a] - 1 ELSE ref[a]
        BY <1>3, <2>1, <3>2
      <4> QED BY <1>3, <4>1
    <3> QED BY <3>1, <3>2
  <2> QED BY <2>1, <2>2
<1>q. /\ \A a \in Addrs : ref'[a] = IF a \in fresh THEN 1 ELSE left[a]
      /\ \A a \in Addrs : inst'[a] = IF a \in fresh THEN list[a - made]
                                    ELSE IF left[a] = 0 THEN None
                                    ELSE inst[a]
      /\ ref' = [a \in Addrs |-> ref'[a]] /\ inst' = [a \in Addrs |-> inst'[a]]
  BY <1>p
<1>a. again \subseteq servers /\ (~torn => again = {})
  BY DEF IInv, Calm, Shape
<1> HIDE DEF left, Left
<1>5. \A a \in fresh : a - made \in 1 .. n /\ list[a - made] \in Instances
  BY <1>1, <1>2
<1>6. ref' \in [Addrs -> Nat]
  BY <1>l, <1>q
<1>7. inst' \in [Addrs -> Instances \cup {None}]
  <2>2. \A a \in Addrs : inst'[a] \in Instances \cup {None}
    BY <1>q, <1>5 DEF IInv, Shape
  <2> QED BY <1>q, <2>2
<1>8. Shape'
  BY <1>2, <1>6, <1>7 DEF IInv, Shape, UpdateInstances, CallShape
<1>c. Calm'
  BY DEF IInv, Calm, UpdateInstances
<1>9. \A c \in Calls : Placed(config, calls[c])'
  BY DEF IInv, UpdateInstances, Placed
<1>10. ASSUME NEW a \in Addrs PROVE Counted(a)'
  <2>1. Cardinality(Holders(a)') = Cardinality(Holders(a))
    BY HoldersSame DEF UpdateInstances
  <2>2. Held(a)' = Cardinality(Holders(a)) + One(a \in fresh)
    BY <2>1 DEF Held, UpdateInstances
  <2>3. /\ Counted(a) /\ Held(a) = Cardinality(Holders(a)) + One(a \in servers)
        /\ Cardinality(Holders(a)) \in Nat /\ a \in Int
        /\ Exact' = Exact /\ Undisturbed' = Undisturbed
    BY HoldersType DEF IInv, Held, Exact, Undisturbed, UpdateInstances, Addrs
  <2>4. made' = made + n
    BY DEF UpdateInstances
  <2>e. Exact => Undisturbed
    BY ExactCalm
  <2>u. Undisturbed => ~torn
    BY DEF Undisturbed
  <2>5. CASE a \in fresh
    <3>1. /\ ref[a] = 0
          /\ Undisturbed => Cardinality(Holders(a)) = 0
      BY <1>2, <1>3, <2>3, <2>5 DEF Counted, One
    <3>2. ref'[a] = 1 /\ inst'[a] # None /\ ~(a > made')
      <4>1. ref'[a] = 1 /\ inst'[a] = list[a - made]
        BY <1>q, <2>5
      <4>2. inst'[a] # None
        BY <1>5, <2>5, <4>1, NoneAssumption
      <4>4. ~(a > made')
        BY <1>1, <1>2, <2>4, <2>5
      <4> QED BY <4>1, <4>2, <4>4
    <3>3. Undisturbed => Held(a)' = 1
      BY <2>2, <2>5, <3>1 DEF One
    <3> QED BY <2>3, <2>e, <3>2, <3>3 DEF Counted
  <2>6. CASE a \notin fresh
    <3>1. /\ ref'[a] = left[a]
          /\ Held(a)' = Cardinality(Holders(a))
          /\ inst'[a] = IF ref'[a] = 0 THEN None ELSE inst[a]
      BY <1>q, <2>2, <2>3, <2>6 DEF One
    <3>2. Undisturbed =>
            left[a] = IF a \in servers THEN ref[a] - 1 ELSE ref[a]
      BY <1>a, <1>l, <1>3, <2>u
    <3>3. /\ Undisturbed => ref'[a] >= Held(a)'
          /\ Exact => ref'[a] = Held(a)'
      BY <1>3, <2>3, <2>e, <3>1, <3>2 DEF Counted, One
    <3>4. ref[a] = 0 => ref'[a] = 0
      BY <1>3, <1>a, <1>l, <3>1
    <3>5. inst'[a] = None <=> ref'[a] = 0
      BY <2>3, <3>1, <3>4 DEF Counted
    <3>6. a > made' => ref'[a] = 0
      BY <1>1, <1>2, <2>3, <2>4, <3>4 DEF Counted
    <3> QED BY <2>3, <3>3, <3>5, <3>6 DEF Counted
  <2> QED BY <2>5, <2>6
<1> QED
  BY <1>8, <1>c, <1>9, <1>10 DEF IInv

(* Steps that change no address, and of the calls only the pointers.       *)
LEMMA PointStep ==
  ASSUME IInv, UNCHANGED <<config, vector, made, inst, ref>>,
         calls' = [c \in Calls |-> calls'[c]],
         \A c \in Calls : CallShape(calls'[c]) /\ Placed(config, calls'[c]),
         \A c \in Calls : /\ calls'[c].matched = calls[c].matched
                          /\ calls'[c].seen \subseteq calls[c].seen \cup {servers}
                          /\ calls'[c].addr = calls[c].addr
  PROVE  IInv'
<1>1. Shape'
  BY DEF IInv, Shape, CallShape, vector
<1>c. Calm'
  BY DEF IInv, Calm, vector
<1>2. \A c \in Calls : Placed(config, calls[c])'
  BY DEF Placed
<1>3. ASSUME NEW a \in Addrs PROVE Counted(a)'
  <2>1. Cardinality(Holders(a)') = Cardinality(Holders(a))
    BY HoldersSame
  <2> QED
    BY <2>1 DEF IInv, Counted, Held, Exact, Undisturbed, vector
<1> QED
  BY <1>1, <1>c, <1>2, <1>3 DEF IInv

LEMMA UpdateInboundsStep ==
  ASSUME IInv, NEW list \in RuleLists, UpdateInbounds(list)
  PROVE  IInv'
<1> DEFINE N == {rule.source.service : rule \in Elements(list)}
<1>1. calls' = Unpointed(N)
  BY DEF UpdateInbounds
<1> HIDE DEF N
<1>2. \A c \in Calls : /\ CallShape(calls'[c])
                       /\ \A f \in {"pc", "meta", "matched", "seen", "addr"} :
                            calls'[c][f] = calls[c][f]
  BY <1>1, UnpointedCalls
<1>3. \A c \in Calls : Placed(config, calls'[c])
  BY <1>2 DEF IInv, Placed
<1>4. calls' = [c \in Calls |-> calls'[c]]
  BY <1>1 DEF Unpointed
<1> QED
  BY <1>2, <1>3, <1>4, PointStep DEF UpdateInbounds, objects

LEMMA UpdateOutboundsStep ==
  ASSUME IInv, NEW list \in RuleLists, UpdateOutbounds(list)
  PROVE  IInv'
<1>1. calls' = [c \in Calls |-> calls'[c]]
  BY DEF UpdateOutbounds, IInv, Shape
<1>2. \A c \in Calls : CallShape(calls'[c]) /\ Placed(config, calls'[c])
  BY DEF UpdateOutbounds, IInv, Shape
<1> QED
  BY <1>1, <1>2, PointStep DEF UpdateOutbounds, objects

LEMMA SelectStep ==
  ASSUME IInv, NEW c \in Calls, Select(c)
  PROVE  IInv'
<1>1. UNCHANGED <<config, vector, made, inst, ref>>
  BY DEF Select
<1>2. CASE UNCHANGED calls
  <2>1. calls' = [d \in Calls |-> calls'[d]]
    BY <1>2 DEF IInv, Shape
  <2>2. \A d \in Calls : CallShape(calls'[d]) /\ Placed(config, calls'[d])
    BY <1>2 DEF IInv, Shape
  <2> QED
    BY <1>1, <1>2, <2>1, <2>2, PointStep
<1>3. ASSUME NEW caller, NEW meta,
             Move(c, [NoCall EXCEPT !.pc     = FirstStep(meta),
                                    !.meta   = meta,
                                    !.caller = caller])
      PROVE  IInv'
  <2> DEFINE w == [NoCall EXCEPT !.pc     = FirstStep(meta),
                                 !.meta   = meta,
                                 !.caller = caller]
  <2>1. FirstStep(meta) \in {"one", "bounds", "meta"}
    BY DEF FirstStep
  <2>2. /\ w.pc = FirstStep(meta) /\ w.meta = meta
        /\ w.matched = {} /\ w.addr = None /\ w.seen = {}
    BY DEF NoCall
  <2>3. CallShape(w)
    BY <2>1, NoneAssumption DEF CallShape, NoCall
  <2>4. Placed(config, w)
    BY <2>1, <2>2 DEF Placed, FirstStep, IInv, Shape
  <2>5. calls[c].matched = {} /\ calls[c].addr = None
    BY DEF Select, IInv, Placed
  <2>6. Move(c, w)
    BY <1>3
  <2>8. w.matched = {} /\ w.addr = None /\ w.seen = {}
    BY <2>2
  <2> HIDE DEF w
  <2>7. /\ calls' = [d \in Calls |-> calls'[d]]
        /\ calls'[c] = w
        /\ \A d \in Calls \ {c} : calls'[d] = calls[d]
        /\ \A d \in Calls : CallShape(calls'[d]) /\ Placed(config, calls'[d])
    BY <1>1, <2>3, <2>4, <2>6, MoveStep
  <2> QED
    BY <1>1, <2>5, <2>7, <2>8, PointStep
<1> QED
  BY <1>2, <1>3 DEF Select

(* What a look into a table makes of a call.                               *)
LEMMA RuledCall ==
  ASSUME NEW call, NEW table
  PROVE  LET w == Ruled(call, table)
         IN  /\ CallShape(w) /\ w.pc \in {"one", "subset"}
             /\ w.matched = {} /\ w.seen = {} /\ w.addr = None
<1> DEFINE name  == NameFor(table, call.caller.service)
           first == IF name = None THEN 0
                    ELSE FirstRule(table[name], call.caller, call.meta)
           p     == [name |-> name, bounds |-> table[name][first].destinations,
                     valid |-> TRUE]
<1>1. Ruled(call, table) = IF first = 0 THEN [NoCall EXCEPT !.pc = "one"]
                           ELSE [NoCall EXCEPT !.pc = "subset", !.dst_bounds = p]
  BY DEF Ruled
<1> HIDE DEF first, p
<1> QED
  BY <1>1 DEF CallShape, NoCall

(* matching_bounds moves its call on, and may point others elsewhere.      *)
LEMMA BoundsEffect ==
  ASSUME IInv, NEW c \in Calls, MatchingInbound(c) \/ MatchingOutbound(c)
  PROVE  /\ calls' = [d \in Calls |-> calls'[d]]
         /\ \A d \in Calls :
              /\ CallShape(calls'[d]) /\ Placed(config, calls'[d])
              /\ \A f \in {"matched", "seen", "addr"} :
                   calls'[d][f] = calls[d][f]
              /\ d # c => /\ calls'[d].pc = calls[d].pc
                          /\ calls'[d].meta = calls[d].meta
         /\ calls[c].pc \in {"bounds", "outbound"}
         /\ calls'[c].pc \in {"outbound", "one", "subset"}
<1>1. /\ CallShape(calls[c]) /\ calls[c].pc \in {"bounds", "outbound"}
      /\ ~config.meta
      /\ calls[c].matched = {} /\ calls[c].seen = {} /\ calls[c].addr = None
  BY DEF MatchingInbound, MatchingOutbound, IInv, Shape, Placed
<1>2. PICK others, w :
        /\ others \in {Unpointed(Names), calls}
        /\ calls' = [others EXCEPT ![c] = w]
        /\ \/ w = [calls[c] EXCEPT !.pc = "outbound"]
           \/ \E table : w = Ruled(calls[c], table)
  BY DEF MatchingInbound, MatchingOutbound, Move
<1>3. /\ CallShape(w) /\ w.pc \in {"outbound", "one", "subset"}
      /\ w.matched = {} /\ w.seen = {} /\ w.addr = None
  BY <1>1, <1>2, RuledCall DEF CallShape
<1>4. Placed(config, w)
  BY <1>1, <1>3 DEF Placed
<1>5. /\ others = [d \in Calls |-> others[d]]
      /\ \A d \in Calls : /\ CallShape(others[d])
                          /\ \A f \in {"pc", "meta", "matched", "seen", "addr"} :
                               others[d][f] = calls[d][f]
  <2>1. CASE others = calls
    BY <2>1 DEF IInv, Shape
  <2>2. CASE others = Unpointed(Names)
    <3>1. \A d \in Calls :
            /\ CallShape(Unpointed(Names)[d])
            /\ \A f \in {"pc", "meta", "matched", "seen", "addr"} :
                 Unpointed(Names)[d][f] = calls[d][f]
      BY UnpointedCalls
    <3>2. Unpointed(Names) = [d \in Calls |-> Unpointed(Names)[d]]
      BY DEF Unpointed
    <3> QED BY <2>2, <3>1, <3>2
  <2> QED BY <1>2, <2>1, <2>2
<1>6. \A d \in Calls : Placed(config, others[d])
  BY <1>5 DEF IInv, Placed
<1>7. /\ calls' = [d \in Calls |-> calls'[d]]
      /\ \A d \in Calls : calls'[d] = IF d = c THEN w ELSE others[d]
  BY <1>2, <1>5
<1>8. \A d \in Calls :
        /\ CallShape(calls'[d]) /\ Placed(config, calls'[d])
        /\ \A f \in {"matched", "seen", "addr"} : calls'[d][f] = calls[d][f]
        /\ d # c => /\ calls'[d].pc = calls[d].pc
                    /\ calls'[d].meta = calls[d].meta
  BY <1>1, <1>3, <1>4, <1>5, <1>6, <1>7
<1> QED
  BY <1>1, <1>3, <1>7, <1>8

LEMMA MatchingBoundsStep ==
  ASSUME IInv, NEW c \in Calls, MatchingInbound(c) \/ MatchingOutbound(c)
  PROVE  IInv'
<1>1. /\ calls' = [d \in Calls |-> calls'[d]]
      /\ \A d \in Calls : /\ CallShape(calls'[d]) /\ Placed(config, calls'[d])
                           /\ calls'[d].matched = calls[d].matched
                           /\ calls'[d].seen = calls[d].seen
                           /\ calls'[d].addr = calls[d].addr
  BY BoundsEffect
<1> QED
  BY <1>1, PointStep DEF MatchingInbound, MatchingOutbound, objects

LEMMA LockServersStep ==
  ASSUME IInv, NEW c \in Calls, LockServers(c)
  PROVE  IInv'
<1> DEFINE w == [calls[c] EXCEPT !.seen = {servers}]
<1>1. /\ CallShape(calls[c]) /\ Placed(config, calls[c])
      /\ servers \in SUBSET Addrs
  BY DEF IInv, Shape
<1>2. /\ CallShape(w) /\ w.seen = {servers}
      /\ \A f \in {"pc", "matched", "addr"} : w[f] = calls[c][f]
  BY <1>1 DEF CallShape
<1>3. Placed(config, w)
  BY <1>1, <1>2 DEF Placed, LockServers
<1>4. Move(c, w) /\ UNCHANGED <<config, vector, made, inst, ref>>
  BY DEF LockServers, objects
<1> HIDE DEF w
<1>5. /\ calls' = [d \in Calls |-> calls'[d]]
      /\ calls'[c] = w
      /\ \A d \in Calls \ {c} : calls'[d] = calls[d]
      /\ \A d \in Calls : CallShape(calls'[d]) /\ Placed(config, calls'[d])
  BY <1>2, <1>3, <1>4, MoveStep
<1>6. \A d \in Calls : /\ calls'[d].matched = calls[d].matched
                       /\ calls'[d].seen \subseteq calls[d].seen \cup {servers}
                       /\ calls'[d].addr = calls[d].addr
  BY <1>2, <1>5
<1> QED
  BY <1>4, <1>5, <1>6, PointStep

(* A step of one call that takes and lets go.                              *)
LEMMA CallStep ==
  ASSUME IInv, UNCHANGED <<config, made, vector>>, NEW c \in Calls, NEW w,
         Move(c, w), CallShape(w), Placed(config, w), w.seen = {},
         ref' = [a \in Addrs |-> ref'[a]],
         inst' = [a \in Addrs |-> inst'[a]],
         \A a \in Addrs :
           /\ ref'[a] \in Nat
           /\ inst'[a] = IF ref'[a] = 0 THEN None ELSE inst[a]
           /\ ref[a] = 0 => ref'[a] = 0
           /\ Undisturbed => ref'[a] + One(Holds(calls[c], a))
                               >= ref[a] + One(Holds(w, a))
           /\ Exact => ref'[a] + One(Holds(calls[c], a))
                         = ref[a] + One(Holds(w, a))
  PROVE  IInv'
<1>1. /\ calls' = [d \in Calls |-> calls'[d]]
      /\ calls'[c] = w
      /\ \A d \in Calls \ {c} : calls'[d] = calls[d]
      /\ \A d \in Calls : CallShape(calls'[d]) /\ Placed(config, calls'[d])
  BY MoveStep
<1>2. \A a \in Addrs : Counted(a)'
  BY <1>1, CountedStep
<1>3. ref' \in [Addrs -> Nat]
  OBVIOUS
<1>4. inst' \in [Addrs -> Instances \cup {None}]
  BY DEF IInv, Shape
<1>5. Shape'
  BY <1>1, <1>3, <1>4 DEF IInv, Shape, CallShape, vector
<1>c. Calm'
  BY <1>1 DEF IInv, Calm, vector
<1>6. \A d \in Calls : Placed(config, calls[d])'
  BY <1>1
<1> QED
  BY <1>2, <1>5, <1>c, <1>6 DEF IInv

(* References taken for the subset of c.                                   *)
LEMMA TakenStep ==
  ASSUME IInv, Usable, UNCHANGED <<config, made, vector, inst>>,
         NEW c \in Calls, NEW S \in SUBSET InSight(c), NEW w, Move(c, w),
         CallShape(w), Placed(config, w), w.seen = {},
         calls[c].matched = {}, calls[c].addr = None,
         Undisturbed => w.matched \subseteq S, Exact => w.matched = S,
         w.addr = None, ref' = Taken(S)
  PROVE  IInv'
<1>1. ref' = [a \in Addrs |-> ref'[a]] /\ inst' = [a \in Addrs |-> inst'[a]]
  BY DEF Taken, IInv, Shape
<1>2. ASSUME NEW a \in Addrs
      PROVE  /\ ref'[a] \in Nat
             /\ inst'[a] = IF ref'[a] = 0 THEN None ELSE inst[a]
             /\ ref[a] = 0 => ref'[a] = 0
             /\ Undisturbed => ref'[a] + One(Holds(calls[c], a))
                                 >= ref[a] + One(Holds(w, a))
             /\ Exact => ref'[a] + One(Holds(calls[c], a))
                           = ref[a] + One(Holds(w, a))
  <2>1. /\ ref[a] \in Nat /\ Counted(a)
        /\ ref'[a] = IF a \in S THEN ref[a] + 1 ELSE ref[a]
        /\ a \in S => ref[a] # 0
    BY FoundNotDeleted DEF IInv, Shape, Taken
  <2>2. inst'[a] = IF ref'[a] = 0 THEN None ELSE inst[a]
    BY <2>1 DEF Counted
  <2>3. ~Holds(calls[c], a) /\ (Holds(w, a) <=> a \in w.matched)
    BY NoneAssumption DEF Holds
  <2> QED
    BY <2>1, <2>2, <2>3 DEF One
<1> QED
  BY <1>1, <1>2, CallStep

LEMMA MatchingSubsetStep ==
  ASSUME IInv, Usable, NEW c \in Calls, MatchingSubset(c)
  PROVE  IInv'
<1> DEFINE v == [calls[c] EXCEPT !.pc = "one", !.seen = {}]
<1>1. /\ CallShape(calls[c]) /\ calls[c].pc = "subset" /\ ~config.meta
      /\ calls[c].matched = {} /\ calls[c].addr = None
  BY DEF MatchingSubset, IInv, Shape, Placed
<1>2. UNCHANGED <<config, made, vector, inst>>
  BY DEF MatchingSubset, objects
<1>v. CallShape(v) /\ v.matched = {} /\ v.addr = None /\ v.seen = {} /\ v.pc = "one"
  BY <1>1 DEF CallShape
<1>3. CASE UNCHANGED <<ref, calls>>
  BY <1>2, <1>3, PointStep DEF IInv, Shape
<1>4. CASE Move(c, v) /\ UNCHANGED ref
  <2>1. Placed(config, v)
    BY <1>v DEF Placed
  <2>2. Taken({}) = ref
    BY DEF Taken, IInv, Shape
  <2> HIDE DEF v
  <2> QED
    BY <1>1, <1>2, <1>4, <1>v, <2>1, <2>2, TakenStep
<1>5. ASSUME NEW S \in Reads(c), NEW bounds, NEW subset \in Subsets(S, bounds),
             Move(c, [v EXCEPT !.matched = subset]), ref' = Taken(subset)
      PROVE  IInv'
  <2> DEFINE w == [v EXCEPT !.matched = subset]
  <2>1. subset \in SUBSET S
    BY DEF Subsets, Matching
  <2>2. subset \in SUBSET InSight(c) /\ subset \in SUBSET Addrs
    BY <2>1, SightType
  <2>3. CallShape(w) /\ w.matched = subset /\ w.addr = None /\ w.seen = {} /\ w.pc = "one"
    BY <1>v, <2>2 DEF CallShape
  <2>4. Move(c, w)
    BY <1>5
  <2>5. Placed(config, w)
    BY <2>3 DEF Placed
  <2> HIDE DEF w
  <2> QED
    BY <1>1, <1>2, <1>5, <2>2, <2>3, <2>4, <2>5, TakenStep
<1> QED
  BY <1>3, <1>4, <1>5 DEF MatchingSubset, objects

LEMMA MatchingMetaStep ==
  ASSUME IInv, Usable, NEW c \in Calls, MatchingMeta(c)
  PROVE  IInv'
<1>1. /\ CallShape(calls[c]) /\ calls[c].pc = "meta" /\ config.meta
      /\ calls[c].matched = {} /\ calls[c].addr = None
  BY DEF MatchingMeta, IInv, Shape, Placed
<1>2. UNCHANGED <<config, made, vector, inst>>
  BY DEF MatchingMeta
<1>p. PICK S \in Reads(c) :
        LET found   == MetaFound(calls[c].meta, S)
            well    == found \cap Healthy
            matched == IF found = {}   THEN S
                       ELSE IF well # {} THEN well
                       ELSE found
        IN  /\ ref' = Taken(found)
            /\ IF found = {} /\ config.failover # "All" THEN Move(c, NoCall)
               ELSE Move(c, [calls[c] EXCEPT !.pc      = "one",
                                             !.seen    = {},
                                             !.matched = matched])
  BY DEF MatchingMeta
<1> DEFINE found   == MetaFound(calls[c].meta, S)
           well    == found \cap Healthy
           matched == IF found = {}   THEN S
                      ELSE IF well # {} THEN well
                      ELSE found
           v       == [calls[c] EXCEPT !.pc      = "one",
                                       !.seen    = {},
                                       !.matched = matched]
<1>3. found \in SUBSET InSight(c) /\ S \in SUBSET Addrs
  BY SightType DEF MetaFound, MetaMatch, NoKeyMatch
<1>4. \/ Move(c, NoCall)
      \/ Move(c, v) /\ (found # {} \/ config.failover = "All")
  BY <1>p
<1>5. /\ matched \in SUBSET Addrs
      /\ found # {} => matched \subseteq found
  BY <1>3 DEF MetaFound, MetaMatch, NoKeyMatch
<1>6. /\ CallShape(v) /\ v.matched = matched /\ v.addr = None /\ v.seen = {}
      /\ v.pc = "one"
  <2> HIDE DEF matched
  <2> QED BY <1>1, <1>5 DEF CallShape
<1>a. Placed(config, v)
  <2> HIDE DEF v
  <2> QED BY <1>6 DEF Placed
<1>7. /\ CallShape(NoCall) /\ NoCall.matched = {} /\ NoCall.addr = None
      /\ Placed(config, NoCall) /\ NoCall.seen = {}
  BY DEF NoCall, CallShape, Placed
<1>8. ~Exact /\ (config.failover = "All" => ~Undisturbed)
  BY <1>1 DEF Exact, Undisturbed
<1>9. ref' = Taken(found)
  BY <1>p
<1> HIDE DEF found, matched, v
<1>b. CASE Move(c, NoCall)
  BY <1>1, <1>2, <1>3, <1>7, <1>8, <1>9, <1>b, TakenStep
<1>c. CASE Move(c, v) /\ (found # {} \/ config.failover = "All")
  BY <1>1, <1>2, <1>3, <1>5, <1>6, <1>a, <1>8, <1>9, <1>c, TakenStep
<1> QED
  BY <1>4, <1>b, <1>c

(* References let go: R was in the hands of c, and what is left to c of it *)
(* is in w; the nearby router may have dropped the rest.                   *)
LEMMA LetGoStep ==
  ASSUME IInv, Usable, UNCHANGED <<config, made, vector>>, NEW c \in Calls,
         NEW w, NEW R \in SUBSET Addrs, NEW fails, Move(c, w), CallShape(w),
         Placed(config, w), w.seen = {}, Count(LetGo(R), fails),
         \A a \in R : Holds(calls[c], a) /\ ~Holds(w, a),
         \A a \in Addrs : Holds(w, a) => Holds(calls[c], a),
         Exact => \A a \in Addrs \ R : Holds(calls[c], a) => Holds(w, a)
  PROVE  IInv'
<1>1. /\ ref' = [a \in Addrs |-> ref'[a]] /\ inst' = [a \in Addrs |-> inst'[a]]
      /\ \A a \in Addrs :
           /\ ref'[a] = IF a \in R THEN ref[a] - 1 ELSE ref[a]
           /\ inst'[a] = IF ref'[a] = 0 THEN None ELSE inst[a]
  BY DEF Count, LetGo
<1>2. ASSUME NEW a \in Addrs
      PROVE  /\ ref'[a] \in Nat
             /\ inst'[a] = IF ref'[a] = 0 THEN None ELSE inst[a]
             /\ ref[a] = 0 => ref'[a] = 0
             /\ Undisturbed => ref'[a] + One(Holds(calls[c], a))
                                 >= ref[a] + One(Holds(w, a))
             /\ Exact => ref'[a] + One(Holds(calls[c], a))
                           = ref[a] + One(Holds(w, a))
  <2>1. ref[a] \in Nat /\ (a \in R => ref[a] # 0)
    BY FoundNotDeleted DEF IInv, Shape
  <2> QED
    BY <1>1, <2>1 DEF One
<1> QED
  BY <1>1, <1>2, CallStep

LEMMA GetOneOfSubsetStep ==
  ASSUME IInv, Usable, NEW c \in Calls, GetOneOfSubset(c)
  PROVE  IInv'
<1> DEFINE S == calls[c].matched
<1>1. /\ CallShape(calls[c]) /\ calls[c].pc = "one" /\ calls[c].addr = None
      /\ S \in SUBSET Addrs /\ calls[c].seen = {}
  BY DEF GetOneOfSubset, IInv, Shape, Placed, CallShape
<1>2. UNCHANGED <<config, made, vector>>
  BY DEF GetOneOfSubset
<1>3. ASSUME NEW one \in Drawn(Weight, fail_count, Candidates(S)),
             Move(c, [calls[c] EXCEPT !.pc = "holding", !.matched = {},
                                      !.dst_bounds = None, !.addr = one]),
             Count(LetGo(LetGoRest(S, one)), fail_count)
      PROVE  IInv'
  <2> DEFINE w == [calls[c] EXCEPT !.pc = "holding", !.matched = {},
                                   !.dst_bounds = None, !.addr = one]
             R == LetGoRest(S, one)
  <2>1. one \in S /\ one \in Addrs /\ one # None
    BY <1>1, CandidatesType, DrawnType, NoneAssumption
  <2>2. R \in SUBSET S /\ one \notin R /\ (Exact => R = S \ {one})
    BY CandidatesType DEF LetGoRest, Exact
  <2>3. /\ CallShape(w) /\ w.matched = {} /\ w.addr = one /\ w.pc = "holding"
        /\ w.seen = {}
    BY <1>1, <2>1 DEF CallShape
  <2>4. Placed(config, w)
    BY <2>1, <2>3 DEF Placed
  <2>5. Move(c, w) /\ Count(LetGo(R), fail_count)
    BY <1>3
  <2> HIDE DEF w, R
  <2>6. /\ \A a \in R : Holds(calls[c], a) /\ ~Holds(w, a)
        /\ \A a \in Addrs : Holds(w, a) => Holds(calls[c], a)
        /\ Exact => \A a \in Addrs \ R : Holds(calls[c], a) => Holds(w, a)
    BY <1>1, <2>1, <2>2, <2>3, NoneAssumption DEF Holds
  <2> QED
    BY <1>1, <1>2, <2>2, <2>3, <2>4, <2>5, <2>6, LetGoStep
<1>4. ASSUME Candidates(S) = {}, Move(c, NoCall),
             Count(LetGo(LetGoRest(S, None)), fail_count)
      PROVE  IInv'
  <2>1. LetGoRest(S, None) = S
    BY <1>1, <1>4, NoneAssumption DEF LetGoRest, Narrowed
  <2>2. /\ CallShape(NoCall) /\ NoCall.matched = {} /\ NoCall.addr = None
        /\ Placed(config, NoCall) /\ NoCall.seen = {}
    BY DEF NoCall, CallShape, Placed
  <2>3. /\ \A a \in S : Holds(calls[c], a) /\ ~Holds(NoCall, a)
        /\ \A a \in Addrs : Holds(NoCall, a) => Holds(calls[c], a)
        /\ Exact => \A a \in Addrs \ S :
                      Holds(calls[c], a) => Holds(NoCall, a)
    BY <1>1, <2>2, NoneAssumption DEF Holds
  <2> HIDE DEF S
  <2> QED
    BY <1>1, <1>2, <1>4, <2>1, <2>2, <2>3, LetGoStep
<1> QED
  BY <1>3, <1>4 DEF GetOneOfSubset

(* The nearby router narrows `servers': no count changes, and the calls    *)
(* only see more of it.                                                    *)
LEMMA LeavesType ==
  ASSUME IInv, NEW c \in Calls, NEW left \in Leaves(c)
  PROVE  /\ left \subseteq InSight(c)
         /\ ~torn => left \subseteq servers
<1>1. CASE Whole(c)
  <2>1. left = Candidates(servers)
    BY <1>1 DEF Leaves
  <2> QED BY <2>1, CandidatesType DEF InSight
<1>2. CASE ~Whole(c)
  BY <1>2, CalmReads DEF Leaves, Reachable, InSight
<1> QED
  BY <1>1, <1>2

LEMMA NarrowServersStep ==
  ASSUME IInv, Usable, NEW c \in Calls, NarrowServers(c)
  PROVE  IInv'
<1>1. /\ CallShape(calls[c]) /\ calls[c].pc = "one" /\ config.nearby
      /\ calls[c].matched = {} /\ calls[c].addr = None /\ calls[c].seen # {}
  BY DEF NarrowServers, IInv, Shape, Placed
<1>2. UNCHANGED <<config, made, inst, ref>> /\ ~Exact
  BY <1>1 DEF NarrowServers, objects, Exact
<1>3. PICK left \in Leaves(c) :
        IF left = {}
        THEN Move(c, NoCall) /\ UNCHANGED vector
        ELSE LET readers == {d \in Calls \ {c} : calls[d].seen # {}}
             IN  /\ servers' = left
                 /\ twice'   \in IF Whole(c) THEN {{}}
                                ELSE {twice \cap left, left}
                 /\ torn'    = (torn \/ (readers # {} /\ left # servers))
                 /\ calls'   =
                      [d \in Calls |->
                         IF d = c THEN [calls[c] EXCEPT !.pc   = "choose",
                                                        !.seen = {left}]
                         ELSE IF d \in readers
                         THEN [calls[d] EXCEPT !.seen = @ \cup {left}]
                         ELSE calls[d]]
  BY DEF NarrowServers
<1>4. left \in SUBSET Addrs /\ (~torn => left \subseteq servers)
  BY LeavesType, SightType
<1>5. CASE left = {}
  <2>1. /\ CallShape(NoCall) /\ NoCall.matched = {} /\ NoCall.addr = None
        /\ Placed(config, NoCall) /\ NoCall.seen = {}
    BY DEF NoCall, CallShape, Placed
  <2>2. Move(c, NoCall) /\ UNCHANGED vector
    BY <1>3, <1>5
  <2>3. Taken({}) = ref
    BY DEF Taken, IInv, Shape
  <2> QED
    BY <1>1, <1>2, <2>1, <2>2, <2>3, TakenStep
<1>6. CASE left # {}
  <2> DEFINE readers == {d \in Calls \ {c} : calls[d].seen # {}}
             v       == [calls[c] EXCEPT !.pc = "choose", !.seen = {left}]
             More(d) == [calls[d] EXCEPT !.seen = @ \cup {left}]
  <2>1. /\ servers' = left
        /\ twice' \in SUBSET left
        /\ Whole(c) => twice' = {}
        /\ torn' = (torn \/ (readers # {} /\ left # servers))
        /\ calls' = [d \in Calls |-> IF d = c THEN v
                                     ELSE IF d \in readers THEN More(d)
                                     ELSE calls[d]]
    BY <1>3, <1>6
  <2>2. /\ CallShape(v) /\ v.pc = "choose" /\ v.matched = {} /\ v.addr = None
        /\ v.seen = {left}
    BY <1>1, <1>4 DEF CallShape
  <2>3. Placed(config, v)
    <3> HIDE DEF v
    <3> QED BY <1>1, <2>2 DEF Placed
  <2>4. ASSUME NEW d \in Calls
        PROVE  /\ CallShape(More(d)) /\ More(d).seen = calls[d].seen \cup {left}
               /\ \A f \in {"pc", "matched", "addr"} : More(d)[f] = calls[d][f]
               /\ d \in readers => Placed(config, More(d))
    <3>1. CallShape(calls[d]) /\ Placed(config, calls[d])
      BY DEF IInv, Shape
    <3>2. /\ CallShape(More(d)) /\ More(d).seen = calls[d].seen \cup {left}
          /\ \A f \in {"pc", "matched", "addr"} : More(d)[f] = calls[d][f]
      BY <1>4, <3>1 DEF CallShape
    <3>3. d \in readers => calls[d].seen # {}
      OBVIOUS
    <3> HIDE DEF readers, More
    <3> QED BY <3>1, <3>2, <3>3 DEF Placed
  <2>r. \A d \in Calls : d # c => (d \in readers <=> calls[d].seen # {})
    OBVIOUS
  <2>s. readers = {} => \A d \in Calls : d \notin readers
    OBVIOUS
  <2> HIDE DEF v, More, readers
  <2>5. \A d \in Calls :
          /\ CallShape(calls'[d]) /\ Placed(config, calls'[d])
          /\ calls'[d].matched = calls[d].matched
          /\ calls'[d].addr = calls[d].addr
    BY <1>1, <2>1, <2>2, <2>3, <2>4 DEF IInv, Shape
  <2>6. torn' \in BOOLEAN
    BY <2>1 DEF IInv, Shape
  <2>7. Shape'
    BY <1>2, <1>4, <2>1, <2>5, <2>6 DEF IInv, Shape, CallShape
  <2>8. ~torn' => ~torn /\ Whole(c) /\ (readers = {} \/ left = servers)
    BY <2>1, CalmReads DEF IInv, Shape
  <2>9. ASSUME ~torn', NEW d \in Calls PROVE calls'[d].seen \subseteq {servers'}
    <3>1. CASE d = c
      BY <2>1, <2>2, <3>1
    <3>2. CASE d # c /\ d \in readers
      <4>1. calls'[d].seen = calls[d].seen \cup {left} /\ left = servers
        BY <2>1, <2>4, <2>8, <2>9, <2>s, <3>2
      <4> QED BY <2>1, <2>8, <2>9, <4>1 DEF IInv, Calm
    <3>3. CASE d # c /\ d \notin readers
      BY <2>1, <2>r, <3>3
    <3> QED BY <3>1, <3>2, <3>3
  <2>c. Calm'
    BY <1>1, <1>2, <2>1, <2>8, <2>9 DEF Calm
  <2>10. \A d \in Calls : Placed(config, calls[d])'
    BY <1>2, <2>5
  <2>11. ASSUME NEW a \in Addrs PROVE Counted(a)'
    <3>1. Cardinality(Holders(a)') = Cardinality(Holders(a))
      BY <2>5, HoldersSame
    <3>2. Held(a)' = Cardinality(Holders(a)) + One(a \in left)
      BY <2>1, <3>1 DEF Held
    <3>3. /\ Counted(a) /\ Held(a) = Cardinality(Holders(a)) + One(a \in servers)
          /\ Cardinality(Holders(a)) \in Nat /\ ref[a] \in Nat
      BY HoldersType DEF IInv, Shape, Held
    <3>4. Undisturbed' => Undisturbed /\ left \subseteq servers
      BY <1>2, <1>4, <2>8 DEF Undisturbed
    <3>5. Undisturbed' => ref'[a] >= Held(a)'
      BY <1>2, <3>2, <3>3, <3>4 DEF Counted, One
    <3>6. ~Exact'
      BY <1>2 DEF Exact
    <3> QED
      BY <1>2, <3>3, <3>5, <3>6 DEF Counted
  <2> QED
    BY <2>7, <2>c, <2>10, <2>11 DEF IInv
<1> QED
  BY <1>5, <1>6

LEMMA ChooseServerStep ==
  ASSUME IInv, Usable, NEW c \in Calls, ChooseServer(c)
  PROVE  IInv'
<1>1. /\ CallShape(calls[c]) /\ calls[c].matched = {} /\ calls[c].addr = None
  BY DEF ChooseServer, IInv, Shape, Placed
<1>2. UNCHANGED <<config, made, vector, inst>>
  BY DEF ChooseServer
<1>6. ASSUME NEW one \in IF Whole(c) THEN Drawn(Weight, fail_count, servers)
                         ELSE InSight(c),
             Move(c, [calls[c] EXCEPT !.pc = "holding", !.dst_bounds = None,
                                      !.seen = {}, !.addr = one]),
             ref' = Taken({one})
      PROVE  IInv'
  <2> DEFINE w == [calls[c] EXCEPT !.pc = "holding", !.dst_bounds = None,
                                   !.seen = {}, !.addr = one]
  <2>1. one \in InSight(c) /\ one \in Addrs /\ one # None
    BY DrawnType, SightType, NoneAssumption DEF InSight
  <2>2. /\ CallShape(w) /\ w.matched = {} /\ w.addr = one /\ w.pc = "holding"
        /\ w.seen = {}
    BY <1>1, <2>1 DEF CallShape
  <2>3. Placed(config, w)
    <3> HIDE DEF w
    <3> QED BY <2>1, <2>2 DEF Placed
  <2>4. Move(c, w)
    BY <1>6
  <2>5. /\ ref' = [a \in Addrs |-> ref'[a]]
        /\ inst' = [a \in Addrs |-> inst'[a]]
    BY <1>2, <1>6 DEF Taken, IInv, Shape
  <2> HIDE DEF w
  <2>6. ASSUME NEW a \in Addrs
        PROVE  /\ ref'[a] \in Nat
               /\ inst'[a] = IF ref'[a] = 0 THEN None ELSE inst[a]
               /\ ref[a] = 0 => ref'[a] = 0
               /\ Undisturbed => ref'[a] + One(Holds(calls[c], a))
                                   >= ref[a] + One(Holds(w, a))
               /\ Exact => ref'[a] + One(Holds(calls[c], a))
                             = ref[a] + One(Holds(w, a))
    <3>1. ref'[a] = IF a = one THEN ref[a] + 1 ELSE ref[a]
      BY <1>6 DEF Taken
    <3>2. ~Holds(calls[c], a) /\ (Holds(w, a) <=> a = one)
      BY <1>1, <2>2, NoneAssumption DEF Holds
    <3>3. Counted(a) /\ ref[a] \in Nat /\ (a = one => ref[a] # 0)
      BY <2>1, FoundNotDeleted DEF IInv, Shape
    <3>4. inst'[a] = IF ref'[a] = 0 THEN None ELSE inst[a]
      BY <1>2, <3>1, <3>3 DEF Counted
    <3> QED
      BY <3>1, <3>2, <3>3, <3>4 DEF One
  <2> QED
    BY <1>2, <2>2, <2>3, <2>4, <2>5, <2>6, CallStep
<1>7. ASSUME Move(c, NoCall), UNCHANGED ref
      PROVE  IInv'
  <2>1. /\ CallShape(NoCall) /\ NoCall.matched = {} /\ NoCall.addr = None
        /\ Placed(config, NoCall) /\ NoCall.seen = {}
    BY DEF NoCall, CallShape, Placed
  <2>2. Taken({}) = ref
    BY DEF Taken, IInv, Shape
  <2> QED
    BY <1>1, <1>2, <1>7, <2>1, <2>2, TakenStep
<1> QED
  BY <1>6, <1>7 DEF ChooseServer

LEMMA EndStep ==
  ASSUME IInv, Usable, NEW c \in Calls, Success(c) \/ Failed(c)
  PROVE  IInv'
<1> DEFINE a == calls[c].addr
<1>1. /\ CallShape(calls[c]) /\ a \in Addrs /\ calls[c].matched = {}
  BY DEF Success, Failed, IInv, Shape, Placed, CallShape
<1>2. UNCHANGED <<config, made, vector>> /\ Move(c, NoCall)
  BY DEF Success, Failed
<1>3. PICK fails : Count(LetGo({a}), fails)
  BY DEF Success, Failed
<1>4. /\ CallShape(NoCall) /\ NoCall.matched = {} /\ NoCall.addr = None
      /\ Placed(config, NoCall) /\ NoCall.seen = {}
  BY DEF NoCall, CallShape, Placed
<1>5. /\ \A b \in {a} : Holds(calls[c], b) /\ ~Holds(NoCall, b)
      /\ \A b \in Addrs : Holds(NoCall, b) => Holds(calls[c], b)
      /\ Exact => \A b \in Addrs \ {a} : Holds(calls[c], b) => Holds(NoCall, b)
  BY <1>1, <1>4, NoneAssumption DEF Holds
<1> HIDE DEF a
<1> QED
  BY <1>1, <1>2, <1>3, <1>4, <1>5, LetGoStep

LEMMA UnchangedStep == IInv /\ UNCHANGED vars => IInv'
<1> SUFFICES ASSUME IInv, UNCHANGED vars PROVE IInv'
  OBVIOUS
<1> USE DEF vars, objects, rules, vector
<1>1. Shape'
  BY DEF IInv, Shape, CallShape
<1>2. \A c \in Calls : Placed(config, calls[c])'
  BY DEF IInv
<1>3. ASSUME NEW a \in Addrs PROVE Counted(a)'
  BY DEF IInv, Counted, Held, Holders, Holds, Exact, Undisturbed
<1>c. Calm'
  BY DEF IInv, Calm
<1> QED
  BY <1>1, <1>2, <1>3, <1>c DEF IInv

LEMMA NextStep == IInv /\ [Next]_vars => IInv'
<1> SUFFICES ASSUME IInv, [Next]_vars PROVE IInv'
  OBVIOUS
<1>1. CASE UNCHANGED vars
  BY <1>1, UnchangedStep
<1>2. CASE Next
  <2>0. Usable
    BY <1>2 DEF Next
  <2>1. ASSUME NEW list \in InstanceLists, UpdateInstances(list) PROVE IInv'
    BY <2>0, <2>1, UpdateInstancesStep
  <2>c. CASE ClearDeleted
    <3>1. UNCHANGED <<config, vector, made, inst, ref, calls>>
      BY <2>c DEF ClearDeleted, objects
    <3> QED BY <3>1, PointStep DEF IInv, Shape
  <2>2. ASSUME NEW list \in RuleLists, UpdateInbounds(list) PROVE IInv'
    BY <2>2, UpdateInboundsStep
  <2>3. ASSUME NEW list \in RuleLists, UpdateOutbounds(list) PROVE IInv'
    BY <2>3, UpdateOutboundsStep
  <2>4. ASSUME NEW c \in Calls, Select(c) PROVE IInv'
    BY <2>4, SelectStep
  <2>5. ASSUME NEW c \in Calls, MatchingInbound(c) \/ MatchingOutbound(c)
        PROVE  IInv'
    BY <2>5, MatchingBoundsStep
  <2>l. ASSUME NEW c \in Calls, LockServers(c) PROVE IInv'
    BY <2>l, LockServersStep
  <2>6. ASSUME NEW c \in Calls, MatchingSubset(c) PROVE IInv'
    BY <2>0, <2>6, MatchingSubsetStep
  <2>7. ASSUME NEW c \in Calls, MatchingMeta(c) PROVE IInv'
    BY <2>0, <2>7, MatchingMetaStep
  <2>8. ASSUME NEW c \in Calls, GetOneOfSubset(c) PROVE IInv'
    BY <2>0, <2>8, GetOneOfSubsetStep
  <2>n. ASSUME NEW c \in Calls, NarrowServers(c) PROVE IInv'
    BY <2>0, <2>n, NarrowServersStep
  <2>9. ASSUME NEW c \in Calls, ChooseServer(c) PROVE IInv'
    BY <2>0, <2>9, ChooseServerStep
  <2>10. ASSUME NEW c \in Calls, Success(c) \/ Failed(c) PROVE IInv'
    BY <2>0, <2>10, EndStep
  <2> QED
    BY <1>2, <2>1, <2>c, <2>2, <2>3, <2>4, <2>5, <2>l, <2>6, <2>7, <2>8, <2>n,
       <2>9, <2>10
    DEF Next
<1> QED
  BY <1>1, <1>2

LEMMA Invariance == Spec => []IInv
<1>1. Init => IInv
  BY InitStep
<1>2. IInv /\ [Next]_vars => IInv'
  BY NextStep
<1> QED
  BY <1>1, <1>2, PTL DEF Spec

LEMMA LiveAddresses == IInv => AddressesLive
<1> SUFFICES ASSUME IInv, Undisturbed, NEW a \in InUse PROVE inst[a] # None
  BY DEF AddressesLive, Usable
<1>1. ~torn
  BY DEF Undisturbed
<1>2. a \in Addrs /\ (a \in servers \/ \E c \in Calls : Holds(calls[c], a))
  <2>1. CASE a \in servers
    BY <2>1 DEF IInv, Shape
  <2>2. CASE \E c \in Calls : a \in InSight(c) \/ a \in calls[c].matched
    BY <1>1, <2>2, CalmReads DEF Holds, IInv, Shape, CallShape
  <2>3. CASE \E c \in Calls : a = calls[c].addr /\ a # None
    BY <2>3 DEF Holds, IInv, Shape, CallShape
  <2> QED BY <2>1, <2>2, <2>3 DEF InUse
<1>3. Held(a) \in Nat /\ Held(a) # 0
  BY <1>2, HeldType DEF Holders
<1>4. Counted(a) /\ ref[a] \in Nat
  BY <1>2 DEF IInv, Shape
<1> QED
  BY <1>3, <1>4 DEF Counted

(* No call, and no read of `servers', ever meets an address that has been  *)
(* deleted, for any number of threads, replacements and configurations:    *)
(* until a call changes `servers' while another reads it, and unless the   *)
(* failover hands out addresses uncounted.                                 *)
THEOREM AddressesCorrect == Spec => []AddressesLive
BY Invariance, LiveAddresses, PTL

(* Without the nearby router, and with a failover that counts what it      *)
(* hands out, they never do: the process never uses a deleted address.     *)
THEOREM FreeOfRaces ==
  Spec => [](~config.nearby /\ ~(config.meta /\ config.failover = "All") => Usable)
<1>1. IInv => (~config.nearby /\ ~(config.meta /\ config.failover = "All") => Usable)
  BY LiveAddresses DEF IInv, Shape, Calm, Undisturbed, AddressesLive
<1> QED
  BY <1>1, Invariance, PTL

(* By rules and without the nearby router every reference that a call      *)
(* takes is let go.                                                        *)
THEOREM LeaksCorrect == Spec => []NothingLeaks
<1>1. IInv => NothingLeaks
  <2> SUFFICES ASSUME IInv, Exact, NEW a \in Addrs, inst[a] # None
               PROVE  a \in InUse
    BY DEF NothingLeaks, Exact
  <2>1. Held(a) # 0
    BY ExactCalm DEF IInv, Counted, Shape
  <2>2. a \in servers \/ \E c \in Calls : Holds(calls[c], a)
    BY <2>1, HeldType DEF Holders
  <2>3. a # None
    BY NoneAssumption
  <2> QED
    BY <2>2, <2>3 DEF InUse, Holds
<1> QED
  BY <1>1, Invariance, PTL

-----------------------------------------------------------------------------
(* What a step does to one call.                                           *)

Alike(old, new) == /\ new.pc = old.pc /\ new.meta = old.meta
                   /\ new.matched = old.matched /\ new.addr = old.addr

Starts(d, new) == /\ \/ new.pc = "idle"
                     \/ calls[d].pc = "idle" /\ new.pc = FirstStep(new.meta)
                  /\ new.matched = {} /\ new.addr = None

Routed(d, new) == /\ calls[d].pc \in {"bounds", "outbound", "subset"}
                  /\ new.pc \in {"outbound", "subset", "one"}
                  /\ calls[d].pc = "subset" => MatchingSubset(d)
                  /\ new.addr = None

MetaMatched(d, new) ==
  /\ calls[d].pc = "meta" /\ new.pc = "one" /\ new.meta = calls[d].meta
  /\ config.failover # "All" =>
       /\ new.matched # {}
       /\ \E S \in Reads(d) : new.matched \subseteq MetaFound(new.meta, S)
  /\ new.addr = None

Narrows(d, new) ==
  /\ NarrowServers(d)
  /\ new.pc = "choose" /\ new.meta = calls[d].meta
  /\ new.matched = {} /\ new.addr = None
  /\ calls[d].matched = {} /\ calls[d].pc = "one"

(* What a call that is about to choose may get.                            *)
Eligible(d, a) == \/ /\ calls[d].matched # {}
                     /\ calls[d].pc = "one"
                     /\ a \in Candidates(calls[d].matched)
                  \/ /\ calls[d].matched = {}
                     /\ \/ calls[d].pc = "choose"
                        \/ calls[d].pc = "one" /\ ~config.nearby
                     /\ a \in InSight(d)

ChoosesFrom(d, new) ==
  /\ new.pc = "holding" /\ new.meta = calls[d].meta
  /\ new.matched = {} /\ Eligible(d, new.addr)
  /\ GetOneOfSubset(d) \/ ChooseServer(d)

Effect(d, new) == \/ Alike(calls[d], new)
                  \/ Starts(d, new)
                  \/ Routed(d, new)
                  \/ MetaMatched(d, new)
                  \/ Narrows(d, new)
                  \/ ChoosesFrom(d, new)

LEMMA MoveEffect ==
  ASSUME IInv, NEW c \in Calls, NEW w, Move(c, w), Effect(c, w),
         NEW d \in Calls
  PROVE  Effect(d, calls'[d])
<1>1. calls'[d] = IF d = c THEN w ELSE calls[d]
  BY DEF Move, IInv, Shape
<1>2. Effect(d, calls[d])
  BY DEF Effect, Alike
<1> QED
  BY <1>1, <1>2

LEMMA NoCallStarts == \A d \in Calls : Starts(d, NoCall)
BY DEF Starts, NoCall

LEMMA CallEffect ==
  ASSUME IInv, Next, NEW d \in Calls
  PROVE  Effect(d, calls'[d])
<1>1. ASSUME UNCHANGED calls PROVE Effect(d, calls'[d])
  BY <1>1 DEF Effect, Alike
<1>2. ASSUME NEW N, calls' = Unpointed(N) PROVE Effect(d, calls'[d])
  BY <1>2, UnpointedCalls DEF Effect, Alike
<1>3. ASSUME NEW c \in Calls, Move(c, NoCall)
      PROVE  Effect(d, calls'[d])
  BY <1>3, NoCallStarts, MoveEffect DEF Effect
<1>4. ASSUME NEW c \in Calls, calls[c].pc = "idle", NEW meta, NEW caller,
             Move(c, [NoCall EXCEPT !.pc     = FirstStep(meta),
                                    !.meta   = meta,
                                    !.caller = caller])
      PROVE  Effect(d, calls'[d])
  <2> DEFINE w == [NoCall EXCEPT !.pc     = FirstStep(meta),
                                 !.meta   = meta,
                                 !.caller = caller]
  <2>1. w.pc = FirstStep(meta) /\ w.meta = meta /\ w.matched = {}
        /\ w.addr = None
    BY DEF NoCall
  <2>2. Move(c, w)
    BY <1>4
  <2> HIDE DEF w
  <2>3. Starts(c, w)
    BY <1>4, <2>1 DEF Starts
  <2> QED
    BY <2>2, <2>3, MoveEffect DEF Effect
<1>5. ASSUME NEW c \in Calls, MatchingInbound(c) \/ MatchingOutbound(c)
      PROVE  Effect(d, calls'[d])
  <2>1. /\ \A f \in {"matched", "seen", "addr"} : calls'[d][f] = calls[d][f]
        /\ d # c => calls'[d].pc = calls[d].pc /\ calls'[d].meta = calls[d].meta
        /\ calls[c].pc \in {"bounds", "outbound"}
        /\ calls'[c].pc \in {"outbound", "one", "subset"}
    BY <1>5, BoundsEffect
  <2>2. calls[c].addr = None
    BY <2>1 DEF IInv, Placed
  <2> QED
    BY <2>1, <2>2 DEF Effect, Alike, Routed
<1>14. ASSUME NEW c \in Calls, LockServers(c)
       PROVE  Effect(d, calls'[d])
  <2> DEFINE w == [calls[c] EXCEPT !.seen = {servers}]
  <2>1. CallShape(calls[c]) /\ Move(c, w)
    BY <1>14 DEF LockServers, IInv, Shape
  <2>2. Alike(calls[c], w)
    BY <2>1 DEF CallShape, Alike
  <2> HIDE DEF w
  <2> QED
    BY <2>1, <2>2, MoveEffect DEF Effect
<1>13. ASSUME NEW c \in Calls, MatchingSubset(c)
       PROVE  Effect(d, calls'[d])
  <2>1. /\ CallShape(calls[c]) /\ calls[c].pc = "subset"
        /\ calls[c].addr = None
    BY <1>13 DEF MatchingSubset, IInv, Shape, Placed
  <2> DEFINE onward == [calls[c] EXCEPT !.pc = "one", !.seen = {}]
  <2>o. /\ onward.pc = "one" /\ onward.addr = None
        /\ \A S : LET w == [onward EXCEPT !.matched = S]
                  IN  w.pc = "one" /\ w.addr = None
    BY <2>1 DEF CallShape
  <2>m. \/ UNCHANGED calls
        \/ \E w : w.pc = "one" /\ w.addr = None /\ Move(c, w)
    BY <1>13, <2>o DEF MatchingSubset
  <2>w. ASSUME NEW w, w.pc = "one", w.addr = None, Move(c, w)
        PROVE  Effect(d, calls'[d])
    BY <1>13, <2>1, <2>w, MoveEffect DEF Effect, Routed
  <2> QED
    BY <1>1, <2>m, <2>w
<1>6. ASSUME NEW c \in Calls, MatchingMeta(c)
      PROVE  Effect(d, calls'[d])
  <2>1. /\ CallShape(calls[c]) /\ calls[c].pc = "meta"
        /\ calls[c].addr = None
    BY <1>6 DEF MatchingMeta, IInv, Shape, Placed
  <2>2. PICK S \in Reads(c) :
          LET found   == MetaFound(calls[c].meta, S)
              well    == found \cap Healthy
              matched == IF found = {}   THEN S
                         ELSE IF well # {} THEN well
                         ELSE found
          IN  IF found = {} /\ config.failover # "All" THEN Move(c, NoCall)
              ELSE Move(c, [calls[c] EXCEPT !.pc      = "one",
                                            !.seen    = {},
                                            !.matched = matched])
    BY <1>6 DEF MatchingMeta
  <2> DEFINE found   == MetaFound(calls[c].meta, S)
             well    == found \cap Healthy
             matched == IF found = {}   THEN S
                        ELSE IF well # {} THEN well
                        ELSE found
             w       == [calls[c] EXCEPT !.pc = "one", !.seen = {},
                                         !.matched = matched]
  <2>3. IF found = {} /\ config.failover # "All" THEN Move(c, NoCall)
        ELSE Move(c, w)
    BY <2>2
  <2>4. found # {} => matched # {} /\ matched \subseteq found
    OBVIOUS
  <2> HIDE DEF matched
  <2>5. /\ w.pc = "one" /\ w.meta = calls[c].meta /\ w.matched = matched
        /\ w.addr = None
    BY <2>1 DEF CallShape
  <2> HIDE DEF w
  <2>6. found # {} \/ config.failover = "All" => MetaMatched(c, w)
    BY <2>1, <2>4, <2>5 DEF MetaMatched
  <2> QED
    BY <1>3, <2>3, <2>6, MoveEffect DEF Effect
<1>7. ASSUME NEW c \in Calls, GetOneOfSubset(c)
      PROVE  Effect(d, calls'[d])
  <2> DEFINE S == calls[c].matched
  <2>1. CallShape(calls[c]) /\ calls[c].pc = "one" /\ S # {}
    BY <1>7 DEF GetOneOfSubset, IInv, Shape
  <2>2. ASSUME NEW one \in Drawn(Weight, fail_count, Candidates(S)),
               Move(c, [calls[c] EXCEPT !.pc = "holding", !.matched = {},
                                        !.dst_bounds = None, !.addr = one])
        PROVE  Effect(d, calls'[d])
    <3> DEFINE w == [calls[c] EXCEPT !.pc = "holding", !.matched = {},
                                     !.dst_bounds = None, !.addr = one]
    <3>1. /\ w.pc = "holding" /\ w.meta = calls[c].meta /\ w.matched = {}
          /\ w.addr = one
      BY <2>1 DEF CallShape
    <3>2. Move(c, w) /\ one \in Candidates(S)
      BY <2>2, DrawnType
    <3> HIDE DEF w
    <3>3. ChoosesFrom(c, w)
      BY <1>7, <2>1, <3>1, <3>2 DEF ChoosesFrom, Eligible
    <3> QED
      BY <3>2, <3>3, MoveEffect DEF Effect
  <2> QED
    BY <1>3, <1>7, <2>2 DEF GetOneOfSubset
<1>15. ASSUME NEW c \in Calls, NarrowServers(c)
       PROVE  Effect(d, calls'[d])
  <2>1. /\ CallShape(calls[c]) /\ CallShape(calls[d]) /\ calls[c].pc = "one"
        /\ calls[c].matched = {} /\ calls[c].addr = None
    BY <1>15 DEF NarrowServers, IInv, Shape, Placed
  <2>2. PICK left \in Leaves(c) :
          \/ Move(c, NoCall)
          \/ calls' = [e \in Calls |->
                         IF e = c THEN [calls[c] EXCEPT !.pc   = "choose",
                                                        !.seen = {left}]
                         ELSE IF e \in {b \in Calls \ {c} : calls[b].seen # {}}
                         THEN [calls[e] EXCEPT !.seen = @ \cup {left}]
                         ELSE calls[e]]
    BY <1>15 DEF NarrowServers
  <2>3. CASE Move(c, NoCall)
    BY <1>3, <2>3
  <2>4. CASE d = c /\ calls'[d] = [calls[c] EXCEPT !.pc   = "choose",
                                                   !.seen = {left}]
    BY <1>15, <2>1, <2>4 DEF Effect, Narrows, CallShape
  <2>5. CASE calls'[d] = [calls[d] EXCEPT !.seen = @ \cup {left}]
             \/ calls'[d] = calls[d]
    BY <2>1, <2>5 DEF Effect, Alike, CallShape
  <2> QED
    BY <2>2, <2>3, <2>4, <2>5
<1>8. ASSUME NEW c \in Calls, ChooseServer(c)
      PROVE  Effect(d, calls'[d])
  <2>1. /\ CallShape(calls[c]) /\ calls[c].matched = {}
        /\ \/ calls[c].pc = "choose"
           \/ calls[c].pc = "one" /\ ~config.nearby
    BY <1>8 DEF ChooseServer, IInv, Shape, Placed
  <2>2. ASSUME NEW one \in InSight(c),
               Move(c, [calls[c] EXCEPT !.pc = "holding", !.dst_bounds = None,
                                        !.seen = {}, !.addr = one])
        PROVE  Effect(d, calls'[d])
    <3> DEFINE w == [calls[c] EXCEPT !.pc = "holding", !.dst_bounds = None,
                                     !.seen = {}, !.addr = one]
    <3>1. /\ w.pc = "holding" /\ w.meta = calls[c].meta /\ w.matched = {}
          /\ w.addr = one
      BY <2>1 DEF CallShape
    <3>2. Move(c, w)
      BY <2>2
    <3> HIDE DEF w
    <3>3. ChoosesFrom(c, w)
      BY <1>8, <2>1, <2>2, <3>1 DEF ChoosesFrom, Eligible
    <3> QED
      BY <3>2, <3>3, MoveEffect DEF Effect
  <2>3. \A one \in Drawn(Weight, fail_count, servers) : one \in InSight(c)
    BY DrawnType DEF InSight
  <2> QED
    BY <1>3, <1>8, <2>2, <2>3 DEF ChooseServer
<1>9. ASSUME NEW c \in Calls, Select(c) PROVE Effect(d, calls'[d])
  BY <1>1, <1>4, <1>9 DEF Select
<1>10. ASSUME NEW c \in Calls, Success(c) \/ Failed(c)
       PROVE  Effect(d, calls'[d])
  BY <1>3, <1>10 DEF Success, Failed
<1>11. ASSUME NEW list \in RuleLists,
              UpdateInbounds(list) \/ UpdateOutbounds(list)
       PROVE  Effect(d, calls'[d])
  BY <1>1, <1>2, <1>11 DEF UpdateInbounds, UpdateOutbounds
<1>12. ASSUME NEW list \in InstanceLists, UpdateInstances(list)
       PROVE  Effect(d, calls'[d])
  BY <1>1, <1>12 DEF UpdateInstances
<1>16. CASE ClearDeleted
  BY <1>1, <1>16 DEF ClearDeleted
<1> QED
  BY <1>5, <1>6, <1>7, <1>8, <1>9, <1>10, <1>11, <1>12, <1>13, <1>14, <1>15,
     <1>16
  DEF Next

(* While an address is not deleted, it is the same instance.               *)
LEMMA SameInstance ==
  ASSUME IInv, Next, NEW a \in Addrs, ref[a] # 0, inst'[a] # None
  PROVE  inst'[a] = inst[a]
<1>1. ~(a > made) /\ made \in Nat
  BY DEF IInv, Shape, Counted
<1>2. ASSUME NEW count, NEW fails, Count(count, fails)
      PROVE  inst'[a] = inst[a]
  BY <1>2 DEF Count
<1>3. ASSUME NEW list \in InstanceLists, UpdateInstances(list)
      PROVE  inst'[a] = inst[a]
  <2>1. a \notin made + 1 .. made + Len(list)
    BY <1>1 DEF Addrs
  <2>2. PICK left : inst' = [b \in Addrs |->
                      IF b \in made + 1 .. made + Len(list) THEN list[b - made]
                      ELSE IF left[b] = 0 THEN None ELSE inst[b]]
    BY <1>3, InstancesEffect
  <2> QED
    BY <2>1, <2>2
<1>4. ASSUME UNCHANGED inst
      PROVE  inst'[a] = inst[a]
  BY <1>4
<1>5. ASSUME NEW c \in Calls, MatchingSubset(c)
      PROVE  inst'[a] = inst[a]
  BY <1>5 DEF MatchingSubset, objects
<1>6. ASSUME NEW c \in Calls, MatchingInbound(c) \/ MatchingOutbound(c)
                              \/ LockServers(c) \/ NarrowServers(c)
                              \/ ChooseServer(c) \/ MatchingMeta(c)
                              \/ Select(c)
      PROVE  UNCHANGED inst
  BY <1>6 DEF MatchingInbound, MatchingOutbound, LockServers, NarrowServers,
              ChooseServer, MatchingMeta, Select, objects
<1>7. ASSUME NEW list \in RuleLists,
             UpdateInbounds(list) \/ UpdateOutbounds(list) \/ ClearDeleted
      PROVE  UNCHANGED inst
  BY <1>7 DEF UpdateInbounds, UpdateOutbounds, ClearDeleted, objects
<1>8. ASSUME NEW c \in Calls, GetOneOfSubset(c) \/ Success(c) \/ Failed(c)
      PROVE  \E count, fails : Count(count, fails)
  BY <1>8 DEF GetOneOfSubset, Success, Failed
<1>9. CASE ClearDeleted
  BY <1>9 DEF ClearDeleted, objects
<1> QED
  BY <1>2, <1>3, <1>4, <1>5, <1>6, <1>7, <1>8, <1>9 DEF Next

(* What a call has or sees was counted before the step, and if it is still *)
(* in use it is the same instance after it.                                *)
LEMMA SameHeld ==
  ASSUME IInv, Next, Usable', NEW d \in Calls, NEW a \in Addrs,
         Holds(calls[d], a) \/ a \in InSight(d),
         a \in InUse'
  PROVE  inst'[a] = inst[a] /\ inst[a] # None
<1>1. ref[a] # 0 /\ inst[a] # None
  BY FoundNotDeleted DEF Next
<1>2. inst'[a] # None
  BY DEF Usable
<1> QED
  BY <1>1, <1>2, SameInstance

LEMMA InUseNext ==
  ASSUME NEW d \in Calls, NEW a \in Addrs,
         Holds(calls'[d], a) \/ a \in InSight(d)'
  PROVE  a \in InUse'
<1>1. a # None
  BY NoneAssumption
<1> QED
  BY <1>1 DEF InUse, Holds

LEMMA ConfigKept ==
  ASSUME Next
  PROVE  config' = config
BY DEF Next, UpdateInstances, ClearDeleted, UpdateInbounds, UpdateOutbounds,
       Select, MatchingInbound, MatchingOutbound, LockServers, MatchingSubset,
       MatchingMeta, GetOneOfSubset, NarrowServers, ChooseServer, Success,
       Failed

-----------------------------------------------------------------------------
(* strictNearby.                                                           *)

InRegion(conf, instance) == /\ ~NoLocation(conf)
                            /\ instance.place.region = conf.location.region

LEMMA StrictFilter ==
  ASSUME IInv, config.nearby, config.strict, NEW S \in SUBSET Addrs,
         NEW a \in Candidates(S), inst[a] # None
  PROVE  InRegion(config, inst[a])
<1> DEFINE near == {b \in S : NearMatch(config.location, Place[b],
                                        config.level)}
<1>1. a \in near /\ ~NoLocation(config)
  BY DEF Candidates, NearbyFilter, MayRecover, Degrades
<1>2. a \in Addrs /\ Place[a] = inst[a].place
  BY <1>1 DEF Place
<1> QED
  BY <1>1, <1>2 DEF NearMatch, InRegion

(* However much the loops of c mix up, they leave nothing out of it.       *)
LEMMA StrictLeaves ==
  ASSUME IInv, Usable, config.nearby, config.strict, NEW c \in Calls,
         NEW left \in Leaves(c), NEW a \in left
  PROVE  InRegion(config, inst[a])
<1>1. a \in InSight(c) /\ a \in Addrs
  BY LeavesType, SightType
<1>2. inst[a] # None
  BY <1>1, FoundNotDeleted
<1>3. CASE Whole(c)
  BY <1>2, <1>3, StrictFilter DEF Leaves, IInv, Shape
<1>4. CASE ~Whole(c)
  <2>1. a \in Reachable(config, Place, InSight(c))
    BY <1>4 DEF Leaves, MayRecover
  <2> QED
    BY <1>1, <1>2, <2>1 DEF Reachable, NearMatch, Place, InRegion
<1> QED
  BY <1>3, <1>4

(* What a call that is about to choose sees was left by a filter, before   *)
(* the step or in it.                                                      *)
LEMMA SightStep ==
  ASSUME IInv, Next, NEW d \in Calls, calls'[d].pc = "choose",
         NEW a \in InSight(d)'
  PROVE  \/ calls[d].pc = "choose" /\ a \in InSight(d)
         \/ \E c \in Calls : \E left \in Leaves(c) : a \in left
<1>1. ASSUME NEW c \in Calls, NarrowServers(c)
      PROVE  \/ calls[d].pc = "choose" /\ a \in InSight(d)
             \/ \E left \in Leaves(c) : a \in left
  <2>0. CallShape(calls[d]) /\ CallShape(calls[c]) /\ calls[c].pc = "one"
    BY <1>1 DEF NarrowServers, IInv, Shape
  <2>1. PICK left \in Leaves(c) :
          \/ Move(c, NoCall) /\ UNCHANGED vector
          \/ /\ servers' = left
             /\ calls' = [e \in Calls |->
                            IF e = c THEN [calls[c] EXCEPT !.pc   = "choose",
                                                           !.seen = {left}]
                            ELSE IF e \in {b \in Calls \ {c} :
                                             calls[b].seen # {}}
                            THEN [calls[e] EXCEPT !.seen = @ \cup {left}]
                            ELSE calls[e]]
    BY <1>1 DEF NarrowServers
  <2>2. CASE Move(c, NoCall) /\ UNCHANGED vector
    <3>1. calls'[d] = IF d = c THEN NoCall ELSE calls[d]
      BY <2>2 DEF Move, IInv, Shape
    <3>2. calls'[d] = calls[d] /\ servers' = servers
      BY <2>2, <3>1 DEF NoCall, vector
    <3> QED BY <3>2 DEF InSight
  <2>3. CASE d = c /\ servers' = left
             /\ calls'[d] = [calls[c] EXCEPT !.pc = "choose", !.seen = {left}]
    <3>1. calls'[d].seen = {left}
      BY <2>0, <2>3 DEF CallShape
    <3> QED BY <2>3, <3>1 DEF InSight
  <2>4. CASE d # c /\ servers' = left
             /\ \/ calls'[d] = [calls[d] EXCEPT !.seen = @ \cup {left}]
                \/ calls'[d] = calls[d]
    <3>1. calls'[d].seen \subseteq calls[d].seen \cup {left}
          /\ calls[d].pc = "choose"
      BY <2>0, <2>4 DEF CallShape
    <3> QED BY <2>4, <3>1 DEF InSight
  <2> QED
    BY <2>1, <2>2, <2>3, <2>4
<1>2. ASSUME UNCHANGED servers, calls[d].pc = "choose",
             calls'[d].seen = calls[d].seen
      PROVE  calls[d].pc = "choose" /\ a \in InSight(d)
  BY <1>2 DEF InSight
<1>3. ASSUME NEW c \in Calls, NEW w, Move(c, w), w.pc # "choose",
             UNCHANGED servers
      PROVE  calls[d].pc = "choose" /\ a \in InSight(d)
  <2>1. calls'[d] = IF d = c THEN w ELSE calls[d]
    BY <1>3 DEF Move, IInv, Shape
  <2>2. calls'[d] = calls[d]
    BY <1>3, <2>1
  <2> QED BY <1>3, <2>2 DEF InSight
<1>4. ASSUME NEW c \in Calls, MatchingInbound(c) \/ MatchingOutbound(c)
      PROVE  calls[d].pc = "choose" /\ a \in InSight(d)
  <2>1. /\ calls'[d].seen = calls[d].seen
        /\ d # c => calls'[d].pc = calls[d].pc
        /\ calls'[c].pc \in {"outbound", "one", "subset"}
    BY <1>4, BoundsEffect
  <2>2. UNCHANGED servers
    BY <1>4 DEF MatchingInbound, MatchingOutbound, vector
  <2> QED BY <1>2, <2>1, <2>2
<1>5. ASSUME NEW list, UpdateInbounds(list) \/ UpdateOutbounds(list)
                       \/ ClearDeleted
      PROVE  calls[d].pc = "choose" /\ a \in InSight(d)
  <2>1. UNCHANGED servers /\ (UNCHANGED calls \/ \E N : calls' = Unpointed(N))
    BY <1>5 DEF UpdateInbounds, UpdateOutbounds, ClearDeleted, vector
  <2>2. calls'[d].pc = calls[d].pc /\ calls'[d].seen = calls[d].seen
    BY <2>1, UnpointedCalls
  <2> QED BY <1>2, <2>1, <2>2
<1>6. ASSUME NEW list, UpdateInstances(list)
      PROVE  calls[d].pc = "choose" /\ a \in InSight(d)
  BY <1>6 DEF UpdateInstances, IInv, Placed
<1>7. ASSUME NEW c \in Calls,
             \/ Select(c) \/ LockServers(c) \/ MatchingSubset(c)
             \/ MatchingMeta(c) \/ GetOneOfSubset(c) \/ ChooseServer(c)
             \/ Success(c) \/ Failed(c)
      PROVE  calls[d].pc = "choose" /\ a \in InSight(d)
  <2>1. UNCHANGED servers
    BY <1>7 DEF Select, LockServers, MatchingSubset, MatchingMeta,
                GetOneOfSubset, ChooseServer, Success, Failed, vector
  <2>2. CallShape(calls[c])
    BY DEF IInv, Shape
  <2>3. NoCall.pc # "choose"
    BY DEF NoCall
  <2>4. CASE Success(c) \/ Failed(c)
    BY <1>3, <2>1, <2>3, <2>4 DEF Success, Failed
  <2>5. CASE Select(c)
    <3>1. \A meta, caller :
            [NoCall EXCEPT !.pc = FirstStep(meta), !.meta = meta,
                           !.caller = caller].pc # "choose"
      BY DEF NoCall, FirstStep
    <3>2. ASSUME NEW meta, NEW caller,
                 Move(c, [NoCall EXCEPT !.pc     = FirstStep(meta),
                                        !.meta   = meta,
                                        !.caller = caller])
          PROVE  calls[d].pc = "choose" /\ a \in InSight(d)
      <4> DEFINE w == [NoCall EXCEPT !.pc     = FirstStep(meta),
                                     !.meta   = meta,
                                     !.caller = caller]
      <4>1. Move(c, w) /\ w.pc # "choose"
        BY <3>1, <3>2
      <4> HIDE DEF w
      <4> QED BY <1>3, <2>1, <4>1
    <3>3. CASE UNCHANGED calls
      BY <1>2, <2>1, <3>3
    <3> QED BY <2>5, <3>2, <3>3 DEF Select
  <2>6. CASE LockServers(c)
    <3> DEFINE w == [calls[c] EXCEPT !.seen = {servers}]
    <3>1. Move(c, w) /\ w.pc # "choose"
      BY <2>2, <2>6 DEF LockServers, CallShape
    <3> HIDE DEF w
    <3> QED BY <1>3, <2>1, <3>1
  <2>7. CASE MatchingSubset(c)
    <3> DEFINE onward == [calls[c] EXCEPT !.pc = "one", !.seen = {}]
    <3>1. /\ onward.pc # "choose"
          /\ \A S : [onward EXCEPT !.matched = S].pc # "choose"
      BY <2>2 DEF CallShape
    <3>2. UNCHANGED calls \/ \E w : Move(c, w) /\ w.pc # "choose"
      BY <2>7, <3>1 DEF MatchingSubset
    <3> QED BY <1>2, <1>3, <2>1, <3>2
  <2>8. CASE MatchingMeta(c)
    <3>1. \A S : [calls[c] EXCEPT !.pc = "one", !.seen = {},
                                  !.matched = S].pc # "choose"
      BY <2>2 DEF CallShape
    <3>2. \E w : Move(c, w) /\ w.pc # "choose"
      BY <2>3, <2>8, <3>1 DEF MatchingMeta
    <3> QED BY <1>3, <2>1, <3>2
  <2>9. CASE GetOneOfSubset(c)
    <3>1. \A one : [calls[c] EXCEPT !.pc = "holding", !.matched = {},
                      !.dst_bounds = None, !.addr = one].pc # "choose"
      BY <2>2 DEF CallShape
    <3>2. \E w : Move(c, w) /\ w.pc # "choose"
      BY <2>3, <2>9, <3>1 DEF GetOneOfSubset
    <3> QED BY <1>3, <2>1, <3>2
  <2>10. CASE ChooseServer(c)
    <3>1. \A one : [calls[c] EXCEPT !.pc = "holding", !.dst_bounds = None,
                      !.seen = {}, !.addr = one].pc # "choose"
      BY <2>2 DEF CallShape
    <3>2. \E w : Move(c, w) /\ w.pc # "choose"
      BY <2>3, <2>10, <3>1 DEF ChooseServer
    <3> QED BY <1>3, <2>1, <3>2
  <2> QED
    BY <1>7, <2>4, <2>5, <2>6, <2>7, <2>8, <2>9, <2>10
<1> QED
  BY <1>1, <1>4, <1>5, <1>6, <1>7 DEF Next

(* The inductive form: also what a call sees when it is about to choose.   *)
StrictInv ==
  Usable /\ config.nearby /\ config.strict =>
    \A c \in Calls :
      /\ calls[c].pc = "choose" =>
           \A a \in InSight(c) : InRegion(config, inst[a])
      /\ calls[c].addr # None => InRegion(config, inst[calls[c].addr])

LEMMA StrictInvStep == IInv /\ IInv' /\ StrictInv /\ [Next]_vars => StrictInv'
<1> SUFFICES ASSUME IInv, IInv', StrictInv, [Next]_vars
             PROVE  StrictInv'
  OBVIOUS
<1>1. CASE UNCHANGED vars
  <2>1. UNCHANGED <<config, servers, inst, calls>>
    BY <1>1 DEF vars, objects, vector
  <2>2. Usable' = Usable
    BY <2>1 DEF Usable, InUse, InSight
  <2> QED
    BY <2>1, <2>2 DEF StrictInv, InSight
<1>2. CASE Next
  <2>1. config' = config /\ Usable
    BY <1>2, ConfigKept DEF Next
  <2> SUFFICES ASSUME Usable', config.nearby, config.strict, NEW d \in Calls
               PROVE  /\ calls'[d].pc = "choose" =>
                           \A a \in InSight(d)' : InRegion(config, inst'[a])
                      /\ calls'[d].addr # None =>
                           InRegion(config, inst'[calls'[d].addr])
    BY <2>1 DEF StrictInv
  <2>2. ASSUME calls'[d].pc = "choose", NEW a \in InSight(d)'
        PROVE  InRegion(config, inst'[a])
    <3>1. a \in Addrs
      BY <2>2 DEF InSight, IInv, Shape, CallShape
    <3>2. a \in InUse'
      BY <2>2, <3>1, InUseNext
    <3>3. CASE calls[d].pc = "choose" /\ a \in InSight(d)
      <4>1. inst'[a] = inst[a]
        BY <1>2, <3>1, <3>2, <3>3, SameHeld
      <4> QED
        BY <2>1, <3>3, <4>1 DEF StrictInv
    <3>4. CASE \E c \in Calls : \E left \in Leaves(c) : a \in left
      <4>1. PICK c \in Calls : \E left \in Leaves(c) : a \in left
        BY <3>4
      <4>2. InRegion(config, inst[a])
        BY <2>1, <4>1, StrictLeaves
      <4>3. a \in InSight(c)
        BY <4>1, LeavesType
      <4>4. inst'[a] = inst[a]
        BY <1>2, <3>1, <3>2, <4>3, SameHeld
      <4> QED
        BY <4>2, <4>4
    <3> QED
      BY <1>2, <2>2, <3>3, <3>4, SightStep
  <2>3. ASSUME calls'[d].addr # None
        PROVE  InRegion(config, inst'[calls'[d].addr])
    <3> DEFINE a == calls'[d].addr
    <3>1. a \in Addrs /\ Holds(calls'[d], a)
      BY <2>3 DEF IInv, Shape, CallShape, Holds
    <3>2. a \in InUse'
      BY <3>1, InUseNext
    <3>3. CASE Alike(calls[d], calls'[d])
      <4>1. calls[d].addr = a /\ Holds(calls[d], a)
        BY <3>3 DEF Alike, Holds
      <4>2. inst'[a] = inst[a]
        BY <1>2, <3>1, <3>2, <4>1, SameHeld
      <4> QED
        BY <2>1, <2>3, <4>1, <4>2 DEF StrictInv
    <3>4. CASE ChoosesFrom(d, calls'[d])
      <4>1. Eligible(d, a)
        BY <3>4 DEF ChoosesFrom
      <4>2. CASE calls[d].matched # {} /\ a \in Candidates(calls[d].matched)
        <5>1. calls[d].matched \in SUBSET Addrs /\ Holds(calls[d], a)
          BY <4>2, CandidatesType DEF IInv, Shape, CallShape, Holds
        <5>2. inst'[a] = inst[a] /\ inst[a] # None
          BY <1>2, <3>1, <3>2, <5>1, SameHeld
        <5> QED
          BY <4>2, <5>1, <5>2, StrictFilter
      <4>3. CASE calls[d].pc = "choose" /\ a \in InSight(d)
        <5>1. inst'[a] = inst[a]
          BY <1>2, <3>1, <3>2, <4>3, SameHeld
        <5> QED
          BY <2>1, <4>3, <5>1 DEF StrictInv
      <4> QED
        BY <4>1, <4>2, <4>3 DEF Eligible
    <3> QED
      BY <1>2, <2>3, <3>3, <3>4, CallEffect
      DEF Effect, Starts, Routed, MetaMatched, Narrows
  <2> QED
    BY <2>2, <2>3
<1> QED
  BY <1>1, <1>2

(* With strictNearby no interleaving, replacement, recovery or degradation *)
(* lets a call out of the client's region, and no call that narrows        *)
(* `servers' under the hands of others does.                               *)
THEOREM StrictCorrect == Spec => []StrictStaysNear
<1>1. Init => StrictInv
  BY DEF Init, StrictInv, NoCall
<1>2. StrictInv => StrictStaysNear
  BY DEF StrictInv, StrictStaysNear, InRegion
<1> QED
  BY <1>1, <1>2, StrictInvStep, Invariance, PTL DEF Spec

-----------------------------------------------------------------------------
(* The metadata.                                                           *)

Fits(conf, meta, instance) ==
  \/ meta \subseteq instance.meta
  \/ /\ conf.failover = "NotKey"
     /\ \A pair \in instance.meta, m \in meta : pair[1] # m[1]

(* What a call by metadata has matched, it has matched all along; and with *)
(* metadata it does not come to get_one without a match.                   *)
MetaInv ==
  Usable /\ config.meta /\ config.failover # "All" =>
    \A c \in Calls :
      /\ \A a \in Addrs :
           Holds(calls[c], a) => Fits(config, calls[c].meta, inst[a])
      /\ calls[c].pc \in {"one", "choose"} /\ calls[c].meta # {}
           => calls[c].matched # {}

LEMMA MetaFoundFits ==
  ASSUME NEW meta, NEW S, NEW a \in MetaFound(meta, S)
  PROVE  a \in S /\ Fits(config, meta, inst[a])
BY DEF MetaFound, MetaMatch, NoKeyMatch, Fits

LEMMA MetaInvStep == IInv /\ IInv' /\ MetaInv /\ [Next]_vars => MetaInv'
<1> SUFFICES ASSUME IInv, IInv', MetaInv, [Next]_vars
             PROVE  MetaInv'
  OBVIOUS
<1>1. CASE UNCHANGED vars
  <2>1. UNCHANGED <<config, servers, inst, calls>>
    BY <1>1 DEF vars, objects, vector
  <2>2. Usable' = Usable
    BY <2>1 DEF Usable, InUse, InSight
  <2> QED
    BY <2>1, <2>2 DEF MetaInv
<1>2. CASE Next
  <2>1. config' = config /\ Usable
    BY <1>2, ConfigKept DEF Next
  <2> SUFFICES ASSUME Usable', config.meta, config.failover # "All",
                      NEW d \in Calls
               PROVE  /\ \A a \in Addrs :
                           Holds(calls'[d], a)
                             => Fits(config, calls'[d].meta, inst'[a])
                      /\ calls'[d].pc \in {"one", "choose"}
                           /\ calls'[d].meta # {}
                             => calls'[d].matched # {}
    BY <2>1 DEF MetaInv
  <2>u. ASSUME NEW a \in Addrs, Holds(calls'[d], a),
               Holds(calls[d], a) \/ a \in InSight(d)
        PROVE  inst'[a] = inst[a]
    BY <1>2, <2>u, InUseNext, SameHeld
  <2>2. CASE Alike(calls[d], calls'[d])
    <3>1. ASSUME NEW a \in Addrs, Holds(calls'[d], a)
          PROVE  Fits(config, calls'[d].meta, inst'[a])
      <4>1. Holds(calls[d], a) /\ calls'[d].meta = calls[d].meta
        BY <2>2, <3>1 DEF Alike, Holds
      <4> QED
        BY <2>1, <2>u, <3>1, <4>1 DEF MetaInv
    <3> QED
      BY <2>1, <2>2, <3>1 DEF Alike, MetaInv
  <2>3. CASE Starts(d, calls'[d])
    BY <2>3, NoneAssumption DEF Starts, FirstStep, Holds, IInv, Shape
  <2>4. CASE Routed(d, calls'[d])
    BY <2>4 DEF Routed, IInv, Placed
  <2>5. CASE MetaMatched(d, calls'[d])
    <3>0. PICK S \in Reads(d) :
            calls'[d].matched \subseteq MetaFound(calls'[d].meta, S)
      BY <2>5 DEF MetaMatched
    <3>1. ASSUME NEW a \in Addrs, Holds(calls'[d], a)
          PROVE  Fits(config, calls'[d].meta, inst'[a])
      <4>1. a \in MetaFound(calls'[d].meta, S)
        BY <2>5, <3>0, <3>1, NoneAssumption DEF MetaMatched, Holds
      <4>2. a \in InSight(d) /\ Fits(config, calls'[d].meta, inst[a])
        BY <3>0, <4>1, MetaFoundFits, SightType
      <4> QED
        BY <2>u, <3>1, <4>2
    <3> QED
      BY <2>5, <3>1 DEF MetaMatched
  <2>6. CASE Narrows(d, calls'[d])
    BY <2>1, <2>6, NoneAssumption DEF Narrows, Holds, MetaInv
  <2>7. CASE ChoosesFrom(d, calls'[d])
    <3>1. ASSUME NEW a \in Addrs, Holds(calls'[d], a)
          PROVE  Fits(config, calls'[d].meta, inst'[a])
      <4>1. Eligible(d, a) /\ calls'[d].meta = calls[d].meta
        BY <2>7, <3>1 DEF ChoosesFrom, Holds
      <4>2. CASE calls[d].matched # {}
        <5>1. Holds(calls[d], a)
          BY <4>1, <4>2, CandidatesType DEF Eligible, Holds
        <5> QED
          BY <2>1, <2>u, <3>1, <4>1, <5>1 DEF MetaInv
      <4>3. CASE calls[d].matched = {}
        <5>1. calls[d].meta = {}
          BY <2>1, <4>1, <4>3 DEF Eligible, MetaInv
        <5> QED
          BY <4>1, <5>1 DEF Fits
      <4> QED
        BY <4>2, <4>3
    <3> QED
      BY <2>7, <3>1 DEF ChoosesFrom
  <2> QED
    BY <1>2, <2>2, <2>3, <2>4, <2>5, <2>6, <2>7, CallEffect DEF Effect
<1> QED
  BY <1>1, <1>2

(* By metadata a call never gets an instance that does not have what its   *)
(* URL asks for, but for the failover that was chosen.                     *)
THEOREM MetaCorrect == Spec => []MetaHonoured
<1>1. Init => MetaInv
  BY NoneAssumption DEF Init, MetaInv, NoCall, Holds
<1>2. IInv /\ MetaInv => MetaHonoured
  BY NoneAssumption DEF IInv, Shape, CallShape, MetaInv, MetaHonoured, Holds,
                        Fits
<1> QED
  BY <1>1, <1>2, MetaInvStep, Invariance, PTL DEF Spec

-----------------------------------------------------------------------------
(* The nearby router.                                                      *)

LEMMA FilterKeepsRegion ==
  ASSUME NEW S, NEW a \in S \ Narrowed(S)
  PROVE  Place[a].region # config.location.region
<1> DEFINE near == {b \in S : NearMatch(config.location, Place[b],
                                        config.level)}
           wide == Widened(config, Place, Healthy, S)
<1>1. a \notin Candidates(S) /\ Candidates(S) # {}
  BY DEF Narrowed
<1>2. Candidates(S) \in {near, wide}
  BY <1>1 DEF Candidates, NearbyFilter
<1>3. PICK level : Candidates(S) = {b \in S : NearMatch(config.location,
                                                       Place[b], level)}
  BY <1>2 DEF Widened
<1>4. level \in {"Zone", "Campus", "Region"}
  BY <1>1, <1>3 DEF NearMatch
<1> QED
  BY <1>1, <1>3, <1>4 DEF NearMatch

(* The calls never empty `servers', and one whose view of it is whole      *)
(* takes no instance in the client's region out of it, whatever calls,     *)
(* replacements and narrowings came before.                                *)
THEOREM NearbyCorrect == Spec => NearbyKeepsRegion
<1> DEFINE Keeps(c) == (calls[c].pc = "one" /\ calls'[c].pc = "choose") =>
                         /\ servers' # {}
                         /\ Whole(c) => \A a \in servers \ servers' :
                              inst[a].place.region # config.location.region
<1>1. ASSUME IInv, [Next]_vars
      PROVE  [\A c \in Calls : Keeps(c)]_vars
  <2> SUFFICES ASSUME Next, NEW c \in Calls,
                      calls[c].pc = "one", calls'[c].pc = "choose"
               PROVE  /\ servers' # {}
                      /\ Whole(c) => \A a \in servers \ servers' :
                           inst[a].place.region # config.location.region
    BY <1>1
  <2>1. NarrowServers(c)
    BY <1>1, CallEffect DEF Effect, Alike, Starts, FirstStep, Routed,
                            MetaMatched, Narrows, ChoosesFrom
  <2>2. PICK left \in Leaves(c) :
          \/ left = {} /\ Move(c, NoCall)
          \/ left # {} /\ servers' = left
    BY <2>1 DEF NarrowServers
  <2>3. ~Move(c, NoCall)
    BY <1>1 DEF Move, NoCall, IInv, Shape
  <2>4. ASSUME Whole(c), NEW a \in servers \ servers'
        PROVE  inst[a].place.region # config.location.region
    <3>1. servers' = Candidates(servers) /\ Candidates(servers) # {}
      BY <2>2, <2>3, <2>4 DEF Leaves
    <3>2. a \in servers \ Narrowed(servers)
      BY <2>4, <3>1 DEF Narrowed
    <3>3. a \in Addrs /\ inst[a] # None
      BY <1>1, <2>4, FoundNotDeleted DEF Next, IInv, Shape
    <3> QED
      BY <3>2, <3>3, FilterKeepsRegion DEF Place
  <2> QED
    BY <2>2, <2>3, <2>4
<1> QED
  BY <1>1, Invariance, PTL DEF Spec, NearbyKeepsRegion

-----------------------------------------------------------------------------
(* The types of the rest: the rules, the counts of failures, and what a    *)
(* call has split off its URL and points at; it comes to matching_subset   *)
(* with a pointer only.                                                    *)

Fields(call) == /\ call.meta \in SUBSET Pairs
                /\ call.caller \in Callers \cup {None}
                /\ call.dst_bounds \in Pointer \cup {None}
                /\ call.pc = "subset" => call.dst_bounds # None

Tables == /\ inbound_rules \in [Names -> Kept \cup {None}]
          /\ outbound_rules \in [Names -> Kept \cup {None}]
          /\ fail_count \in [Addrs -> 0 .. MaxFails + 1]
          /\ alive \in BOOLEAN
          /\ \A c \in Calls : Fields(calls[c])

LEMMA TablesInit == Init => Tables
BY BoundsAssumption DEF Init, Tables, Fields, NoCall

LEMMA MoveFields ==
  ASSUME IInv, Tables, NEW c \in Calls, NEW w, Move(c, w), Fields(w)
  PROVE  \A d \in Calls : Fields(calls'[d])
<1>1. \A d \in Calls : calls'[d] = IF d = c THEN w ELSE calls[d]
  BY DEF Move, IInv, Shape
<1> QED BY <1>1 DEF Tables

LEMMA NoCallFields == Fields(NoCall)
BY DEF Fields, NoCall

LEMMA RulesKept ==
  ASSUME UNCHANGED rules
  PROVE  UNCHANGED inbound_rules /\ UNCHANGED outbound_rules
BY DEF rules

(* Whoever lets references go leaves counts of failures that the breaker   *)
(* tells apart.                                                            *)
LEMMA CountFails ==
  ASSUME NEW count, NEW fails \in [Addrs -> 0 .. MaxFails + 1],
         Count(count, fails)
  PROVE  fail_count' \in [Addrs -> 0 .. MaxFails + 1]
<1>1. fail_count' = [a \in Addrs |-> IF count[a] = 0 THEN 0 ELSE fails[a]]
  BY DEF Count
<1> QED BY <1>1, BoundsAssumption

LEMMA ReplacedType ==
  ASSUME NEW table \in [Names -> Kept \cup {None}], NEW list \in RuleLists
  PROVE  Replaced(table, list) \in [Names -> Kept \cup {None}]
<1>1. \A n \in Names : RulesOf(list, n) \in Kept
  BY DEF Kept
<1> QED BY <1>1 DEF Replaced

LEMMA UnpointedFields ==
  ASSUME IInv, Tables, NEW N, NEW c \in Calls
  PROVE  Fields(Unpointed(N)[c])
<1> DEFINE w == [calls[c] EXCEPT !.dst_bounds.valid = FALSE]
<1>1. CallShape(calls[c]) /\ Fields(calls[c])
  BY DEF IInv, Shape, Tables
<1>2. CASE calls[c].dst_bounds # None
  <2>1. calls[c].dst_bounds \in Pointer
    BY <1>1, <1>2 DEF Fields
  <2>2. [calls[c].dst_bounds EXCEPT !.valid = FALSE] \in Pointer
    BY <2>1 DEF Pointer
  <2>3. /\ w.meta = calls[c].meta /\ w.caller = calls[c].caller
        /\ w.dst_bounds = [calls[c].dst_bounds EXCEPT !.valid = FALSE]
    BY <1>1 DEF CallShape
  <2>4. Fields(w)
    BY <1>1, <2>2, <2>3, NoneAssumption DEF Fields
  <2>5. Unpointed(N)[c] \in {w, calls[c]}
    BY DEF Unpointed
  <2> QED BY <1>1, <2>4, <2>5
<1>3. CASE calls[c].dst_bounds = None
  BY <1>1, <1>3 DEF Unpointed
<1> QED BY <1>2, <1>3

(* A rule that is kept under a name is a rule that the platform answered.  *)
LEMMA KeptRules ==
  ASSUME NEW kept \in Kept
  PROVE  /\ DOMAIN kept \in SUBSET (Nat \ {0})
         /\ \A i \in DOMAIN kept : kept[i] \in Rules
<1>1. PICK list \in RuleLists, n \in Names : kept = RulesOf(list, n)
  BY DEF Kept
<1>2. DOMAIN list \in SUBSET (Nat \ {0})
  BY ListsAssumption
<1>3. \A i \in DOMAIN list : list[i] \in Rules
  BY DEF Rules, Elements
<1> QED BY <1>1, <1>2, <1>3 DEF RulesOf

(* What matching_bounds makes dst_bounds point at is there.                *)
LEMMA PointsAtRule ==
  ASSUME NEW table \in [Names -> Kept \cup {None}], NEW caller, NEW meta,
         NEW name, name = NameFor(table, caller.service), name # None,
         NEW first, first = FirstRule(table[name], caller, meta), first # 0
  PROVE  [name |-> name, bounds |-> table[name][first].destinations,
          valid |-> TRUE] \in Pointer
<1>1. name \in Names /\ table[name] # None
  BY DEF NameFor
<1>2. table[name] \in Kept
  BY <1>1
<1>3. /\ DOMAIN table[name] \in SUBSET (Nat \ {0})
      /\ \A i \in DOMAIN table[name] : table[name][i] \in Rules
  BY <1>2, KeptRules
<1>4. first \in DOMAIN table[name]
  BY <1>3, FirstRuleMatches
<1>5. table[name][first].destinations \in Bounds
  BY <1>3, <1>4 DEF Bounds
<1> QED BY <1>1, <1>5 DEF Pointer

-----------------------------------------------------------------------------
(* The steps preserve the types.                                           *)

LEMMA ListsTables ==
  ASSUME IInv, Tables, NEW list \in RuleLists,
         UpdateInbounds(list) \/ UpdateOutbounds(list)
  PROVE  Tables'
<1>1. /\ inbound_rules' \in [Names -> Kept \cup {None}]
      /\ outbound_rules' \in [Names -> Kept \cup {None}]
  BY ReplacedType DEF Tables, UpdateInbounds, UpdateOutbounds
<1>2. UNCHANGED <<fail_count, alive>>
  BY DEF UpdateInbounds, UpdateOutbounds, objects
<1>3. UNCHANGED calls \/ \E N : calls' = Unpointed(N)
  BY DEF UpdateInbounds, UpdateOutbounds
<1>4. \A c \in Calls : Fields(calls'[c])
  BY <1>3, UnpointedFields DEF Tables
<1> QED BY <1>1, <1>2, <1>4 DEF Tables

LEMMA InstancesTables ==
  ASSUME IInv, Tables, NEW list \in InstanceLists, UpdateInstances(list)
  PROVE  Tables'
<1>1. PICK left : fail_count' = [a \in Addrs |->
                     IF a \in made + 1 .. made + Len(list) \/ left[a] = 0
                     THEN 0 ELSE fail_count[a]]
  BY InstancesEffect
<1>2. fail_count' \in [Addrs -> 0 .. MaxFails + 1]
  BY <1>1, BoundsAssumption DEF Tables
<1> QED BY <1>2 DEF Tables, UpdateInstances, rules

LEMMA ClearTables ==
  ASSUME Tables, ClearDeleted
  PROVE  Tables'
BY DEF Tables, ClearDeleted, rules, objects

LEMMA SplitsGiven ==
  ASSUME NEW f, Splits(config, f)
  PROVE  f # None
BY Zenon DEF Splits

LEMMA SelectTables ==
  ASSUME IInv, Tables, NEW c \in Calls, Select(c)
  PROVE  Tables'
<1>1. UNCHANGED <<inbound_rules, outbound_rules, alive>>
  BY DEF Select, rules
<1>2. fail_count' \in [Addrs -> 0 .. MaxFails + 1]
  BY BoundsAssumption DEF Select, Tables
<1>3. ASSUME NEW f \in Fragments, Splits(config, f),
             Move(c, [NoCall EXCEPT
                        !.pc     = FirstStep(MetaOf(config, f.pairs)),
                        !.meta   = MetaOf(config, f.pairs),
                        !.caller = IF config.rule THEN f.caller ELSE None])
      PROVE  \A d \in Calls : Fields(calls'[d])
  <2> DEFINE meta == MetaOf(config, f.pairs)
             w    == [NoCall EXCEPT !.pc     = FirstStep(meta),
                                    !.meta   = meta,
                                    !.caller = IF config.rule THEN f.caller
                                               ELSE None]
  <2>1. f \in Fragments \ {None}
    BY <1>3, SplitsGiven
  <2>2. meta \subseteq Pairs
    <3> SUFFICES ASSUME NEW p \in meta PROVE p \in Pairs
      OBVIOUS
    <3>1. PICK i \in DOMAIN f.pairs :
            p = <<KeyFor(config, f.pairs[i]), f.pairs[i].value>>
      BY DEF MetaOf
    <3>2. f.pairs[i] \in UNION {Elements(g.pairs) :
                                  g \in Fragments \ {None}}
      BY <2>1 DEF Elements
    <3> QED BY <3>1, <3>2 DEF Pairs, KeyFor
  <2>3. /\ w.meta = meta /\ w.caller \in {f.caller, None}
        /\ w.dst_bounds = None
        /\ w.pc # "subset"
    BY DEF NoCall, FirstStep
  <2>4. f.caller \in Callers
    BY <2>1 DEF Callers
  <2>5. Move(c, w)
    BY <1>3
  <2> HIDE DEF w
  <2>6. Fields(w)
    BY <2>2, <2>3, <2>4 DEF Fields
  <2> QED BY <2>5, <2>6, MoveFields
<1>4. \A d \in Calls : Fields(calls'[d])
  <2>1. UNCHANGED calls => \A d \in Calls : Fields(calls'[d])
    BY DEF Tables
  <2>2. \/ UNCHANGED calls
        \/ \E f \in Fragments :
             /\ Splits(config, f)
             /\ Move(c, [NoCall EXCEPT
                           !.pc     = FirstStep(MetaOf(config, f.pairs)),
                           !.meta   = MetaOf(config, f.pairs),
                           !.caller = IF config.rule THEN f.caller
                                      ELSE None])
    BY Zenon DEF Select
  <2> QED BY <1>3, <2>1, <2>2, Zenon
<1> QED BY <1>1, <1>2, <1>4 DEF Tables

LEMMA RuledFields ==
  ASSUME NEW table \in [Names -> Kept \cup {None}], NEW call
  PROVE  Fields(Ruled(call, table))
<1> DEFINE name  == NameFor(table, call.caller.service)
           first == IF name = None THEN 0
                    ELSE FirstRule(table[name], call.caller, call.meta)
           p     == [name |-> name, bounds |-> table[name][first].destinations,
                     valid |-> TRUE]
<1>1. Ruled(call, table) = IF first = 0 THEN [NoCall EXCEPT !.pc = "one"]
                           ELSE [NoCall EXCEPT !.pc = "subset", !.dst_bounds = p]
  BY DEF Ruled
<1>2. first # 0 => p \in Pointer
  <2> SUFFICES ASSUME first # 0 PROVE p \in Pointer
    OBVIOUS
  <2>1. name # None /\ first = FirstRule(table[name], call.caller, call.meta)
    OBVIOUS
  <2>2. name = NameFor(table, call.caller.service)
    OBVIOUS
  <2> HIDE DEF first, name
  <2> QED BY <2>1, <2>2, PointsAtRule
<1> HIDE DEF first, p
<1> QED BY <1>1, <1>2, NoneAssumption DEF NoCall, Fields

LEMMA BoundsTables ==
  ASSUME IInv, Tables, NEW c \in Calls, MatchingInbound(c) \/ MatchingOutbound(c)
  PROVE  Tables'
<1>1. CallShape(calls[c]) /\ Fields(calls[c])
  BY DEF IInv, Shape, Tables
<1>2. /\ inbound_rules' \in {inbound_rules, outbound_rules}
      /\ UNCHANGED <<outbound_rules, fail_count, alive>>
  BY DEF MatchingInbound, MatchingOutbound, rules, objects
<1>3. Fields([calls[c] EXCEPT !.pc = "outbound"])
  BY <1>1 DEF CallShape, Fields
<1>4. CASE MatchingInbound(c)
  <2>1. PICK w : Move(c, w) /\ w \in {[calls[c] EXCEPT !.pc = "outbound"],
                                     Ruled(calls[c], inbound_rules)}
    BY <1>4 DEF MatchingInbound
  <2>2. Fields(w)
    BY <1>3, <2>1, RuledFields DEF Tables
  <2>3. \A d \in Calls : Fields(calls'[d])
    BY <2>1, <2>2, MoveFields
  <2> QED BY <1>2, <2>3 DEF Tables
<1>5. CASE MatchingOutbound(c)
  <2>1. calls' = [Unpointed(Names) EXCEPT ![c] = Ruled(calls[c], outbound_rules)]
    BY <1>5 DEF MatchingOutbound
  <2>2. /\ DOMAIN Unpointed(Names) = Calls
        /\ \A d \in Calls : Fields(Unpointed(Names)[d])
    BY UnpointedFields DEF Unpointed
  <2>3. Fields(Ruled(calls[c], outbound_rules))
    BY RuledFields DEF Tables
  <2>4. \A d \in Calls : Fields(calls'[d])
    BY <2>1, <2>2, <2>3
  <2> QED BY <1>2, <2>4 DEF Tables
<1> QED BY <1>4, <1>5

LEMMA LockTables ==
  ASSUME IInv, Tables, NEW c \in Calls, LockServers(c)
  PROVE  Tables'
<1> DEFINE w == [calls[c] EXCEPT !.seen = {servers}]
<1>1. CallShape(calls[c]) /\ Fields(calls[c])
  BY DEF IInv, Shape, Tables
<1>2. Fields(w)
  BY <1>1 DEF CallShape, Fields
<1>3. Move(c, w)
  BY DEF LockServers
<1>4. \A d \in Calls : Fields(calls'[d])
  BY <1>2, <1>3, MoveFields
<1> QED BY <1>4 DEF LockServers, Tables, rules, objects

LEMMA SubsetKeeps ==
  ASSUME NEW c \in Calls, MatchingSubset(c)
  PROVE  UNCHANGED rules /\ UNCHANGED fail_count /\ alive' \in {alive, FALSE}
<1>1. UNCHANGED rules
  BY DEF MatchingSubset
<1>2. UNCHANGED fail_count
  BY DEF MatchingSubset, objects
<1>3. alive' \in {alive, FALSE}
  BY DEF MatchingSubset
<1> QED BY <1>1, <1>2, <1>3

LEMMA MetaKeeps ==
  ASSUME NEW c \in Calls, MatchingMeta(c)
  PROVE  UNCHANGED rules /\ UNCHANGED fail_count /\ UNCHANGED alive
BY DEF MatchingMeta

LEMMA MatchingTables ==
  ASSUME IInv, Tables, NEW c \in Calls, MatchingSubset(c) \/ MatchingMeta(c)
  PROVE  Tables'
<1>1. CallShape(calls[c]) /\ Fields(calls[c])
  BY DEF IInv, Shape, Tables
<1>2. /\ UNCHANGED <<inbound_rules, outbound_rules, fail_count>>
      /\ alive' \in BOOLEAN
  <2>1. alive \in BOOLEAN
    BY DEF Tables
  <2> QED BY <2>1, SubsetKeeps, MetaKeeps, RulesKept
<1>3. ASSUME NEW w, Move(c, w), w.pc = "one",
             w.meta = calls[c].meta, w.caller = calls[c].caller,
             w.dst_bounds = calls[c].dst_bounds
      PROVE  \A d \in Calls : Fields(calls'[d])
  BY <1>1, <1>3, MoveFields DEF Fields
<1>o. LET w == [calls[c] EXCEPT !.pc = "one", !.seen = {}]
      IN  /\ w.pc = "one" /\ w.meta = calls[c].meta
          /\ w.caller = calls[c].caller /\ w.dst_bounds = calls[c].dst_bounds
  BY <1>1 DEF CallShape
<1>4. ASSUME NEW S
      PROVE  /\ LET w == [[calls[c] EXCEPT !.pc = "one", !.seen = {}]
                            EXCEPT !.matched = S]
                IN  /\ w.pc = "one" /\ w.meta = calls[c].meta
                    /\ w.caller = calls[c].caller
                    /\ w.dst_bounds = calls[c].dst_bounds
             /\ LET w == [calls[c] EXCEPT !.pc = "one", !.seen = {},
                                          !.matched = S]
                IN  /\ w.pc = "one" /\ w.meta = calls[c].meta
                    /\ w.caller = calls[c].caller
                    /\ w.dst_bounds = calls[c].dst_bounds
  BY <1>1 DEF CallShape
<1>6. Move(c, NoCall) => \A d \in Calls : Fields(calls'[d])
  BY NoCallFields, MoveFields
<1>7. UNCHANGED calls => \A d \in Calls : Fields(calls'[d])
  BY DEF Tables
<1>8. CASE MatchingSubset(c)
  <2> DEFINE onward == [calls[c] EXCEPT !.pc = "one", !.seen = {}]
  <2>1. \/ UNCHANGED calls
        \/ Move(c, onward)
        \/ \E S : Move(c, [onward EXCEPT !.matched = S])
    BY <1>8, Zenon DEF MatchingSubset
  <2>2. \A d \in Calls : Fields(calls'[d])
    <3>1. CASE Move(c, onward)
      <4>1. PICK w : w = onward
        OBVIOUS
      <4> QED BY <1>3, <1>o, <3>1, <4>1, Zenon
    <3>2. ASSUME NEW S, Move(c, [onward EXCEPT !.matched = S])
          PROVE  \A d \in Calls : Fields(calls'[d])
      <4>1. PICK w : w = [onward EXCEPT !.matched = S]
        OBVIOUS
      <4> QED BY <1>3, <1>4, <3>2, <4>1, Zenon
    <3> QED BY <1>7, <2>1, <3>1, <3>2, Zenon
  <2> QED BY <1>2, <2>2 DEF Tables
<1>9. CASE MatchingMeta(c)
  <2>1. \/ Move(c, NoCall)
        \/ \E S : Move(c, [calls[c] EXCEPT !.pc = "one", !.seen = {},
                                           !.matched = S])
    BY <1>9 DEF MatchingMeta
  <2>2. \A d \in Calls : Fields(calls'[d])
    <3>1. ASSUME NEW S, Move(c, [calls[c] EXCEPT !.pc = "one", !.seen = {},
                                                 !.matched = S])
          PROVE  \A d \in Calls : Fields(calls'[d])
      <4>1. PICK w : w = [calls[c] EXCEPT !.pc = "one", !.seen = {},
                                          !.matched = S]
        OBVIOUS
      <4> QED BY <1>3, <1>4, <3>1, <4>1, Zenon
    <3> QED BY <1>6, <2>1, <3>1, Zenon
  <2> QED BY <1>2, <2>2 DEF Tables
<1> QED BY <1>8, <1>9

LEMMA GetOneKeeps ==
  ASSUME NEW c \in Calls, GetOneOfSubset(c) \/ ChooseServer(c)
  PROVE  UNCHANGED rules /\ UNCHANGED alive
<1>1. GetOneOfSubset(c) => UNCHANGED rules /\ UNCHANGED alive
  BY Zenon DEF GetOneOfSubset
<1>2. ChooseServer(c) => UNCHANGED rules /\ UNCHANGED alive
  BY Zenon DEF ChooseServer
<1> QED BY <1>1, <1>2

LEMMA GetOneTables ==
  ASSUME IInv, Tables, NEW c \in Calls, GetOneOfSubset(c) \/ ChooseServer(c)
  PROVE  Tables'
<1>1. CallShape(calls[c]) /\ Fields(calls[c])
  BY DEF IInv, Shape, Tables
<1>2. UNCHANGED <<inbound_rules, outbound_rules, alive>>
  BY GetOneKeeps, RulesKept
<1>3. fail_count' \in [Addrs -> 0 .. MaxFails + 1]
  <2>1. fail_count \in [Addrs -> 0 .. MaxFails + 1]
    BY DEF Tables
  <2>2. UNCHANGED fail_count \/ \E count : Count(count, fail_count)
    BY Zenon DEF GetOneOfSubset, ChooseServer
  <2> QED BY <2>1, <2>2, CountFails
<1>4. ASSUME NEW w, Move(c, w), w.pc = "holding", w.meta = calls[c].meta,
             w.caller = calls[c].caller, w.dst_bounds = None
      PROVE  \A d \in Calls : Fields(calls'[d])
  BY <1>1, <1>4, MoveFields DEF Fields
<1>5. ASSUME NEW one,
             Move(c, [calls[c] EXCEPT !.pc = "holding", !.matched = {},
                                      !.dst_bounds = None, !.addr = one])
      PROVE  \A d \in Calls : Fields(calls'[d])
  <2> DEFINE w == [calls[c] EXCEPT !.pc = "holding", !.matched = {},
                                   !.dst_bounds = None, !.addr = one]
  <2>1. /\ w.meta = calls[c].meta /\ w.caller = calls[c].caller
        /\ w.dst_bounds = None /\ w.pc = "holding"
    BY <1>1 DEF CallShape
  <2>2. Move(c, w)
    BY <1>5
  <2> HIDE DEF w
  <2> QED BY <1>4, <2>1, <2>2
<1>6. ASSUME NEW one,
             Move(c, [calls[c] EXCEPT !.pc = "holding", !.dst_bounds = None,
                                      !.seen = {}, !.addr = one])
      PROVE  \A d \in Calls : Fields(calls'[d])
  <2> DEFINE w == [calls[c] EXCEPT !.pc = "holding", !.dst_bounds = None,
                                   !.seen = {}, !.addr = one]
  <2>1. /\ w.meta = calls[c].meta /\ w.caller = calls[c].caller
        /\ w.dst_bounds = None /\ w.pc = "holding"
    BY <1>1 DEF CallShape
  <2>2. Move(c, w)
    BY <1>6
  <2> HIDE DEF w
  <2> QED BY <1>4, <2>1, <2>2
<1>7. Move(c, NoCall) => \A d \in Calls : Fields(calls'[d])
  BY NoCallFields, MoveFields
<1>8. \A d \in Calls : Fields(calls'[d])
  <2>1. \/ Move(c, NoCall)
        \/ \E one :
             \/ Move(c, [calls[c] EXCEPT !.pc = "holding", !.matched = {},
                                         !.dst_bounds = None, !.addr = one])
             \/ Move(c, [calls[c] EXCEPT !.pc = "holding",
                                         !.dst_bounds = None,
                                         !.seen = {}, !.addr = one])
    BY Zenon DEF GetOneOfSubset, ChooseServer
  <2> QED BY <1>5, <1>6, <1>7, <2>1, Zenon
<1> QED BY <1>2, <1>3, <1>8 DEF Tables

LEMMA NarrowTables ==
  ASSUME IInv, Tables, NEW c \in Calls, NarrowServers(c)
  PROVE  Tables'
<1>1. UNCHANGED <<inbound_rules, outbound_rules, fail_count, alive>>
  BY DEF NarrowServers, rules, objects
<1>2. PICK left :
        \/ Move(c, NoCall)
        \/ calls' = [d \in Calls |->
                       IF d = c THEN [calls[c] EXCEPT !.pc   = "choose",
                                                      !.seen = {left}]
                       ELSE IF d \in {b \in Calls \ {c} : calls[b].seen # {}}
                       THEN [calls[d] EXCEPT !.seen = @ \cup {left}]
                       ELSE calls[d]]
  BY DEF NarrowServers
<1>3. ASSUME NEW d \in Calls PROVE Fields(calls'[d])
  <2>1. CallShape(calls[d]) /\ Fields(calls[d])
    BY DEF IInv, Shape, Tables
  <2>2. CASE Move(c, NoCall)
    BY <2>2, NoCallFields, MoveFields
  <2>3. CASE calls'[d] = [calls[d] EXCEPT !.pc = "choose", !.seen = {left}]
    BY <2>1, <2>3 DEF CallShape, Fields
  <2>4. CASE calls'[d] = [calls[d] EXCEPT !.seen = @ \cup {left}]
             \/ calls'[d] = calls[d]
    BY <2>1, <2>4 DEF CallShape, Fields
  <2> QED BY <1>2, <2>2, <2>3, <2>4
<1> QED BY <1>1, <1>3 DEF Tables

LEMMA EndTables ==
  ASSUME IInv, Tables, NEW c \in Calls, Success(c) \/ Failed(c)
  PROVE  Tables'
<1> DEFINE a == calls[c].addr
<1>1. UNCHANGED <<inbound_rules, outbound_rules, alive>> /\ Move(c, NoCall)
  BY DEF Success, Failed, rules
<1>2. fail_count \in [Addrs -> 0 .. MaxFails + 1]
  BY DEF Tables
<1>3. /\ [fail_count EXCEPT ![a] = 0] \in [Addrs -> 0 .. MaxFails + 1]
      /\ [fail_count EXCEPT ![a] = IF @ > MaxFails THEN @ ELSE @ + 1]
           \in [Addrs -> 0 .. MaxFails + 1]
  <2> HIDE DEF a
  <2>1. \A b \in Addrs : fail_count[b] \in 0 .. MaxFails + 1
    BY <1>2
  <2>2. 0 \in 0 .. MaxFails + 1
    BY BoundsAssumption
  <2>3. \A k \in 0 .. MaxFails + 1 :
          (IF k > MaxFails THEN k ELSE k + 1) \in 0 .. MaxFails + 1
    BY BoundsAssumption
  <2> HIDE DEF Addrs
  <2> QED BY <1>2, <2>1, <2>2, <2>3
<1>4. fail_count' \in [Addrs -> 0 .. MaxFails + 1]
  <2>1. \/ Count(LetGo({a}), [fail_count EXCEPT ![a] = 0])
        \/ Count(LetGo({a}),
                 [fail_count EXCEPT ![a] = IF @ > MaxFails THEN @ ELSE @ + 1])
    BY DEF Success, Failed
  <2> HIDE DEF a
  <2> QED BY <1>3, <2>1, CountFails
<1>5. \A d \in Calls : Fields(calls'[d])
  BY <1>1, NoCallFields, MoveFields
<1> QED BY <1>1, <1>4, <1>5 DEF Tables

LEMMA TablesStep == IInv /\ Tables /\ [Next]_vars => Tables'
<1> SUFFICES ASSUME IInv, Tables, [Next]_vars PROVE Tables'
  OBVIOUS
<1>1. CASE UNCHANGED vars
  BY <1>1 DEF vars, objects, rules, Tables
<1>2. CASE Next
  BY <1>2, ListsTables, InstancesTables, ClearTables, SelectTables,
     BoundsTables, LockTables, MatchingTables, GetOneTables, NarrowTables,
     EndTables
  DEF Next
<1> QED BY <1>1, <1>2

LEMMA TablesInvariance == Spec => []Tables
BY TablesInit, TablesStep, Invariance, PTL DEF Spec

(* The members of the policy, of its addresses and of its callers keep     *)
(* their types; a pointer into the rules points at destinations that the   *)
(* platform answered, under a name that there are rules for.               *)
THEOREM TypeCorrect == Spec => []TypeOK
<1>1. IInv /\ Tables => TypeOK
  <2> SUFFICES ASSUME IInv, Tables PROVE TypeOK
    OBVIOUS
  <2>1. ASSUME NEW c \in Calls PROVE calls[c] \in Call
    <3>1. CallShape(calls[c]) /\ Fields(calls[c])
      BY DEF IInv, Shape, Tables
    <3> QED BY <3>1 DEF CallShape, Fields, Call
  <2>2. calls \in [Calls -> Call]
    BY <2>1 DEF IInv, Shape
  <2> QED BY <2>2 DEF IInv, Shape, Tables, TypeOK
<1> QED BY <1>1, Invariance, TablesInvariance, PTL

-----------------------------------------------------------------------------
(* get_one: what the theorems about its walk need holds in every state.    *)

LEMMA WalkFacts ==
  ASSUME IInv, Tables, NEW S \in SUBSET Addrs
  PROVE  Vector(S) /\ Weighs(Weight, S) /\ Fails(fail_count, S)
<1>1. Vector(S)
  <2>1. MaxAddrs \in Nat /\ \A a \in S : a \in 1 .. MaxAddrs
    BY BoundsAssumption DEF Addrs
  <2> QED BY <2>1 DEF Vector
<1>2. Weighs(Weight, S)
  <2>1. \A a \in Addrs : inst[a] # None => inst[a].weight \in Nat
    BY ListsAssumption DEF IInv, Shape
  <2> QED BY <2>1 DEF Weighs, Weight
<1>3. Fails(fail_count, S)
  BY BoundsAssumption DEF Fails, Tables
<1> QED BY <1>1, <1>2, <1>3

(* Whatever calls, replacements and failures came before, as long as no    *)
(* server stands exactly at its limit the next draw picks each by weight.  *)
THEOREM ProportionalCorrect == Spec => []ProportionalDraws
<1>1. IInv /\ Tables => ProportionalDraws
  <2> SUFFICES ASSUME IInv, Tables, \A a \in servers : fail_count[a] # MaxFails,
                      NEW a \in servers
               PROVE  Cardinality(DrawsOf(Weight, fail_count, servers, a))
                        = IF a \in Healthy THEN Weight[a] ELSE 0
    BY DEF ProportionalDraws
  <2>1. servers \in SUBSET Addrs
    BY DEF IInv, Shape
  <2>2. /\ Vector(servers) /\ Weighs(Weight, servers)
        /\ Fails(fail_count, servers)
    BY <2>1, WalkFacts
  <2>3. Cardinality(DrawsOf(Weight, fail_count, servers, a))
          = IF IsHealthy(fail_count[a]) THEN Weight[a] ELSE 0
    BY <2>2, DrawsAreWeights
  <2>4. a \in Healthy <=> IsHealthy(fail_count[a])
    BY <2>1 DEF Healthy
  <2> QED BY <2>3, <2>4
<1> QED BY <1>1, Invariance, TablesInvariance, PTL

(* What get_one goes through: the subset of a call as the nearby router    *)
(* leaves it, or `servers'.                                                *)
From(call) == IF call.matched # {} THEN Candidates(call.matched) ELSE servers

(* Who gets an address gets it from get_one.                               *)
LEMMA ChosenDrawn ==
  ASSUME IInv, Next, NEW c \in Calls, Chooses(c),
         calls[c].matched # {} \/ Whole(c)
  PROVE  calls'[c].addr \in Drawn(Weight, fail_count, From(calls[c]))
<1>1. calls = [d \in Calls |-> calls[d]] /\ CallShape(calls[c])
  BY DEF IInv, Shape
<1>2. calls[c].addr = None /\ calls'[c].addr # None
  BY DEF Chooses
<1>3. GetOneOfSubset(c) \/ ChooseServer(c)
  BY <1>2, CallEffect DEF Effect, Alike, Starts, Routed, MetaMatched, Narrows,
                          ChoosesFrom
<1>4. ~Move(c, NoCall)
  BY <1>1, <1>2 DEF Move, NoCall
<1>5. CASE GetOneOfSubset(c)
  <2> DEFINE W(one) == [calls[c] EXCEPT !.pc = "holding", !.matched = {},
                                        !.dst_bounds = None, !.addr = one]
  <2>1. PICK one \in Drawn(Weight, fail_count, Candidates(calls[c].matched)) :
          Move(c, W(one))
    BY <1>4, <1>5, Zenon DEF GetOneOfSubset
  <2>2. W(one).addr = one
    BY <1>1 DEF CallShape
  <2> HIDE DEF W
  <2>3. calls'[c].addr = one
    BY <1>1, <2>1, <2>2 DEF Move
  <2> QED BY <1>5, <2>1, <2>3 DEF GetOneOfSubset, From
<1>6. CASE ChooseServer(c)
  <2> DEFINE W(one) == [calls[c] EXCEPT !.pc = "holding", !.dst_bounds = None,
                                        !.seen = {}, !.addr = one]
  <2>1. calls[c].matched = {}
    BY <1>6 DEF ChooseServer, IInv, Placed
  <2>2. PICK one \in Drawn(Weight, fail_count, servers) : Move(c, W(one))
    BY <1>4, <1>6, <2>1 DEF ChooseServer
  <2>3. W(one).addr = one
    BY <1>1 DEF CallShape
  <2> HIDE DEF W
  <2>4. calls'[c].addr = one
    BY <1>1, <2>2, <2>3 DEF Move
  <2> QED BY <2>1, <2>2, <2>4 DEF From
<1> QED BY <1>3, <1>5, <1>6

(* An instance without weight, or one that failed too often, gets a call   *)
(* only as a last resort, in every interleaving of calls that see a vector *)
(* which stays as it is.                                                   *)
THEOREM LastResortCorrect == Spec => UnfitIsLastResort
<1>1. ASSUME IInv, Tables, [Next]_vars
      PROVE  [\A c \in Calls :
                (Chooses(c) /\ (calls[c].matched # {} \/ Whole(c))) =>
                  LET one  == calls'[c].addr
                      from == IF calls[c].matched # {}
                              THEN Candidates(calls[c].matched)
                              ELSE servers
                      fit  == {a \in from : Weight[a] > 0
                                              /\ fail_count[a] < MaxFails}
                  IN  \/ Weight[one] > 0 /\ one \in Healthy
                      \/ fit = {}]_vars
  <2> SUFFICES ASSUME Next, NEW c \in Calls, Chooses(c),
                      calls[c].matched # {} \/ Whole(c),
                      NEW from, from = From(calls[c])
               PROVE  \/ Weight[calls'[c].addr] > 0 /\ calls'[c].addr \in Healthy
                      \/ {a \in from : /\ Weight[a] > 0
                                       /\ fail_count[a] < MaxFails} = {}
    BY <1>1 DEF From
  <2>1. calls'[c].addr \in Drawn(Weight, fail_count, from)
    BY <1>1, ChosenDrawn
  <2>2. from \in SUBSET Addrs
    BY <1>1, CandidatesType DEF From, IInv, Shape, CallShape
  <2>3. Vector(from) /\ Weighs(Weight, from) /\ Fails(fail_count, from)
    BY <1>1, <2>2, WalkFacts
  <2>4. \/ /\ Weight[calls'[c].addr] > 0
           /\ IsHealthy(fail_count[calls'[c].addr])
        \/ \A a \in from : ~(Weight[a] > 0 /\ fail_count[a] < MaxFails)
    BY <2>1, <2>3, UnfitDrawnLast
  <2>5. calls'[c].addr \in Addrs
    BY <2>1, <2>2, DrawnType
  <2> QED BY <2>4, <2>5 DEF Healthy
<1> QED
  BY <1>1, Invariance, TablesInvariance, PTL DEF Spec, UnfitIsLastResort

-----------------------------------------------------------------------------
(* matching_subset.                                                        *)

Best(bounds) == {i \in DOMAIN bounds : ~\E j \in DOMAIN bounds :
                                         bounds[j].priority < bounds[i].priority}

LEMMA BestIsTop ==
  ASSUME NEW bounds \in Bounds
  PROVE  /\ Best(bounds) = TopBounds(bounds)
         /\ TopBounds(bounds) \subseteq 1 .. Len(bounds)
         /\ Len(bounds) \in Nat
         /\ IsFiniteSet(TopBounds(bounds))
<1>1. bounds \in Seq(Destinations)
  BY ListsAssumption
<1>2. \A i \in DOMAIN bounds : bounds[i].priority \in Int
  BY <1>1, ListsAssumption
<1>3. Best(bounds) = TopBounds(bounds)
  BY <1>2 DEF Best, TopBounds
<1>4. DOMAIN bounds = 1 .. Len(bounds) /\ Len(bounds) \in Nat
  BY <1>1
<1>5. TopBounds(bounds) \subseteq 1 .. Len(bounds)
  BY <1>4 DEF TopBounds
<1>6. IsFiniteSet(TopBounds(bounds))
  <2>1. IsFiniteSet(1 .. Len(bounds))
    BY <1>4, FS_Interval
  <2> QED BY <1>5, <2>1, FS_Subset
<1> QED BY <1>3, <1>4, <1>5, <1>6

(* As long as one of the best destinations has an instance, a subset of    *)
(* matching_subset is that of one of them, and not empty.                  *)
LEMMA SubsetsBest ==
  ASSUME NEW T, NEW bounds \in Bounds, NEW S \in Subsets(T, bounds),
         NEW i \in Best(bounds), Matching(T, bounds[i]) # {}
  PROVE  S # {} /\ \E j \in Best(bounds) : S = Matching(T, bounds[j])
<1> DEFINE top    == TopBounds(bounds)
           filled == {k \in top : Matching(T, bounds[k]) # {}}
<1>1. /\ Best(bounds) = top /\ top \subseteq 1 .. Len(bounds)
      /\ Len(bounds) \in Nat /\ IsFiniteSet(top)
  BY BestIsTop
<1>2. CASE Cardinality(top) = 1
  <2>1. PICK only : top = {only}
    BY <1>1, <1>2, FS_Singleton
  <2>2. S \in {Matching(T, bounds[k]) : k \in top}
    BY <1>2 DEF Subsets
  <2> QED BY <1>1, <2>1, <2>2
<1>3. CASE Cardinality(top) # 1
  <2>1. PICK j \in DrawnBounds(bounds, filled, top) : S = Matching(T, bounds[j])
    BY <1>3 DEF Subsets
  <2>2. /\ i \in filled /\ filled \in SUBSET Nat
        /\ \A k \in filled : k <= Len(bounds)
    <3>1. \A k \in 1 .. Len(bounds) : k \in Nat /\ k <= Len(bounds)
      BY <1>1
    <3>2. filled \subseteq 1 .. Len(bounds) /\ i \in filled
      BY <1>1
    <3> HIDE DEF filled
    <3> QED BY <3>1, <3>2
  <2>3. j \in filled
    <3> HIDE DEF filled
    <3> QED BY <1>1, <2>1, <2>2, DrawnBoundsFilled
  <2> QED BY <1>1, <2>1, <2>3
<1> QED BY <1>2, <1>3

(* By rules a call has all the instances of one of the best destinations   *)
(* of its rule, whatever changes between the steps of its select, as long  *)
(* as the rule is still there, one of the best has an instance, and no     *)
(* other call narrows `servers' while this one reads it.                   *)
THEOREM BestCorrect == Spec => BestDestination
<1>1. ASSUME IInv, Tables, [Next]_vars
      PROVE  [\A c \in Calls :
                (calls[c].pc = "subset" /\ calls'[c].pc = "one" /\ Whole(c)
                   /\ calls[c].dst_bounds.valid) =>
                  LET bounds == calls[c].dst_bounds.bounds
                      best   == {i \in DOMAIN bounds :
                                   ~\E j \in DOMAIN bounds :
                                      bounds[j].priority < bounds[i].priority}
                  IN  \A i \in best :
                        Matching(servers, bounds[i]) # {} =>
                          \E j \in best :
                            /\ calls'[c].matched = Matching(servers, bounds[j])
                            /\ calls'[c].matched # {}]_vars
  <2> SUFFICES ASSUME Next, NEW c \in Calls, calls[c].pc = "subset",
                      calls'[c].pc = "one", Whole(c), calls[c].dst_bounds.valid,
                      NEW bounds, bounds = calls[c].dst_bounds.bounds,
                      NEW i \in Best(bounds), Matching(servers, bounds[i]) # {}
               PROVE  \E j \in Best(bounds) :
                        /\ calls'[c].matched = Matching(servers, bounds[j])
                        /\ calls'[c].matched # {}
    BY <1>1 DEF Best
  <2>1. MatchingSubset(c)
    <3>1. Placed(config, calls[c])
      BY <1>1 DEF IInv
    <3> QED
      BY <1>1, <3>1, CallEffect DEF Effect, Alike, Starts, FirstStep, Routed,
                                    MetaMatched, Narrows, ChoosesFrom
  <2>2. CallShape(calls[c]) /\ Fields(calls[c]) /\ bounds \in Bounds
    BY <1>1 DEF IInv, Shape, Tables, Fields, Pointer
  <2>3. Pointed(c) = {bounds} /\ Reads(c) = {servers}
    BY DEF Pointed, Reads
  <2>4. bounds # <<>>
    BY DEF Best
  <2> DEFINE onward == [calls[c] EXCEPT !.pc = "one", !.seen = {}]
  <2>5. PICK S \in Subsets(servers, bounds) :
          Move(c, [onward EXCEPT !.matched = S])
    <3>1. ~UNCHANGED calls
      OBVIOUS
    <3> QED BY <2>1, <2>3, <2>4, <3>1 DEF MatchingSubset
  <2>6. calls'[c].matched = S
    <3>1. [onward EXCEPT !.matched = S].matched = S
      BY <2>2 DEF CallShape
    <3> HIDE DEF onward
    <3> QED BY <1>1, <2>5, <3>1 DEF Move, IInv, Shape
  <2> QED BY <2>2, <2>6, SubsetsBest
<1> QED
  BY <1>1, Invariance, TablesInvariance, PTL DEF Spec, BestDestination
=============================================================================

------------------------- MODULE PolicyRoutingProofs -------------------------
(***************************************************************************)
(* Theorems about the operators of PolicyRouting, for all their arguments. *)
(*                                                                         *)
(* What is summed is proved by the least counterexample: the set of the    *)
(* numbers for which a claim fails would have a least element (Least).     *)
(***************************************************************************)
EXTENDS PolicyRouting, FiniteSetTheorems, WellFoundedInduction, TLAPS

-----------------------------------------------------------------------------
(* Least and greatest elements.                                            *)

LEMMA Least ==
  ASSUME NEW S \in SUBSET Nat, S # {}
  PROVE  \E n \in S : \A m \in S : n <= m
<1> DEFINE Less == OpToRel(<, Nat)
<1>1. IsWellFoundedOn(Less, Nat)
  BY NatLessThanWellFounded
<1> HIDE DEF Less
<1>2. PICK n \in S : \A m \in S : <<m, n>> \notin Less
  BY <1>1, WFMin
<1>3. \A m \in S : ~(m < n)
  BY <1>2 DEF Less, OpToRel
<1> QED BY <1>3

LEMMA MinIsLeast ==
  ASSUME NEW S \in SUBSET Nat, S # {}
  PROVE  Min(S) \in S /\ \A m \in S : Min(S) <= m
<1>1. \E n \in S : \A m \in S : n =< m
  BY Least
<1> QED BY <1>1 DEF Min

LEMMA MaxIsGreatest ==
  ASSUME NEW S \in SUBSET Nat, S # {}, NEW top \in Nat, \A n \in S : n <= top
  PROVE  Max(S) \in S /\ \A m \in S : m <= Max(S)
<1> DEFINE T == {k \in Nat : top - k \in S}
<1>1. PICK d \in T : \A e \in T : d <= e
  <2>1. PICK n \in S : TRUE
    OBVIOUS
  <2>2. top - n \in T /\ T \in SUBSET Nat
    BY <2>1
  <2> HIDE DEF T
  <2> QED BY <2>2, Least
<1>2. PICK n \in S : d = top - n
  OBVIOUS
<1>3. \A m \in S : d <= top - m
  <2> TAKE m \in S
  <2>1. top - m \in T
    OBVIOUS
  <2> QED BY <1>1, <2>1
<1>4. \A m \in S : n >= m
  BY <1>2, <1>3
<1>5. Max(S) \in S /\ \A m \in S : Max(S) >= m
  BY <1>4 DEF Max
<1> QED BY <1>5

(* A vector of addresses: their numbers begin with 1.                      *)
Vector(S) == S \in SUBSET (Nat \ {0}) /\ \E top \in Nat : \A a \in S : a <= top

LEMMA LastType ==
  ASSUME NEW S, Vector(S)
  PROVE  /\ Last(S) \in Nat
         /\ \A a \in S : a \in 1 .. Last(S)
<1>1. PICK top \in Nat : \A a \in S : a <= top
  BY DEF Vector
<1>2. S \cup {0} \in SUBSET Nat /\ \A a \in S \cup {0} : a <= top
  BY <1>1 DEF Vector
<1>3. Last(S) \in S \cup {0} /\ \A a \in S \cup {0} : a <= Last(S)
  BY <1>2, MaxIsGreatest DEF Last
<1>4. 0 \notin S
  BY DEF Vector
<1> QED BY <1>2, <1>3, <1>4

-----------------------------------------------------------------------------
(* The sums.                                                               *)

Summing(f, last, weight, counted) ==
  f = [n \in 0 .. last |->
         IF n = 0 THEN 0
         ELSE f[n - 1] + (IF n \in counted THEN weight[n] ELSE 0)]

(* The recursion of Sums defines a function.                               *)
LEMMA SumsExist ==
  ASSUME NEW last \in Nat, NEW weight, NEW counted
  PROVE  \E f : Summing(f, last, weight, counted)
<1> DEFINE Bad == {n \in Nat : ~\E f : Summing(f, n, weight, counted)}
<1>1. SUFFICES ASSUME Bad # {} PROVE FALSE
  OBVIOUS
<1>2. PICK n \in Bad : \A m \in Bad : n <= m
  BY <1>1, Least
<1>3. CASE n = 0
  <2>1. Summing([m \in 0 .. 0 |-> 0], 0, weight, counted)
    BY DEF Summing
  <2> QED BY <2>1, <1>3
<1>4. CASE n # 0
  <2>1. n - 1 \in Nat /\ n - 1 \notin Bad
    BY <1>2, <1>4
  <2>2. PICK g : Summing(g, n - 1, weight, counted)
    BY <2>1
  <2> DEFINE more == IF n \in counted THEN weight[n] ELSE 0
             f    == [m \in 0 .. n |-> IF m = n THEN g[n - 1] + more ELSE g[m]]
  <2>3. g = [m \in 0 .. n - 1 |->
               IF m = 0 THEN 0
               ELSE g[m - 1] + (IF m \in counted THEN weight[m] ELSE 0)]
    BY <2>2 DEF Summing
  <2>4. \A m \in 0 .. n :
          f[m] = IF m = 0 THEN 0
                 ELSE f[m - 1] + (IF m \in counted THEN weight[m] ELSE 0)
    <3> TAKE m \in 0 .. n
    <3>1. CASE m = n
      BY <3>1, <2>1, <1>4
    <3>2. CASE m # n /\ m # 0
      <4>1. m \in 0 .. n - 1 /\ m - 1 \in 0 .. n - 1 /\ m - 1 \in 0 .. n
        BY <3>2
      <4> QED BY <4>1, <2>3, <3>2
    <3>3. CASE m = 0
      BY <3>3, <2>3, <2>1, <1>4
    <3> QED BY <3>1, <3>2, <3>3
  <2>5. Summing(f, n, weight, counted)
    <3> HIDE DEF f
    <3>1. f = [m \in 0 .. n |-> f[m]]
      BY DEF f
    <3> QED BY <3>1, <2>4 DEF Summing
  <2> QED BY <2>5
<1> QED BY <1>3, <1>4

LEMMA SumsDef ==
  ASSUME NEW weight, NEW S, NEW counted, Vector(S)
  PROVE  /\ Sums(weight, S, counted)[0] = 0
         /\ \A n \in 1 .. Last(S) :
              Sums(weight, S, counted)[n]
                = Sums(weight, S, counted)[n - 1]
                  + (IF n \in S \cap counted THEN weight[n] ELSE 0)
<1> DEFINE f == Sums(weight, S, counted)
<1>1. f = CHOOSE g : Summing(g, Last(S), weight, S \cap counted)
  BY DEF Sums, Summing
<1>2. \E g : Summing(g, Last(S), weight, S \cap counted)
  BY LastType, SumsExist
<1>3. Summing(f, Last(S), weight, S \cap counted)
  BY <1>1, <1>2
<1> HIDE DEF f
<1>4. \A n \in 0 .. Last(S) :
        f[n] = IF n = 0 THEN 0
               ELSE f[n - 1] + (IF n \in S \cap counted THEN weight[n] ELSE 0)
  BY <1>3 DEF Summing
<1>5. f[0] = 0
  BY <1>4, LastType
<1>6. \A n \in 1 .. Last(S) :
        f[n] = f[n - 1] + (IF n \in S \cap counted THEN weight[n] ELSE 0)
  BY <1>4, LastType
<1> QED BY <1>5, <1>6 DEF f

(* The weights of what is counted are natural numbers.                     *)
Weighs(weight, S) == \A a \in S : weight[a] \in Nat

LEMMA SumsStep ==
  ASSUME NEW weight, NEW S, NEW counted, Vector(S), Weighs(weight, S),
         NEW n \in 1 .. Last(S), Sums(weight, S, counted)[n - 1] \in Nat
  PROVE  /\ Sums(weight, S, counted)[n] \in Nat
         /\ Sums(weight, S, counted)[n - 1] <= Sums(weight, S, counted)[n]
BY SumsDef DEF Weighs

LEMMA SumsType ==
  ASSUME NEW weight, NEW S, NEW counted, Vector(S), Weighs(weight, S)
  PROVE  \A n \in 0 .. Last(S) : Sums(weight, S, counted)[n] \in Nat
<1> DEFINE Bad == {n \in 0 .. Last(S) : Sums(weight, S, counted)[n] \notin Nat}
<1>1. SUFFICES ASSUME Bad # {} PROVE FALSE
  OBVIOUS
<1>2. PICK n \in Bad : \A m \in Bad : n <= m
  <2>1. Bad \in SUBSET Nat
    BY LastType
  <2> HIDE DEF Bad
  <2> QED BY <1>1, <2>1, Least
<1>3. n # 0
  BY SumsDef, LastType
<1>4. n \in 1 .. Last(S) /\ n - 1 \in 0 .. Last(S) /\ n - 1 \notin Bad
  BY <1>2, <1>3, LastType
<1> QED BY <1>4, SumsStep

LEMMA SumsGrow ==
  ASSUME NEW weight, NEW S, NEW counted, Vector(S), Weighs(weight, S),
         NEW m \in 0 .. Last(S)
  PROVE  \A n \in m .. Last(S) :
           Sums(weight, S, counted)[m] <= Sums(weight, S, counted)[n]
<1> DEFINE f   == Sums(weight, S, counted)
           Bad == {n \in m .. Last(S) : ~(f[m] <= f[n])}
<1>1. SUFFICES ASSUME Bad # {} PROVE FALSE
  OBVIOUS
<1>2. PICK n \in Bad : \A i \in Bad : n <= i
  <2>1. Bad \in SUBSET Nat
    BY LastType
  <2> HIDE DEF Bad
  <2> QED BY <1>1, <2>1, Least
<1>3. f[m] \in Nat /\ f[n] \in Nat
  BY SumsType, LastType
<1>4. n # m
  BY <1>3
<1>5. n \in 1 .. Last(S) /\ n - 1 \in m .. Last(S) /\ n - 1 \notin Bad
  BY <1>2, <1>4, LastType
<1>6. f[n - 1] \in Nat
  BY <1>5, SumsType, LastType
<1> QED BY <1>3, <1>5, <1>6, SumsStep

(* Who counts more has the greater sum.                                    *)
LEMMA SumsMore ==
  ASSUME NEW weight, NEW S, NEW few, NEW many, few \subseteq many,
         Vector(S), Weighs(weight, S)
  PROVE  \A n \in 0 .. Last(S) :
           Sums(weight, S, few)[n] <= Sums(weight, S, many)[n]
<1> DEFINE f   == Sums(weight, S, few)
           g   == Sums(weight, S, many)
           Bad == {n \in 0 .. Last(S) : ~(f[n] <= g[n])}
<1>1. SUFFICES ASSUME Bad # {} PROVE FALSE
  OBVIOUS
<1>2. PICK n \in Bad : \A i \in Bad : n <= i
  <2>1. Bad \in SUBSET Nat
    BY LastType
  <2> HIDE DEF Bad
  <2> QED BY <1>1, <2>1, Least
<1>3. n # 0
  BY SumsDef, LastType
<1>4. n \in 1 .. Last(S) /\ n - 1 \in 0 .. Last(S) /\ n - 1 \notin Bad
  BY <1>2, <1>3, LastType
<1>5. f[n - 1] \in Nat /\ g[n - 1] \in Nat /\ f[n] \in Nat /\ g[n] \in Nat
  BY <1>4, SumsType, LastType
<1>6. /\ f[n] = f[n - 1] + (IF n \in S \cap few THEN weight[n] ELSE 0)
      /\ g[n] = g[n - 1] + (IF n \in S \cap many THEN weight[n] ELSE 0)
  BY <1>4, SumsDef
<1>7. n \in S => weight[n] \in Nat
  BY DEF Weighs
<1> QED BY <1>2, <1>4, <1>5, <1>6, <1>7

-----------------------------------------------------------------------------
(* The walk of get_one.                                                    *)

Fails(fails, S) == MaxFails \in Nat /\ \A a \in S : fails[a] \in Nat

LEMMA WalkedType ==
  ASSUME NEW weight, NEW fails, NEW S, Vector(S), Weighs(weight, S)
  PROVE  /\ Walked(weight, fails, S, 0) = 0
         /\ \A n \in 0 .. Last(S) : Walked(weight, fails, S, n) \in Nat
         /\ \A m, n \in 0 .. Last(S) :
              m <= n => Walked(weight, fails, S, m)
                          <= Walked(weight, fails, S, n)
         /\ \A n \in 1 .. Last(S) :
              Walked(weight, fails, S, n)
                = Walked(weight, fails, S, n - 1)
                  + (IF n \in S /\ IsHealthy(fails[n]) THEN weight[n] ELSE 0)
<1> DEFINE counted == {b \in S : IsHealthy(fails[b])}
<1>1. \A n : Walked(weight, fails, S, n) = Sums(weight, S, counted)[n]
  BY DEF Walked
<1>2. \A n : n \in S \cap counted <=> n \in S /\ IsHealthy(fails[n])
  OBVIOUS
<1> HIDE DEF counted
<1>3. \A m, n \in 0 .. Last(S) :
        m <= n => Sums(weight, S, counted)[m] <= Sums(weight, S, counted)[n]
  BY SumsGrow, LastType
<1> QED BY <1>1, <1>2, <1>3, SumsDef, SumsType

(* For a random number below the sum of the whole walk, the walk stops at  *)
(* the address with which the sum exceeds the number.                      *)
LEMMA StopsWhere ==
  ASSUME NEW weight, NEW fails, NEW S, Vector(S), Weighs(weight, S),
         NEW x \in Nat, x < Walked(weight, fails, S, Last(S)), NEW a \in S
  PROVE  StopsAt(weight, fails, S, a, x)
           <=> /\ Walked(weight, fails, S, a - 1) <= x
               /\ x < Walked(weight, fails, S, a)
<1> DEFINE W(n)  == Walked(weight, fails, S, n)
           stops == {b \in S : IsHealthy(fails[b]) /\ Past(W(b), x)}
           over  == {n \in 0 .. Last(S) : W(n) > x}
<1>1. Last(S) \in Nat /\ \A b \in S : b \in 1 .. Last(S)
  BY LastType
<1>2. /\ W(0) = 0
      /\ \A n \in 0 .. Last(S) : W(n) \in Nat
      /\ \A m, n \in 0 .. Last(S) : m <= n => W(m) <= W(n)
      /\ \A n \in 1 .. Last(S) :
           W(n) = W(n - 1)
                    + (IF n \in S /\ IsHealthy(fails[n]) THEN weight[n] ELSE 0)
  BY WalkedType
<1>3. StopsAt(weight, fails, S, a, x)
        <=> a = IF stops = {} THEN Max(S) ELSE Min(stops)
  BY DEF StopsAt
<1>4. \A b : b \in stops <=> b \in S /\ IsHealthy(fails[b]) /\ W(b) > x
  BY DEF Past
<1>5. Last(S) \in over /\ over \in SUBSET Nat
  BY <1>1, <1>2
<1> HIDE DEF W, stops
<1>6. PICK first \in over : \A n \in over : first <= n
  <2> HIDE DEF over
  <2> QED BY <1>5, Least
<1>7. first \in 1 .. Last(S) /\ W(first - 1) <= x
  <2>1. first # 0
    BY <1>2
  <2>2. first \in 1 .. Last(S) /\ first - 1 \in 0 .. Last(S)
    BY <2>1, <1>1
  <2>3. first - 1 \notin over
    BY <1>6, <2>2
  <2> QED BY <2>2, <2>3, <1>2
<1>8. first \in stops
  <2>1. W(first) > x
    OBVIOUS
  <2>2. first \in S /\ IsHealthy(fails[first])
    <3>1. CASE W(first) = W(first - 1) + 0
      <4>1. first - 1 \in 0 .. Last(S)
        BY <1>1, <1>7
      <4>2. W(first - 1) \in Nat
        BY <4>1, <1>2
      <4> QED BY <4>2, <3>1, <2>1, <1>7
    <3>2. CASE W(first) = W(first - 1) + weight[first] /\ first \in S
                 /\ IsHealthy(fails[first])
      BY <3>2
    <3> QED BY <3>1, <3>2, <1>2, <1>7
  <2> QED BY <2>1, <2>2, <1>4
<1>9. Min(stops) = first
  <2>1. stops \in SUBSET Nat /\ stops # {}
    BY <1>4, <1>8 DEF Vector
  <2>2. Min(stops) \in stops /\ Min(stops) <= first
    BY <2>1, <1>8, MinIsLeast
  <2>3. Min(stops) \in over
    <3>1. Min(stops) \in S /\ W(Min(stops)) > x
      BY <2>2, <1>4
    <3>2. Min(stops) \in 1 .. Last(S)
      BY <3>1, <1>1
    <3> QED BY <3>1, <3>2, <1>1
  <2> QED BY <2>2, <2>3, <1>6
<1>10. a = first <=> W(a - 1) <= x /\ x < W(a)
  <2>1. a - 1 \in 0 .. Last(S) /\ W(a - 1) \in Nat /\ W(a) \in Nat
    BY <1>1, <1>2
  <2>2. ASSUME W(a - 1) <= x, x < W(a) PROVE a = first
    <3>1. first <= a
      BY <2>2, <1>1, <1>6
    <3>2. ~(first <= a - 1)
      BY <2>1, <2>2, <1>2
    <3> QED BY <3>1, <3>2, <1>1
  <2> QED BY <2>2, <1>7
<1> QED BY <1>3, <1>8, <1>9, <1>10 DEF W

(* The numbers below the total, and the numbers the walk reaches.          *)
LEMMA TotalType ==
  ASSUME NEW weight, NEW fails, NEW S, Vector(S), Weighs(weight, S),
         Fails(fails, S)
  PROVE  /\ TotalWeight(weight, fails, S) \in Nat
         /\ TotalWeight(weight, fails, S) <= Walked(weight, fails, S, Last(S))
         /\ (\A a \in S : fails[a] # MaxFails) =>
              TotalWeight(weight, fails, S) = Walked(weight, fails, S, Last(S))
         /\ \A a \in S : fails[a] < MaxFails =>
              weight[a] <= TotalWeight(weight, fails, S)
<1> DEFINE few  == {a \in S : fails[a] < MaxFails}
           many == {a \in S : IsHealthy(fails[a])}
<1>1. few \subseteq many
  BY DEF Fails, IsHealthy
<1>2. (\A a \in S : fails[a] # MaxFails) => few = many
  BY DEF Fails, IsHealthy
<1>3. \A a \in S : fails[a] < MaxFails => a \in few
  OBVIOUS
<1>4. /\ TotalWeight(weight, fails, S) = Sums(weight, S, few)[Last(S)]
      /\ Walked(weight, fails, S, Last(S)) = Sums(weight, S, many)[Last(S)]
  BY DEF TotalWeight, Walked
<1> HIDE DEF few, many
<1>5. Last(S) \in 0 .. Last(S) /\ \A a \in S : a \in 1 .. Last(S)
  BY LastType
<1>6. ASSUME NEW a \in S, a \in few
      PROVE  weight[a] <= Sums(weight, S, few)[Last(S)]
  <2>1. a - 1 \in 0 .. Last(S) /\ a \in 0 .. Last(S) /\ Last(S) \in a .. Last(S)
    BY <1>5, LastType
  <2>2. Sums(weight, S, few)[a] = Sums(weight, S, few)[a - 1] + weight[a]
    BY <1>5, <1>6, SumsDef
  <2>3. /\ Sums(weight, S, few)[a - 1] \in Nat
        /\ Sums(weight, S, few)[Last(S)] \in Nat
    BY <1>5, <2>1, SumsType
  <2>4. Sums(weight, S, few)[a] <= Sums(weight, S, few)[Last(S)]
    BY <2>1, SumsGrow
  <2>5. weight[a] \in Nat
    BY DEF Weighs
  <2> QED BY <2>2, <2>3, <2>4, <2>5
<1>7. Sums(weight, S, few)[Last(S)] \in Nat
  BY <1>5, SumsType
<1>8. Sums(weight, S, few)[Last(S)] <= Sums(weight, S, many)[Last(S)]
  BY <1>1, <1>5, SumsMore
<1> QED BY <1>2, <1>3, <1>4, <1>6, <1>7, <1>8

(* get_one is fair by weight: when none stands exactly at its limit of     *)
(* failures, the random numbers that pick an instance are as many as its   *)
(* weight, and none picks one over its limit.                              *)
THEOREM DrawsAreWeights ==
  ASSUME NEW weight, NEW fails, NEW S, Vector(S), Weighs(weight, S),
         Fails(fails, S), \A b \in S : fails[b] # MaxFails, NEW a \in S
  PROVE  Cardinality(DrawsOf(weight, fails, S, a))
           = IF IsHealthy(fails[a]) THEN weight[a] ELSE 0
<1> DEFINE W(n)  == Walked(weight, fails, S, n)
           total == TotalWeight(weight, fails, S)
           size  == IF IsHealthy(fails[a]) THEN weight[a] ELSE 0
<1>1. total = W(Last(S)) /\ total \in Nat
  BY TotalType
<1>2. /\ Last(S) \in Nat /\ a \in 1 .. Last(S)
      /\ a - 1 \in 0 .. Last(S) /\ a \in 0 .. Last(S)
  BY LastType
<1>3. /\ W(a - 1) \in Nat /\ W(a) \in Nat
      /\ W(a) <= W(Last(S))
      /\ W(a) = W(a - 1) + size
  <2>1. Last(S) \in 0 .. Last(S) /\ a <= Last(S)
    BY <1>2
  <2>2. W(a - 1) \in Nat /\ W(a) \in Nat /\ W(a) <= W(Last(S))
    BY <1>2, <2>1, WalkedType
  <2>3. W(a) = W(a - 1)
                 + (IF a \in S /\ IsHealthy(fails[a]) THEN weight[a] ELSE 0)
    BY <1>2, WalkedType
  <2> QED BY <2>2, <2>3
<1>4. \A x \in 0 .. total - 1 :
        StopsAt(weight, fails, S, a, x) <=> W(a - 1) <= x /\ x < W(a)
  BY <1>1, StopsWhere
<1>5. DrawsOf(weight, fails, S, a)
        = {x \in 0 .. total - 1 : StopsAt(weight, fails, S, a, x)}
  BY DEF DrawsOf
<1>6. size \in Nat
  BY DEF Weighs
<1> HIDE DEF W, total, size
<1>7. DrawsOf(weight, fails, S, a) = W(a - 1) .. W(a) - 1
  BY <1>1, <1>3, <1>4, <1>5
<1>8. Cardinality(W(a - 1) .. W(a) - 1)
        = IF W(a - 1) > W(a) - 1 THEN 0 ELSE W(a) - 1 - W(a - 1) + 1
  <2>1. W(a - 1) \in Int /\ W(a) - 1 \in Int
    BY <1>3
  <2> QED BY <2>1, FS_Interval
<1>9. Cardinality(DrawsOf(weight, fails, S, a)) = size
  BY <1>3, <1>6, <1>7, <1>8
<1> QED BY <1>9 DEF size

(* What get_one returns has a weight and is not over its limit, unless     *)
(* every instance it may choose from has weight 0 or is at its limit.      *)
THEOREM UnfitDrawnLast ==
  ASSUME NEW weight, NEW fails, NEW S, Vector(S), Weighs(weight, S),
         Fails(fails, S), NEW one \in Drawn(weight, fails, S)
  PROVE  \/ weight[one] > 0 /\ IsHealthy(fails[one])
         \/ \A a \in S : ~(weight[a] > 0 /\ fails[a] < MaxFails)
<1> DEFINE W(n)  == Walked(weight, fails, S, n)
           total == TotalWeight(weight, fails, S)
<1>1. /\ total \in Nat /\ total <= W(Last(S))
      /\ \A a \in S : fails[a] < MaxFails => weight[a] <= total
  BY TotalType
<1>2. \A a \in S : weight[a] \in Nat
  BY DEF Weighs
<1>3. CASE total = 0
  BY <1>1, <1>2, <1>3
<1>4. CASE total # 0
  <2>1. one \in S /\ DrawsOf(weight, fails, S, one) # {}
    BY <1>4 DEF Drawn
  <2>2. PICK x \in 0 .. total - 1 : StopsAt(weight, fails, S, one, x)
    BY <2>1 DEF DrawsOf
  <2>3. /\ Last(S) \in 0 .. Last(S) /\ one \in 1 .. Last(S)
        /\ one - 1 \in 0 .. Last(S) /\ one \in 0 .. Last(S)
    BY <2>1, LastType
  <2>4. /\ W(one - 1) \in Nat /\ W(one) \in Nat /\ W(Last(S)) \in Nat
        /\ W(one) = W(one - 1)
                      + (IF one \in S /\ IsHealthy(fails[one])
                         THEN weight[one] ELSE 0)
    BY <2>3, WalkedType
  <2>5. x \in Nat /\ x < W(Last(S))
    BY <1>1, <2>4
  <2>6. W(one - 1) <= x /\ x < W(one)
    BY <2>1, <2>2, <2>5, StopsWhere
  <2> QED BY <1>2, <2>1, <2>4, <2>5, <2>6
<1> QED BY <1>3, <1>4

-----------------------------------------------------------------------------
(* Rules and destinations.                                                 *)

(* matching_bounds takes the first rule that matches, of all that are kept *)
(* under a name, or none when none does.                                   *)
THEOREM FirstRuleMatches ==
  ASSUME NEW rules, DOMAIN rules \in SUBSET (Nat \ {0}), NEW caller, NEW meta,
         NEW first, first = FirstRule(rules, caller, meta)
  PROVE  \/ /\ first \in DOMAIN rules
            /\ RuleMatches(rules[first], caller, meta)
            /\ \A i \in DOMAIN rules :
                 i < first => ~RuleMatches(rules[i], caller, meta)
         \/ /\ first = 0
            /\ \A i \in DOMAIN rules : ~RuleMatches(rules[i], caller, meta)
<1> DEFINE hits == {i \in DOMAIN rules : RuleMatches(rules[i], caller, meta)}
<1>1. first = IF hits = {} THEN 0 ELSE Min(hits)
  BY DEF FirstRule
<1>2. \A i \in DOMAIN rules :
        i \in hits <=> RuleMatches(rules[i], caller, meta)
  OBVIOUS
<1>3. hits \subseteq DOMAIN rules /\ hits \in SUBSET Nat
  OBVIOUS
<1> HIDE DEF hits
<1>4. CASE hits = {}
  BY <1>1, <1>2, <1>4
<1>5. CASE hits # {}
  <2>1. Min(hits) \in hits /\ \A i \in hits : Min(hits) <= i
    BY <1>3, <1>5, MinIsLeast
  <2>2. first \in hits /\ \A i \in hits : first <= i
    BY <1>1, <1>5, <2>1
  <2>3. \A i \in DOMAIN rules : i < first => i \notin hits
    BY <2>2, <1>3
  <2> QED BY <1>2, <1>3, <2>2, <2>3
<1> QED BY <1>4, <1>5

(* subsets_weighted_random draws of the destinations that have instances,  *)
(* and always one.                                                         *)
THEOREM DrawnBoundsFilled ==
  ASSUME NEW bounds, NEW filled \in SUBSET Nat, NEW top, filled # {},
         NEW last \in Nat, \A i \in filled : i <= last
  PROVE  /\ DrawnBounds(bounds, filled, top) # {}
         /\ DrawnBounds(bounds, filled, top) \subseteq filled
<1>1. Max(filled) \in filled
  BY MaxIsGreatest
<1> QED BY <1>1 DEF DrawnBounds

(* The metadata of a call has one value for a key, whatever the URL says   *)
(* twice.                                                                  *)
THEOREM MetaIsMap ==
  ASSUME NEW conf, NEW pairs, DOMAIN pairs \in SUBSET (Nat \ {0}),
         NEW p \in MetaOf(conf, pairs), NEW q \in MetaOf(conf, pairs),
         p[1] = q[1]
  PROVE  p = q
<1>1. PICK i \in DOMAIN pairs :
        /\ p = <<KeyFor(conf, pairs[i]), pairs[i].value>>
        /\ \A h \in 1 .. i - 1 :
             KeyFor(conf, pairs[h]) # KeyFor(conf, pairs[i])
  BY DEF MetaOf
<1>2. PICK j \in DOMAIN pairs :
        /\ q = <<KeyFor(conf, pairs[j]), pairs[j].value>>
        /\ \A h \in 1 .. j - 1 :
             KeyFor(conf, pairs[h]) # KeyFor(conf, pairs[j])
  BY DEF MetaOf
<1>3. KeyFor(conf, pairs[i]) = KeyFor(conf, pairs[j])
  BY <1>1, <1>2
<1> QED BY <1>1, <1>2, <1>3

-----------------------------------------------------------------------------
(* The nearby router.                                                      *)

(* The cases of nearby_match_level fall through: every level that is not   *)
(* "None" asks for the region, and for nothing else.                       *)
THEOREM LevelsAreRegion ==
  ASSUME NEW here, NEW place, NEW level \in {"Zone", "Campus", "Region"}
  PROVE  NearMatch(here, place, level) <=> here.region = place.region
BY DEF NearMatch

(* With the default of 100 percent, instances near enough are never given  *)
(* up, however many of them are unhealthy: nearby_match_degrade asks for   *)
(* more than all.                                                          *)
THEOREM NeverDegradesByDefault ==
  ASSUME NEW yaml, "percent" \notin DOMAIN yaml, NEW failover,
         NEW total \in Nat \ {0}, NEW unhealthy \in 0 .. total
  PROVE  ~Degrades(PolicyConfig(FromYaml(yaml), failover), unhealthy, total)
<1> DEFINE conf == PolicyConfig(FromYaml(yaml), failover)
<1>1. FromYaml(yaml).percent = 100
  BY DEF FromYaml, Defaults
<1>2. conf.percent = 100
  BY <1>1 DEF PolicyConfig
<1>3. (unhealthy * 100) \div total <= 100
  OBVIOUS
<1> HIDE DEF conf
<1> QED BY <1>2, <1>3 DEF Degrades, conf
=============================================================================

---------------------------- MODULE BalanceProofs ----------------------------
(* Theorems about LoadBalance, as a part of MCPlugins: the effective       *)
(* weights and the counters are right, and each round serves every server  *)
(* its share.  Rounds compare sums over all servers, and the weighted one  *)
(* a level found by recursion: both are reasoned about by induction        *)
(* (InductionLemmas).                                                      *)
EXTENDS MCPlugins, InductionLemmas

-----------------------------------------------------------------------------
(* Sums over the servers                                                   *)

(* The partial sums by which a sum over a set is defined.                  *)
IsSum(it, f, S) ==
  it = [T \in SUBSET S |-> IF T = {} THEN 0 ELSE f[CHOOSE x \in T : TRUE] + it[T \ {CHOOSE x \in T : TRUE}]]

Partial(f, S) == CHOOSE it : IsSum(it, f, S)

(* The Sum of LoadBalance is the last of the partial sums.                 *)
LEMMA SumIsPartial == \A f, S : Load!Sum(f, S) = Partial(f, S)[S]
  BY DEF Load!Sum, Load!FoldFunctionOnSet, Load!MapThenFoldSet, Partial, IsSum

(* The member that is added first, the sets up to a size, and their        *)
(* sums.                                                                   *)
Some(T) == CHOOSE x \in T : TRUE
Small(S, k) == {T \in SUBSET S : Cardinality(T) <= k}
SumsUpTo(it, f, S, k) ==
  \A T \in Small(S, k) : it[T] = IF T = {} THEN 0 ELSE f[Some(T)] + it[T \ {Some(T)}]

(* Partial sums exist over finite sets, built up by size.                  *)
LEMMA SumsExist ==
  ASSUME NEW S, IsFiniteSet(S), NEW f, \A x \in S : f[x] \in Int
  PROVE  \E it \in [SUBSET S -> Int] : IsSum(it, f, S)
<1> DEFINE N == {k \in Nat : \E it \in [Small(S, k) -> Int] : SumsUpTo(it, f, S, k)}
<1>1. \A T \in SUBSET S : /\ IsFiniteSet(T) /\ Cardinality(T) \in Nat /\ Cardinality(T) <= Cardinality(S)
                          /\ (Cardinality(T) = 0 <=> T = {})
  BY FS_Subset, FS_CardinalityType, FS_EmptySet
<1>2. 0 \in N
  <2>1. \A T \in Small(S, 0) : T = {}
    BY <1>1 DEF Small
  <2>2. PICK it : it = [T \in Small(S, 0) |-> 0]
    OBVIOUS
  <2>3. it \in [Small(S, 0) -> Int] /\ SumsUpTo(it, f, S, 0)
    BY <2>1, <2>2 DEF SumsUpTo
  <2> QED
    BY <2>3
<1>3. ASSUME NEW k \in Nat, k \in N PROVE k + 1 \in N
  <2>1. PICK it \in [Small(S, k) -> Int] : SumsUpTo(it, f, S, k)
    BY <1>3
  <2>2. ASSUME NEW T \in Small(S, k + 1), T # {}
        PROVE  Some(T) \in S /\ T \ {Some(T)} \in Small(S, k)
    <3>1. Some(T) \in T
      BY <2>2 DEF Some
    <3>2. Cardinality(T \ {Some(T)}) = Cardinality(T) - 1 /\ Cardinality(T) \in Nat
      BY <1>1, <3>1, FS_RemoveElement DEF Small
    <3> QED
      BY <3>1, <3>2 DEF Small
  <2>3. PICK new : new = [T \in Small(S, k + 1) |-> IF T = {} THEN 0 ELSE f[Some(T)] + it[T \ {Some(T)}]]
    OBVIOUS
  <2>4. new \in [Small(S, k + 1) -> Int]
    BY <2>2, <2>3
  <2>5. Small(S, k) \subseteq Small(S, k + 1)
    BY <1>1 DEF Small
  <2>6. \A T \in Small(S, k) : new[T] = it[T]
    BY <2>1, <2>3, <2>5 DEF SumsUpTo
  <2>7. SumsUpTo(new, f, S, k + 1)
    BY <2>2, <2>3, <2>6 DEF SumsUpTo
  <2> QED
    BY <2>4, <2>7
<1>4. Nat \subseteq N
  <2> HIDE DEF N
  <2> QED
    BY <1>2, <1>3, Induction
<1>5. Cardinality(S) \in N
  BY <1>1, <1>4
<1>6. Small(S, Cardinality(S)) = SUBSET S
  BY <1>1 DEF Small
<1>7. PICK it \in [SUBSET S -> Int] : SumsUpTo(it, f, S, Cardinality(S))
  BY <1>5, <1>6
<1> QED
  BY <1>6, <1>7 DEF SumsUpTo, IsSum, Some

(* Partial sums, whichever member is added first.                          *)
Sums(it, f, S) ==
  /\ it \in [SUBSET S -> Int]
  /\ it[{}] = 0
  /\ \A T \in SUBSET S : \A x \in T : it[T] = f[x] + it[T \ {x}]

(* The partial sums do not depend on which member is taken first.          *)
LEMMA PartialSums ==
  ASSUME NEW S, IsFiniteSet(S), NEW f, \A x \in S : f[x] \in Int
  PROVE  Sums(Partial(f, S), f, S)
<1>1. PICK it : it = Partial(f, S)
  OBVIOUS
<1>2. IsSum(it, f, S)
  BY <1>1, SumsExist DEF Partial
<1>3. \A T \in SUBSET S : it[T] = IF T = {} THEN 0 ELSE f[Some(T)] + it[T \ {Some(T)}]
  BY <1>2 DEF IsSum, Some
<1>4. DOMAIN it = SUBSET S /\ it[{}] = 0
  BY <1>2 DEF IsSum
<1>5. it \in [SUBSET S -> Int]
  <2>1. PICK Q : Q = {T \in SUBSET S : it[T] \in Int}
    OBVIOUS
  <2>2. ASSUME NEW T \in SUBSET S, \A x \in T : T \ {x} \in Q PROVE T \in Q
    <3>1. CASE T = {}
      BY <1>4, <2>1, <3>1
    <3>2. CASE T # {}
      <4>1. PICK c \in T : c = Some(T)
        BY <3>2 DEF Some
      <4>2. it[T] = f[c] + it[T \ {c}]
        BY <1>3, <3>2, <4>1
      <4>3. it[T \ {c}] \in Int /\ f[c] \in Int
        BY <2>1, <2>2
      <4>4. it[T] \in Int
        BY <4>2, <4>3
      <4> QED
        BY <2>1, <2>2, <4>4
    <3> QED
      BY <3>1, <3>2
  <2>3. SUBSET S \subseteq Q
    BY <2>2, SetInduction
  <2>4. it = [T \in SUBSET S |-> it[T]]
    BY <1>2 DEF IsSum
  <2> QED
    BY <2>1, <2>3, <2>4
<1>6. PICK Q : Q = {T \in SUBSET S : \A x \in T : it[T] = f[x] + it[T \ {x}]}
  OBVIOUS
<1>7. ASSUME NEW T \in SUBSET S, \A x \in T : T \ {x} \in Q PROVE T \in Q
  <2> SUFFICES ASSUME NEW x \in T PROVE it[T] = f[x] + it[T \ {x}]
    BY <1>6
  <2>1. PICK c \in T : c = Some(T)
    BY DEF Some
  <2>2. it[T] = f[c] + it[T \ {c}]
    BY <1>3, <2>1
  <2>3. CASE x = c
    BY <2>2, <2>3
  <2>4. CASE x # c
    <3>1. PICK y \in Int, a \in Int, b \in Int : y = it[(T \ {c}) \ {x}] /\ a = f[c] /\ b = f[x]
      BY <1>5
    <3>2. it[T \ {c}] = b + y
      BY <1>6, <1>7, <2>4, <3>1
    <3>3. (T \ {c}) \ {x} = (T \ {x}) \ {c}
      OBVIOUS
    <3>4. it[T \ {x}] = a + y
      BY <1>6, <1>7, <2>4, <3>1, <3>3
    <3> QED
      BY <2>2, <3>1, <3>2, <3>4
  <2> QED
    BY <2>3, <2>4
<1>8. SUBSET S \subseteq Q
  BY <1>7, SetInduction
<1> QED
  BY <1>1, <1>4, <1>5, <1>6, <1>8 DEF Sums

(* Sums of functions that are added, pointwise.                            *)
LEMMA SumsAdd ==
  ASSUME NEW S, IsFiniteSet(S), NEW f, NEW g, NEW h, NEW i, NEW j, NEW k,
         Sums(i, f, S), Sums(j, g, S), Sums(k, h, S),
         \A x \in S : f[x] \in Int /\ g[x] \in Int /\ h[x] = f[x] + g[x]
  PROVE  k[S] = i[S] + j[S]
<1>1. PICK Q : Q = {T \in SUBSET S : k[T] = i[T] + j[T]}
  OBVIOUS
<1>2. ASSUME NEW T \in SUBSET S, \A x \in T : T \ {x} \in Q PROVE T \in Q
  <2>1. CASE T = {}
    BY <1>1, <2>1 DEF Sums
  <2>2. CASE T # {}
    <3>1. PICK x \in T : TRUE
      BY <2>2
    <3>2. PICK U \in SUBSET S : U = T \ {x}
      OBVIOUS
    <3>3. k[T] = h[x] + k[U] /\ i[T] = f[x] + i[U] /\ j[T] = g[x] + j[U]
      BY <3>2 DEF Sums
    <3>4. k[U] = i[U] + j[U] /\ i[U] \in Int /\ j[U] \in Int
      BY <1>1, <1>2, <3>2 DEF Sums
    <3>5. k[T] = i[T] + j[T]
      BY <3>3, <3>4
    <3> QED
      BY <1>1, <3>5
  <2> QED
    BY <2>1, <2>2
<1>3. SUBSET S \subseteq Q
  BY <1>2, SetInduction
<1> QED
  BY <1>1, <1>3

(* Of a function that is no greater than another, the sum is not either,   *)
(* and equal only if the functions are.                                    *)
LEMMA SumsOrdered ==
  ASSUME NEW S, IsFiniteSet(S), NEW f, NEW g, NEW i, NEW j,
         Sums(i, f, S), Sums(j, g, S),
         \A x \in S : f[x] \in Int /\ g[x] \in Int /\ f[x] <= g[x]
  PROVE  i[S] <= j[S] /\ (i[S] = j[S] => \A x \in S : f[x] = g[x])
<1>1. PICK Q : Q = {T \in SUBSET S : i[T] <= j[T] /\ (i[T] = j[T] => \A x \in T : f[x] = g[x])}
  OBVIOUS
<1>2. ASSUME NEW T \in SUBSET S, \A x \in T : T \ {x} \in Q PROVE T \in Q
  <2>1. ASSUME NEW x \in T
        PROVE  i[T] <= j[T] /\ (i[T] = j[T] => f[x] = g[x])
    <3>1. PICK U \in SUBSET S : U = T \ {x}
      OBVIOUS
    <3>2. i[T] = f[x] + i[U] /\ j[T] = g[x] + j[U]
      BY <3>1 DEF Sums
    <3>3. i[U] <= j[U] /\ i[U] \in Int /\ j[U] \in Int
      BY <1>1, <1>2, <3>1 DEF Sums
    <3> QED
      BY <3>2, <3>3
  <2>2. CASE T = {}
    BY <1>1, <2>2 DEF Sums
  <2>3. CASE T # {}
    BY <1>1, <2>1, <2>3
  <2> QED
    BY <2>2, <2>3
<1>3. SUBSET S \subseteq Q
  BY <1>2, SetInduction
<1> QED
  BY <1>1, <1>3

(* The sum of a function that is d at s and 0 elsewhere.                   *)
LEMMA SumsSingle ==
  ASSUME NEW S, IsFiniteSet(S), NEW f, NEW i, NEW s \in S, NEW d \in Int,
         Sums(i, f, S), f[s] = d, \A x \in S : x # s => f[x] = 0
  PROVE  i[S] = d
<1>1. PICK Q : Q = {T \in SUBSET S : i[T] = IF s \in T THEN d ELSE 0}
  OBVIOUS
<1>2. ASSUME NEW T \in SUBSET S, \A x \in T : T \ {x} \in Q PROVE T \in Q
  <2>1. CASE T = {}
    BY <1>1, <2>1 DEF Sums
  <2>2. CASE T # {}
    <3>1. PICK x \in T : TRUE
      BY <2>2
    <3>2. PICK U \in SUBSET S : U = T \ {x}
      OBVIOUS
    <3>3. i[T] = f[x] + i[U]
      BY <3>2 DEF Sums
    <3>4. i[U] = IF s \in U THEN d ELSE 0
      BY <1>1, <1>2, <3>2
    <3>5. i[T] = IF s \in T THEN d ELSE 0
      <4>1. CASE x = s
        BY <3>2, <3>3, <3>4, <4>1
      <4>2. CASE x # s
        BY <3>2, <3>3, <3>4, <4>2
      <4> QED
        BY <4>1, <4>2
    <3> QED
      BY <1>1, <3>5
  <2> QED
    BY <2>1, <2>2
<1>3. SUBSET S \subseteq Q
  BY <1>2, SetInduction
<1> QED
  BY <1>1, <1>3

(* The sum over the servers, as the functions of LoadBalance have it.      *)
Total(f) == Load!Sum(f, 1..Servers)

(* There are finitely many servers, and at least one.                      *)
LEMMA ServersAreFinite == IsFiniteSet(1..Servers) /\ Cardinality(1..Servers) = Servers /\ Servers \in Nat \ {0}
  BY FS_Interval, ClusterAssumption

(* The total is the partial sum over all servers.                          *)
LEMMA TotalIs ==
  ASSUME NEW f \in [1..Servers -> Int]
  PROVE  \E it : Sums(it, f, 1..Servers) /\ Total(f) = it[1..Servers] /\ Total(f) \in Int
<1>1. PICK it : it = Partial(f, 1..Servers)
  OBVIOUS
<1>2. Sums(it, f, 1..Servers)
  BY <1>1, PartialSums, ServersAreFinite
<1>3. Total(f) = it[1..Servers]
  BY <1>1, SumIsPartial DEF Total
<1>4. Total(f) \in Int
  <2>1. PICK S : S = 1..Servers
    OBVIOUS
  <2>2. it \in [SUBSET S -> Int] /\ Total(f) = it[S]
    BY <1>2, <1>3, <2>1 DEF Sums
  <2>3. it[S] \in Int
    BY <2>2
  <2> QED
    BY <2>2, <2>3
<1> QED
  BY <1>2, <1>3, <1>4

(* What adds up adds up in total, ...                                      *)
LEMMA TotalAdds ==
  ASSUME NEW f \in [1..Servers -> Int], NEW g \in [1..Servers -> Int], NEW h \in [1..Servers -> Int],
         \A s \in 1..Servers : h[s] = f[s] + g[s]
  PROVE  Total(h) = Total(f) + Total(g)
<1>1. PICK i : Sums(i, f, 1..Servers) /\ Total(f) = i[1..Servers]
  BY TotalIs
<1>2. PICK j : Sums(j, g, 1..Servers) /\ Total(g) = j[1..Servers]
  BY TotalIs
<1>3. PICK k : Sums(k, h, 1..Servers) /\ Total(h) = k[1..Servers]
  BY TotalIs
<1>4. \A s \in 1..Servers : f[s] \in Int /\ g[s] \in Int
  OBVIOUS
<1> QED
  BY <1>1, <1>2, <1>3, <1>4, ServersAreFinite, SumsAdd

(* ... what is greater nowhere is not greater in total, ...                *)
LEMMA TotalOrdered ==
  ASSUME NEW f \in [1..Servers -> Int], NEW g \in [1..Servers -> Int],
         \A s \in 1..Servers : f[s] <= g[s]
  PROVE  Total(f) <= Total(g) /\ (Total(f) = Total(g) => \A s \in 1..Servers : f[s] = g[s])
<1>1. PICK i : Sums(i, f, 1..Servers) /\ Total(f) = i[1..Servers]
  BY TotalIs
<1>2. PICK j : Sums(j, g, 1..Servers) /\ Total(g) = j[1..Servers]
  BY TotalIs
<1>3. \A s \in 1..Servers : f[s] \in Int /\ g[s] \in Int
  OBVIOUS
<1> QED
  BY <1>1, <1>2, <1>3, ServersAreFinite, SumsOrdered

(* ... and what changes at one server changes by that in total.            *)
LEMMA TotalMoves ==
  ASSUME NEW f \in [1..Servers -> Int], NEW s \in 1..Servers, NEW d \in Int, NEW h \in [1..Servers -> Int],
         h[s] = f[s] + d, \A t \in 1..Servers : t # s => h[t] = f[t]
  PROVE  Total(h) = Total(f) + d
<1>1. PICK g : g = [t \in 1..Servers |-> IF t = s THEN d ELSE 0]
  OBVIOUS
<1>2. g \in [1..Servers -> Int] /\ g[s] = d /\ \A t \in 1..Servers : t # s => g[t] = 0
  BY <1>1
<1>3. PICK j : Sums(j, g, 1..Servers) /\ Total(g) = j[1..Servers]
  BY <1>2, TotalIs
<1>4. Total(g) = d
  BY <1>2, <1>3, ServersAreFinite, SumsSingle
<1>5. Total(h) = Total(f) + Total(g)
  <2>1. \A t \in 1..Servers : h[t] = f[t] + g[t]
    BY <1>2
  <2> QED
    BY <1>2, <2>1, TotalAdds
<1> QED
  BY <1>4, <1>5

(* The sum of nothing.                                                     *)
LEMMA TotalOfNone == Load!None \in [1..Servers -> Int] /\ Total(Load!None) = 0 /\ \A s \in 1..Servers : Load!None[s] = 0
<1>1. PICK f : f = Load!None
  OBVIOUS
<1>2. f \in [1..Servers -> Int] /\ \A s \in 1..Servers : f[s] = 0
  BY <1>1 DEF Load!None
<1>3. 1 \in 1..Servers
  BY ServersAreFinite
<1>4. PICK i : Sums(i, f, 1..Servers) /\ Total(f) = i[1..Servers]
  BY <1>2, TotalIs
<1>5. Total(f) = 0
  BY <1>2, <1>3, <1>4, ServersAreFinite, SumsSingle
<1> QED
  BY <1>1, <1>2, <1>5

-----------------------------------------------------------------------------
(* Weights and levels                                                      *)

(* A set of numbers with a bound has a greatest one.                       *)
LEMMA Greatest ==
  ASSUME NEW b \in Nat, NEW S \in SUBSET (0..b), S # {}
  PROVE  \E m \in S : \A k \in S : k <= m
<1>1. PICK D : D = {d \in Nat : b - d \in S}
  OBVIOUS
<1>2. D \in SUBSET Nat /\ D # {}
  <2>1. PICK x \in S : TRUE
    OBVIOUS
  <2>2. b - x \in Nat /\ b - (b - x) = x
    OBVIOUS
  <2>3. b - x \in D
    BY <1>1, <2>2
  <2> QED
    BY <1>1, <2>3
<1>3. PICK d \in D : \A k \in D : d <= k
  BY <1>2, Least
<1>4. b - d \in S /\ d \in Nat
  BY <1>1, <1>3
<1>5. ASSUME NEW k \in S PROVE k <= b - d
  <2>1. b - k \in Nat /\ b - (b - k) = k
    OBVIOUS
  <2>2. b - k \in D
    BY <1>1, <2>1
  <2>3. d <= b - k
    BY <1>3, <2>2
  <2> QED
    BY <1>4, <2>1, <2>3
<1> QED
  BY <1>4, <1>5

(* Every server has a weight of at least one.                              *)
LEMMA WeightsPositive == Weights \in [1..Servers -> Nat \ {0}]
  BY PluginsAssumption

(* No weight is greater than their total.                                  *)
LEMMA BoundOfWeights == \E b \in Nat : \A s \in 1..Servers : Weights[s] <= b
<1>1. Weights \in [1..Servers -> Int] /\ \A s \in 1..Servers : Weights[s] >= 0
  BY WeightsPositive
<1>2. ASSUME NEW s \in 1..Servers PROVE Weights[s] <= Total(Weights)
  <2>1. PICK f : f = [t \in 1..Servers |-> IF t = s THEN Weights[s] ELSE 0]
    OBVIOUS
  <2>2. PICK h : h = Load!None
    OBVIOUS
  <2>3. h \in [1..Servers -> Int] /\ f \in [1..Servers -> Int] /\ Total(h) = 0 /\ \A t \in 1..Servers : h[t] = 0
    BY <1>1, <2>1, <2>2, TotalOfNone
  <2>4. Total(f) = Total(h) + Weights[s]
    <3>1. PICK w \in Int : w = Weights[s]
      BY <1>1
    <3>2. f[s] = h[s] + w /\ \A t \in 1..Servers : t # s => f[t] = h[t]
      BY <1>1, <2>1, <2>3, <3>1
    <3>3. Total(f) = Total(h) + w
      BY <2>3, <3>2, TotalMoves
    <3> QED
      BY <3>1, <3>3
  <2>5. \A t \in 1..Servers : f[t] <= Weights[t]
    BY <1>1, <2>1
  <2>6. Total(f) <= Total(Weights)
    BY <1>1, <2>3, <2>5, TotalOrdered
  <2>7. Weights[s] \in Int
    BY <1>1
  <2> QED
    BY <2>3, <2>4, <2>6, <2>7
<1>3. Total(Weights) \in Int
  BY <1>1, TotalIs
<1>4. 1 \in 1..Servers
  BY ServersAreFinite
<1>5. Total(Weights) \in Nat
  BY <1>1, <1>2, <1>3, <1>4
<1> QED
  BY <1>2, <1>5

(* MaxWeight is the weight of a server, and no server has a greater one.   *)
LEMMA MaxWeightIs ==
  /\ Load!MaxWeight \in Nat \ {0} /\ \A s \in 1..Servers : Weights[s] <= Load!MaxWeight
  /\ \E s \in 1..Servers : Weights[s] = Load!MaxWeight
<1>1. PICK R : R = Load!Range(Weights)
  OBVIOUS
<1>2. R = {Weights[s] : s \in 1..Servers}
  BY <1>1, WeightsPositive DEF Load!Range
<1>3. PICK b \in Nat : \A s \in 1..Servers : Weights[s] <= b
  BY BoundOfWeights
<1>4. R \in SUBSET (0..b) /\ R # {}
  BY <1>2, <1>3, ServersAreFinite, WeightsPositive
<1>5. \E x \in R : \A v \in R : v <= x
  BY <1>4, Greatest
<1>6. PICK w : w = CHOOSE x \in R : \A v \in R : v <= x
  OBVIOUS
<1>7. w \in R /\ \A v \in R : v <= w
  BY <1>5, <1>6
<1>8. w = Load!MaxWeight
  BY <1>1, <1>6 DEF Load!MaxWeight
<1> QED
  BY <1>2, <1>7, <1>8, WeightsPositive

(* GCD divides every weight.                                               *)
LEMMA GCDIs == Load!GCD \in 1..Load!MaxWeight /\ \A s \in 1..Servers : Weights[s] % Load!GCD = 0
<1>1. PICK m \in Nat \ {0} : m = Load!MaxWeight
  BY MaxWeightIs
<1>2. PICK D : D = {d \in 1..m : \A s \in 1..Servers : Weights[s] % d = 0}
  OBVIOUS
<1>3. 1 \in D
  <2>1. \A w \in Nat : w % 1 = 0
    OBVIOUS
  <2> QED
    BY <1>2, <2>1, WeightsPositive
<1>4. D \in SUBSET (0..m) /\ D # {}
  BY <1>2, <1>3
<1>5. PICK d \in D : \A e \in D : e <= d
  BY <1>4, Greatest
<1>6. \A e \in (d + 1)..m : \E s \in 1..Servers : Weights[s] % e /= 0
  <2>1. ASSUME NEW e \in (d + 1)..m, \A s \in 1..Servers : Weights[s] % e = 0 PROVE FALSE
    <3>1. d \in 1..m
      BY <1>2, <1>5
    <3>2. e \in 1..m /\ ~(e <= d)
      BY <3>1
    <3> QED
      BY <1>2, <1>5, <2>1, <3>2
  <2> QED
    BY <2>1
<1>7. \E e \in 1..m : /\ \A s \in 1..Servers : Weights[s] % e = 0
                      /\ \A c \in (e + 1)..m : \E s \in 1..Servers : Weights[s] % c /= 0
  BY <1>2, <1>5, <1>6
<1> QED
  BY <1>1, <1>7 DEF Load!GCD

(* Going round once at most, a remainder is a difference.                  *)
LEMMA Remainder ==
  ASSUME NEW m \in Nat \ {0}, NEW a \in 0..(2 * m - 1)
  PROVE  a % m = IF a < m THEN a ELSE a - m
  OBVIOUS

(* Products, divided.                                                      *)
LEMMA Quotient ==
  ASSUME NEW m \in Nat \ {0}, NEW a \in Nat, NEW q \in Nat, a = q * m
  PROVE  a % m = 0 /\ a \div m = q
  OBVIOUS

(* A number without a remainder is a product.                              *)
LEMMA Divided ==
  ASSUME NEW m \in Nat \ {0}, NEW a \in Nat, a % m = 0
  PROVE  \E q \in Nat : a = q * m
  OBVIOUS

(* Products with a positive number are in the order of the factors.        *)
LEMMA ProductsOrdered ==
  ASSUME NEW m \in Nat \ {0}, NEW a \in Int, NEW b \in Int
  PROVE  (a * m <= b * m <=> a <= b) /\ (a * m = b * m <=> a = b) /\ (a * m < b * m <=> a < b)
  OBVIOUS

(* The n of LoadBalance is the number of servers.                          *)
LEMMA SizeIs == Load!n = Servers
  BY ServersAreFinite DEF Load!n, Load!Cardinality, Cardinality

(* The levels are a function of the number of servers gone past.           *)
LEMMA LevelsAre ==
  ASSUME level \in 0..Load!MaxWeight
  PROVE  /\ Load!LevelAt \in [Nat -> 0..Load!MaxWeight] /\ Load!LevelAt[0] = level
         /\ \A k \in Nat : Load!LevelAt[k + 1] =
              IF Load!Place(k + 1) = 1 THEN Load!Lower(Load!LevelAt[k]) ELSE Load!LevelAt[k]
<1> DEFINE V == 0..Load!MaxWeight
           Passed(k, l) == IF Load!Place(k + 1) = 1 THEN Load!Lower(l) ELSE l
<1>1. \A k \in Nat : \A l \in V : Passed(k, l) \in V
  BY MaxWeightIs, GCDIs DEF Load!Lower
<1>2. PICK next : next = [p \in Nat \X V |-> Passed(p[1], p[2])]
  OBVIOUS
<1> HIDE DEF V, Passed
<1>3. next \in [Nat \X V -> V] /\ \A k \in Nat : \A l \in V : next[<<k, l>>] = Passed(k, l)
  BY <1>1, <1>2
<1>4. level \in V
  BY DEF V
<1>5. PICK f \in [Nat -> V] : f[0] = level /\ \A k \in Nat : f[k + 1] = next[<<k, f[k]>>]
  <2>1. PICK W, b : W = V /\ b = level
    OBVIOUS
  <2>2. b \in W /\ next \in [Nat \X W -> W]
    BY <1>3, <1>4, <2>1
  <2>3. PICK f : Follows(f, W, b, next)
    BY <2>2, Recursion
  <2> QED
    BY <2>1, <2>3 DEF Follows
<1>6. \A k \in Nat : f[k + 1] = Passed(k, f[k])
  BY <1>3, <1>5
<1> DEFINE Is(g) == g = [k \in Nat |-> IF k = 0 THEN level ELSE Passed(k - 1, g[k - 1])]
<1>7. Is(f)
  <2>1. ASSUME NEW k \in Nat PROVE f[k] = IF k = 0 THEN level ELSE Passed(k - 1, f[k - 1])
    <3>1. CASE k = 0
      BY <1>5, <3>1
    <3>2. CASE k # 0
      <4>1. k - 1 \in Nat /\ (k - 1) + 1 = k
        BY <3>2
      <4> QED
        BY <1>6, <3>2, <4>1
    <3> QED
      BY <3>1, <3>2
  <2> QED
    BY <1>5, <2>1
<1>8. PICK h : h = CHOOSE g : Is(g)
  OBVIOUS
<1>9. Is(h)
  BY <1>7, <1>8
<1>10. h = Load!LevelAt
  BY <1>8 DEF Passed, Load!LevelAt
<1>11. h[0] = level /\ \A k \in Nat : h[k + 1] = Passed(k, h[k])
  BY <1>9
<1>12. h \in [Nat -> V]
  <2>1. PICK S : S = {k \in Nat : h[k] \in V}
    OBVIOUS
  <2>2. 0 \in S
    BY <1>4, <1>11, <2>1
  <2>3. ASSUME NEW k \in Nat, k \in S PROVE k + 1 \in S
    <3>1. h[k] \in V /\ h[k + 1] = Passed(k, h[k])
      BY <1>11, <2>1, <2>3
    <3>2. h[k + 1] \in V /\ k + 1 \in Nat
      BY <1>1, <3>1
    <3> QED
      BY <2>1, <3>2
  <2>4. Nat \subseteq S
    BY <2>2, <2>3, Induction
  <2>5. h = [k \in Nat |-> h[k]]
    BY <1>9
  <2> QED
    BY <2>1, <2>4, <2>5
<1> QED
  BY <1>10, <1>11, <1>12 DEF V, Passed

(* The place before the next: the last server's, at first.                 *)
Latest == IF position = 0 THEN Servers ELSE position

(* The places after the latest one: first those behind it, then all from   *)
(* the first.                                                              *)
LEMMA PlacesAre ==
  ASSUME position \in 0..Servers
  PROVE  /\ Latest \in 1..Servers
         /\ \A k \in 1..(Servers - Latest) : Load!Place(k) = Latest + k
         /\ \A k \in 1..Servers : Load!Place((Servers - Latest) + k) = k
<1>1. Latest \in 1..Servers
  BY ServersAreFinite DEF Latest
<1>2. ASSUME NEW k \in Nat \ {0}, k <= 2 * Servers - Latest
      PROVE  Load!Place(k) = IF k <= Servers - Latest THEN Latest + k ELSE k - (Servers - Latest)
  <2>1. CASE position = 0
    <3>1. Latest = Servers /\ k - 1 \in 0..(2 * Servers - 1) /\ k - 1 < Servers /\ Servers \in Nat \ {0}
      BY <1>2, <2>1, ServersAreFinite DEF Latest
    <3>2. (k - 1) % Servers = k - 1
      BY <3>1, Remainder
    <3> QED
      BY <2>1, <3>1, <3>2, SizeIs DEF Load!Place
  <2>2. CASE position # 0
    <3>1. Latest = position /\ (position + k) - 1 \in 0..(2 * Servers - 1) /\ Servers \in Nat \ {0}
      BY <1>1, <1>2, <2>2, ServersAreFinite DEF Latest
    <3>2. ((position + k) - 1) % Servers = IF (position + k) - 1 < Servers THEN (position + k) - 1 ELSE (position + k) - 1 - Servers
      BY <3>1, Remainder
    <3> QED
      BY <1>2, <3>1, <3>2, SizeIs DEF Load!Place
  <2> QED
    BY <2>1, <2>2
<1>3. ASSUME NEW k \in 1..(Servers - Latest) PROVE Load!Place(k) = Latest + k
  BY <1>1, <1>2, ServersAreFinite
<1>4. ASSUME NEW k \in 1..Servers PROVE Load!Place((Servers - Latest) + k) = k
  <2>1. PICK j \in Nat \ {0} : j = (Servers - Latest) + k
    BY <1>1, ServersAreFinite
  <2>2. j <= 2 * Servers - Latest /\ ~(j <= Servers - Latest) /\ j - (Servers - Latest) = k
    BY <1>1, <2>1, ServersAreFinite
  <2>3. Load!Place(j) = k
    BY <1>2, <2>2
  <2> QED
    BY <2>1, <2>3
<1> QED
  BY <1>1, <1>3, <1>4

(* For the places behind the latest the level stays, for the next lap it   *)
(* is lowered once.                                                        *)
LEMMA LevelsOfLap ==
  ASSUME position \in 0..Servers, level \in 0..Load!MaxWeight
  PROVE  /\ \A k \in 0..(Servers - Latest) : Load!LevelAt[k] = level
         /\ \A k \in 1..Servers : Load!LevelAt[(Servers - Latest) + k] = Load!Lower(level)
<1>1. Latest \in 1..Servers /\ Servers \in Nat \ {0}
  BY PlacesAre, ServersAreFinite
<1>2. PICK h : h = Load!LevelAt
  OBVIOUS
<1>3. h[0] = level /\ \A k \in Nat : h[k + 1] = IF Load!Place(k + 1) = 1 THEN Load!Lower(h[k]) ELSE h[k]
  BY <1>2, LevelsAre
<1>4. PICK S : S = {k \in Nat : k <= Servers - Latest => h[k] = level}
  OBVIOUS
<1>5. Nat \subseteq S
  <2>1. 0 \in S
    BY <1>3, <1>4
  <2>2. ASSUME NEW k \in Nat, k \in S PROVE k + 1 \in S
    <3>1. CASE k + 1 <= Servers - Latest
      <4>1. Load!Place(k + 1) = Latest + (k + 1)
        BY <1>1, <3>1, PlacesAre
      <4>2. Load!Place(k + 1) # 1 /\ h[k] = level
        BY <1>1, <1>4, <2>2, <3>1, <4>1
      <4> QED
        BY <1>3, <1>4, <4>2
    <3>2. CASE ~(k + 1 <= Servers - Latest)
      BY <1>4, <3>2
    <3> QED
      BY <3>1, <3>2
  <2> QED
    BY <2>1, <2>2, Induction
<1>6. PICK d \in Nat : d = Servers - Latest
  BY <1>1
<1>7. PICK R : R = {k \in Nat : k + 1 <= Servers => h[d + (k + 1)] = Load!Lower(level)}
  OBVIOUS
<1>8. Nat \subseteq R
  <2>1. ASSUME NEW k \in Nat, k + 1 <= Servers
        PROVE  h[d + (k + 1)] = IF k = 0 THEN Load!Lower(h[d]) ELSE h[d + k]
    <3>1. Load!Place(d + (k + 1)) = k + 1
      BY <1>1, <1>6, <2>1, PlacesAre
    <3>2. d + (k + 1) = (d + k) + 1 /\ d + k \in Nat
      OBVIOUS
    <3>3. h[(d + k) + 1] = IF Load!Place((d + k) + 1) = 1 THEN Load!Lower(h[d + k]) ELSE h[d + k]
      BY <1>3, <3>2
    <3>4. CASE k = 0
      BY <3>1, <3>2, <3>3, <3>4
    <3>5. CASE k # 0
      BY <3>1, <3>2, <3>3, <3>5
    <3> QED
      BY <3>4, <3>5
  <2>2. h[d] = level
    BY <1>4, <1>5, <1>6
  <2>3. 0 \in R
    BY <1>1, <1>7, <2>1, <2>2
  <2>4. ASSUME NEW k \in Nat, k \in R PROVE k + 1 \in R
    <3> SUFFICES ASSUME (k + 1) + 1 <= Servers PROVE h[d + ((k + 1) + 1)] = Load!Lower(level)
      BY <1>7
    <3>1. k + 1 \in Nat /\ k + 1 # 0 /\ k + 1 <= Servers
      BY <1>1
    <3>2. h[d + ((k + 1) + 1)] = h[d + (k + 1)]
      BY <2>1, <3>1
    <3> QED
      BY <1>7, <2>4, <3>1, <3>2
  <2> QED
    BY <2>3, <2>4, Induction
<1>9. ASSUME NEW k \in 1..Servers PROVE h[d + k] = Load!Lower(level)
  <2>1. PICK j \in Nat : k = j + 1 /\ j + 1 <= Servers
    <3>1. k - 1 \in Nat /\ k = (k - 1) + 1
      BY <1>1
    <3> QED
      BY <1>1, <3>1
  <2>2. j \in R
    BY <1>8
  <2> QED
    BY <1>7, <2>1, <2>2
<1> QED
  BY <1>1, <1>2, <1>4, <1>5, <1>6, <1>9

(* The choice of the weighted round robin: the next server at this level,  *)
(* or, if no more reaches it, the first at the level below.                *)
LEMMA NextInLap ==
  ASSUME position \in 0..Servers, level \in 0..Load!MaxWeight, NEW s \in 1..Servers, Load!WeightedRoundRobin(s)
  PROVE  /\ position' = s
         /\ \/ /\ level' = level /\ s > Latest /\ Weights[s] >= level
               /\ \A t \in 1..Servers : t > Latest /\ t < s => Weights[t] < level
            \/ /\ level' = Load!Lower(level) /\ Weights[s] >= Load!Lower(level)
               /\ \A t \in 1..Servers : t > Latest => Weights[t] < level
               /\ \A t \in 1..Servers : t < s => Weights[t] < Load!Lower(level)
<1>1. PICK k \in Nat \ {0} : /\ Load!Reaches(k) /\ \A j \in 1..(k - 1) : ~Load!Reaches(j)
                             /\ s = Load!Place(k) /\ position' = s /\ level' = Load!LevelAt[k]
  BY DEF Load!WeightedRoundRobin
<1>2. Latest \in 1..Servers /\ Servers \in Nat \ {0} /\ Weights \in [1..Servers -> Nat]
  BY PlacesAre, ServersAreFinite, WeightsPositive
<1>3. PICK d \in Nat : d = Servers - Latest
  BY <1>2
<1>4. ASSUME NEW j \in 1..d
      PROVE  Load!Place(j) = Latest + j /\ Load!LevelAt[j] = level /\ (Load!Reaches(j) <=> Weights[Latest + j] >= level)
  <2>1. j \in 1..(Servers - Latest) /\ j \in 0..(Servers - Latest)
    BY <1>2, <1>3
  <2>2. Load!Place(j) = Latest + j /\ Load!LevelAt[j] = level
    BY <2>1, PlacesAre, LevelsOfLap
  <2> QED
    BY <2>2 DEF Load!Reaches
<1>5. ASSUME NEW j \in 1..Servers
      PROVE  /\ Load!Place(d + j) = j /\ Load!LevelAt[d + j] = Load!Lower(level)
             /\ Load!Reaches(d + j) <=> Weights[j] >= Load!Lower(level)
  BY <1>2, <1>3, <1>5, PlacesAre, LevelsOfLap DEF Load!Reaches
<1>6. Load!Lower(level) \in 0..Load!MaxWeight
  BY MaxWeightIs, GCDIs DEF Load!Lower
<1>7. CASE k <= d
  <2>1. s = Latest + k /\ level' = level /\ Weights[s] >= level
    BY <1>1, <1>4, <1>7
  <2>2. ASSUME NEW t \in 1..Servers, t > Latest, t < s PROVE Weights[t] < level
    <3>1. PICK j \in 1..(k - 1) : t = Latest + j
      <4>1. t - Latest \in 1..(k - 1) /\ t = Latest + (t - Latest)
        BY <1>2, <2>1, <2>2
      <4> QED
        BY <4>1
    <3>2. j \in 1..d /\ ~Load!Reaches(j)
      BY <1>1, <1>7, <3>1
    <3>3. Weights[t] \in Nat
      BY <1>2
    <3> QED
      BY <1>4, <3>1, <3>2, <3>3
  <2> QED
    BY <1>1, <1>2, <2>1, <2>2
<1>8. CASE ~(k <= d)
  <2>1. PICK m \in 1..Servers : Weights[m] = Load!MaxWeight
    BY MaxWeightIs
  <2>2. Load!Reaches(d + m)
    BY <1>5, <1>6, <2>1
  <2>3. k <= d + m
    <3> SUFFICES ASSUME d + m < k PROVE FALSE
      BY <1>2
    <3>1. d + m \in 1..(k - 1)
      BY <1>2
    <3> QED
      BY <1>1, <2>2, <3>1
  <2>4. PICK j \in 1..Servers : k = d + j
    <3>1. k - d \in 1..Servers /\ k = d + (k - d)
      BY <1>2, <1>8, <2>3
    <3> QED
      BY <3>1
  <2>5. s = j /\ level' = Load!Lower(level) /\ Weights[s] >= Load!Lower(level)
    BY <1>1, <1>5, <2>4
  <2>6. ASSUME NEW t \in 1..Servers, t > Latest PROVE Weights[t] < level
    <3>1. PICK i \in 1..d : t = Latest + i
      <4>1. t - Latest \in 1..d /\ t = Latest + (t - Latest)
        BY <1>2, <1>3, <2>6
      <4> QED
        BY <4>1
    <3>2. ~Load!Reaches(i)
      BY <1>1, <1>8, <3>1
    <3>3. Weights[t] \in Nat
      BY <1>2
    <3> QED
      BY <1>4, <3>1, <3>2, <3>3
  <2>7. ASSUME NEW t \in 1..Servers, t < s PROVE Weights[t] < Load!Lower(level)
    <3>1. d + t \in 1..(k - 1)
      BY <1>2, <2>4, <2>5, <2>7
    <3>2. ~Load!Reaches(d + t)
      BY <1>1, <3>1
    <3>3. Weights[t] \in Nat
      BY <1>2
    <3> QED
      BY <1>5, <1>6, <3>2, <3>3
  <2> QED
    BY <1>1, <2>5, <2>6, <2>7
<1> QED
  BY <1>7, <1>8

-----------------------------------------------------------------------------
(* Weights and counters: LoadInv                                           *)

(* What each balancer may be doing, spelled out.                           *)
LEMMA LoadParts ==
  Load!Formed <=>
    /\ balancer \in Load!Balancers /\ urls \subseteq 1..Servers /\ upset \in BOOLEAN
    /\ task \in [Requests -> [at : {"idle", "wrap", "calling", "looked", "active"},
                              server : (1..Servers) \union {0}, from : SUBSET (1..Servers)]]
    /\ balancer \in Load!Counting    => \A r \in Requests : task[r].at \in {"idle", "looked", "active"}
    /\ balancer \notin Load!Counting => \A r \in Requests : task[r].at \in {"idle", "wrap", "calling"}
    /\ \A r \in Requests : task[r].at \in {"wrap", "calling", "active"} => task[r].server \in 1..Servers
    /\ effective \in [1..Servers -> Int]
    /\ actives \in [DOMAIN actives -> Int] /\ DOMAIN actives \subseteq 1..Servers
    /\ balancer \notin Load!Counting => DOMAIN actives = {}
  BY DEF Load!Formed

(* The same after a step.                                                  *)
LEMMA LoadPartsNext ==
  Load!Formed' <=>
    /\ balancer' \in Load!Balancers /\ urls' \subseteq 1..Servers /\ upset' \in BOOLEAN
    /\ task' \in [Requests -> [at : {"idle", "wrap", "calling", "looked", "active"},
                               server : (1..Servers) \union {0}, from : SUBSET (1..Servers)]]
    /\ balancer' \in Load!Counting    => \A r \in Requests : task'[r].at \in {"idle", "looked", "active"}
    /\ balancer' \notin Load!Counting => \A r \in Requests : task'[r].at \in {"idle", "wrap", "calling"}
    /\ \A r \in Requests : task'[r].at \in {"wrap", "calling", "active"} => task'[r].server \in 1..Servers
    /\ effective' \in [1..Servers -> Int]
    /\ actives' \in [DOMAIN actives' -> Int] /\ DOMAIN actives' \subseteq 1..Servers
    /\ balancer' \notin Load!Counting => DOMAIN actives' = {}
  BY DEF Load!Formed, Load!Counting, Load!Balancers

(* The requests under way with a server.                                   *)
Under(s) == {r \in Requests : task[r].at = "active" /\ task[r].server = s}

(* Counting is counting, in this instance too.                             *)
LEMMA LoadCounts == \A S : Load!Cardinality(S) = Cardinality(S)
  BY DEF Load!Cardinality, Cardinality

(* ActivesExact, in terms of the requests under way.                       *)
LEMMA ActivesParts ==
  Load!ActivesExact <=>
    (~upset \/ balancer = "weightedLeastActive" => \A s \in DOMAIN actives : actives[s] = Cardinality(Under(s)))
  BY LoadCounts DEF Load!ActivesExact, Under

(* The same after a step.                                                  *)
LEMMA ActivesPartsNext ==
  Load!ActivesExact' <=>
    (~upset' \/ balancer' = "weightedLeastActive" => \A s \in DOMAIN actives' : actives'[s] = Cardinality(Under(s)'))
  BY LoadCounts DEF Load!ActivesExact, Under

(* There are finitely many of them.                                        *)
LEMMA UnderIsFinite ==
  \A s : IsFiniteSet(Under(s)) /\ Cardinality(Under(s)) \in Nat
<1> SUFFICES ASSUME NEW s PROVE IsFiniteSet(Under(s)) /\ Cardinality(Under(s)) \in Nat
  OBVIOUS
<1>1. Under(s) \in SUBSET Requests /\ IsFiniteSet(Requests)
  BY PluginsAssumption DEF Under
<1> QED
  BY <1>1, FS_Subset, FS_CardinalityType

(* The balancers start with the weights they were given and no request.    *)
LEMMA LoadInit == Load!Init => Load!LoadInv
<1> SUFFICES ASSUME Load!Init PROVE Load!LoadInv
  OBVIOUS
<1>1. /\ balancer \in Load!Balancers /\ effective = Weights /\ upset = FALSE
      /\ task = [r \in Requests |-> [at |-> "idle", server |-> 0, from |-> {}]]
      /\ actives = IF balancer = "weightedLeastActive" THEN [s \in 1..Servers |-> 0] ELSE << >>
  BY DEF Load!Init, Load!Idle, Load!None
<1>2. urls \subseteq 1..Servers
  <2>1. Load!n = Servers
    <3>1. Cardinality(1..Servers) = Servers
      BY FS_Interval, ClusterAssumption
    <3> QED
      BY <3>1, LoadCounts DEF Load!n
  <2>2. 1..(Load!n - 1) \subseteq 1..Servers
    BY <2>1, ClusterAssumption
  <2> QED
    BY <2>2 DEF Load!Init
<1>3. /\ actives \in [DOMAIN actives -> Int] /\ DOMAIN actives \subseteq 1..Servers
      /\ balancer \notin Load!Counting => DOMAIN actives = {}
      /\ \A s \in DOMAIN actives : actives[s] = 0
  <2>1. CASE balancer = "weightedLeastActive"
    <3>1. actives = [s \in 1..Servers |-> 0] /\ balancer \in Load!Counting
      BY <1>1, <2>1 DEF Load!Counting
    <3> QED
      BY <3>1
  <2>2. CASE balancer # "weightedLeastActive"
    <3>1. actives = << >> /\ DOMAIN actives = {}
      BY <1>1, <2>2
    <3> QED
      BY <3>1
  <2> QED
    BY <2>1, <2>2
<1>4. effective \in [1..Servers -> Int] /\ \A s \in 1..Servers : effective[s] \in 0..Weights[s]
  BY <1>1, PluginsAssumption
<1>5. Load!Formed
  BY <1>1, <1>2, <1>3, <1>4, LoadParts
<1>6. Load!WeightsBounded
  BY <1>4 DEF Load!WeightsBounded
<1>7. Load!ActivesExact
  <2>1. \A s : Under(s) = {}
    BY <1>1 DEF Under
  <2> QED
    BY <1>3, <2>1, FS_EmptySet, ActivesParts
<1> QED
  BY <1>5, <1>6, <1>7 DEF Load!LoadInv

(* A request goes on, and the counters stay: it is not under way before    *)
(* the step, nor after it.                                                 *)
LEMMA TaskMoves ==
  ASSUME Load!LoadInv, NEW r \in Requests,
         NEW t \in [at : {"idle", "wrap", "calling", "looked"},
                    server : (1..Servers) \union {0}, from : SUBSET (1..Servers)],
         task' = [task EXCEPT ![r] = t], task[r].at # "active",
         IF balancer \in Load!Counting THEN t.at \in {"idle", "looked"} ELSE t.at \in {"idle", "wrap", "calling"},
         t.at \in {"wrap", "calling"} => t.server \in 1..Servers,
         UNCHANGED <<balancer, urls, effective, actives>>, upset' \in BOOLEAN, upset => upset'
  PROVE  Load!LoadInv'
<1> USE DEF Load!LoadInv
<1>1. t.at \in {"idle", "wrap", "calling", "looked"} /\ task \in [Requests -> [at : {"idle", "wrap", "calling", "looked", "active"},
                              server : (1..Servers) \union {0}, from : SUBSET (1..Servers)]]
  BY LoadParts
<1>2. task'[r] = t /\ \A q \in Requests \ {r} : task'[q] = task[q]
  BY <1>1
<1>3. task' \in [Requests -> [at : {"idle", "wrap", "calling", "looked", "active"},
                              server : (1..Servers) \union {0}, from : SUBSET (1..Servers)]]
  BY <1>1
<1>4. Load!Formed'
  BY <1>1, <1>2, <1>3, LoadParts, LoadPartsNext
<1>5. \A s : Under(s)' = Under(s)
  BY <1>1, <1>2 DEF Under
<1>6. Load!ActivesExact'
  BY <1>5, ActivesParts, ActivesPartsNext
<1> QED
  BY <1>4, <1>6 DEF Load!WeightsBounded

(* The choices, their wraps and the looks move a request and no counter.   *)
LEMMA ChoiceKeeps ==
  ASSUME Load!LoadInv, NEW r \in Requests,
         Load!Wrap(r) \/ Load!Look(r) \/ \E s \in 1..Servers : Load!Pick(r, s)
  PROVE  Load!LoadInv'
<1> USE DEF Load!LoadInv
<1>1. /\ task[r] \in [at : {"idle", "wrap", "calling", "looked", "active"},
                      server : (1..Servers) \union {0}, from : SUBSET (1..Servers)]
      /\ upset \in BOOLEAN /\ urls \subseteq 1..Servers
  BY LoadParts
<1>2. CASE Load!Wrap(r)
  <2>1. /\ task[r].at = "wrap" /\ task' = [task EXCEPT ![r] = [task[r] EXCEPT !.at = "calling"]]
        /\ UNCHANGED <<balancer, urls, effective, actives, upset>>
    BY <1>2 DEF Load!Wrap
  <2>2. balancer \notin Load!Counting /\ task[r].server \in 1..Servers
    BY <2>1, LoadParts
  <2>3. PICK t : t = [task[r] EXCEPT !.at = "calling"]
    OBVIOUS
  <2>4. /\ t \in [at : {"idle", "wrap", "calling", "looked"}, server : (1..Servers) \union {0}, from : SUBSET (1..Servers)]
        /\ t.at = "calling" /\ t.server = task[r].server
    BY <1>1, <2>3
  <2> QED
    BY <1>1, <2>1, <2>2, <2>3, <2>4, TaskMoves
<1>3. CASE Load!Look(r)
  <2>1. PICK from : from = Load!Least(actives, urls)
    OBVIOUS
  <2>2. PICK t : t = [Load!Idle EXCEPT !.at = "looked", !.from = from]
    OBVIOUS
  <2>3. /\ task[r] = Load!Idle /\ balancer \in Load!Counting /\ task' = [task EXCEPT ![r] = t]
        /\ UNCHANGED <<balancer, urls, effective, actives, upset>>
    BY <1>3, <2>1, <2>2 DEF Load!Look
  <2>4. from \in SUBSET (1..Servers)
    BY <1>1, <2>1 DEF Load!Least
  <2>5. task[r].at = "idle"
    BY <2>3 DEF Load!Idle
  <2>6. /\ t \in [at : {"idle", "wrap", "calling", "looked"}, server : (1..Servers) \union {0}, from : SUBSET (1..Servers)]
        /\ t.at = "looked"
    BY <2>2, <2>4 DEF Load!Idle
  <2> QED
    BY <1>1, <2>3, <2>5, <2>6, TaskMoves
<1>4. ASSUME NEW s \in 1..Servers, Load!Pick(r, s) PROVE Load!LoadInv'
  <2>1. PICK at \in {"wrap", "calling"} : task' = [task EXCEPT ![r] = [Load!Idle EXCEPT !.server = s, !.at = at]]
    BY <1>4 DEF Load!Pick
  <2>2. /\ task[r] = Load!Idle /\ balancer \notin Load!Counting
        /\ UNCHANGED <<balancer, urls, effective, actives>>
    BY <1>4 DEF Load!Pick
  <2>3. upset' = (upset \/ Load!Busy({"wrap"}))
    BY <1>4 DEF Load!Pick, Load!History
  <2>4. Load!Busy({"wrap"}) \in BOOLEAN
    BY DEF Load!Busy
  <2>5. upset' \in BOOLEAN /\ (upset => upset')
    BY <1>1, <2>3, <2>4
  <2>6. task[r].at = "idle"
    BY <2>2 DEF Load!Idle
  <2>7. PICK t : t = [Load!Idle EXCEPT !.server = s, !.at = at]
    OBVIOUS
  <2>8. /\ t \in [at : {"idle", "wrap", "calling", "looked"}, server : (1..Servers) \union {0}, from : SUBSET (1..Servers)]
        /\ t.at \in {"wrap", "calling"} /\ t.server = s
    BY <2>1, <2>7 DEF Load!Idle
  <2> QED
    BY <2>1, <2>2, <2>5, <2>6, <2>7, <2>8, TaskMoves
<1> QED
  BY <1>2, <1>3, <1>4

(* Grow: new counters are right if nothing is under way, and else upset.   *)
LEMMA GrowKeeps ==
  ASSUME Load!LoadInv, NEW r \in Requests, Load!Grow(r)
  PROVE  Load!LoadInv'
<1> USE DEF Load!LoadInv
<1>1. /\ balancer = "leastActive" /\ actives' = [s \in urls |-> 0]
      /\ upset' = (upset \/ Load!Busy({"active"}))
      /\ UNCHANGED <<balancer, urls, effective, task>>
  BY DEF Load!Grow
<1>2. balancer \in Load!Counting /\ Load!Busy({"active"}) \in BOOLEAN /\ upset' \in BOOLEAN
  BY <1>1, LoadParts DEF Load!Counting, Load!Busy
<1>3. actives' \in [DOMAIN actives' -> Int] /\ DOMAIN actives' = urls /\ \A s \in urls : actives'[s] = 0
  BY <1>1
<1>4. Load!Formed'
  BY <1>1, <1>2, <1>3, LoadParts, LoadPartsNext
<1>5. Load!ActivesExact'
  <2>1. ASSUME ~upset' PROVE \A s : Under(s)' = {}
    BY <1>1, <2>1 DEF Under, Load!Busy
  <2>2. ~upset' => \A s \in DOMAIN actives' : actives'[s] = Cardinality(Under(s)')
    BY <1>3, <2>1, FS_EmptySet
  <2> QED
    BY <1>1, <2>2, ActivesPartsNext
<1> QED
  BY <1>1, <1>4, <1>5 DEF Load!WeightsBounded

(* Begin counts the request with its server.                               *)
LEMMA BeginCounts ==
  ASSUME Load!LoadInv, NEW r \in Requests, NEW s \in 1..Servers, Load!Begin(r, s)
  PROVE  Load!LoadInv'
<1> USE DEF Load!LoadInv
<1>1. PICK t : t = [Load!Idle EXCEPT !.at = "active", !.server = s]
  OBVIOUS
<1>2. /\ task[r].at = "looked" /\ task' = [task EXCEPT ![r] = t]
      /\ actives' = [actives EXCEPT ![s] = actives[s] + 1]
      /\ UNCHANGED <<balancer, urls, effective, upset>>
  BY <1>1 DEF Load!Begin
<1>3. /\ t \in [at : {"idle", "wrap", "calling", "looked", "active"},
                server : (1..Servers) \union {0}, from : SUBSET (1..Servers)]
      /\ t.at = "active" /\ t.server = s
  BY <1>1 DEF Load!Idle
<1>4. balancer \in Load!Counting
  BY <1>2, LoadParts
<1>5. /\ task'[r] = t /\ \A q \in Requests \ {r} : task'[q] = task[q]
      /\ task' \in [Requests -> [at : {"idle", "wrap", "calling", "looked", "active"},
                                 server : (1..Servers) \union {0}, from : SUBSET (1..Servers)]]
  BY <1>2, <1>3, LoadParts
<1>6. /\ DOMAIN actives' = DOMAIN actives /\ actives' \in [DOMAIN actives' -> Int]
      /\ \A q \in DOMAIN actives : actives'[q] = IF q = s THEN actives[q] + 1 ELSE actives[q]
  <2>1. PICK D : D = DOMAIN actives
    OBVIOUS
  <2>2. actives \in [D -> Int]
    BY <2>1, LoadParts
  <2>3. actives' \in [D -> Int] /\ \A q \in D : actives'[q] = IF q = s THEN actives[q] + 1 ELSE actives[q]
    <3>1. CASE s \in D
      BY <1>2, <2>2, <3>1
    <3>2. CASE s \notin D
      <4>1. actives' = actives
        BY <1>2, <2>2, <3>2
      <4> QED
        BY <1>2, <2>2, <3>2, <4>1
    <3> QED
      BY <3>1, <3>2
  <2>4. DOMAIN actives' = D
    BY <2>3
  <2> QED
    BY <2>1, <2>3, <2>4
<1>7. Load!Formed'
  BY <1>2, <1>3, <1>4, <1>5, <1>6, LoadParts, LoadPartsNext
<1>8. Under(s)' = Under(s) \union {r} /\ r \notin Under(s)
  BY <1>2, <1>3, <1>5 DEF Under
<1>9. \A q : q # s => Under(q)' = Under(q)
  BY <1>2, <1>3, <1>5 DEF Under
<1>10. Cardinality(Under(s)') = Cardinality(Under(s)) + 1
  BY <1>8, UnderIsFinite, FS_AddElement
<1>11. Load!ActivesExact'
  <2>1. ASSUME ~upset \/ balancer = "weightedLeastActive", NEW q \in DOMAIN actives
        PROVE  actives'[q] = Cardinality(Under(q)')
    BY <1>6, <1>9, <1>10, <2>1, ActivesParts
  <2> QED
    BY <1>2, <1>6, <2>1, ActivesPartsNext
<1> QED
  BY <1>2, <1>7, <1>11 DEF Load!WeightsBounded

(* End: the request is no longer active, and a weight moves by one, within *)
(* its bounds.                                                             *)
LEMMA EndCounts ==
  ASSUME Load!LoadInv, NEW r \in Requests, Load!End(r)
  PROVE  Load!LoadInv'
<1> USE DEF Load!LoadInv
<1>1. PICK s : s = task[r].server
  OBVIOUS
<1>2. PICK ok \in BOOLEAN : Load!Weigh(s, ok) /\ upset' = (upset \/ (~ok /\ balancer \in Load!Adaptive))
  BY <1>1 DEF Load!End
<1>3. /\ task[r].at \in {"calling", "active"} /\ task' = [task EXCEPT ![r] = Load!Idle]
      /\ actives' = IF balancer \in Load!Counting THEN [actives EXCEPT ![s] = @ - 1] ELSE actives
      /\ UNCHANGED <<balancer, urls>>
  BY <1>1 DEF Load!End
<1>4. s \in 1..Servers
  BY <1>1, <1>3, LoadParts
<1>5. /\ effective' \in [1..Servers -> Int] /\ \A q \in 1..Servers : effective'[q] \in 0..Weights[q]
  <2>1. effective \in [1..Servers -> Int] /\ \A q \in 1..Servers : effective[q] \in 0..Weights[q] /\ Weights[q] \in Nat
    BY LoadParts, PluginsAssumption DEF Load!WeightsBounded
  <2>2. PICK w \in 0..Weights[s] : effective' = effective \/ effective' = [effective EXCEPT ![s] = w]
    <3>1. effective[s] \in 0..Weights[s] /\ Weights[s] \in Nat
      BY <1>4, <2>1
    <3>2. CASE balancer \notin Load!Adaptive
      BY <1>2, <3>1, <3>2 DEF Load!Weigh
    <3>3. CASE balancer \in Load!Adaptive /\ ok
      <4>1. effective' = [effective EXCEPT ![s] = IF effective[s] < Weights[s] THEN effective[s] + 1 ELSE effective[s]]
        BY <1>2, <3>3 DEF Load!Weigh
      <4>2. (IF effective[s] < Weights[s] THEN effective[s] + 1 ELSE effective[s]) \in 0..Weights[s]
        BY <3>1
      <4> QED
        BY <4>1, <4>2
    <3>4. CASE balancer \in Load!Adaptive /\ ~ok
      <4>1. effective' = [effective EXCEPT ![s] = IF effective[s] > 0 THEN effective[s] - 1 ELSE effective[s]]
        BY <1>2, <3>4 DEF Load!Weigh
      <4>2. (IF effective[s] > 0 THEN effective[s] - 1 ELSE effective[s]) \in 0..Weights[s]
        BY <3>1
      <4> QED
        BY <4>1, <4>2
    <3> QED
      BY <3>2, <3>3, <3>4
  <2>3. CASE effective' = [effective EXCEPT ![s] = w]
    <3>1. w \in Int
      BY <1>4, <2>1, <2>2
    <3>2. effective' \in [1..Servers -> Int] /\ \A q \in 1..Servers : effective'[q] = IF q = s THEN w ELSE effective[q]
      BY <1>4, <2>1, <2>3, <3>1
    <3> QED
      BY <2>1, <2>2, <3>2
  <2>4. CASE effective' = effective
    BY <2>1, <2>4
  <2> QED
    BY <2>2, <2>3, <2>4
<1>6. upset' \in BOOLEAN /\ (upset => upset')
  BY <1>2, LoadParts DEF Load!Adaptive
<1>7. /\ Load!Idle.at = "idle"
      /\ Load!Idle \in [at : {"idle", "wrap", "calling", "looked", "active"},
                        server : (1..Servers) \union {0}, from : SUBSET (1..Servers)]
  BY DEF Load!Idle
<1>8. /\ task'[r] = Load!Idle /\ \A q \in Requests \ {r} : task'[q] = task[q]
      /\ task' \in [Requests -> [at : {"idle", "wrap", "calling", "looked", "active"},
                                 server : (1..Servers) \union {0}, from : SUBSET (1..Servers)]]
  BY <1>3, <1>7, LoadParts
<1>9. /\ DOMAIN actives' = DOMAIN actives /\ actives' \in [DOMAIN actives' -> Int]
      /\ balancer \in Load!Counting =>
           \A q \in DOMAIN actives : actives'[q] = IF q = s THEN actives[q] - 1 ELSE actives[q]
      /\ balancer \notin Load!Counting => DOMAIN actives' = {}
  <2>1. PICK D : D = DOMAIN actives
    OBVIOUS
  <2>2. actives \in [D -> Int] /\ (balancer \notin Load!Counting => D = {})
    BY <2>1, LoadParts
  <2>3. CASE balancer \in Load!Counting
    <3>1. actives' = [actives EXCEPT ![s] = actives[s] - 1]
      BY <1>3, <2>3
    <3>2. actives' \in [D -> Int] /\ \A q \in D : actives'[q] = IF q = s THEN actives[q] - 1 ELSE actives[q]
      <4>1. CASE s \in D
        BY <2>2, <3>1, <4>1
      <4>2. CASE s \notin D
        <5>1. actives' = actives
          BY <2>2, <3>1, <4>2
        <5> QED
          BY <2>2, <3>1, <4>2, <5>1
      <4> QED
        BY <4>1, <4>2
    <3>3. DOMAIN actives' = D
      BY <3>2
    <3> QED
      BY <2>1, <2>3, <3>2, <3>3
  <2>4. CASE balancer \notin Load!Counting
    BY <1>3, <2>1, <2>2, <2>4
  <2> QED
    BY <2>3, <2>4
<1>10. Load!Formed'
  BY <1>3, <1>5, <1>6, <1>7, <1>8, <1>9, LoadParts, LoadPartsNext
<1>11. Load!WeightsBounded'
  BY <1>5 DEF Load!WeightsBounded
<1>12. Load!ActivesExact'
  <2>1. CASE balancer \in Load!Counting
    <3>1. task[r].at = "active"
      BY <1>3, <2>1, LoadParts
    <3>2. Under(s)' = Under(s) \ {r} /\ r \in Under(s)
      BY <1>1, <1>7, <1>8, <3>1 DEF Under
    <3>3. \A q : q # s => Under(q)' = Under(q)
      BY <1>1, <1>7, <1>8 DEF Under
    <3>4. Cardinality(Under(s)') = Cardinality(Under(s)) - 1
      BY <3>2, UnderIsFinite, FS_RemoveElement
    <3>5. ASSUME ~upset \/ balancer = "weightedLeastActive", NEW q \in DOMAIN actives
          PROVE  actives'[q] = Cardinality(Under(q)')
      BY <1>9, <2>1, <3>3, <3>4, <3>5, ActivesParts
    <3> QED
      BY <1>3, <1>6, <1>9, <3>5, ActivesPartsNext
  <2>2. CASE balancer \notin Load!Counting
    BY <1>9, <2>2, ActivesPartsNext
  <2> QED
    BY <2>1, <2>2
<1> QED
  BY <1>10, <1>11, <1>12

(* LoadInv is inductive.                                                   *)
LEMMA LoadStep == Load!LoadInv /\ [Load!Next]_Load!bvars => Load!LoadInv'
<1> SUFFICES ASSUME Load!LoadInv, [Load!Next]_Load!bvars PROVE Load!LoadInv'
  OBVIOUS
<1>1. CASE Load!Extend
  <2>1. urls' = 1..Servers /\ UNCHANGED <<balancer, effective, actives, task, upset>>
    BY <1>1 DEF Load!Extend
  <2>2. Load!Formed'
    BY <2>1, LoadParts, LoadPartsNext DEF Load!LoadInv
  <2> QED
    BY <2>1, <2>2 DEF Load!LoadInv, Load!WeightsBounded, Load!ActivesExact
<1>2. ASSUME NEW r \in Requests, Load!Wrap(r) \/ Load!Look(r) \/ \E s \in 1..Servers : Load!Pick(r, s)
      PROVE  Load!LoadInv'
  BY <1>2, ChoiceKeeps
<1>3. ASSUME NEW r \in Requests, Load!Grow(r) PROVE Load!LoadInv'
  BY <1>3, GrowKeeps
<1>4. ASSUME NEW r \in Requests, NEW s \in 1..Servers, Load!Begin(r, s) PROVE Load!LoadInv'
  BY <1>4, BeginCounts
<1>5. ASSUME NEW r \in Requests, Load!End(r) PROVE Load!LoadInv'
  BY <1>5, EndCounts
<1>6. CASE UNCHANGED Load!bvars
  <2>1. UNCHANGED <<balancer, urls, effective, actives, task, upset>>
    BY <1>6 DEF Load!bvars
  <2>2. Load!Formed'
    BY <2>1, LoadParts, LoadPartsNext DEF Load!LoadInv
  <2> QED
    BY <2>1, <2>2 DEF Load!LoadInv, Load!WeightsBounded, Load!ActivesExact
<1> QED
  BY <1>1, <1>2, <1>3, <1>4, <1>5, <1>6 DEF Load!Next

(* The effective weight of a server stays between 0 and its weight, and    *)
(* the counters of the least active balancers are the requests under way,  *)
(* unless a list that grew under running requests upset them: two of the   *)
(* four parts of LoadBalanced (plugins/loadbalance).                       *)
THEOREM ServersAreCounted == Load!Spec => [](Load!WeightsBounded /\ Load!ActivesExact)
<1>1. Load!LoadInv => Load!WeightsBounded /\ Load!ActivesExact
  BY DEF Load!LoadInv
<1> QED
  BY <1>1, LoadInit, LoadStep, PTL DEF Load!Spec

-----------------------------------------------------------------------------
(* The rounds: RoundInv                                                    *)

(* RoundInv, spelled out. *)
LEMMA RoundParts ==
  Load!RoundInv <=>
    /\ picks \in [1..Servers -> Nat] /\ picked \in 0..MaxPicks
    /\ Load!RoundRobinRound /\ Load!WeightedRound /\ Load!NginxRound /\ Load!Elsewhere
  BY DEF Load!RoundInv

(* The same after a step.                                                  *)
LEMMA RoundPartsNext ==
  Load!RoundInv' <=>
    /\ picks' \in [1..Servers -> Nat] /\ picked' \in 0..MaxPicks
    /\ Load!RoundRobinRound' /\ Load!WeightedRound' /\ Load!NginxRound' /\ Load!Elsewhere'
  BY DEF Load!RoundInv

(* RoundRobinRound, in terms of Servers.                                   *)
LEMMA RobinParts ==
  Load!RoundRobinRound <=>
    (balancer = "roundRobin" =>
      /\ position \in -1..(Servers - 1 + Cardinality(Load!Wraps))
      /\ Servers = 1 => position = -1 /\ Load!Wraps = {}
      /\ ~upset =>
           /\ position <= Servers
           /\ position = Servers => \E r \in Requests : Load!Wraps = {r}
           /\ position # Servers => Load!Wraps = {}
           /\ picks = [s \in 1..Servers |->
                IF position # Servers - 1 /\ s <= IF position = Servers THEN 1 ELSE position + 1 THEN 1 ELSE 0])
  BY SizeIs DEF Load!RoundRobinRound, Load!Cardinality, Cardinality

(* The same after a step.                                                  *)
LEMMA RobinPartsNext ==
  Load!RoundRobinRound' <=>
    (balancer' = "roundRobin" =>
      /\ position' \in -1..(Servers - 1 + Cardinality(Load!Wraps'))
      /\ Servers = 1 => position' = -1 /\ Load!Wraps' = {}
      /\ ~upset' =>
           /\ position' <= Servers
           /\ position' = Servers => \E r \in Requests : Load!Wraps' = {r}
           /\ position' # Servers => Load!Wraps' = {}
           /\ picks' = [s \in 1..Servers |->
                IF position' # Servers - 1 /\ s <= IF position' = Servers THEN 1 ELSE position' + 1 THEN 1 ELSE 0])
  BY SizeIs DEF Load!RoundRobinRound, Load!Cardinality, Cardinality, Load!n

(* There are finitely many of them.                                        *)
LEMMA WrapsAreFinite == IsFiniteSet(Load!Wraps) /\ Cardinality(Load!Wraps) \in Nat /\ (Cardinality(Load!Wraps))' \in Nat
<1>1. Load!Wraps \in SUBSET Requests /\ Load!Wraps' \in SUBSET Requests /\ IsFiniteSet(Requests)
  BY PluginsAssumption DEF Load!Wraps
<1> QED
  BY <1>1, FS_Subset, FS_CardinalityType

(* What a step leaves alone stays in its round.                            *)
LEMMA StandsStill ==
  ASSUME Load!RoundInv, UNCHANGED <<balancer, position, level, current, picks>>, Load!Wraps' = Load!Wraps,
         upset' \in BOOLEAN, upset => upset', picked' \in 0..MaxPicks,
         balancer = "nginx" /\ ~upset' => effective' = effective
  PROVE  Load!RoundInv'
<1>1. Load!RoundRobinRound'
  BY RoundParts, RobinParts, RobinPartsNext
<1>2. Load!WeightedRound' /\ Load!NginxRound' /\ Load!Elsewhere'
  BY DEF Load!RoundInv, Load!WeightedRound, Load!NginxRound, Load!Elsewhere, Load!Fair, Load!n
<1> QED
  BY <1>1, <1>2, RoundParts, RoundPartsNext

(* What History does with the picks of the round.                          *)
LEMMA HistoryIs ==
  ASSUME NEW s \in 1..Servers, picks \in [1..Servers -> Nat],
         NEW new, new = [picks EXCEPT ![s] = picks[s] + 1], NEW d, Load!History(s, d)
  PROVE  /\ new \in [1..Servers -> Nat] /\ \A t \in 1..Servers : new[t] = IF t = s THEN picks[t] + 1 ELSE picks[t]
         /\ picked' = picked + 1 /\ upset' = (upset \/ d)
         /\ picks' = IF upset' \/ balancer \notin Load!Fair \/ \A t \in 1..Servers : new[t] = Load!Share(t)
                     THEN Load!None ELSE new
  BY DEF Load!History

(* The picks of a pick are typed.                                          *)
LEMMA PicksTyped ==
  ASSUME Load!RoundInv, NEW r \in Requests, NEW s \in 1..Servers, Load!Pick(r, s)
  PROVE  picks' \in [1..Servers -> Nat] /\ picked' \in 0..MaxPicks
<1>1. PICK new : new = [picks EXCEPT ![s] = picks[s] + 1]
  OBVIOUS
<1>2. picks \in [1..Servers -> Nat] /\ picked \in 0..MaxPicks /\ picked < MaxPicks /\ Load!History(s, Load!Busy({"wrap"}))
  BY RoundParts DEF Load!Pick
<1>3. new \in [1..Servers -> Nat] /\ picks' \in {new, Load!None} /\ picked' = picked + 1
  BY <1>1, <1>2, HistoryIs
<1>4. Load!None \in [1..Servers -> Nat]
  BY DEF Load!None
<1> QED
  BY <1>2, <1>3, <1>4, PluginsAssumption

(* What a pick does to the requests that are about to set the index back.  *)
LEMMA PickWraps ==
  ASSUME Load!Formed, NEW r \in Requests, NEW s \in 1..Servers, Load!Pick(r, s)
  PROVE  /\ r \notin Load!Wraps
         /\ Load!Wraps' = IF balancer = "roundRobin" /\ position' >= Servers THEN Load!Wraps \union {r} ELSE Load!Wraps
         /\ Load!Busy({"wrap"}) <=> Load!Wraps # {}
<1>1. PICK at \in {"wrap", "calling"} :
        /\ at = IF balancer = "roundRobin" /\ position' >= Servers THEN "wrap" ELSE "calling"
        /\ task' = [task EXCEPT ![r] = [Load!Idle EXCEPT !.server = s, !.at = at]]
  BY SizeIs DEF Load!Pick
<1>2. PICK t : t = [Load!Idle EXCEPT !.server = s, !.at = at]
  OBVIOUS
<1>3. t.at = at /\ task[r].at = "idle"
  BY <1>2 DEF Load!Idle, Load!Pick
<1>4. task'[r] = t /\ \A q \in Requests : q # r => task'[q] = task[q]
  <2>1. PICK F : task \in [Requests -> F]
    BY DEF Load!Formed
  <2> QED
    BY <1>1, <1>2, <2>1
<1> QED
  BY <1>1, <1>3, <1>4 DEF Load!Wraps, Load!Busy

(* A pick of roundRobin goes to the next server, and starts the round      *)
(* again after the last; past the end only as far as requests are about    *)
(* to set the index back.                                                  *)
LEMMA RobinPick ==
  ASSUME Load!Formed, Load!RoundInv, balancer = "roundRobin",
         NEW r \in Requests, NEW s \in 1..Servers, Load!Pick(r, s)
  PROVE  Load!RoundRobinRound'
<1>1. /\ balancer' = "roundRobin" /\ Load!RoundRobin(s) /\ Load!History(s, Load!Busy({"wrap"}))
      /\ upset \in BOOLEAN
  BY DEF Load!Pick, Load!Choice, Load!Formed
<1>2. PICK w \in Nat, v \in Nat : w = Cardinality(Load!Wraps) /\ v = Cardinality(Load!Wraps)'
  BY WrapsAreFinite
<1>3. /\ picks \in [1..Servers -> Nat]
      /\ position \in -1..(Servers - 1 + w)
      /\ Servers = 1 => position = -1 /\ Load!Wraps = {}
      /\ ~upset =>
           /\ position <= Servers
           /\ position = Servers => \E q \in Requests : Load!Wraps = {q}
           /\ position # Servers => Load!Wraps = {}
           /\ picks = [t \in 1..Servers |->
                IF position # Servers - 1 /\ t <= IF position = Servers THEN 1 ELSE position + 1 THEN 1 ELSE 0]
  BY <1>2, RoundParts, RobinParts
<1>4. PICK new : new = [picks EXCEPT ![s] = picks[s] + 1]
  OBVIOUS
<1>5. /\ new \in [1..Servers -> Nat] /\ \A t \in 1..Servers : new[t] = IF t = s THEN picks[t] + 1 ELSE picks[t]
      /\ upset' = (upset \/ Load!Busy({"wrap"}))
      /\ picks' = IF upset' \/ \A t \in 1..Servers : new[t] = 1 THEN [t \in 1..Servers |-> 0] ELSE new
  <2>1. \A t : Load!Share(t) = 1
    BY DEF Load!Share
  <2>2. balancer \in Load!Fair /\ Load!None = [t \in 1..Servers |-> 0]
    BY DEF Load!Fair, Load!None
  <2>3. /\ new \in [1..Servers -> Nat] /\ \A t \in 1..Servers : new[t] = IF t = s THEN picks[t] + 1 ELSE picks[t]
        /\ picked' = picked + 1 /\ upset' = (upset \/ Load!Busy({"wrap"}))
        /\ picks' = IF upset' \/ balancer \notin Load!Fair \/ \A t \in 1..Servers : new[t] = Load!Share(t)
                    THEN Load!None ELSE new
    BY <1>1, <1>3, <1>4, HistoryIs
  <2> QED
    BY <2>1, <2>2, <2>3
<1>6. ASSUME ~upset' PROVE ~upset /\ Load!Wraps = {} /\ position < Servers
  <2>1. ~upset /\ Load!Wraps = {}
    BY <1>1, <1>5, <1>6, PickWraps
  <2>2. position # Servers
    BY <1>3, <2>1
  <2> QED
    BY <1>3, <2>1, <2>2, ServersAreFinite
<1>7. CASE Servers = 1
  <2>1. position' = -1 /\ s = 1 /\ position = -1 /\ Load!Wraps = {}
    BY <1>1, <1>3, <1>7, SizeIs DEF Load!RoundRobin
  <2>2. Load!Wraps' = Load!Wraps
    BY <1>7, <2>1, PickWraps
  <2>3. ~upset' => picks' = [t \in 1..Servers |-> 0]
    <3> SUFFICES ASSUME ~upset' PROVE \A t \in 1..Servers : new[t] = 1
      BY <1>5
    <3>1. \A t \in 1..Servers : t = 1 /\ picks[t] = 0
      BY <1>3, <1>6, <1>7, <2>1
    <3> QED
      BY <1>5, <2>1, <3>1
  <2>4. \A t \in 1..Servers : t <= -1 + 1 <=> FALSE
    BY <1>7
  <2>5. ~upset' => picks' = [t \in 1..Servers |->
                IF position' # Servers - 1 /\ t <= IF position' = Servers THEN 1 ELSE position' + 1 THEN 1 ELSE 0]
    BY <1>7, <2>1, <2>3
  <2> QED
    BY <1>2, <1>6, <1>7, <2>1, <2>2, <2>5, RobinPartsNext, WrapsAreFinite
<1>8. CASE Servers # 1
  <2>1. Servers \in Nat /\ Servers > 1
    BY <1>8, ServersAreFinite
  <2>2. position' = position + 1 /\ s = IF position + 1 < Servers THEN position + 2 ELSE 1
    BY <1>1, <2>1, SizeIs DEF Load!RoundRobin
  <2>3. position' \in -1..(Servers - 1 + v)
    <3>1. CASE position' >= Servers
      <4>1. Load!Wraps' = Load!Wraps \union {r} /\ r \notin Load!Wraps
        BY <3>1, PickWraps
      <4>2. v = w + 1
        BY <1>2, <4>1, WrapsAreFinite, FS_AddElement
      <4> QED
        BY <1>3, <2>1, <2>2, <4>2
    <3>2. CASE ~(position' >= Servers)
      BY <1>3, <2>1, <2>2, <3>2
    <3> QED
      BY <3>1, <3>2
  <2>4. ASSUME ~upset'
        PROVE  /\ position' <= Servers
               /\ position' = Servers => \E q \in Requests : Load!Wraps' = {q}
               /\ position' # Servers => Load!Wraps' = {}
    <3>1. position' <= Servers
      BY <1>3, <1>6, <2>1, <2>2, <2>4
    <3> QED
      BY <1>3, <1>6, <2>1, <2>2, <2>4, <3>1, PickWraps
  <2>5. ASSUME ~upset'
        PROVE  picks' = [t \in 1..Servers |->
                IF position' # Servers - 1 /\ t <= IF position' = Servers THEN 1 ELSE position' + 1 THEN 1 ELSE 0]
    <3>1. position < Servers /\ \A t \in 1..Servers :
            picks[t] = IF position # Servers - 1 /\ t <= position + 1 THEN 1 ELSE 0
      BY <1>3, <1>6, <2>1, <2>5
    <3>2. CASE position = Servers - 2
      <4>1. \A t \in 1..Servers : new[t] = 1
        BY <1>3, <1>5, <2>1, <2>2, <3>1, <3>2
      <4>2. picks' = [t \in 1..Servers |-> 0]
        BY <1>5, <4>1
      <4> QED
        BY <2>1, <2>2, <3>2, <4>2
    <3>3. CASE position # Servers - 2
      <4>1. new[Servers] = 0 /\ Servers \in 1..Servers
        BY <1>3, <1>5, <2>1, <2>2, <3>1, <3>3
      <4>2. picks' = new
        BY <1>5, <2>5, <4>1
      <4>3. ASSUME NEW t \in 1..Servers
            PROVE  new[t] = IF position' # Servers - 1 /\ t <= IF position' = Servers THEN 1 ELSE position' + 1 THEN 1 ELSE 0
        <5>1. CASE position = Servers - 1
          BY <1>5, <2>1, <2>2, <3>1, <5>1
        <5>2. CASE position # Servers - 1
          BY <1>3, <1>5, <2>1, <2>2, <3>1, <3>3, <5>2
        <5> QED
          BY <5>1, <5>2
      <4> QED
        BY <1>5, <4>2, <4>3
    <3> QED
      BY <3>2, <3>3
  <2> QED
    BY <1>2, <1>8, <2>3, <2>4, <2>5, RobinPartsNext
<1> QED
  BY <1>7, <1>8

(* Setting the index back leaves roundRobin where it was, at the first     *)
(* server of a round; if another request has picked in between, the        *)
(* round is upset.                                                         *)
LEMMA RobinWrap ==
  ASSUME Load!Formed, Load!RoundInv, NEW r \in Requests, Load!Wrap(r)
  PROVE  Load!RoundInv'
<1>1. /\ task[r].at = "wrap" /\ position' = 0 /\ task' = [task EXCEPT ![r].at = "calling"]
      /\ UNCHANGED <<balancer, level, current, effective, picks, picked, upset>>
  BY DEF Load!Wrap
<1>2. Load!Wraps' = Load!Wraps \ {r} /\ r \in Load!Wraps
  <2>1. PICK F \in {[at : {"idle", "wrap", "calling", "looked", "active"},
                              server : (1..Servers) \union {0}, from : SUBSET (1..Servers)]} : task \in [Requests -> F]
    BY DEF Load!Formed
  <2>2. task'[r].at = "calling" /\ \A q \in Requests : q # r => task'[q] = task[q]
    BY <1>1, <2>1
  <2> QED
    BY <1>1, <2>2 DEF Load!Wraps
<1>3. balancer = "roundRobin"
  BY <1>2 DEF Load!RoundInv, Load!Elsewhere
<1>4. PICK w \in Nat, v \in Nat : w = Cardinality(Load!Wraps) /\ v = Cardinality(Load!Wraps)'
  BY WrapsAreFinite
<1>5. v = w - 1
  BY <1>2, <1>4, WrapsAreFinite, FS_RemoveElement
<1>6. /\ position \in -1..(Servers - 1 + w)
      /\ Servers = 1 => position = -1 /\ Load!Wraps = {}
      /\ ~upset =>
           /\ position <= Servers
           /\ position = Servers => \E q \in Requests : Load!Wraps = {q}
           /\ position # Servers => Load!Wraps = {}
           /\ picks = [t \in 1..Servers |->
                IF position # Servers - 1 /\ t <= IF position = Servers THEN 1 ELSE position + 1 THEN 1 ELSE 0]
  BY <1>3, <1>4, RoundParts, RobinParts
<1>7. Servers \in Nat \ {0}
  BY ServersAreFinite
<1>8. Servers > 1
  BY <1>2, <1>6, <1>7
<1>9. ASSUME ~upset PROVE position = Servers /\ Load!Wraps' = {}
  BY <1>2, <1>6, <1>9
<1>10. ASSUME ~upset
       PROVE  picks = [t \in 1..Servers |-> IF 0 # Servers - 1 /\ t <= IF 0 = Servers THEN 1 ELSE 0 + 1 THEN 1 ELSE 0]
  <2>1. \A t \in 1..Servers : (t <= 1) <=> (t <= 0 + 1)
    BY <1>7
  <2> QED
    BY <1>6, <1>7, <1>8, <1>9, <1>10, <2>1
<1>11. Load!RoundRobinRound'
  BY <1>1, <1>3, <1>4, <1>5, <1>6, <1>7, <1>8, <1>9, <1>10, RobinPartsNext
<1>12. Load!WeightedRound' /\ Load!NginxRound' /\ Load!Elsewhere'
  BY <1>1, <1>3 DEF Load!WeightedRound, Load!NginxRound, Load!Elsewhere, Load!RoundInv, Load!Fair
<1> QED
  BY <1>1, <1>11, <1>12, RoundParts, RoundPartsNext

(* NginxRound, in terms of totals, and the same after a step.              *)
LEMMA NginxParts ==
  Load!NginxRound <=>
    (balancer = "nginx" =>
      /\ current \in [1..Servers -> Int] /\ Total(current) = 0
      /\ ~upset =>
           /\ effective = Weights /\ Total(picks) < Total(Weights)
           /\ \A s \in 1..Servers :
                picks[s] <= Weights[s] /\ current[s] = Total(picks) * Weights[s] - Total(Weights) * picks[s])
  BY DEF Load!NginxRound, Total

(* The same after a step.                                                  *)
LEMMA NginxPartsNext ==
  Load!NginxRound' <=>
    (balancer' = "nginx" =>
      /\ current' \in [1..Servers -> Int] /\ Total(current') = 0
      /\ ~upset' =>
           /\ effective' = Weights /\ Total(picks') < Total(Weights)
           /\ \A s \in 1..Servers :
                picks'[s] <= Weights[s] /\ current'[s] = Total(picks') * Weights[s] - Total(Weights) * picks'[s])
  BY DEF Load!NginxRound, Total, Load!Sum, Load!FoldFunctionOnSet, Load!MapThenFoldSet

(* The weights have a positive total.                                      *)
LEMMA WeightsAddUp == Total(Weights) \in Nat \ {0} /\ Weights \in [1..Servers -> Int] /\ \A s \in 1..Servers : Weights[s] > 0
<1>1. Weights \in [1..Servers -> Int] /\ \A s \in 1..Servers : Weights[s] > 0
  BY WeightsPositive
<1>2. PICK h : h = Load!None
  OBVIOUS
<1>3. h \in [1..Servers -> Int] /\ Total(h) = 0 /\ \A t \in 1..Servers : h[t] = 0
  BY <1>2, TotalOfNone
<1>4. \A s \in 1..Servers : h[s] <= Weights[s]
  BY <1>1, <1>3
<1>5. Total(h) <= Total(Weights) /\ (Total(h) = Total(Weights) => \A s \in 1..Servers : h[s] = Weights[s])
  BY <1>1, <1>3, <1>4, TotalOrdered
<1>6. 1 \in 1..Servers /\ Total(Weights) \in Int
  BY <1>1, ServersAreFinite, TotalIs
<1> QED
  BY <1>1, <1>3, <1>5, <1>6

(* If not all of a function adds up to nothing, it is positive somewhere.  *)
LEMMA TotalPositive ==
  ASSUME NEW f \in [1..Servers -> Int], Total(f) > 0
  PROVE  \E s \in 1..Servers : f[s] > 0
<1> SUFFICES ASSUME \A s \in 1..Servers : f[s] <= 0 PROVE FALSE
  OBVIOUS
<1>1. PICK h : h = Load!None
  OBVIOUS
<1>2. h \in [1..Servers -> Int] /\ Total(h) = 0 /\ \A t \in 1..Servers : h[t] = 0
  BY <1>1, TotalOfNone
<1>3. \A s \in 1..Servers : f[s] <= h[s]
  BY <1>2
<1>4. Total(f) <= Total(h) /\ Total(f) \in Int
  BY <1>2, <1>3, TotalOrdered, TotalIs
<1> QED
  BY <1>2, <1>4

(* Nobody is ahead of its share when it is chosen with more than nothing   *)
(* owed to it.                                                             *)
LEMMA NotAhead ==
  ASSUME NEW w \in Nat \ {0}, NEW p \in Nat, NEW total \in Nat \ {0}, NEW done \in Nat,
         done < total, (done + 1) * w - total * p > 0
  PROVE  p < w
<1>1. (done + 1) * w <= total * w
  <2>1. \A a, b, c \in Nat : a <= b => a * c <= b * c
    OBVIOUS
  <2> QED
    BY <2>1
<1>2. PICK x \in Int, y \in Int, z \in Int : x = (done + 1) * w /\ y = total * p /\ z = total * w
  OBVIOUS
<1>3. y < z
  BY <1>1, <1>2
<1>4. \A a, b \in Nat : \A c \in Nat \ {0} : c * a < c * b => a < b
  OBVIOUS
<1> QED
  BY <1>2, <1>3, <1>4

(* What a server is owed after one pick more.                              *)
LEMMA Owed ==
  ASSUME NEW w \in Int, NEW p \in Int, NEW total \in Int, NEW done \in Int
  PROVE  /\ (done * w - total * p) + w = (done + 1) * w - total * p
         /\ ((done * w - total * p) + w) - total = (done + 1) * w - total * (p + 1)
  OBVIOUS

(* A pick of nginx raises all current weights by as much as it takes       *)
(* from the one chosen; before the round is upset, nobody is chosen more   *)
(* often than its weight, and when the picks are as many as the weights,   *)
(* each server has its own.                                                *)
LEMMA NginxPick ==
  ASSUME Load!Formed, Load!RoundInv, balancer = "nginx",
         NEW r \in Requests, NEW s \in 1..Servers, Load!Pick(r, s)
  PROVE  Load!NginxRound'
<1>1. /\ balancer' = "nginx" /\ effective' = effective /\ Load!Nginx(s) /\ Load!History(s, Load!Busy({"wrap"}))
      /\ upset \in BOOLEAN /\ effective \in [1..Servers -> Int]
  BY DEF Load!Pick, Load!Choice, Load!Formed
<1>2. PICK total \in Int : total = Total(effective)
  BY <1>1, TotalIs
<1>3. PICK raised : raised = [t \in 1..Servers |-> current[t] + effective[t]]
  OBVIOUS
<1>4. IF total > 0
      THEN /\ \A t \in 1..Servers : raised[t] < raised[s] \/ (raised[t] = raised[s] /\ s <= t)
           /\ current' = [raised EXCEPT ![s] = raised[s] - total]
      ELSE current' = current
  BY <1>1, <1>2, <1>3 DEF Load!Nginx, Total
<1>5. /\ picks \in [1..Servers -> Nat] /\ current \in [1..Servers -> Int] /\ Total(current) = 0
      /\ ~upset =>
           /\ effective = Weights /\ Total(picks) < Total(Weights)
           /\ \A t \in 1..Servers :
                picks[t] <= Weights[t] /\ current[t] = Total(picks) * Weights[t] - Total(Weights) * picks[t]
  BY RoundParts, NginxParts
<1>6. raised \in [1..Servers -> Int] /\ Total(raised) = total
  <2>1. raised \in [1..Servers -> Int] /\ \A t \in 1..Servers : raised[t] = current[t] + effective[t]
    BY <1>1, <1>3, <1>5
  <2>2. Total(raised) = Total(current) + Total(effective)
    BY <1>1, <1>5, <2>1, TotalAdds
  <2> QED
    BY <1>2, <1>5, <2>1, <2>2
<1>7. current' \in [1..Servers -> Int] /\ Total(current') = 0
  <2>1. CASE total > 0
    <3>1. PICK new : new = current'
      OBVIOUS
    <3>2. PICK d \in Int : d = -total
      OBVIOUS
    <3>3. /\ new \in [1..Servers -> Int] /\ new[s] = raised[s] + d
          /\ \A t \in 1..Servers : t # s => new[t] = raised[t]
      BY <1>4, <1>6, <2>1, <3>1, <3>2
    <3>4. Total(new) = Total(raised) + d
      BY <1>6, <3>3, TotalMoves
    <3>5. Total(new) = 0
      BY <1>6, <3>2, <3>4
    <3>6. Total(current') = Total(new)
      BY <3>1 DEF Total, Load!Sum, Load!FoldFunctionOnSet, Load!MapThenFoldSet
    <3> QED
      BY <3>1, <3>3, <3>5, <3>6
  <2>2. CASE ~(total > 0)
    BY <1>4, <1>5, <2>2 DEF Total, Load!Sum, Load!FoldFunctionOnSet, Load!MapThenFoldSet
  <2> QED
    BY <2>1, <2>2
<1>8. PICK new : new = [picks EXCEPT ![s] = picks[s] + 1]
  OBVIOUS
<1>9. /\ new \in [1..Servers -> Nat] /\ \A t \in 1..Servers : new[t] = IF t = s THEN picks[t] + 1 ELSE picks[t]
      /\ ~upset' => ~upset
      /\ picks' = IF upset' \/ \A t \in 1..Servers : new[t] = Weights[t] THEN Load!None ELSE new
  <2>1. \A t : Load!Share(t) = Weights[t]
    BY DEF Load!Share
  <2>2. balancer \in Load!Fair
    BY DEF Load!Fair
  <2>3. /\ new \in [1..Servers -> Nat] /\ \A t \in 1..Servers : new[t] = IF t = s THEN picks[t] + 1 ELSE picks[t]
        /\ picked' = picked + 1 /\ upset' = (upset \/ Load!Busy({"wrap"}))
        /\ picks' = IF upset' \/ balancer \notin Load!Fair \/ \A t \in 1..Servers : new[t] = Load!Share(t)
                    THEN Load!None ELSE new
    BY <1>1, <1>5, <1>8, HistoryIs
  <2> QED
    BY <2>1, <2>2, <2>3
<1>10. ASSUME ~upset'
       PROVE  /\ effective' = Weights /\ Total(picks') < Total(Weights)
              /\ \A t \in 1..Servers :
                   picks'[t] <= Weights[t] /\ current'[t] = Total(picks') * Weights[t] - Total(Weights) * picks'[t]
  <2>1. effective = Weights /\ ~upset
    BY <1>5, <1>9, <1>10
  <2>2. total \in Nat \ {0} /\ total = Total(Weights) /\ \A t \in 1..Servers : Weights[t] \in Nat \ {0}
    BY <1>2, <2>1, WeightsAddUp, WeightsPositive
  <2>3. PICK done \in Int : done = Total(picks)
    <3>1. picks \in [1..Servers -> Int]
      BY <1>5
    <3> QED
      BY <3>1, TotalIs
  <2>4. done \in Nat
    <3>1. PICK h : h = Load!None
      OBVIOUS
    <3>2. h \in [1..Servers -> Int] /\ Total(h) = 0 /\ \A t \in 1..Servers : h[t] = 0
      BY <3>1, TotalOfNone
    <3>3. picks \in [1..Servers -> Int] /\ \A t \in 1..Servers : h[t] <= picks[t]
      BY <1>5, <3>2
    <3>4. Total(h) <= Total(picks)
      BY <3>2, <3>3, TotalOrdered
    <3> QED
      BY <2>3, <3>2, <3>4
  <2>5. done < total /\ \A t \in 1..Servers :
           picks[t] <= Weights[t] /\ current[t] = done * Weights[t] - total * picks[t]
    BY <1>5, <2>1, <2>2, <2>3
  <2>6. \A t \in 1..Servers : raised[t] = (done + 1) * Weights[t] - total * picks[t]
    <3> SUFFICES ASSUME NEW t \in 1..Servers PROVE raised[t] = (done + 1) * Weights[t] - total * picks[t]
      OBVIOUS
    <3>1. PICK w \in Nat \ {0}, p \in Nat : w = Weights[t] /\ p = picks[t]
      BY <1>5, <2>2
    <3>2. raised[t] = (done * w - total * p) + w
      BY <1>3, <2>1, <2>5, <3>1
    <3>3. (done * w - total * p) + w = (done + 1) * w - total * p
      BY Owed
    <3> QED
      BY <3>1, <3>2, <3>3
  <2>7. raised[s] > 0
    <3>1. PICK t \in 1..Servers : raised[t] > 0
      <4>1. Total(raised) > 0
        BY <1>6, <2>2
      <4> QED
        BY <1>6, <4>1, TotalPositive
    <3>2. raised[t] <= raised[s] /\ raised[t] \in Int /\ raised[s] \in Int
      BY <1>4, <1>6, <2>2
    <3> QED
      BY <3>1, <3>2
  <2>8. picks[s] < Weights[s]
    <3>1. PICK w \in Nat \ {0}, p \in Nat : w = Weights[s] /\ p = picks[s]
      BY <1>5, <2>2
    <3>2. (done + 1) * w - total * p > 0
      BY <2>6, <2>7, <3>1
    <3> QED
      BY <2>2, <2>4, <2>5, <3>1, <3>2, NotAhead
  <2>9. new \in [1..Servers -> Int] /\ \A t \in 1..Servers : new[t] <= Weights[t]
    <3> SUFFICES ASSUME NEW t \in 1..Servers PROVE new[t] <= Weights[t]
      BY <1>9
    <3>1. picks[t] \in Nat /\ Weights[t] \in Nat
      BY <1>5, <2>2
    <3>2. CASE t = s
      BY <1>9, <2>8, <3>1, <3>2
    <3>3. CASE t # s
      BY <1>9, <2>5, <3>1, <3>3
    <3> QED
      BY <3>2, <3>3
  <2>10. Total(new) = done + 1
    <3>1. PICK d \in Int : d = 1
      OBVIOUS
    <3>2. picks \in [1..Servers -> Int] /\ new[s] = picks[s] + d /\ \A t \in 1..Servers : t # s => new[t] = picks[t]
      BY <1>5, <1>9, <3>1
    <3>3. Total(new) = Total(picks) + d
      BY <2>9, <3>2, TotalMoves
    <3> QED
      BY <2>3, <3>1, <3>3
  <2>11. /\ current'[s] = raised[s] - total
         /\ \A t \in 1..Servers : t # s => current'[t] = raised[t]
    <3>1. PICK cur : cur = current'
      OBVIOUS
    <3>2. cur = [raised EXCEPT ![s] = raised[s] - total]
      BY <1>4, <2>2, <3>1
    <3>3. cur[s] = raised[s] - total /\ \A t \in 1..Servers : t # s => cur[t] = raised[t]
      BY <1>6, <3>2
    <3> QED
      BY <3>1, <3>3
  <2>12. \A t \in 1..Servers : current'[t] = (done + 1) * Weights[t] - total * new[t]
    <3> SUFFICES ASSUME NEW t \in 1..Servers PROVE current'[t] = (done + 1) * Weights[t] - total * new[t]
      OBVIOUS
    <3>1. CASE t = s
      <4>1. PICK w \in Nat \ {0}, p \in Nat : w = Weights[s] /\ p = picks[s]
        BY <1>5, <2>2
      <4>2. raised[s] = (done * w - total * p) + w
        BY <1>3, <2>1, <2>5, <4>1
      <4>3. current'[s] = raised[s] - total
        BY <2>11
      <4>4. new[s] = p + 1
        BY <1>9, <4>1
      <4>5. ((done * w - total * p) + w) - total = (done + 1) * w - total * (p + 1)
        BY Owed
      <4> QED
        BY <3>1, <4>1, <4>2, <4>3, <4>4, <4>5
    <3>2. CASE t # s
      <4>1. current'[t] = raised[t]
        BY <2>11, <3>2
      <4>2. new[t] = picks[t]
        BY <1>9, <3>2
      <4> QED
        BY <2>6, <4>1, <4>2
    <3> QED
      BY <3>1, <3>2
  <2>13. Total(new) <= total /\ (Total(new) = total => \A t \in 1..Servers : new[t] = Weights[t])
    BY <2>2, <2>9, WeightsAddUp, TotalOrdered
  <2>14. CASE \A t \in 1..Servers : new[t] = Weights[t]
    <3>1. PICK h : h = Load!None
      OBVIOUS
    <3>2. h \in [1..Servers -> Int] /\ Total(h) = 0 /\ \A t \in 1..Servers : h[t] = 0
      BY <3>1, TotalOfNone
    <3>3. picks' = h
      BY <1>9, <2>14, <3>1
    <3>4. Total(picks') = 0
      BY <3>2, <3>3 DEF Total, Load!Sum, Load!FoldFunctionOnSet, Load!MapThenFoldSet
    <3>5. done + 1 = total
      <4>1. Weights \in [1..Servers -> Int] /\ \A t \in 1..Servers : Weights[t] <= new[t]
        BY <2>2, <2>14, WeightsAddUp
      <4>2. Total(Weights) <= Total(new)
        BY <2>9, <4>1, TotalOrdered
      <4> QED
        BY <2>2, <2>4, <2>10, <2>13, <4>2
    <3>6. ASSUME NEW t \in 1..Servers PROVE current'[t] = 0 * Weights[t] - total * 0
      <4>1. PICK w \in Nat \ {0} : w = Weights[t]
        BY <2>2
      <4>2. current'[t] = total * w - total * w
        BY <2>12, <2>14, <3>5, <4>1
      <4>3. \A a, b \in Nat : a * b - a * b = 0 * b - a * 0
        OBVIOUS
      <4> QED
        BY <2>2, <4>1, <4>2, <4>3
    <3>7. \A t \in 1..Servers : picks'[t] = 0 /\ 0 <= Weights[t]
      BY <2>2, <3>2, <3>3
    <3> QED
      BY <1>1, <2>1, <2>2, <3>4, <3>6, <3>7
  <2>15. CASE ~\A t \in 1..Servers : new[t] = Weights[t]
    <3>1. picks' = new
      BY <1>9, <1>10, <2>15
    <3>2. Total(picks') = done + 1
      BY <2>10, <3>1 DEF Total, Load!Sum, Load!FoldFunctionOnSet, Load!MapThenFoldSet
    <3>3. done + 1 < total
      BY <2>2, <2>4, <2>10, <2>13, <2>15
    <3> QED
      BY <1>1, <2>1, <2>2, <2>9, <2>12, <3>1, <3>2, <3>3
  <2> QED
    BY <2>14, <2>15
<1> QED
  BY <1>1, <1>7, <1>10, NginxPartsNext

(* How often each server is served in a round, and how many levels a round *)
(* has.                                                                    *)
Quota == [t \in 1..Servers |-> Weights[t] \div Load!GCD]
Top   == Load!MaxWeight \div Load!GCD

(* Weights are quotas times GCD.                                           *)
LEMMA QuotasAre ==
  /\ Load!GCD \in Nat \ {0} /\ Top \in Nat \ {0} /\ Load!MaxWeight = Top * Load!GCD
  /\ Quota \in [1..Servers -> Nat \ {0}]
  /\ \A t \in 1..Servers : Quota[t] <= Top /\ Weights[t] = Quota[t] * Load!GCD
<1>1. PICK g \in Nat \ {0} : g = Load!GCD
  BY GCDIs, MaxWeightIs
<1>2. ASSUME NEW t \in 1..Servers
      PROVE  Quota[t] \in Nat \ {0} /\ Weights[t] = Quota[t] * g
  <2>1. PICK w \in Nat \ {0} : w = Weights[t]
    BY WeightsPositive
  <2>2. w % g = 0
    BY <1>1, <2>1, GCDIs
  <2>3. PICK q \in Nat : w = q * g
    BY <2>2, Divided
  <2>4. w \div g = q
    BY <2>3, Quotient
  <2>5. q # 0
    BY <2>3
  <2> QED
    BY <1>1, <2>1, <2>3, <2>4, <2>5 DEF Quota
<1>3. PICK u \in 1..Servers : Weights[u] = Load!MaxWeight
  BY MaxWeightIs
<1>4. Top = Quota[u]
  BY <1>3 DEF Top, Quota
<1>5. ASSUME NEW t \in 1..Servers PROVE Quota[t] <= Top
  <2>1. Weights[t] <= Weights[u]
    BY <1>3, MaxWeightIs
  <2>2. Quota[t] * g <= Quota[u] * g /\ Quota[t] \in Int /\ Quota[u] \in Int
    BY <1>2, <2>1
  <2> QED
    BY <1>4, <2>2, ProductsOrdered
<1>6. Quota \in [1..Servers -> Nat \ {0}]
  <2>1. \A t \in 1..Servers : Weights[t] \div Load!GCD \in Nat \ {0}
    BY <1>2 DEF Quota
  <2> QED
    BY <2>1 DEF Quota
<1> QED
  BY <1>1, <1>2, <1>3, <1>4, <1>5, <1>6

(* The rank of a level among those of a round, as far as it is compared.   *)
IsRank(l, j) ==
  /\ l = j * Load!GCD /\ (l = 0 <=> j = 0) /\ (l = Load!GCD <=> j = 1)
  /\ \A t \in 1..Servers : (Weights[t] < l <=> Quota[t] < j) /\ (Weights[t] >= l <=> Quota[t] >= j)
  /\ \A t \in 1..Servers : (Weights[t] - l) \div Load!GCD = Quota[t] - j

(* A level is a rank among the levels of a round, as far as it is compared *)
(* and lowered.                                                            *)
LEMMA LevelIsRank ==
  ASSUME NEW l \in 0..Load!MaxWeight, l % Load!GCD = 0
  PROVE  \E j \in 0..Top : IsRank(l, j)
<1>1. PICK g \in Nat \ {0}, max \in Nat, top \in Nat :
        g = Load!GCD /\ max = Load!MaxWeight /\ top = Top /\ max = top * g
  BY QuotasAre, MaxWeightIs
<1>2. l \in Nat /\ l % g = 0
  BY <1>1
<1>3. PICK j \in Nat : l = j * g
  BY <1>2, Divided
<1>4. j <= top
  <2>1. j * g <= top * g
    BY <1>1, <1>3
  <2> QED
    BY <2>1, ProductsOrdered
<1>5. (l = 0 <=> j = 0) /\ (l = g <=> j = 1)
  <2>1. (j * g = 0 * g <=> j = 0) /\ (j * g = 1 * g <=> j = 1)
    BY ProductsOrdered
  <2>2. 0 * g = 0 /\ 1 * g = g
    OBVIOUS
  <2> QED
    BY <1>3, <2>1, <2>2
<1>6. ASSUME NEW t \in 1..Servers
      PROVE  /\ (Weights[t] < l <=> Quota[t] < j) /\ (Weights[t] >= l <=> Quota[t] >= j)
             /\ (Weights[t] - l) \div g = Quota[t] - j
  <2>1. PICK q \in Nat, w \in Nat : q = Quota[t] /\ w = Weights[t] /\ w = q * g
    BY <1>1, QuotasAre, WeightsPositive
  <2>2. (q * g < j * g <=> q < j) /\ (j * g <= q * g <=> j <= q)
    BY ProductsOrdered
  <2>3. (w - l) \div g = q - j
    <3>1. \A a, b \in Int : (a * g - b * g) \div g = a - b
      <4>1. \A c \in Int : (c * g) \div g = c
        OBVIOUS
      <4>2. \A a, b \in Int : a * g - b * g = (a - b) * g
        OBVIOUS
      <4> QED
        BY <4>1, <4>2
    <3> QED
      BY <1>3, <2>1, <3>1
  <2> QED
    BY <1>3, <2>1, <2>2, <2>3
<1> QED
  BY <1>1, <1>3, <1>4, <1>5, <1>6 DEF IsRank

(* Lowering a level takes the rank down by one, and from the last of a     *)
(* round to the first of the next.                                         *)
LEMMA LowerIs ==
  ASSUME NEW j \in 0..Top
  PROVE  Load!Lower(j * Load!GCD) = (IF j <= 1 THEN Top ELSE j - 1) * Load!GCD
<1>1. PICK g \in Nat \ {0}, top \in Nat : g = Load!GCD /\ top = Top /\ Load!MaxWeight = top * g
  BY QuotasAre
<1>2. j \in Nat /\ j * g - g = (j - 1) * g
  BY <1>1
<1>3. (j - 1) * g <= 0 * g <=> j - 1 <= 0
  BY <1>2, ProductsOrdered
<1> QED
  BY <1>1, <1>2, <1>3 DEF Load!Lower

(* What the weighted round has given when a server at this place has been  *)
(* served at this rank, and whether that is the start of a round.          *)
Served(j, p) == [t \in 1..Servers |-> IF Quota[t] < j THEN 0 ELSE Quota[t] - j + (IF t <= p THEN 1 ELSE 0)]
Starting(j, p) == j = 0 \/ (j = 1 /\ p = Servers)
RankOf(l) == CHOOSE j \in 0..Top : IsRank(l, j)

(* RankOf is the rank of a level.                                          *)
LEMMA RankIs ==
  ASSUME NEW l \in 0..Load!MaxWeight, l % Load!GCD = 0
  PROVE  /\ RankOf(l) \in 0..Top
         /\ l = RankOf(l) * Load!GCD /\ (l = 0 <=> RankOf(l) = 0) /\ (l = Load!GCD <=> RankOf(l) = 1)
         /\ \A t \in 1..Servers :
              (Weights[t] < l <=> Quota[t] < RankOf(l)) /\ (Weights[t] >= l <=> Quota[t] >= RankOf(l))
         /\ \A t \in 1..Servers : (Weights[t] - l) \div Load!GCD = Quota[t] - RankOf(l)
  BY LevelIsRank DEF RankOf, IsRank

(* The levels of a round.                                                  *)
Level(l) == l \in 0..Load!MaxWeight /\ l % Load!GCD = 0

(* Every rank has its level.                                               *)
LEMMA LevelsOfRanks ==
  ASSUME NEW j \in 0..Top
  PROVE  Level(j * Load!GCD) /\ (j > 0 => j * Load!GCD \in Load!GCD..Load!MaxWeight) /\ RankOf(j * Load!GCD) = j
<1>1. PICK g \in Nat \ {0}, top \in Nat, max \in Nat : g = Load!GCD /\ top = Top /\ max = Load!MaxWeight /\ max = top * g
  BY QuotasAre, MaxWeightIs
<1>2. j \in Nat /\ j <= top
  BY <1>1
<1>3. PICK l \in Nat : l = j * g
  BY <1>2
<1>4. l % g = 0
  BY <1>2, <1>3, Quotient
<1>5. l <= max
  BY <1>1, <1>2, <1>3, ProductsOrdered
<1>6. j > 0 => g <= l
  <2>1. 1 * g <= j * g <=> 1 <= j
    BY <1>2, ProductsOrdered
  <2> QED
    BY <1>2, <1>3, <2>1
<1>7. RankOf(l) = j
  <2>1. RankOf(l) \in 0..Top /\ l = RankOf(l) * g
    <3>1. l \in 0..Load!MaxWeight /\ l % Load!GCD = 0
      BY <1>1, <1>4, <1>5
    <3> QED
      BY <1>1, <3>1, RankIs
  <2>2. PICK i \in Nat : i = RankOf(l)
    BY <1>1, <2>1
  <2> QED
    BY <1>2, <1>3, <2>1, <2>2, ProductsOrdered
<1> QED
  BY <1>1, <1>3, <1>4, <1>5, <1>6, <1>7 DEF Level

(* A round at its level, as WeightedRound has it and by ranks.             *)
LEMMA RoundAtLevel ==
  ASSUME NEW l, Level(l), NEW p
  PROVE  [s \in 1..Servers |->
                 IF l = 0 \/ (l = Load!GCD /\ p = Servers) \/ Weights[s] < l THEN 0
                 ELSE (Weights[s] - l) \div Load!GCD + IF s <= p THEN 1 ELSE 0]
         = IF Starting(RankOf(l), p) THEN [t \in 1..Servers |-> 0] ELSE Served(RankOf(l), p)
<1>1. PICK j : j = RankOf(l)
  OBVIOUS
<1>2. /\ (l = 0 <=> j = 0) /\ (l = Load!GCD <=> j = 1)
      /\ \A t \in 1..Servers : /\ Weights[t] < l <=> Quota[t] < j
                               /\ (Weights[t] - l) \div Load!GCD = Quota[t] - j
  BY <1>1, RankIs DEF Level
<1> QED
  BY <1>1, <1>2 DEF Starting, Served

(* WeightedRound by ranks, and the same after a step.                      *)
LEMMA WeightedParts ==
  Load!WeightedRound <=>
    (balancer = "weighted" =>
      /\ \/ level = 0 /\ position = 0
         \/ level \in Load!GCD..Load!MaxWeight /\ Level(level) /\ position \in 1..Servers
      /\ ~upset => picks = IF Starting(RankOf(level), position) THEN [t \in 1..Servers |-> 0]
                           ELSE Served(RankOf(level), position))
<1>1. level = 0 => Level(level)
  BY QuotasAre, MaxWeightIs DEF Level
<1>2. level \in Load!GCD..Load!MaxWeight /\ level % Load!GCD = 0 <=> level \in Load!GCD..Load!MaxWeight /\ Level(level)
  BY QuotasAre, MaxWeightIs DEF Level
<1> QED
  BY <1>1, <1>2, RoundAtLevel, SizeIs DEF Load!WeightedRound

(* The same after a step.                                                  *)
LEMMA WeightedPartsNext ==
  Load!WeightedRound' <=>
    (balancer' = "weighted" =>
      /\ \/ level' = 0 /\ position' = 0
         \/ level' \in Load!GCD..Load!MaxWeight /\ Level(level') /\ position' \in 1..Servers
      /\ ~upset' => picks' = IF Starting(RankOf(level'), position') THEN [t \in 1..Servers |-> 0]
                             ELSE Served(RankOf(level'), position'))
<1>1. level' = 0 => Level(level')
  BY QuotasAre, MaxWeightIs DEF Level
<1>2. level' \in Load!GCD..Load!MaxWeight /\ level' % Load!GCD = 0 <=> level' \in Load!GCD..Load!MaxWeight /\ Level(level')
  BY QuotasAre, MaxWeightIs DEF Level
<1>3. Load!GCD' = Load!GCD /\ Load!MaxWeight' = Load!MaxWeight /\ Load!n' = Servers
  BY SizeIs DEF Load!GCD, Load!MaxWeight, Load!Range, Load!n, Load!Cardinality
<1> QED
  BY <1>1, <1>2, <1>3, RoundAtLevel DEF Load!WeightedRound

(* The next place by ranks.                                                *)
LEMMA NextByRank ==
  ASSUME (level = 0 /\ position = 0) \/ (level \in Load!GCD..Load!MaxWeight /\ Level(level) /\ position \in 1..Servers),
         NEW s \in 1..Servers, Load!WeightedRoundRobin(s), NEW j, j = RankOf(level)
  PROVE  \E i \in 1..Top :
           /\ position' = s /\ level' = i * Load!GCD /\ Quota[s] >= i
           /\ \/ /\ i = j /\ ~Starting(j, position) /\ s > position
                 /\ \A t \in 1..Servers : t > position /\ t < s => Quota[t] < j
              \/ /\ Starting(j, position) /\ i = Top /\ \A t \in 1..Servers : t < s => Quota[t] < i
              \/ /\ j > 1 /\ i = j - 1
                 /\ \A t \in 1..Servers : t > position => Quota[t] < j
                 /\ \A t \in 1..Servers : t < s => Quota[t] < i
<1>1. Level(level) /\ position \in 0..Servers /\ Servers \in Nat \ {0} /\ Top \in Nat \ {0}
  BY QuotasAre, MaxWeightIs, ServersAreFinite DEF Level
<1>2. /\ j \in 0..Top /\ level = j * Load!GCD /\ (level = 0 <=> j = 0)
      /\ \A t \in 1..Servers : (Weights[t] < level <=> Quota[t] < j) /\ (Weights[t] >= level <=> Quota[t] >= j)
  BY <1>1, RankIs DEF Level
<1>3. PICK low : low = (IF j <= 1 THEN Top ELSE j - 1) /\ low \in 1..Top
  <2>1. j \in 0..Top
    BY <1>2
  <2>2. (IF j <= 1 THEN Top ELSE j - 1) \in 1..Top
    BY <1>1, <2>1
  <2> QED
    BY <2>2
<1>4. low \in 1..Top /\ Load!Lower(level) = low * Load!GCD
  <2>1. low \in 1..Top
    BY <1>1, <1>2, <1>3
  <2>2. Load!Lower(j * Load!GCD) = (IF j <= 1 THEN Top ELSE j - 1) * Load!GCD
    BY <1>2, LowerIs
  <2> QED
    BY <1>2, <1>3, <2>1, <2>2
<1>5. PICK l : l = Load!Lower(level)
  OBVIOUS
<1>6. \A t \in 1..Servers : (Weights[t] < l <=> Quota[t] < low) /\ (Weights[t] >= l <=> Quota[t] >= low)
  <2>1. low \in 0..Top
    BY <1>1, <1>4
  <2>2. Level(l) /\ RankOf(l) = low
    BY <1>4, <1>5, <2>1, LevelsOfRanks
  <2> QED
    BY <2>2, RankIs DEF Level
<1>7. /\ position' = s
      /\ \/ /\ level' = level /\ s > Latest /\ Weights[s] >= level
            /\ \A t \in 1..Servers : t > Latest /\ t < s => Weights[t] < level
         \/ /\ level' = l /\ Weights[s] >= l
            /\ \A t \in 1..Servers : t > Latest => Weights[t] < level
            /\ \A t \in 1..Servers : t < s => Weights[t] < l
  BY <1>1, <1>5, NextInLap DEF Level
<1>8. (j = 0 <=> position = 0) /\ (position # 0 => Latest = position)
  BY <1>1, <1>2, QuotasAre DEF Latest
<1>9. \A t \in 1..Servers : Quota[t] \in Nat \ {0} /\ Quota[t] <= Top
  BY QuotasAre
<1>10. CASE /\ level' = level /\ s > Latest /\ Weights[s] >= level
            /\ \A t \in 1..Servers : t > Latest /\ t < s => Weights[t] < level
  <2>1. position # 0 /\ Latest = position
    BY <1>1, <1>8, <1>10 DEF Latest
  <2>2. j \in 1..Top /\ ~Starting(j, position)
    BY <1>1, <1>2, <1>8, <1>10, <2>1 DEF Starting
  <2> QED
    BY <1>2, <1>7, <1>10, <2>1, <2>2
<1>11. CASE /\ level' = l /\ Weights[s] >= l
            /\ \A t \in 1..Servers : t > Latest => Weights[t] < level
            /\ \A t \in 1..Servers : t < s => Weights[t] < l
  <2>1. level' = low * Load!GCD /\ Quota[s] >= low /\ \A t \in 1..Servers : t < s => Quota[t] < low
    BY <1>4, <1>5, <1>6, <1>11
  <2>2. CASE j > 1
    <3>1. low = j - 1 /\ \A t \in 1..Servers : t > position => Quota[t] < j
      <4>1. j \in Nat
        BY <1>1, <1>2
      <4>2. low = j - 1
        BY <1>3, <2>2, <4>1
      <4>3. Latest = position
        BY <1>8, <2>2, <4>1
      <4> QED
        BY <1>2, <1>11, <4>2, <4>3
    <3> QED
      BY <1>4, <1>7, <2>1, <2>2, <3>1
  <2>3. CASE ~(j > 1)
    <3>1. Starting(j, position)
      <4>1. CASE j = 0
        BY <4>1 DEF Starting
      <4>2. CASE j # 0
        <5>1. j = 1 /\ Latest = position /\ position \in 1..Servers
          BY <1>1, <1>2, <1>8, <2>3, <4>2
        <5>2. position = Servers
          <6> SUFFICES ASSUME position # Servers PROVE FALSE
            OBVIOUS
          <6>1. Servers \in 1..Servers /\ Servers > Latest
            BY <1>1, <5>1
          <6>2. Quota[Servers] < 1
            BY <1>2, <1>11, <5>1, <6>1
          <6> QED
            BY <1>9, <6>1, <6>2
        <5> QED
          BY <5>1, <5>2 DEF Starting
      <4> QED
        BY <4>1, <4>2
    <3>2. low = Top
      <4>1. j \in Nat
        BY <1>1, <1>2
      <4>2. j <= 1
        BY <2>3, <4>1
      <4> QED
        BY <1>3, <4>2
    <3> QED
      BY <1>4, <1>7, <2>1, <3>1, <3>2
  <2> QED
    BY <1>2, <2>2, <2>3
<1> QED
  BY <1>7, <1>10, <1>11

(* A pick of the weighted round robin serves one server once more at its   *)
(* rank, and ends the round with the last server at the last rank.         *)
LEMMA WeightedPick ==
  ASSUME Load!Formed, Load!RoundInv, balancer = "weighted",
         NEW r \in Requests, NEW s \in 1..Servers, Load!Pick(r, s)
  PROVE  Load!WeightedRound'
<1>1. balancer' = "weighted" /\ Load!WeightedRoundRobin(s) /\ Load!History(s, Load!Busy({"wrap"})) /\ upset \in BOOLEAN
  BY DEF Load!Pick, Load!Choice, Load!Formed
<1>2. PICK j : j = RankOf(level)
  OBVIOUS
<1>3. /\ picks \in [1..Servers -> Nat]
      /\ (level = 0 /\ position = 0) \/ (level \in Load!GCD..Load!MaxWeight /\ Level(level) /\ position \in 1..Servers)
      /\ ~upset => picks = IF Starting(j, position) THEN [t \in 1..Servers |-> 0] ELSE Served(j, position)
  <2>1. picks \in [1..Servers -> Nat] /\ Load!WeightedRound
    BY RoundParts
  <2>2. /\ \/ level = 0 /\ position = 0
           \/ level \in Load!GCD..Load!MaxWeight /\ Level(level) /\ position \in 1..Servers
        /\ ~upset => picks = IF Starting(RankOf(level), position) THEN [t \in 1..Servers |-> 0]
                             ELSE Served(RankOf(level), position)
    BY <2>1, WeightedParts
  <2>3. (level = 0 /\ position = 0) \/ (level \in Load!GCD..Load!MaxWeight /\ Level(level) /\ position \in 1..Servers)
    BY <2>2
  <2>4. ~upset => picks = IF Starting(j, position) THEN [t \in 1..Servers |-> 0] ELSE Served(j, position)
    BY <1>2, <2>2
  <2> QED
    BY <2>1, <2>3, <2>4
<1>4. PICK i \in 1..Top :
           /\ position' = s /\ level' = i * Load!GCD /\ Quota[s] >= i
           /\ \/ /\ i = j /\ ~Starting(j, position) /\ s > position
                 /\ \A t \in 1..Servers : t > position /\ t < s => Quota[t] < j
              \/ /\ Starting(j, position) /\ i = Top /\ \A t \in 1..Servers : t < s => Quota[t] < i
              \/ /\ j > 1 /\ i = j - 1
                 /\ \A t \in 1..Servers : t > position => Quota[t] < j
                 /\ \A t \in 1..Servers : t < s => Quota[t] < i
  BY <1>1, <1>2, <1>3, NextByRank
<1>5. Level(level') /\ level' \in Load!GCD..Load!MaxWeight /\ RankOf(level') = i
  <2>1. i \in 0..Top /\ i > 0
    BY <1>4, QuotasAre
  <2> QED
    BY <1>4, <2>1, LevelsOfRanks
<1>6. PICK new : new = [picks EXCEPT ![s] = picks[s] + 1]
  OBVIOUS
<1>7. /\ new \in [1..Servers -> Nat] /\ \A t \in 1..Servers : new[t] = IF t = s THEN picks[t] + 1 ELSE picks[t]
      /\ ~upset' => ~upset
      /\ picks' = IF upset' \/ \A t \in 1..Servers : new[t] = Quota[t] THEN [t \in 1..Servers |-> 0] ELSE new
  <2>1. \A t \in 1..Servers : Load!Share(t) = Quota[t]
    BY DEF Load!Share, Quota
  <2>2. balancer \in Load!Fair /\ Load!None = [t \in 1..Servers |-> 0]
    BY DEF Load!Fair, Load!None
  <2>3. /\ new \in [1..Servers -> Nat] /\ \A t \in 1..Servers : new[t] = IF t = s THEN picks[t] + 1 ELSE picks[t]
        /\ picked' = picked + 1 /\ upset' = (upset \/ Load!Busy({"wrap"}))
        /\ picks' = IF upset' \/ balancer \notin Load!Fair \/ \A t \in 1..Servers : new[t] = Load!Share(t)
                    THEN Load!None ELSE new
    BY <1>1, <1>3, <1>6, HistoryIs
  <2> QED
    BY <2>1, <2>2, <2>3
<1>8. /\ Servers \in Nat \ {0} /\ Top \in Nat \ {0} /\ position \in 0..Servers /\ j \in 0..Top
      /\ \A t \in 1..Servers : Quota[t] \in Nat \ {0} /\ Quota[t] <= Top
  <2>1. Level(level)
    BY <1>3, QuotasAre, MaxWeightIs DEF Level
  <2> QED
    <3>1. j \in 0..Top
      BY <1>2, <2>1, RankIs DEF Level
    <3>2. Servers \in Nat \ {0} /\ Top \in Nat \ {0} /\ \A t \in 1..Servers : Quota[t] \in Nat \ {0} /\ Quota[t] <= Top
      BY QuotasAre, ServersAreFinite
    <3>3. position \in 0..Servers
      BY <1>3, <3>2
    <3> QED
      BY <3>1, <3>2, <3>3
<1>9. ASSUME ~upset' PROVE \A t \in 1..Servers : new[t] = Served(i, s)[t]
  <2> SUFFICES ASSUME NEW t \in 1..Servers PROVE new[t] = Served(i, s)[t]
    OBVIOUS
  <2>1. Served(i, s)[t] = IF Quota[t] < i THEN 0 ELSE Quota[t] - i + (IF t <= s THEN 1 ELSE 0)
    BY DEF Served
  <2>2. picks[t] = IF Starting(j, position) \/ Quota[t] < j THEN 0 ELSE Quota[t] - j + (IF t <= position THEN 1 ELSE 0)
    BY <1>3, <1>7, <1>9 DEF Served
  <2>3. new[t] = picks[t] + IF t = s THEN 1 ELSE 0
    BY <1>3, <1>7
  <2>4. PICK q \in Nat \ {0} : q = Quota[t] /\ q <= Top /\ (t = s => q >= i)
    BY <1>4, <1>8
  <2>5. CASE /\ i = j /\ ~Starting(j, position) /\ s > position
             /\ \A u \in 1..Servers : u > position /\ u < s => Quota[u] < j
    <3>1. t > position /\ t < s => q < i
      BY <2>4, <2>5
    <3> QED
      BY <1>8, <2>1, <2>2, <2>3, <2>4, <2>5, <3>1
  <2>6. CASE Starting(j, position) /\ i = Top /\ \A u \in 1..Servers : u < s => Quota[u] < i
    <3>1. t < s => q < i
      BY <2>4, <2>6
    <3> QED
      BY <1>8, <2>1, <2>2, <2>3, <2>4, <2>6, <3>1
  <2>7. CASE /\ j > 1 /\ i = j - 1
             /\ \A u \in 1..Servers : u > position => Quota[u] < j
             /\ \A u \in 1..Servers : u < s => Quota[u] < i
    <3>1. (t < s => q < i) /\ (t > position => q < j) /\ ~Starting(j, position)
      BY <1>8, <2>4, <2>7 DEF Starting
    <3> QED
      BY <1>8, <2>1, <2>2, <2>3, <2>4, <2>7, <3>1
  <2> QED
    BY <1>4, <2>5, <2>6, <2>7
<1>10. ASSUME ~upset'
       PROVE  picks' = IF Starting(i, s) THEN [t \in 1..Servers |-> 0] ELSE Served(i, s)
  <2>1. \A t \in 1..Servers : Served(i, s)[t] = IF Quota[t] < i THEN 0 ELSE Quota[t] - i + (IF t <= s THEN 1 ELSE 0)
    BY DEF Served
  <2>2. CASE Starting(i, s)
    <3>1. i = 1 /\ s = Servers
      BY <1>8, <2>2 DEF Starting
    <3>2. \A t \in 1..Servers : new[t] = Quota[t]
      BY <1>8, <1>9, <1>10, <2>1, <3>1
    <3> QED
      BY <1>7, <2>2, <3>2
  <2>3. CASE ~Starting(i, s)
    <3>1. new[Servers] # Quota[Servers] /\ Servers \in 1..Servers
      BY <1>8, <1>9, <1>10, <2>1, <2>3 DEF Starting
    <3>2. picks' = new
      BY <1>7, <1>10, <3>1
    <3>3. new = Served(i, s)
      BY <1>7, <1>9, <1>10 DEF Served
    <3> QED
      BY <2>3, <3>2, <3>3
  <2> QED
    BY <2>2, <2>3
<1> QED
  BY <1>1, <1>4, <1>5, <1>10, WeightedPartsNext

(* The balancers start before their first round.                           *)
LEMMA RoundsBegin == Load!Init => Load!RoundInv
<1> SUFFICES ASSUME Load!Init PROVE Load!RoundInv
  OBVIOUS
<1>1. /\ position = (IF balancer = "roundRobin" THEN -1 ELSE 0) /\ level = 0 /\ current = Load!None
      /\ effective = Weights /\ picks = Load!None /\ picked = 0 /\ upset = FALSE
      /\ task = [r \in Requests |-> [at |-> "idle", server |-> 0, from |-> {}]]
  BY DEF Load!Init, Load!Idle
<1>2. picks = [t \in 1..Servers |-> 0] /\ picks \in [1..Servers -> Nat] /\ picked \in 0..MaxPicks
  BY <1>1, PluginsAssumption DEF Load!None
<1>3. Load!Wraps = {}
  BY <1>1 DEF Load!Wraps
<1>4. Load!RoundRobinRound
  <2>1. Cardinality(Load!Wraps) = 0
    BY <1>3, FS_EmptySet
  <2> QED
    BY <1>1, <1>2, <1>3, <2>1, RobinParts, ServersAreFinite
<1>5. Load!WeightedRound
  <2>1. Level(0) /\ RankOf(0) = 0
    <3>1. 0 \in 0..Top /\ 0 * Load!GCD = 0
      BY QuotasAre
    <3> QED
      BY <3>1, LevelsOfRanks
  <2>2. Starting(RankOf(0), position)
    BY <2>1 DEF Starting
  <2> QED
    BY <1>1, <1>2, <2>2, WeightedParts
<1>6. Load!NginxRound
  <2>1. PICK h : h = Load!None
    OBVIOUS
  <2>2. h \in [1..Servers -> Int] /\ Total(h) = 0 /\ \A t \in 1..Servers : h[t] = 0
    BY <2>1, TotalOfNone
  <2>3. current = h /\ picks = h /\ effective = Weights
    BY <1>1, <2>1
  <2>4. Total(Weights) \in Nat \ {0} /\ \A t \in 1..Servers : Weights[t] \in Nat
    BY WeightsAddUp, WeightsPositive
  <2>5. \A t \in 1..Servers : h[t] <= Weights[t] /\ h[t] = 0 * Weights[t] - Total(Weights) * h[t]
    <3> SUFFICES ASSUME NEW t \in 1..Servers PROVE h[t] <= Weights[t] /\ h[t] = 0 * Weights[t] - Total(Weights) * h[t]
      OBVIOUS
    <3>1. PICK w \in Nat, u \in Nat : w = Weights[t] /\ u = Total(Weights)
      BY <2>4
    <3>2. 0 = 0 * w - u * 0
      OBVIOUS
    <3> QED
      BY <2>2, <3>1, <3>2
  <2> QED
    BY <2>2, <2>3, <2>4, <2>5, NginxParts
<1>7. Load!Elsewhere
  BY <1>1, <1>3 DEF Load!Elsewhere
<1> QED
  BY <1>2, <1>4, <1>5, <1>6, <1>7, RoundParts

(* A pick goes on in the round of its balancer and leaves the others be.   *)
LEMMA PickKeeps ==
  ASSUME Load!Formed, Load!RoundInv, NEW r \in Requests, NEW s \in 1..Servers, Load!Pick(r, s)
  PROVE  Load!RoundInv'
<1>1. /\ balancer' = balancer /\ Load!Choice(s) /\ Load!History(s, Load!Busy({"wrap"}))
      /\ picks \in [1..Servers -> Nat]
  BY RoundParts DEF Load!Pick
<1>2. Load!RoundRobinRound'
  BY <1>1, RobinPick, RobinPartsNext
<1>3. Load!WeightedRound'
  BY <1>1, WeightedPick, WeightedPartsNext
<1>4. Load!NginxRound'
  BY <1>1, NginxPick, NginxPartsNext
<1>5. Load!Elsewhere'
  <2>1. balancer' \notin {"roundRobin", "weighted"} => position' = 0
    BY <1>1 DEF Load!RoundInv, Load!Elsewhere, Load!Choice, Load!Nginx, Load!Random
  <2>2. balancer' # "weighted" => level' = 0
    BY <1>1 DEF Load!RoundInv, Load!Elsewhere, Load!Choice, Load!Nginx, Load!Random, Load!RoundRobin
  <2>3. balancer' # "roundRobin" => Load!Wraps' = {}
    BY <1>1, PickWraps DEF Load!RoundInv, Load!Elsewhere
  <2>4. balancer' \notin Load!Fair => picks' = Load!None
    BY <1>1 DEF Load!History
  <2> QED
    BY <2>1, <2>2, <2>3, <2>4 DEF Load!Elsewhere, Load!Fair, Load!None
<1> QED
  BY <1>2, <1>3, <1>4, <1>5, PicksTyped, RoundPartsNext

(* Requests that are answered, looked around for and counted change no     *)
(* round: of what the rounds depend on, only effective weights move, after *)
(* failures.                                                               *)
LEMMA OthersKeep ==
  ASSUME Load!Formed, Load!WeightsBounded, Load!RoundInv, NEW r \in Requests,
         Load!Grow(r) \/ Load!Look(r) \/ Load!End(r) \/ \E s \in 1..Servers : Load!Begin(r, s)
  PROVE  Load!RoundInv'
<1>1. PICK F \in {[at : {"idle", "wrap", "calling", "looked", "active"},
                   server : (1..Servers) \union {0}, from : SUBSET (1..Servers)]} : task \in [Requests -> F]
  BY LoadParts
<1>2. upset \in BOOLEAN /\ picked \in 0..MaxPicks /\ MaxPicks \in Nat
  BY RoundParts, LoadParts, PluginsAssumption
<1>3. CASE Load!Grow(r)
  <2>1. /\ UNCHANGED <<balancer, position, level, current, effective, task, picks, picked>>
        /\ upset' = (upset \/ Load!Busy({"active"}))
    BY <1>3 DEF Load!Grow
  <2>2. Load!Wraps' = Load!Wraps /\ Load!Busy({"active"}) \in BOOLEAN
    BY <2>1 DEF Load!Wraps, Load!Busy
  <2> QED
    BY <1>2, <2>1, <2>2, StandsStill
<1>4. ASSUME NEW t, task' = [task EXCEPT ![r] = t], t.at # "wrap", task[r].at # "wrap"
      PROVE  Load!Wraps' = Load!Wraps
  <2>1. task'[r] = t /\ \A q \in Requests : q # r => task'[q] = task[q]
    BY <1>1, <1>4
  <2> QED
    BY <1>4, <2>1 DEF Load!Wraps
<1>5. CASE Load!Look(r)
  <2>1. PICK t : t = [Load!Idle EXCEPT !.at = "looked", !.from = Load!Least(actives, urls)]
    OBVIOUS
  <2>2. /\ UNCHANGED <<balancer, position, level, current, effective, picks, upset>>
        /\ picked' = picked + 1 /\ picked < MaxPicks /\ task[r] = Load!Idle /\ task' = [task EXCEPT ![r] = t]
    BY <1>5, <2>1 DEF Load!Look
  <2>3. t.at = "looked" /\ task[r].at = "idle"
    BY <2>1, <2>2 DEF Load!Idle
  <2>4. Load!Wraps' = Load!Wraps
    BY <1>4, <2>2, <2>3
  <2>5. picked' \in 0..MaxPicks
    BY <1>2, <2>2
  <2> QED
    BY <1>2, <2>2, <2>4, <2>5, StandsStill
<1>6. ASSUME NEW s \in 1..Servers, Load!Begin(r, s) PROVE Load!RoundInv'
  <2>1. PICK t : t = [Load!Idle EXCEPT !.at = "active", !.server = s]
    OBVIOUS
  <2>2. /\ UNCHANGED <<balancer, position, level, current, effective, picks, picked, upset>>
        /\ task[r].at = "looked" /\ task' = [task EXCEPT ![r] = t]
    BY <1>6, <2>1 DEF Load!Begin
  <2>3. t.at = "active"
    BY <2>1 DEF Load!Idle
  <2>4. Load!Wraps' = Load!Wraps
    BY <1>4, <2>2, <2>3
  <2> QED
    BY <1>2, <2>2, <2>4, StandsStill
<1>7. CASE Load!End(r)
  <2>1. PICK s : s = task[r].server
    OBVIOUS
  <2>2. PICK ok \in BOOLEAN : Load!Weigh(s, ok) /\ upset' = (upset \/ (~ok /\ balancer \in Load!Adaptive))
    BY <1>7, <2>1 DEF Load!End
  <2>3. /\ task[r].at \in {"calling", "active"} /\ task' = [task EXCEPT ![r] = Load!Idle]
        /\ UNCHANGED <<balancer, position, level, current, picks, picked>>
    BY <1>7 DEF Load!End
  <2>4. Load!Idle.at = "idle"
    BY DEF Load!Idle
  <2>5. Load!Wraps' = Load!Wraps
    BY <1>4, <2>3, <2>4
  <2>6. upset' \in BOOLEAN /\ (upset => upset')
    BY <1>2, <2>2
  <2>7. ASSUME balancer = "nginx", ~upset' PROVE effective' = effective
    <3>1. ok /\ ~upset /\ balancer \in Load!Adaptive
      BY <2>2, <2>7 DEF Load!Adaptive, Load!Weighted
    <3>2. effective = Weights
      BY <2>7, <3>1, RoundParts, NginxParts
    <3>3. s \in 1..Servers
      BY <2>1, <2>3, LoadParts
    <3>4. effective' = [effective EXCEPT ![s] = IF effective[s] < Weights[s] THEN effective[s] + 1 ELSE effective[s]]
      BY <2>2, <3>1 DEF Load!Weigh
    <3>5. ~(effective[s] < Weights[s])
      BY <3>2, <3>3, WeightsPositive
    <3>6. effective' = [effective EXCEPT ![s] = effective[s]]
      BY <3>4, <3>5
    <3> QED
      BY <3>2, <3>3, <3>6, WeightsPositive
  <2> QED
    BY <1>2, <2>3, <2>5, <2>6, <2>7, StandsStill
<1> QED
  BY <1>3, <1>5, <1>6, <1>7

(* With LoadInv, RoundInv is inductive.                                    *)
LEMMA RoundsGoOn == Load!LoadInv /\ Load!RoundInv /\ [Load!Next]_Load!bvars => Load!RoundInv'
<1> SUFFICES ASSUME Load!LoadInv, Load!RoundInv, [Load!Next]_Load!bvars PROVE Load!RoundInv'
  OBVIOUS
<1>1. Load!Formed /\ Load!WeightsBounded
  BY DEF Load!LoadInv
<1>2. CASE Load!Extend \/ UNCHANGED Load!bvars
  <2>1. UNCHANGED <<balancer, position, level, current, effective, task, picks, picked, upset>>
    BY <1>2 DEF Load!Extend, Load!bvars
  <2>2. Load!Wraps' = Load!Wraps
    BY <2>1 DEF Load!Wraps
  <2>3. upset \in BOOLEAN /\ picked \in 0..MaxPicks
    BY <1>1, LoadParts, RoundParts
  <2> QED
    BY <2>1, <2>2, <2>3, StandsStill
<1>3. ASSUME NEW r \in Requests, Load!Grow(r) \/ Load!Look(r) \/ Load!End(r) \/ \E s \in 1..Servers : Load!Begin(r, s)
      PROVE  Load!RoundInv'
  BY <1>1, <1>3, OthersKeep
<1>4. ASSUME NEW r \in Requests, Load!Wrap(r) PROVE Load!RoundInv'
  BY <1>1, <1>4, RobinWrap
<1>5. ASSUME NEW r \in Requests, NEW s \in 1..Servers, Load!Pick(r, s) PROVE Load!RoundInv'
  BY <1>1, <1>5, PickKeeps
<1> QED
  BY <1>2, <1>3, <1>4, <1>5 DEF Load!Next

(* Whoever keeps to its round keeps to its share.                          *)
LEMMA RoundKeepsShares == Load!RoundInv => Load!SharesKept /\ Load!Balanced
<1> SUFFICES ASSUME Load!RoundInv PROVE Load!SharesKept /\ Load!Balanced
  OBVIOUS
<1>1. Load!Balanced
  BY RoundParts, NginxParts DEF Load!Balanced, Total
<1>2. ASSUME ~upset, NEW s \in 1..Servers PROVE picks[s] <= Load!Share(s)
  <2>1. picks[s] \in Nat
    BY RoundParts
  <2>2. CASE balancer = "roundRobin"
    <3>1. Load!Share(s) = 1
      BY <2>2 DEF Load!Share
    <3>2. picks[s] \in {0, 1}
      BY <1>2, <2>2, RoundParts, RobinParts
    <3> QED
      BY <3>1, <3>2
  <2>3. CASE balancer = "weighted"
    <3>1. Load!Share(s) = Quota[s] /\ Quota[s] \in Nat \ {0}
      BY <2>3, QuotasAre DEF Load!Share, Quota
    <3>2. PICK j : j = RankOf(level)
      OBVIOUS
    <3>3. Level(level) /\ j \in 0..Top
      <4>1. Level(level)
        BY <2>3, RoundParts, WeightedParts, QuotasAre, MaxWeightIs DEF Level
      <4> QED
        BY <3>2, <4>1, RankIs DEF Level
    <3>4. picks = IF Starting(j, position) THEN [t \in 1..Servers |-> 0] ELSE Served(j, position)
      BY <1>2, <2>3, <3>2, RoundParts, WeightedParts
    <3>5. Top \in Nat
      BY QuotasAre
    <3> QED
      BY <3>1, <3>3, <3>4, <3>5 DEF Starting, Served
  <2>4. CASE balancer = "nginx"
    BY <1>2, <2>4, RoundParts, NginxParts DEF Load!Share
  <2>5. CASE balancer \notin Load!Fair
    <3>1. picks[s] = 0 /\ Load!Share(s) = 1
      BY <2>5, RoundParts DEF Load!Elsewhere, Load!None, Load!Share, Load!Fair
    <3> QED
      BY <3>1
  <2> QED
    BY <2>2, <2>3, <2>4, <2>5 DEF Load!Fair
<1> QED
  BY <1>1, <1>2 DEF Load!SharesKept

(* The types of the balancers, which the positions and levels of their     *)
(* rounds and the bounds of their weights keep.                            *)
LEMMA LoadTypes == Load!LoadInv /\ Load!RoundInv => Load!TypeOK
<1> SUFFICES ASSUME Load!LoadInv, Load!RoundInv PROVE Load!TypeOK
  OBVIOUS
<1>1. /\ balancer \in Load!Balancers /\ urls \subseteq 1..Servers /\ picked \in 0..MaxPicks
      /\ effective \in [1..Servers -> Int] /\ \A s \in 1..Servers : effective[s] \in 0..Weights[s]
  BY LoadParts, RoundParts DEF Load!LoadInv, Load!WeightsBounded
<1>2. Servers \in Nat \ {0} /\ Load!MaxWeight \in Nat \ {0}
  BY ServersAreFinite, MaxWeightIs
<1>3. PICK q \in Nat : q = Cardinality(Requests)
  BY PluginsAssumption, FS_CardinalityType
<1>4. position \in -1..(Servers + q)
  <2>1. CASE balancer = "roundRobin"
    <3>1. position \in -1..(Servers - 1 + Cardinality(Load!Wraps))
      BY <2>1, RoundParts, RobinParts
    <3>2. Cardinality(Load!Wraps) <= q /\ Cardinality(Load!Wraps) \in Nat
      <4>1. Load!Wraps \subseteq Requests /\ IsFiniteSet(Requests)
        BY PluginsAssumption DEF Load!Wraps
      <4> QED
        BY <1>3, <4>1, FS_Subset, WrapsAreFinite
    <3> QED
      BY <1>2, <3>1, <3>2
  <2>2. CASE balancer = "weighted"
    BY <1>2, <2>2, RoundParts, WeightedParts
  <2>3. CASE balancer \notin {"roundRobin", "weighted"}
    BY <1>2, <2>3, RoundParts DEF Load!Elsewhere
  <2> QED
    BY <2>1, <2>2, <2>3
<1>5. level \in 0..Load!MaxWeight
  <2>1. CASE balancer = "weighted"
    BY <1>2, <2>1, RoundParts, WeightedParts, QuotasAre
  <2>2. CASE balancer # "weighted"
    BY <1>2, <2>2, RoundParts DEF Load!Elsewhere
  <2> QED
    BY <2>1, <2>2
<1>6. effective \in [1..Servers -> 0..Servers * Load!MaxWeight]
  <2>1. PICK n \in Nat \ {0}, m \in Nat \ {0} : n = Servers /\ m = Load!MaxWeight
    BY <1>2
  <2>2. m <= n * m /\ n * m \in Nat
    <3>1. \A a, b \in Nat \ {0} : b <= a * b /\ a * b \in Nat
      OBVIOUS
    <3> QED
      BY <3>1
  <2>3. \A s \in 1..Servers : effective[s] \in 0..n * m
    <3> SUFFICES ASSUME NEW s \in 1..Servers PROVE effective[s] \in 0..n * m
      OBVIOUS
    <3>1. Weights[s] \in Nat /\ Weights[s] <= m
      BY <2>1, WeightsPositive, MaxWeightIs
    <3>2. PICK e \in Nat, p \in Nat : e = effective[s] /\ p = n * m /\ e <= m
      BY <1>1, <2>2, <3>1
    <3> QED
      BY <2>2, <3>2
  <2> QED
    BY <1>1, <2>1, <2>3
<1> QED
  BY <1>1, <1>3, <1>4, <1>5, <1>6, SizeIs, LoadCounts DEF Load!TypeOK

(* Of LoadBalance: as long as nothing upsets a round (a failure, for       *)
(* nginx; an index past the end, for roundRobin) no server is picked       *)
(* more often in it than its share, for any weights and any number of      *)
(* servers and requests; the current weights of nginx always add up to     *)
(* nothing; the effective weights stay in range, and the counters are      *)
(* the requests under way.                                                 *)
THEOREM RoundsAreFair == Load!Spec => []LoadBalanced
<1>1. Load!LoadInv /\ Load!RoundInv => LoadBalanced
  BY RoundKeepsShares DEF LoadBalanced, Load!LoadInv
<1> QED
  BY <1>1, LoadInit, LoadStep, RoundsBegin, RoundsGoOn, PTL DEF Load!Spec
=============================================================================

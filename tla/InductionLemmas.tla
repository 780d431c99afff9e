--------------------------- MODULE InductionLemmas ---------------------------
(***************************************************************************)
(* Induction and recursion in terms of sets, from the least number that is *)
(* not in a set: for numbers, for finite sets, for functions in which each *)
(* value gives the next, and for loops, whose functions call themselves    *)
(* with something smaller.                                                 *)
(***************************************************************************)
EXTENDS Integers, Sequences, FiniteSets, FiniteSetTheorems, WellFoundedInduction, TLAPS

(* The order of the numbers, as a relation.                                *)
LessThan == {p \in Nat \X Nat : p[1] < p[2]}

(* A set of numbers that is not empty has a least one.                     *)
LEMMA Least ==
  ASSUME NEW S \in SUBSET Nat, S # {}
  PROVE  \E m \in S : \A k \in S : m <= k
<1>1. IsWellFoundedOn(LessThan, Nat)
  BY NatLessThanWellFounded DEF OpToRel, LessThan
<1>2. PICK m \in S : \A k \in S : ~(<<k, m>> \in LessThan)
  BY <1>1, WFMin
<1>3. \A k \in S : ~(k < m)
  BY <1>2 DEF LessThan
<1> QED
  BY <1>3

(* What holds at the start and is handed on holds of all numbers.          *)
LEMMA Induction ==
  ASSUME NEW S, 0 \in S, \A k \in Nat : k \in S => k + 1 \in S
  PROVE  Nat \subseteq S
<1> SUFFICES ASSUME Nat \ S # {} PROVE FALSE
  OBVIOUS
<1>1. PICK m \in Nat \ S : \A k \in Nat \ S : m <= k
  BY Least
<1>2. m # 0 /\ m - 1 \in Nat /\ m - 1 \in S
  BY <1>1
<1>3. (m - 1) + 1 \in S
  BY <1>2
<1> QED
  BY <1>1, <1>3

(* g is a function's start: its first value, and the next ones up to k.    *)
Starts(g, k, base, next) ==
  g[0] = base /\ \A j \in 0..(k - 1) : g[j + 1] = next[<<j, g[j]>>]

(* A function can be started from its first value as far as one likes,     *)
(* ...                                                                     *)
LEMMA StartsExist ==
  ASSUME NEW V, NEW base \in V, NEW next \in [Nat \X V -> V], NEW k \in Nat
  PROVE  \E g \in [0..k -> V] : Starts(g, k, base, next)
<1> DEFINE S == {j \in Nat : \E g \in [0..j -> V] : Starts(g, j, base, next)}
<1>1. 0 \in S
  <2>1. [j \in 0..0 |-> base] \in [0..0 -> V]
    OBVIOUS
  <2>2. Starts([j \in 0..0 |-> base], 0, base, next)
    BY DEF Starts
  <2> QED
    BY <2>1, <2>2
<1>2. ASSUME NEW j \in Nat, j \in S PROVE j + 1 \in S
  <2>1. PICK g \in [0..j -> V] : Starts(g, j, base, next)
    BY <1>2
  <2>2. PICK v \in V : v = next[<<j, g[j]>>]
    BY <2>1
  <2>3. PICK h : h = [i \in 0..(j + 1) |-> IF i = j + 1 THEN v ELSE g[i]]
    OBVIOUS
  <2>4. h \in [0..(j + 1) -> V] /\ h[j + 1] = v /\ \A i \in 0..j : h[i] = g[i]
    BY <2>3
  <2>5. Starts(h, j + 1, base, next)
    <3>1. h[0] = base
      BY <2>1, <2>4 DEF Starts
    <3>2. ASSUME NEW i \in 0..j PROVE h[i + 1] = next[<<i, h[i]>>]
      <4>1. CASE i = j
        BY <2>2, <2>4, <4>1
      <4>2. CASE i # j
        BY <2>1, <2>4, <4>2 DEF Starts
      <4> QED
        BY <4>1, <4>2
    <3> QED
      BY <3>1, <3>2 DEF Starts
  <2> QED
    BY <2>4, <2>5
<1>3. Nat \subseteq S
  <2> HIDE DEF S
  <2> QED
    BY <1>1, <1>2, Induction
<1> QED
  BY <1>3

(* ... and any two such starts agree as far as both go.                    *)
LEMMA StartsAgree ==
  ASSUME NEW base, NEW next, NEW k \in Nat, NEW m \in Nat,
         NEW g, NEW h, Starts(g, k, base, next), Starts(h, m, base, next)
  PROVE  \A j \in Nat : j <= k /\ j <= m => g[j] = h[j]
<1> DEFINE S == {j \in Nat : j <= k /\ j <= m => g[j] = h[j]}
<1>1. 0 \in S
  BY DEF Starts
<1>2. ASSUME NEW j \in Nat, j \in S PROVE j + 1 \in S
  <2> SUFFICES ASSUME j + 1 <= k, j + 1 <= m PROVE g[j + 1] = h[j + 1]
    OBVIOUS
  <2>1. g[j] = h[j]
    BY <1>2
  <2>2. j \in 0..(k - 1) /\ j \in 0..(m - 1)
    OBVIOUS
  <2>3. g[j + 1] = next[<<j, g[j]>>] /\ h[j + 1] = next[<<j, h[j]>>]
    BY <2>2 DEF Starts
  <2> QED
    BY <2>1, <2>3
<1>3. Nat \subseteq S
  <2> HIDE DEF S
  <2> QED
    BY <1>1, <1>2, Induction
<1> QED
  BY <1>3

(* f starts with base, and next gives each value from the one before.      *)
Follows(f, V, base, next) ==
  f \in [Nat -> V] /\ f[0] = base /\ \A k \in Nat : f[k + 1] = next[<<k, f[k]>>]

(* So there is a function with a given first value in which each value     *)
(* gives the next.                                                         *)
LEMMA Recursion ==
  ASSUME NEW V, NEW base \in V, NEW next \in [Nat \X V -> V]
  PROVE  \E f : Follows(f, V, base, next)
<1> DEFINE G(k) == CHOOSE g \in [0..k -> V] : Starts(g, k, base, next)
<1>1. \A k \in Nat : G(k) \in [0..k -> V] /\ Starts(G(k), k, base, next)
  BY StartsExist
<1> HIDE DEF G
<1>2. PICK f : f = [k \in Nat |-> G(k)[k]]
  OBVIOUS
<1>3. f \in [Nat -> V]
  BY <1>1, <1>2
<1>4. f[0] = base
  BY <1>1, <1>2 DEF Starts
<1>5. ASSUME NEW k \in Nat PROVE f[k + 1] = next[<<k, f[k]>>]
  <2>1. f[k + 1] = next[<<k, G(k + 1)[k]>>]
    <3>1. Starts(G(k + 1), k + 1, base, next)
      BY <1>1
    <3>2. k \in 0..((k + 1) - 1)
      OBVIOUS
    <3>3. G(k + 1)[k + 1] = next[<<k, G(k + 1)[k]>>]
      BY <3>1, <3>2 DEF Starts
    <3> QED
      BY <1>2, <3>3
  <2>2. G(k + 1)[k] = G(k)[k]
    <3>1. PICK g, h : g = G(k + 1) /\ h = G(k)
      OBVIOUS
    <3>2. k + 1 \in Nat /\ Starts(g, k + 1, base, next) /\ Starts(h, k, base, next)
      BY <1>1, <3>1
    <3>3. \A j \in Nat : j <= k + 1 /\ j <= k => g[j] = h[j]
      BY <3>2, StartsAgree
    <3> QED
      BY <3>1, <3>3
  <2> QED
    BY <1>2, <2>1, <2>2
<1> QED
  BY <1>3, <1>4, <1>5 DEF Follows

(* What holds of a finite set if it holds of the set without any one of    *)
(* its members holds of all.                                               *)
LEMMA SetInduction ==
  ASSUME NEW S, IsFiniteSet(S), NEW Q,
         \A T \in SUBSET S : (\A x \in T : T \ {x} \in Q) => T \in Q
  PROVE  SUBSET S \subseteq Q
<1> SUFFICES ASSUME (SUBSET S) \ Q # {} PROVE FALSE
  OBVIOUS
<1>1. \A T \in SUBSET S : IsFiniteSet(T) /\ Cardinality(T) \in Nat
  BY FS_Subset, FS_CardinalityType
<1>2. PICK K : K = {c \in Nat : \E T \in (SUBSET S) \ Q : c = Cardinality(T)}
  OBVIOUS
<1>3. K \in SUBSET Nat /\ K # {}
  BY <1>1, <1>2
<1>4. PICK k \in K : \A j \in K : k <= j
  BY <1>3, Least
<1>5. PICK T \in (SUBSET S) \ Q : Cardinality(T) = k
  BY <1>2, <1>4
<1>6. ASSUME NEW x \in T PROVE T \ {x} \in Q
  <2>1. T \ {x} \in SUBSET S
    OBVIOUS
  <2>2. Cardinality(T \ {x}) = Cardinality(T) - 1
    BY <1>1, FS_RemoveElement
  <2>3. PICK c : c = Cardinality(T \ {x})
    OBVIOUS
  <2>4. c \in Nat /\ c = k - 1 /\ k \in Nat
    BY <1>1, <1>3, <1>5, <2>1, <2>2, <2>3
  <2>5. c \notin K
    BY <1>3, <1>4, <2>4
  <2>6. PICK U : U = T \ {x}
    OBVIOUS
  <2>7. U \notin (SUBSET S) \ Q
    BY <1>2, <2>3, <2>4, <2>5, <2>6
  <2> QED
    BY <2>1, <2>6, <2>7
<1>7. T \in SUBSET S /\ T \notin Q /\ \A x \in T : T \ {x} \in Q
  BY <1>5, <1>6
<1> QED
  BY <1>7

(* A number above another is the next of one.                              *)
LEMMA Predecessor == \A n, k \in Nat : k < n => \E j \in Nat : n = j + 1
<1> SUFFICES ASSUME NEW n \in Nat, NEW k \in Nat, k < n PROVE \E j \in Nat : n = j + 1
  OBVIOUS
<1>1. n - 1 \in Nat /\ n = (n - 1) + 1
  OBVIOUS
<1> QED
  BY <1>1

(* What holds of a thing if it holds of all smaller ones holds of all.     *)
LEMMA SmallerFirst ==
  ASSUME NEW D, NEW m \in [D -> Nat], NEW Q, \A x \in D : (\A y \in D : m[y] < m[x] => y \in Q) => x \in Q
  PROVE  D \subseteq Q
<1> SUFFICES ASSUME D \ Q # {} PROVE FALSE
  OBVIOUS
<1>1. PICK K : K = {m[x] : x \in D \ Q}
  OBVIOUS
<1>2. K \in SUBSET Nat /\ K # {}
  BY <1>1
<1>3. PICK k \in K : \A j \in K : k <= j
  BY <1>2, Least
<1>4. PICK x \in D \ Q : k = m[x]
  BY <1>1, <1>3
<1>5. ASSUME NEW y \in D, m[y] < m[x] PROVE y \in Q
  <2> SUFFICES ASSUME y \notin Q PROVE FALSE
    OBVIOUS
  <2>1. m[y] \in K
    BY <1>1
  <2> QED
    BY <1>3, <1>4, <1>5, <2>1
<1> QED
  BY <1>4, <1>5

-----------------------------------------------------------------------------
(* Functions defined by recursion                                          *)

(* f goes from base in n steps of next.                                    *)
Steps(f, V, n, base, next) ==
  f \in [0..n -> V] /\ f[0] = base /\ \A k \in 1..n : f[k] = next[<<k, f[k - 1]>>]

(* A function of the numbers up to n in which each value gives the next.   *)
LEMMA StepsExist ==
  ASSUME NEW V, NEW n \in Nat, NEW base \in V, NEW next \in [(1..n) \X V -> V]
  PROVE  \E f : Steps(f, V, n, base, next)
<1>1. PICK step : step = [q \in Nat \X V |-> IF q[1] + 1 \in 1..n THEN next[<<q[1] + 1, q[2]>>] ELSE base]
  OBVIOUS
<1>2. step \in [Nat \X V -> V]
  BY <1>1
<1>3. PICK F : Follows(F, V, base, step)
  BY <1>2, Recursion
<1>4. PICK f : f = [k \in 0..n |-> F[k]]
  OBVIOUS
<1>5. f \in [0..n -> V] /\ f[0] = base
  BY <1>3, <1>4 DEF Follows
<1>6. ASSUME NEW k \in 1..n PROVE f[k] = next[<<k, f[k - 1]>>]
  <2>1. PICK j \in Nat : k = j + 1
    BY Predecessor
  <2>2. F[j + 1] = step[<<j, F[j]>>] /\ F[j] \in V
    BY <1>3 DEF Follows
  <2>3. step[<<j, F[j]>>] = next[<<k, F[j]>>]
    BY <1>1, <2>1, <2>2
  <2>4. k - 1 = j /\ j \in 0..n
    BY <2>1
  <2>5. f[k] = F[j + 1] /\ f[k - 1] = F[j]
    BY <1>4, <2>1, <2>4
  <2> QED
    BY <2>2, <2>3, <2>5
<1> QED
  BY <1>5, <1>6 DEF Steps

(* Two such functions are one.                                             *)
UpTo(f, n) == f = [k \in 0..n |-> f[k]]

(* Two functions that begin alike and go on alike are the same.            *)
LEMMA SameSteps ==
  ASSUME NEW n \in Nat, NEW f, NEW h, UpTo(f, n), UpTo(h, n), f[0] = h[0],
         \A k \in 1..n : f[k - 1] = h[k - 1] => f[k] = h[k]
  PROVE  f = h
<1>1. PICK S : S = {k \in Nat : k <= n => f[k] = h[k]}
  OBVIOUS
<1>2. 0 \in S
  BY <1>1
<1>3. ASSUME NEW k \in Nat, k \in S PROVE k + 1 \in S
  <2> SUFFICES ASSUME k + 1 <= n PROVE f[k + 1] = h[k + 1]
    BY <1>1
  <2>1. PICK j \in 1..n : j = k + 1 /\ j - 1 = k
    OBVIOUS
  <2>2. f[j - 1] = h[j - 1]
    BY <1>1, <1>3, <2>1
  <2> QED
    BY <2>1, <2>2
<1>4. Nat \subseteq S
  BY <1>2, <1>3, Induction
<1> QED
  BY <1>1, <1>4 DEF UpTo

(* A loop starts over with p[x] until it stops, and each time m has grown  *)
(* smaller; what it returns is made of what comes later, by g.             *)
Loops(f, D, V, stop, p, b, g) ==
  f \in [D -> V] /\ \A x \in D : f[x] = IF x \in stop THEN b[x] ELSE g[<<x, f[p[x]]>>]

(* Such a loop has a result for all it can start with.                     *)
LEMMA LoopsEnd ==
  ASSUME NEW D, NEW V, NEW stop \in SUBSET D, NEW m \in [D -> Nat], NEW p \in [D -> D],
         NEW b \in [D -> V], NEW g \in [D \X V -> V], \A x \in D \ stop : m[p[x]] < m[x]
  PROVE  \E f : Loops(f, D, V, stop, p, b, g)
<1> DEFINE W == [D -> V]
           Once(h) == [x \in D |-> IF x \in stop THEN b[x] ELSE g[<<x, h[p[x]]>>]]
<1>1. \A h \in W : Once(h) \in W
  OBVIOUS
<1>2. PICK next : next = [q \in Nat \X W |-> Once(q[2])]
  OBVIOUS
<1>3. next \in [Nat \X W -> W] /\ \A k \in Nat, h \in W : next[<<k, h>>] = Once(h)
  BY <1>1, <1>2
<1>4. PICK F : Follows(F, W, b, next)
  <2> HIDE DEF W
  <2>1. b \in W
    BY DEF W
  <2> QED
    BY <1>3, <2>1, Recursion
<1>5. F \in [Nat -> W] /\ F[0] = b /\ \A k \in Nat : F[k + 1] = Once(F[k])
  <2> HIDE DEF W, Once
  <2> QED
    BY <1>3, <1>4 DEF Follows
<1>6. ASSUME NEW k \in Nat, NEW x \in D PROVE F[k + 1][x] = IF x \in stop THEN b[x] ELSE g[<<x, F[k][p[x]]>>]
  BY <1>5
<1>7. ASSUME NEW x \in stop, NEW k \in Nat PROVE F[k][x] = b[x]
  <2>1. CASE k = 0
    BY <1>5, <2>1
  <2>2. CASE k # 0
    <3>1. PICK j \in Nat : k = j + 1
      <4>1. 0 < k
        BY <2>2
      <4> QED
        BY <4>1, Predecessor
    <3> QED
      BY <1>6, <3>1
  <2> QED
    BY <2>1, <2>2
<1> HIDE DEF W, Once
<1> DEFINE S == {k \in Nat : \A j \in 0..k : \A x \in D : m[x] <= j => F[j][x] = F[m[x]][x]}
<1>8. 0 \in S
  OBVIOUS
<1>9. ASSUME NEW k \in Nat, k \in S PROVE k + 1 \in S
  <2> SUFFICES ASSUME NEW x \in D, m[x] <= k PROVE F[k + 1][x] = F[m[x]][x]
    BY <1>9
  <2>1. CASE x \in stop
    BY <1>7, <2>1
  <2>2. CASE x \notin stop
    <3>1. p[x] \in D /\ m[p[x]] \in Nat /\ m[x] \in Nat /\ m[p[x]] < m[x]
      BY <2>2
    <3>2. PICK j \in Nat : m[x] = j + 1
      BY <3>1, Predecessor
    <3>3. F[j][p[x]] = F[m[p[x]]][p[x]] /\ F[k][p[x]] = F[m[p[x]]][p[x]]
      BY <1>9, <3>1, <3>2
    <3>4. F[k + 1][x] = g[<<x, F[k][p[x]]>>] /\ F[j + 1][x] = g[<<x, F[j][p[x]]>>]
      BY <1>6, <2>2
    <3> QED
      BY <3>2, <3>3, <3>4
  <2> QED
    BY <2>1, <2>2
<1>10. Nat \subseteq S
  <2> HIDE DEF S
  <2> QED
    BY <1>8, <1>9, Induction
<1>11. PICK f : f = [x \in D |-> F[m[x]][x]]
  OBVIOUS
<1>12. f \in [D -> V]
  BY <1>5, <1>11 DEF W
<1>13. ASSUME NEW x \in D PROVE f[x] = IF x \in stop THEN b[x] ELSE g[<<x, f[p[x]]>>]
  <2>1. CASE x \in stop
    BY <1>7, <1>11, <2>1
  <2>2. CASE x \notin stop
    <3>1. p[x] \in D /\ m[p[x]] \in Nat /\ m[x] \in Nat /\ m[p[x]] < m[x]
      BY <2>2
    <3>2. PICK j \in Nat : m[x] = j + 1
      BY <3>1, Predecessor
    <3>3. F[j][p[x]] = F[m[p[x]]][p[x]]
      <4>1. j \in S /\ m[p[x]] <= j
        BY <1>10, <3>1, <3>2
      <4> QED
        BY <3>1, <4>1
    <3>4. F[j + 1][x] = g[<<x, F[j][p[x]]>>]
      BY <1>6, <2>2
    <3> QED
      BY <1>11, <2>2, <3>1, <3>2, <3>3, <3>4
  <2> QED
    BY <2>1, <2>2
<1> QED
  BY <1>12, <1>13 DEF Loops
=============================================================================

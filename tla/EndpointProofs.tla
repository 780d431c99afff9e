--------------------------- MODULE EndpointProofs ----------------------------
(* Theorems about the parts of MCEndpoints, for every value of their       *)
(* constants: the breaker bounds what it admits, the limiter holds a token *)
(* for each request, Forking and Broadcast answer as they promise and once *)
(* only, a panic stays with its request, a closed mock server is quiet, a  *)
(* server answers each request once, and a client of UDP or WebSocket gets *)
(* one result, its own.  A part begins with its invariant, which a lemma   *)
(* for each action keeps; at the end the parts are put together.           *)
EXTENDS MCEndpoints, FiniteSetTheorems, SequenceTheorems, TLAPS

-----------------------------------------------------------------------------
(* CircuitBreaker *)

(* What holds of the breaker in every step: its types, and both bounds.    *)
BreakerInv == TypeOK /\ CountBounded /\ OpensOnFailures

(* Every caller may be admitted, and there are finitely many.              *)
LEMMA AdmittedIsFinite ==
  /\ Cardinality(Requests) \in Nat
  /\ IsFiniteSet(Admitted) /\ Cardinality(Admitted) \in Nat
  /\ Cardinality(Admitted) <= Cardinality(Requests)
<1>1. IsFiniteSet(Requests)
  BY BreakerAssumption
<1>2. Admitted \in SUBSET Requests
  BY DEF Admitted
<1> QED
  BY <1>1, <1>2, FS_Subset, FS_CardinalityType

(* The same of the callers that are admitted after a step.                 *)
LEMMA AdmittedNext ==
  /\ IsFiniteSet(Admitted') /\ Cardinality(Admitted') \in Nat
  /\ Cardinality(Admitted') <= Cardinality(Requests)
<1>1. IsFiniteSet(Requests)
  BY BreakerAssumption
<1>2. Admitted' \in SUBSET Requests
  BY DEF Admitted
<1> QED
  BY <1>1, <1>2, FS_Subset, FS_CardinalityType

(* Half a threshold is a number and no more than the threshold.            *)
LEMMA HalfThreshold == Threshold \div 2 \in Nat /\ Threshold \div 2 <= Threshold
  BY BreakerAssumption

(* The breaker starts with nobody admitted and no failure.                 *)
LEMMA BreakerInit == Init => BreakerInv
<1> SUFFICES ASSUME Init PROVE BreakerInv
  OBVIOUS
<1>1. TypeOK
  BY BreakerAssumption DEF Init, TypeOK, Steps
<1>2. CountBounded
  BY AdmittedIsFinite, BreakerAssumption DEF Init, CountBounded
<1>3. OpensOnFailures
  BY HalfThreshold, BreakerAssumption DEF Init, OpensOnFailures
<1> QED
  BY <1>1, <1>2, <1>3 DEF BreakerInv

(* Each step keeps the bounds: only a load below the threshold and a probe *)
(* that halves the count admit, and a failure that counts is one less on   *)
(* its way.                                                                *)
LEMMA BreakerStep == BreakerInv /\ [Next]_bvars => BreakerInv'
<1> SUFFICES ASSUME BreakerInv, [Next]_bvars PROVE BreakerInv'
  OBVIOUS
<1> USE BreakerAssumption DEF BreakerInv
<1>1. CASE Change
  <2>1. TypeOK'
    BY <1>1 DEF Change, TypeOK
  <2>2. Admitted' = Admitted
    BY <1>1 DEF Change, Admitted
  <2> QED
    BY <1>1, <2>1, <2>2 DEF Change, CountBounded, OpensOnFailures
<1>2. CASE Tick
  <2>1. TypeOK'
    BY <1>2 DEF Tick, TypeOK
  <2>2. Admitted' = Admitted
    BY <1>2 DEF Tick, Admitted
  <2> QED
    BY <1>2, <2>1, <2>2 DEF Tick, CountBounded, OpensOnFailures
<1>3. ASSUME NEW r \in Requests, Load(r) PROVE BreakerInv'
  <2>1. TypeOK'
    BY <1>3 DEF Load, Goto, TypeOK, Steps
  <2>2. CASE failCount > Threshold
    <3>1. Admitted' = Admitted
      BY <1>3, <2>2 DEF Load, Goto, Admitted, TypeOK
    <3> QED
      BY <1>3, <2>1, <3>1 DEF Load, CountBounded, OpensOnFailures
  <2>3. CASE ~(failCount > Threshold)
    <3>1. failCount' = failCount /\ failures' = failures /\ failCount \in Nat /\ failCount <= Threshold
      BY <1>3, <2>3 DEF Load, TypeOK
    <3>2. CountBounded'
      BY <3>1, AdmittedNext, AdmittedIsFinite DEF CountBounded
    <3> QED
      BY <2>1, <3>1, <3>2 DEF OpensOnFailures
  <2> QED
    BY <2>2, <2>3
<1>4. ASSUME NEW r \in Requests, Interval(r) PROVE BreakerInv'
  <2>1. TypeOK'
    BY <1>4 DEF Interval, Goto, TypeOK, Steps
  <2>2. Admitted' = Admitted
    BY <1>4 DEF Interval, Goto, Admitted, TypeOK
  <2> QED
    BY <1>4, <2>1, <2>2 DEF Interval, CountBounded, OpensOnFailures
<1>5. ASSUME NEW r \in Requests, HalfOpen(r) PROVE BreakerInv'
  <2>1. TypeOK'
    BY <1>5, HalfThreshold DEF HalfOpen, Goto, TypeOK, Steps
  <2>2. failCount' = Threshold \div 2 /\ failures' = failures /\ failures \in Nat
    BY <1>5 DEF HalfOpen, TypeOK
  <2>3. CountBounded'
    BY <2>2, AdmittedNext, AdmittedIsFinite, HalfThreshold DEF CountBounded
  <2>4. OpensOnFailures'
    BY <2>2, HalfThreshold DEF OpensOnFailures
  <2> QED
    BY <2>1, <2>3, <2>4
<1>6. ASSUME NEW r \in Requests, Answer(r) PROVE BreakerInv'
  <2>1. TypeOK'
    BY <1>6 DEF Answer, Goto, TypeOK, Steps
  <2>2. Admitted' = Admitted
    BY <1>6 DEF Answer, Goto, Admitted, TypeOK
  <2> QED
    BY <1>6, <2>1, <2>2 DEF Answer, CountBounded, OpensOnFailures
<1>7. ASSUME NEW r \in Requests, Clear(r) PROVE BreakerInv'
  <2>1. TypeOK'
    BY <1>7 DEF Clear, Goto, TypeOK, Steps
  <2>2. failCount' = 0 /\ failures' = 0
    BY <1>7 DEF Clear
  <2>3. CountBounded'
    BY <2>2, AdmittedNext, AdmittedIsFinite DEF CountBounded
  <2>4. OpensOnFailures'
    BY <2>2, HalfThreshold DEF OpensOnFailures
  <2> QED
    BY <2>1, <2>3, <2>4
<1>8. ASSUME NEW r \in Requests, Count(r) PROVE BreakerInv'
  <2>1. TypeOK'
    BY <1>8, AdmittedIsFinite DEF Count, Goto, TypeOK, Steps
  <2>2. r \in Admitted /\ Admitted' = Admitted \ {r}
    BY <1>8 DEF Count, Goto, Admitted, TypeOK
  <2>3. Cardinality(Admitted') = Cardinality(Admitted) - 1
    BY <2>2, AdmittedIsFinite, FS_RemoveElement
  <2>4. failCount' = failCount + 1 /\ failCount \in Nat
    BY <1>8 DEF Count, TypeOK
  <2>5. CountBounded'
    BY <2>3, <2>4, AdmittedIsFinite DEF CountBounded
  <2>6. failCount' <= Threshold + Cardinality(Requests)
    BY <2>4, <2>5, AdmittedIsFinite, AdmittedNext DEF CountBounded
  <2>7. OpensOnFailures'
    BY <1>8, <2>4, <2>6, AdmittedIsFinite, HalfThreshold DEF Count, OpensOnFailures, MostFailures, TypeOK
  <2> QED
    BY <2>1, <2>5, <2>7
<1>9. ASSUME NEW r \in Requests, Stamp(r) PROVE BreakerInv'
  <2>1. TypeOK'
    BY <1>9 DEF Stamp, Goto, TypeOK, Steps
  <2>2. Admitted' = Admitted
    BY <1>9 DEF Stamp, Goto, Admitted, TypeOK
  <2> QED
    BY <1>9, <2>1, <2>2 DEF Stamp, CountBounded, OpensOnFailures
<1>10. ASSUME NEW r \in Requests, Refuse(r) PROVE BreakerInv'
  <2>1. TypeOK'
    BY <1>10 DEF Refuse, Goto, TypeOK, Steps
  <2>2. Admitted' = Admitted
    BY <1>10 DEF Refuse, Goto, Admitted, TypeOK
  <2> QED
    BY <1>10, <2>1, <2>2 DEF Refuse, CountBounded, OpensOnFailures
<1>11. CASE UNCHANGED bvars
  BY <1>11 DEF bvars, TypeOK, CountBounded, OpensOnFailures, Admitted
<1> QED
  BY <1>1, <1>2, <1>3, <1>4, <1>5, <1>6, <1>7, <1>8, <1>9, <1>10, <1>11 DEF Next, Step

(* The breaker counts failures: while it is over its threshold it admits   *)
(* no more than were on their way in, and no fewer failures in a row than  *)
(* Threshold - Threshold \div 2 ever close the door.                       *)
THEOREM BreakerCounts == Spec => []CountsFailures
<1>1. BreakerInv => CountsFailures
  BY DEF BreakerInv, CountsFailures
<1> QED
  BY <1>1, BreakerInit, BreakerStep, PTL DEF Spec
-----------------------------------------------------------------------------
(* ConcurrentLimiter *)

(* No element of s is there twice.                                         *)
Distinct(s) == \A i, j \in DOMAIN s : s[i] = s[j] => i = j

(* What is left of a sequence when one place is taken out of it.           *)
LEMMA RemovedAt ==
  ASSUME NEW S, NEW s \in Seq(S), NEW k \in DOMAIN s
  PROVE  LET t == Limiter!RemoveAt(s, k) IN
         /\ t \in Seq(S) /\ Len(t) = Len(s) - 1
         /\ \A j \in 1..Len(t) : t[j] = IF j < k THEN s[j] ELSE s[j+1]
<1> DEFINE front == SubSeq(s, 1, k-1)
           rest  == SubSeq(s, k+1, Len(s))
<1>1. Len(s) \in Nat /\ k \in 1..Len(s) /\ DOMAIN s = 1..Len(s)
  OBVIOUS
<1>2. front \in Seq(S) /\ Len(front) = k - 1 /\ \A j \in 1..(k-1) : front[j] = s[j]
  BY <1>1
<1>3. rest \in Seq(S) /\ Len(rest) = Len(s) - k /\ \A j \in 1..(Len(s) - k) : rest[j] = s[k+j]
  BY <1>1
<1> HIDE DEF front, rest
<1>4. Limiter!RemoveAt(s, k) = front \o rest
  BY DEF Limiter!RemoveAt, front, rest
<1>5. /\ front \o rest \in Seq(S) /\ Len(front \o rest) = Len(s) - 1
      /\ \A j \in 1..(Len(s) - 1) : (front \o rest)[j] = IF j < k THEN s[j] ELSE s[j+1]
  <2>1. front \o rest \in Seq(S) /\ Len(front \o rest) = Len(s) - 1
    <3>1. front \o rest \in Seq(S) /\ Len(front \o rest) = Len(front) + Len(rest)
      BY <1>2, <1>3, ConcatProperties
    <3> QED
      BY <1>1, <1>2, <1>3, <3>1
  <2>2. ASSUME NEW j \in 1..(Len(s) - 1) PROVE (front \o rest)[j] = IF j < k THEN s[j] ELSE s[j+1]
    <3>1. CASE j < k
      BY <1>1, <1>2, <1>3, <3>1
    <3>2. CASE ~(j < k)
      <4>1. (front \o rest)[j] = rest[j - (k - 1)]
        BY <1>1, <1>2, <1>3, <3>2
      <4>2. j - (k - 1) \in 1..(Len(s) - k) /\ k + (j - (k - 1)) = j + 1
        BY <1>1, <3>2
      <4> QED
        BY <4>1, <4>2, <1>3, <3>2
    <3> QED
      BY <3>1, <3>2
  <2> QED
    BY <2>1, <2>2
<1> QED
  BY <1>4, <1>5

(* The elements that are left, if none was there twice: all but that one,  *)
(* and still none twice.                                                   *)
LEMMA RemovedElement ==
  ASSUME NEW S, NEW s \in Seq(S), NEW k \in DOMAIN s, Distinct(s)
  PROVE  LET t == Limiter!RemoveAt(s, k) IN
         Distinct(t) /\ Limiter!ToSet(t) = Limiter!ToSet(s) \ {s[k]}
<1> DEFINE t == Limiter!RemoveAt(s, k)
<1>1. /\ t \in Seq(S) /\ Len(t) = Len(s) - 1
      /\ \A j \in 1..Len(t) : t[j] = IF j < k THEN s[j] ELSE s[j+1]
  BY RemovedAt
<1> HIDE DEF t
<1>2. DOMAIN t = 1..(Len(s) - 1) /\ DOMAIN s = 1..Len(s) /\ Len(s) \in Nat /\ k \in 1..Len(s)
  BY <1>1
<1>3. ASSUME NEW i \in DOMAIN t, NEW j \in DOMAIN t, t[i] = t[j] PROVE i = j
  <2> DEFINE a == IF i < k THEN i ELSE i+1
             b == IF j < k THEN j ELSE j+1
  <2>1. a \in DOMAIN s /\ b \in DOMAIN s /\ t[i] = s[a] /\ t[j] = s[b]
    BY <1>1, <1>2
  <2>2. a = b
    BY <2>1, <1>3 DEF Distinct
  <2> QED
    BY <2>2, <1>2
<1>4. Distinct(t)
  BY <1>3 DEF Distinct
<1>5. ASSUME NEW x \in Limiter!ToSet(t) PROVE x \in Limiter!ToSet(s) \ {s[k]}
  <2>1. PICK i \in DOMAIN t : x = t[i]
    BY DEF Limiter!ToSet
  <2> DEFINE a == IF i < k THEN i ELSE i+1
  <2>2. a \in DOMAIN s /\ x = s[a] /\ a # k
    BY <1>1, <1>2, <2>1
  <2>3. x # s[k]
    BY <2>2 DEF Distinct
  <2> QED
    BY <2>2, <2>3 DEF Limiter!ToSet
<1>6. ASSUME NEW x \in Limiter!ToSet(s) \ {s[k]} PROVE x \in Limiter!ToSet(t)
  <2>1. PICK i \in DOMAIN s : x = s[i] /\ i # k
    BY DEF Limiter!ToSet
  <2> DEFINE a == IF i < k THEN i ELSE i-1
  <2>2. a \in DOMAIN t /\ x = t[a]
    BY <1>1, <1>2, <2>1
  <2> QED
    BY <2>2 DEF Limiter!ToSet
<1>7. Limiter!ToSet(t) = Limiter!ToSet(s) \ {s[k]}
  BY <1>5, <1>6
<1> QED
  BY <1>4, <1>7 DEF t

(* The first element goes: all the others are left, and none twice.        *)
LEMMA HeadTaken ==
  ASSUME NEW S, NEW s \in Seq(S), s # <<>>, Distinct(s)
  PROVE  /\ Head(s) \in S /\ Head(s) \in Limiter!ToSet(s) /\ Tail(s) \in Seq(S)
         /\ Distinct(Tail(s)) /\ Limiter!ToSet(Tail(s)) = Limiter!ToSet(s) \ {Head(s)}
<1>1. Len(s) \in Nat \ {0} /\ DOMAIN s = 1..Len(s) /\ Head(s) = s[1] /\ Head(s) \in S
  BY EmptySeq, HeadTailProperties
<1>2. /\ Tail(s) \in Seq(S) /\ Len(Tail(s)) = Len(s) - 1 /\ DOMAIN Tail(s) = 1..(Len(s) - 1)
      /\ \A i \in 1..(Len(s) - 1) : Tail(s)[i] = s[i+1]
  BY <1>1, HeadTailProperties
<1>3. Head(s) \in Limiter!ToSet(s)
  BY <1>1 DEF Limiter!ToSet
<1>4. ASSUME NEW i \in DOMAIN Tail(s), NEW j \in DOMAIN Tail(s), Tail(s)[i] = Tail(s)[j] PROVE i = j
  BY <1>1, <1>2, <1>4 DEF Distinct
<1>5. Distinct(Tail(s))
  BY <1>4 DEF Distinct
<1>6. ASSUME NEW x \in Limiter!ToSet(Tail(s)) PROVE x \in Limiter!ToSet(s) \ {Head(s)}
  <2>1. PICK i \in 1..(Len(s) - 1) : x = s[i+1]
    BY <1>2 DEF Limiter!ToSet
  <2>2. i+1 \in DOMAIN s /\ 1 \in DOMAIN s /\ i+1 # 1
    BY <1>1
  <2>3. x # Head(s)
    BY <2>1, <2>2, <1>1 DEF Distinct
  <2> QED
    BY <2>1, <2>2, <2>3 DEF Limiter!ToSet
<1>7. ASSUME NEW x \in Limiter!ToSet(s) \ {Head(s)} PROVE x \in Limiter!ToSet(Tail(s))
  <2>1. PICK i \in DOMAIN s : x = s[i] /\ i # 1
    BY <1>1 DEF Limiter!ToSet
  <2>2. i-1 \in DOMAIN Tail(s) /\ Tail(s)[i-1] = x
    BY <1>1, <1>2, <2>1
  <2> QED
    BY <2>2 DEF Limiter!ToSet
<1> QED
  BY <1>1, <1>2, <1>3, <1>5, <1>6, <1>7

(* A newcomer at the end: one more, and still none twice.                  *)
LEMMA Appended ==
  ASSUME NEW S, NEW s \in Seq(S), NEW e \in S, Distinct(s), e \notin Limiter!ToSet(s)
  PROVE  /\ Append(s, e) \in Seq(S) /\ Distinct(Append(s, e)) /\ Append(s, e) # <<>>
         /\ Limiter!ToSet(Append(s, e)) = Limiter!ToSet(s) \union {e}
<1> DEFINE t == Append(s, e)
<1>1. /\ t \in Seq(S) /\ t # <<>> /\ Len(t) = Len(s) + 1
      /\ \A i \in 1..Len(s) : t[i] = s[i]
      /\ t[Len(s) + 1] = e
  BY AppendProperties
<1> HIDE DEF t
<1>2. Len(s) \in Nat /\ DOMAIN s = 1..Len(s) /\ DOMAIN t = 1..(Len(s) + 1)
  BY <1>1
<1>3. \A i \in DOMAIN s : s[i] # e
  BY DEF Limiter!ToSet
<1>4. ASSUME NEW i \in DOMAIN t, NEW j \in DOMAIN t, t[i] = t[j] PROVE i = j
  BY <1>1, <1>2, <1>3, <1>4 DEF Distinct
<1>5. Limiter!ToSet(t) = Limiter!ToSet(s) \union {e}
  <2>1. ASSUME NEW x \in Limiter!ToSet(t) PROVE x \in Limiter!ToSet(s) \union {e}
    <3>1. PICK i \in 1..(Len(s) + 1) : x = t[i]
      BY <1>2 DEF Limiter!ToSet
    <3>2. CASE i = Len(s) + 1
      BY <1>1, <3>1, <3>2
    <3>3. CASE i # Len(s) + 1
      BY <1>1, <1>2, <3>1, <3>3 DEF Limiter!ToSet
    <3> QED
      BY <3>2, <3>3
  <2>2. ASSUME NEW x \in Limiter!ToSet(s) PROVE x \in Limiter!ToSet(t)
    BY <1>1, <1>2 DEF Limiter!ToSet
  <2>3. e \in Limiter!ToSet(t)
    BY <1>1, <1>2 DEF Limiter!ToSet
  <2> QED
    BY <2>1, <2>2, <2>3
<1> QED
  BY <1>1, <1>4, <1>5 DEF t, Distinct

(* Those who hold a token, and those who wait for one.                     *)
Holding == Limiter!Doing({"running", "returned", "failed"})
Waiting == Limiter!Doing({"waiting"})

(* The cardinality that the limiter's module knows is that of this one.    *)
LEMMA LimiterCounts == \A S : Limiter!Cardinality(S) = Cardinality(S)
  BY DEF Limiter!Cardinality, Cardinality

(* What the limiter holds in every step, with its parts by name.           *)
LEMMA LimiterParts ==
  Limiter!LimiterInv <=>
    /\ timed \in BOOLEAN /\ tasks \in 0..Slots /\ parked \in Seq(Callers)
    /\ where \in [Callers -> {"idle", "waiting", "running", "returned", "failed"}]
    /\ tasks = Cardinality(Holding) /\ Limiter!ToSet(parked) = Waiting
    /\ parked # <<>> => tasks = Slots
    /\ Distinct(parked)
  BY LimiterCounts DEF Limiter!LimiterInv, Limiter!TypeOK, Limiter!SlotsHeld, Limiter!QueuedOnce,
         Holding, Waiting, Distinct

(* The same after a step.                                                  *)
LEMMA LimiterPartsNext ==
  Limiter!LimiterInv' <=>
    /\ timed' \in BOOLEAN /\ tasks' \in 0..Slots /\ parked' \in Seq(Callers)
    /\ where' \in [Callers -> {"idle", "waiting", "running", "returned", "failed"}]
    /\ tasks' = Cardinality(Holding') /\ Limiter!ToSet(parked') = Waiting'
    /\ parked' # <<>> => tasks' = Slots
    /\ Distinct(parked')
  BY LimiterCounts DEF Limiter!LimiterInv, Limiter!TypeOK, Limiter!SlotsHeld, Limiter!QueuedOnce,
         Holding, Waiting, Distinct

(* There are finitely many callers, so finitely many hold a token.         *)
LEMMA HoldingIsFinite == IsFiniteSet(Holding)
<1>1. Holding \in SUBSET Callers
  BY DEF Holding, Limiter!Doing
<1> QED
  BY <1>1, EndpointsAssumption, FS_Subset

(* A limiter starts with an empty channel.                                 *)
LEMMA LimiterInit == Limiter!Init => Limiter!LimiterInv
<1> SUFFICES ASSUME Limiter!Init PROVE Limiter!LimiterInv
  OBVIOUS
<1>1. Holding = {} /\ Waiting = {}
  BY DEF Limiter!Init, Holding, Waiting, Limiter!Doing
<1>2. Cardinality(Holding) = 0 /\ 0 \in 0..Slots
  BY <1>1, FS_EmptySet, EndpointsAssumption
<1>3. parked = <<>> /\ parked \in Seq(Callers) /\ DOMAIN parked = {}
  BY DEF Limiter!Init
<1>4. Limiter!ToSet(parked) = {} /\ Distinct(parked)
  BY <1>3 DEF Limiter!ToSet, Distinct
<1>5. where \in [Callers -> {"idle", "waiting", "running", "returned", "failed"}]
  BY DEF Limiter!Init
<1> QED
  BY <1>1, <1>2, <1>3, <1>4, <1>5, LimiterParts DEF Limiter!Init

(* A caller that comes takes a free token, or parks behind the others.     *)
LEMMA AcquireStep ==
  ASSUME NEW c \in Callers, Limiter!LimiterInv, Limiter!Acquire(c)
  PROVE  Limiter!LimiterInv'
<1> USE EndpointsAssumption
<1>1. /\ timed \in BOOLEAN /\ tasks \in 0..Slots /\ parked \in Seq(Callers)
      /\ where \in [Callers -> {"idle", "waiting", "running", "returned", "failed"}]
      /\ tasks = Cardinality(Holding) /\ Limiter!ToSet(parked) = Waiting
      /\ parked # <<>> => tasks = Slots
      /\ Distinct(parked)
  BY LimiterParts
<1>2. where[c] = "idle" /\ timed' = timed /\ c \notin Holding /\ c \notin Waiting
  BY DEF Limiter!Acquire, Holding, Waiting, Limiter!Doing
<1>3. CASE tasks < Slots
  <2>1. tasks' = tasks + 1 /\ where' = [where EXCEPT ![c] = "running"] /\ parked' = parked
    BY <1>3 DEF Limiter!Acquire
  <2>2. Holding' = Holding \union {c} /\ Waiting' = Waiting
    BY <1>1, <1>2, <2>1 DEF Holding, Waiting, Limiter!Doing
  <2>3. Cardinality(Holding') = Cardinality(Holding) + 1
    BY <1>2, <2>2, HoldingIsFinite, FS_AddElement
  <2>4. where' \in [Callers -> {"idle", "waiting", "running", "returned", "failed"}]
    BY <1>1, <2>1
  <2>5. tasks' \in 0..Slots /\ parked' = <<>>
    BY <1>1, <1>3, <2>1
  <2> QED
    BY <1>1, <1>2, <2>1, <2>2, <2>3, <2>4, <2>5, LimiterPartsNext
<1>4. CASE ~(tasks < Slots)
  <2>1. tasks' = tasks /\ where' = [where EXCEPT ![c] = "waiting"] /\ parked' = Append(parked, c)
    BY <1>4 DEF Limiter!Acquire
  <2>2. Holding' = Holding /\ Waiting' = Waiting \union {c}
    BY <1>1, <1>2, <2>1 DEF Holding, Waiting, Limiter!Doing
  <2>3. /\ parked' \in Seq(Callers) /\ Distinct(parked')
        /\ Limiter!ToSet(parked') = Limiter!ToSet(parked) \union {c}
    BY <1>1, <1>2, <2>1, Appended
  <2>4. where' \in [Callers -> {"idle", "waiting", "running", "returned", "failed"}]
    BY <1>1, <2>1
  <2>5. tasks' = Slots
    BY <1>1, <1>4, <2>1
  <2> QED
    BY <1>1, <1>2, <2>1, <2>2, <2>3, <2>4, <2>5, LimiterPartsNext
<1> QED
  BY <1>3, <1>4

(* A caller that gives up leaves its place, and the tokens as they are.    *)
LEMMA GiveUpStep ==
  ASSUME NEW c \in Callers, Limiter!LimiterInv, Limiter!GiveUp(c)
  PROVE  Limiter!LimiterInv'
<1>1. /\ timed \in BOOLEAN /\ tasks \in 0..Slots /\ parked \in Seq(Callers)
      /\ where \in [Callers -> {"idle", "waiting", "running", "returned", "failed"}]
      /\ tasks = Cardinality(Holding) /\ Limiter!ToSet(parked) = Waiting
      /\ parked # <<>> => tasks = Slots
      /\ Distinct(parked)
  BY LimiterParts
<1>2. PICK k \in DOMAIN parked : parked[k] = c /\ parked' = Limiter!RemoveAt(parked, k)
  BY DEF Limiter!GiveUp
<1>3. where' = [where EXCEPT ![c] = "idle"] /\ where[c] = "waiting" /\ timed' = timed /\ tasks' = tasks
  BY DEF Limiter!GiveUp
<1>4. Holding' = Holding /\ Waiting' = Waiting \ {c}
  BY <1>1, <1>3 DEF Holding, Waiting, Limiter!Doing
<1>5. parked' \in Seq(Callers)
  BY <1>1, <1>2, RemovedAt
<1>6. Distinct(parked') /\ Limiter!ToSet(parked') = Limiter!ToSet(parked) \ {c}
  BY <1>1, <1>2, RemovedElement
<1>7. where' \in [Callers -> {"idle", "waiting", "running", "returned", "failed"}]
  BY <1>1, <1>3
<1>8. parked # <<>>
  BY <1>1, <1>2
<1> QED
  BY <1>1, <1>3, <1>4, <1>5, <1>6, <1>7, <1>8, LimiterPartsNext

(* A call ends: with an error or a panic it still holds its token.         *)
LEMMA FinishStep ==
  ASSUME NEW c \in Callers, Limiter!LimiterInv, Limiter!Finish(c)
  PROVE  Limiter!LimiterInv'
<1>1. /\ timed \in BOOLEAN /\ tasks \in 0..Slots /\ parked \in Seq(Callers)
      /\ where \in [Callers -> {"idle", "waiting", "running", "returned", "failed"}]
      /\ tasks = Cardinality(Holding) /\ Limiter!ToSet(parked) = Waiting
      /\ parked # <<>> => tasks = Slots
      /\ Distinct(parked)
  BY LimiterParts
<1>2. PICK end \in {"returned", "failed"} : where' = [where EXCEPT ![c] = end]
  BY DEF Limiter!Finish
<1>3. where[c] = "running" /\ timed' = timed /\ tasks' = tasks /\ parked' = parked
  BY DEF Limiter!Finish
<1>4. Holding' = Holding /\ Waiting' = Waiting
  BY <1>1, <1>2, <1>3 DEF Holding, Waiting, Limiter!Doing
<1>5. where' \in [Callers -> {"idle", "waiting", "running", "returned", "failed"}]
  BY <1>1, <1>2
<1> QED
  BY <1>1, <1>3, <1>4, <1>5, LimiterPartsNext

(* A token that is released goes to the first who waits, or is free.       *)
LEMMA ReleaseStep ==
  ASSUME NEW c \in Callers, Limiter!LimiterInv, Limiter!Release(c)
  PROVE  Limiter!LimiterInv'
<1>1. /\ timed \in BOOLEAN /\ tasks \in 0..Slots /\ parked \in Seq(Callers)
      /\ where \in [Callers -> {"idle", "waiting", "running", "returned", "failed"}]
      /\ tasks = Cardinality(Holding) /\ Limiter!ToSet(parked) = Waiting
      /\ parked # <<>> => tasks = Slots
      /\ Distinct(parked)
  BY LimiterParts
<1>2. where[c] \in {"returned", "failed"} /\ tasks > 0 /\ timed' = timed
  BY DEF Limiter!Release
<1>3. c \in Holding /\ c \notin Waiting /\ IsFiniteSet(Holding)
  BY <1>2, HoldingIsFinite DEF Holding, Waiting, Limiter!Doing
<1>4. CASE parked = <<>>
  <2>1. tasks' = tasks - 1 /\ where' = [where EXCEPT ![c] = "idle"] /\ parked' = parked
    BY <1>4 DEF Limiter!Release
  <2>2. Holding' = Holding \ {c} /\ Waiting' = Waiting
    BY <1>1, <1>2, <2>1 DEF Holding, Waiting, Limiter!Doing
  <2>3. Cardinality(Holding') = Cardinality(Holding) - 1
    BY <1>3, <2>2, FS_RemoveElement
  <2>4. where' \in [Callers -> {"idle", "waiting", "running", "returned", "failed"}]
    BY <1>1, <2>1
  <2>5. tasks' \in 0..Slots
    BY <1>1, <1>2, <2>1, EndpointsAssumption
  <2> QED
    BY <1>1, <1>2, <1>4, <2>1, <2>2, <2>3, <2>4, <2>5, LimiterPartsNext
<1>5. CASE parked # <<>>
  <2> DEFINE h == Head(parked)
  <2>1. /\ h \in Callers /\ h \in Limiter!ToSet(parked) /\ Tail(parked) \in Seq(Callers)
        /\ Distinct(Tail(parked)) /\ Limiter!ToSet(Tail(parked)) = Limiter!ToSet(parked) \ {h}
    BY <1>1, <1>5, HeadTaken
  <2>2. tasks' = tasks /\ where' = [where EXCEPT ![c] = "idle", ![h] = "running"] /\ parked' = Tail(parked)
    BY <1>5 DEF Limiter!Release
  <2> HIDE DEF h
  <2>3. h \in Waiting /\ h # c /\ h \notin Holding
    BY <1>1, <1>3, <2>1 DEF Holding, Waiting, Limiter!Doing
  <2>4. Holding' = (Holding \ {c}) \union {h} /\ Waiting' = Waiting \ {h}
    BY <1>1, <1>2, <2>1, <2>2, <2>3 DEF Holding, Waiting, Limiter!Doing
  <2>5. IsFiniteSet(Holding \ {c}) /\ Cardinality(Holding \ {c}) = Cardinality(Holding) - 1
    BY <1>3, FS_RemoveElement
  <2>6. Cardinality(Holding') = Cardinality(Holding \ {c}) + 1
    BY <2>3, <2>4, <2>5, FS_AddElement
  <2>7. where' \in [Callers -> {"idle", "waiting", "running", "returned", "failed"}]
    BY <1>1, <2>1, <2>2
  <2>8. Cardinality(Holding') = Cardinality(Holding)
    BY <1>1, <2>5, <2>6
  <2>9. tasks' = Cardinality(Holding') /\ tasks' \in 0..Slots /\ (parked' # <<>> => tasks' = Slots)
    BY <1>1, <1>5, <2>2, <2>8
  <2>10. parked' \in Seq(Callers) /\ Distinct(parked') /\ Limiter!ToSet(parked') = Waiting'
    BY <1>1, <2>1, <2>2, <2>4
  <2> QED
    BY <1>1, <1>2, <2>7, <2>9, <2>10, LimiterPartsNext
<1> QED
  BY <1>4, <1>5

(* What the limiter holds is kept by every step of it.                     *)
LEMMA LimiterStep == Limiter!LimiterInv /\ [Limiter!Next]_Limiter!lvars => Limiter!LimiterInv'
<1>1. CASE Limiter!Next
  BY <1>1, AcquireStep, GiveUpStep, FinishStep, ReleaseStep DEF Limiter!Next
<1>2. CASE UNCHANGED Limiter!lvars
  BY <1>2 DEF Limiter!lvars, Limiter!LimiterInv, Limiter!TypeOK, Limiter!SlotsHeld, Limiter!QueuedOnce,
              Limiter!Doing, Limiter!ToSet
<1> QED
  BY <1>1, <1>2

(* A token for every request that runs or has still to release and no      *)
(* other, however calls end or give up; nobody waits while one is free,    *)
(* and who waits is in the queue once.                                     *)
THEOREM LimiterHoldsSlots == Limiter!Spec => []SlotsHeld
<1>1. Limiter!LimiterInv => SlotsHeld
  BY DEF Limiter!LimiterInv, SlotsHeld
<1> QED
  BY <1>1, LimiterInit, LimiterStep, PTL DEF Limiter!Spec

-----------------------------------------------------------------------------
(* Forking *)

(* The goroutines that are not counted yet, and those that the WaitGroup   *)
(* waits for.                                                              *)
Uncounted == Fork!Still(Fork!Answering)
Present   == Fork!Still(Fork!Answering \union {"leaving"})

(* The cardinality that the module of Forking knows is that of this one.   *)
LEMMA ForkCounts == \A S : Fork!Cardinality(S) = Cardinality(S)
  BY DEF Fork!Cardinality, Cardinality

(* The goroutines in any of their places are finitely many, none if and    *)
(* only if their number is zero.                                           *)
LEMMA StillIsFinite ==
  ASSUME NEW s
  PROVE  /\ IsFiniteSet(Fork!Still(s)) /\ Cardinality(Fork!Still(s)) \in Nat
         /\ Cardinality(Fork!Still(s)) <= Cardinality(Workers)
         /\ Cardinality(Fork!Still(s)) = 0 <=> Fork!Still(s) = {}
<1>1. Fork!Still(s) \in SUBSET Workers
  BY DEF Fork!Still
<1>2. IsFiniteSet(Fork!Still(s)) /\ Cardinality(Fork!Still(s)) <= Cardinality(Workers)
  BY <1>1, EndpointsAssumption, FS_Subset
<1> QED
  BY <1>2, FS_CardinalityType, FS_EmptySet

(* The same of the goroutines after a step.                                *)
LEMMA StillNext ==
  ASSUME NEW CONSTANT s
  PROVE  /\ IsFiniteSet(Fork!Still(s)') /\ Cardinality(Fork!Still(s)') \in Nat
         /\ Cardinality(Fork!Still(s)') <= Cardinality(Workers)
         /\ Cardinality(Fork!Still(s)') = 0 <=> Fork!Still(s)' = {}
<1>1. Fork!Still(s)' \in SUBSET Workers
  BY DEF Fork!Still
<1>2. IsFiniteSet(Fork!Still(s)') /\ Cardinality(Fork!Still(s)') <= Cardinality(Workers)
  BY <1>1, EndpointsAssumption, FS_Subset
<1> QED
  BY <1>2, FS_CardinalityType, FS_EmptySet

(* What holds of every state of a fork or a broadcast, by its parts.       *)
LEMMA ForkParts ==
  Fork!ForkInv <=>
    /\ count \in 0..Cardinality(Workers)
    /\ worker \in [Workers -> {"error", "panic", "calling", "ok", "last", "leaving", "done"}]
    /\ once \in BOOLEAN /\ returned \in BOOLEAN /\ plan \in {"forking", "broadcast"}
    /\ answer \in [ok : SUBSET Workers, err : SUBSET Workers]
    /\ Fork!ForkCount /\ Fork!ForkAnswered /\ Fork!CastCount /\ Fork!CastAnswered
  BY ForkCounts DEF Fork!ForkInv, Fork!TypeOK, Fork!Bad

(* The same after a step.                                                  *)
LEMMA ForkPartsNext ==
  Fork!ForkInv' <=>
    /\ count' \in 0..Cardinality(Workers)
    /\ worker' \in [Workers -> {"error", "panic", "calling", "ok", "last", "leaving", "done"}]
    /\ once' \in BOOLEAN /\ returned' \in BOOLEAN /\ plan' \in {"forking", "broadcast"}
    /\ answer' \in [ok : SUBSET Workers, err : SUBSET Workers]
    /\ Fork!ForkCount' /\ Fork!ForkAnswered' /\ Fork!CastCount' /\ Fork!CastAnswered'
  BY ForkCounts DEF Fork!ForkInv, Fork!TypeOK, Fork!Bad

(* At first all goroutines are calling, and nobody has answered.           *)
LEMMA ForkInit == Fork!Init => Fork!ForkInv
<1> SUFFICES ASSUME Fork!Init PROVE Fork!ForkInv
  OBVIOUS
<1>1. Uncounted = Workers /\ Present = Workers
  BY DEF Fork!Init, Uncounted, Present, Fork!Still, Fork!Answering
<1>2. Fork!Still({"leaving"}) = {} /\ Fork!Still({"last"}) = {} /\ Fork!Still({"leaving", "done"}) = {}
  BY DEF Fork!Init, Fork!Still
<1>3. count = Cardinality(Workers) /\ Cardinality(Workers) \in Nat
  BY EndpointsAssumption, FS_CardinalityType, ForkCounts DEF Fork!Init
<1>4. answer = [ok |-> {}, err |-> {}]
  BY DEF Fork!Init, Fork!NoAnswer
<1>5. Fork!ForkCount /\ Fork!ForkAnswered
  BY <1>1, <1>2, <1>3, ForkCounts DEF Fork!Init, Fork!ForkCount, Fork!ForkAnswered, Uncounted
<1>6. Fork!CastCount /\ Fork!CastAnswered
  BY <1>1, <1>2, <1>3, <1>4, ForkCounts DEF Fork!Init, Fork!CastCount, Fork!CastAnswered, Present
<1>7. answer \in [ok : SUBSET Workers, err : SUBSET Workers]
  BY <1>4
<1>8. worker \in [Workers -> {"error", "panic", "calling", "ok", "last", "leaving", "done"}]
  BY DEF Fork!Init
<1>9. count \in 0..Cardinality(Workers)
  BY <1>3
<1>10. once \in BOOLEAN /\ returned \in BOOLEAN /\ plan \in {"forking", "broadcast"}
  BY DEF Fork!Init
<1> QED
  BY <1>5, <1>6, <1>7, <1>8, <1>9, <1>10, ForkParts

(* An answer, an error or a panic comes.                                   *)
LEMMA CallStep ==
  ASSUME NEW w \in Workers, Fork!ForkInv, Fork!Call(w)
  PROVE  Fork!ForkInv'
<1> USE ForkParts
<1>1. PICK end \in {"error", "panic", "ok"} : worker' = [worker EXCEPT ![w] = end]
  BY DEF Fork!Call, Fork!Goto, Fork!Bad
<1>2. worker[w] = "calling" /\ UNCHANGED <<plan, count, once, answer, returned>>
  BY DEF Fork!Call, Fork!Goto
<1>3. worker' \in [Workers -> {"error", "panic", "calling", "ok", "last", "leaving", "done"}]
  BY <1>1
<1>4. Uncounted' = Uncounted /\ Present' = Present
  BY <1>1, <1>2 DEF Uncounted, Present, Fork!Still, Fork!Answering, Fork!Bad
<1>5. /\ Fork!Still({"leaving"})' = Fork!Still({"leaving"}) /\ Fork!Still({"last"})' = Fork!Still({"last"})
      /\ Fork!Still({"leaving", "done"})' = Fork!Still({"leaving", "done"})
      /\ Fork!Still({"calling", "ok"})' \subseteq Fork!Still({"calling", "ok"})
  BY <1>1, <1>2 DEF Fork!Still
<1>6. Fork!ForkCount'
  BY <1>2, <1>4, <1>5 DEF Fork!ForkCount, Uncounted
<1>7. Fork!ForkAnswered'
  BY <1>2, <1>5 DEF Fork!ForkAnswered
<1>8. Fork!CastCount'
  BY <1>2, <1>4, <1>5 DEF Fork!CastCount, Present
<1>9. Fork!CastAnswered'
  BY <1>2, <1>5 DEF Fork!CastAnswered
<1> QED
  BY <1>2, <1>3, <1>6, <1>7, <1>8, <1>9, ForkPartsNext

(* A success is the answer of a fork if it is the first; it is not counted.*)
LEMMA ForkOkStep ==
  ASSUME NEW w \in Workers, Fork!ForkInv, Fork!ForkOk(w)
  PROVE  Fork!ForkInv'
<1> USE ForkParts
<1>1. /\ plan = "forking" /\ worker[w] = "ok" /\ worker' = [worker EXCEPT ![w] = "done"]
      /\ UNCHANGED <<plan, count, returned>>
  BY DEF Fork!ForkOk, Fork!Goto
<1>2. worker' \in [Workers -> {"error", "panic", "calling", "ok", "last", "leaving", "done"}]
  BY <1>1
<1>3. Uncounted' = Uncounted \ {w}
  BY <1>1 DEF Uncounted, Fork!Still, Fork!Answering, Fork!Bad
<1>4. Cardinality(Uncounted') <= Cardinality(Uncounted) /\ Cardinality(Uncounted) \in Nat /\ Cardinality(Uncounted') \in Nat
  <2>1. IsFiniteSet(Uncounted) /\ Cardinality(Uncounted) \in Nat
    BY StillIsFinite DEF Uncounted
  <2>2. Cardinality(Uncounted') = IF w \in Uncounted THEN Cardinality(Uncounted) - 1 ELSE Cardinality(Uncounted)
    BY <1>3, <2>1, FS_RemoveElement
  <2>3. Cardinality(Uncounted') \in Nat
    BY StillNext DEF Uncounted
  <2> QED
    BY <2>1, <2>2, <2>3
<1>5. /\ Fork!Still({"leaving"})' = Fork!Still({"leaving"})
      /\ Fork!Still({"calling", "ok"})' \subseteq Fork!Still({"calling", "ok"})
  BY <1>1 DEF Fork!Still
<1>6. once' = TRUE /\ answer' = IF once THEN answer ELSE [ok |-> {w}, err |-> {}]
  BY DEF Fork!ForkOk, Fork!Once, Fork!NoAnswer
<1>7. count >= Cardinality(Uncounted)
  BY <1>1, ForkCounts DEF Fork!ForkCount, Uncounted
<1>8. count' >= Cardinality(Uncounted')
  BY <1>1, <1>4, <1>7
<1>9. Fork!ForkCount'
  BY <1>1, <1>5, <1>6, <1>8, ForkCounts DEF Fork!ForkCount, Uncounted
<1>10. Fork!ForkAnswered'
  BY <1>1, <1>5, <1>6 DEF Fork!ForkAnswered
<1>11. Fork!CastCount' /\ Fork!CastAnswered'
  BY <1>1 DEF Fork!CastCount, Fork!CastAnswered
<1>12. answer' \in [ok : SUBSET Workers, err : SUBSET Workers]
  BY <1>6
<1> QED
  BY <1>1, <1>2, <1>6, <1>9, <1>10, <1>11, <1>12, ForkPartsNext

(* An error or a panic takes one off the count.                            *)
LEMMA ForkBadStep ==
  ASSUME NEW w \in Workers, Fork!ForkInv, Fork!ForkBad(w)
  PROVE  Fork!ForkInv'
<1> USE ForkParts
<1>1. /\ plan = "forking" /\ count' = count - 1
      /\ UNCHANGED <<plan, once, answer, returned>>
  BY DEF Fork!ForkBad
<1>2. /\ worker[w] \in {"error", "panic"}
      /\ worker' = [worker EXCEPT ![w] = IF count - 1 <= 0 THEN "last" ELSE "done"]
  BY DEF Fork!ForkBad, Fork!Goto, Fork!Bad
<1>3. worker' \in [Workers -> {"error", "panic", "calling", "ok", "last", "leaving", "done"}]
  BY <1>2
<1>4. Uncounted' = Uncounted \ {w} /\ w \in Uncounted
  BY <1>2 DEF Uncounted, Fork!Still, Fork!Answering, Fork!Bad
<1>5. Cardinality(Uncounted') = Cardinality(Uncounted) - 1
  BY <1>4, StillIsFinite, FS_RemoveElement DEF Uncounted
<1>6. Cardinality(Uncounted') \in Nat /\ Cardinality(Uncounted) \in Nat
  BY StillIsFinite, StillNext DEF Uncounted
<1>7. /\ Fork!Still({"leaving"})' = Fork!Still({"leaving"})
      /\ Fork!Still({"calling", "ok"})' = Fork!Still({"calling", "ok"})
      /\ count - 1 > 0 => Fork!Still({"last"})' = Fork!Still({"last"})
  BY <1>2 DEF Fork!Still
<1>8. count >= Cardinality(Uncounted) /\ (~once => count = Cardinality(Uncounted))
  BY <1>1, ForkCounts DEF Fork!ForkCount, Uncounted
<1>9. count' >= Cardinality(Uncounted') /\ (~once => count' = Cardinality(Uncounted'))
  BY <1>1, <1>5, <1>6, <1>8
<1>10. count' \in 0..Cardinality(Workers) /\ count \in Nat
  <2>1. Cardinality(Workers) \in Nat
    BY EndpointsAssumption, FS_CardinalityType
  <2> QED
    BY <2>1, <1>1, <1>6, <1>9
<1>11. ~once /\ Fork!Still({"last"})' # {} => count' = 0
  <2>1. CASE count - 1 > 0
    BY <1>1, <1>7, <1>10, <2>1 DEF Fork!ForkCount
  <2>2. CASE ~(count - 1 > 0)
    BY <1>1, <1>10, <2>2
  <2> QED
    BY <2>1, <2>2
<1>12. Fork!ForkCount'
  BY <1>1, <1>7, <1>9, <1>11, ForkCounts DEF Fork!ForkCount, Uncounted
<1>13. Fork!ForkAnswered'
  BY <1>1, <1>7 DEF Fork!ForkAnswered
<1>14. Fork!CastCount' /\ Fork!CastAnswered'
  BY <1>1 DEF Fork!CastCount, Fork!CastAnswered
<1> QED
  BY <1>1, <1>3, <1>10, <1>12, <1>13, <1>14, ForkPartsNext

(* The last to fail answers a fork that nobody has answered: there is no   *)
(* one left who could.                                                     *)
LEMMA ForkLastStep ==
  ASSUME NEW w \in Workers, Fork!ForkInv, Fork!ForkLast(w)
  PROVE  Fork!ForkInv'
<1> USE ForkParts
<1>1. /\ worker[w] = "last" /\ worker' = [worker EXCEPT ![w] = "done"]
      /\ UNCHANGED <<plan, count, returned>>
      /\ once' = TRUE /\ answer' = IF once THEN answer ELSE [ok |-> {}, err |-> {w}]
  BY DEF Fork!ForkLast, Fork!Goto, Fork!Once, Fork!NoAnswer
<1>2. w \in Fork!Still({"last"}) /\ plan = "forking"
  BY <1>1 DEF Fork!Still, Fork!CastCount
<1>3. worker' \in [Workers -> {"error", "panic", "calling", "ok", "last", "leaving", "done"}]
  BY <1>1
<1>4. Uncounted' = Uncounted
  BY <1>1 DEF Uncounted, Fork!Still, Fork!Answering, Fork!Bad
<1>5. /\ Fork!Still({"leaving"})' = Fork!Still({"leaving"})
      /\ Fork!Still({"calling", "ok"})' = Fork!Still({"calling", "ok"})
  BY <1>1 DEF Fork!Still
<1>6. Fork!ForkCount'
  BY <1>1, <1>2, <1>4, <1>5, ForkCounts DEF Fork!ForkCount, Uncounted
<1>7. ~once => Fork!Still({"calling", "ok"}) = {}
  <2>1. SUFFICES ASSUME ~once PROVE Fork!Still({"calling", "ok"}) = {}
    OBVIOUS
  <2>2. Cardinality(Uncounted) = 0
    BY <1>2, <2>1, ForkCounts DEF Fork!ForkCount, Uncounted
  <2>3. Uncounted = {}
    BY <2>2, StillIsFinite DEF Uncounted
  <2> QED
    BY <2>3 DEF Uncounted, Fork!Still, Fork!Answering
<1>8. Fork!ForkAnswered'
  BY <1>1, <1>2, <1>5, <1>7 DEF Fork!ForkAnswered
<1>9. Fork!CastCount' /\ Fork!CastAnswered'
  BY <1>1, <1>2 DEF Fork!CastCount, Fork!CastAnswered
<1>10. answer' \in [ok : SUBSET Workers, err : SUBSET Workers]
  BY <1>1
<1> QED
  BY <1>1, <1>3, <1>6, <1>8, <1>9, <1>10, ForkPartsNext

(* A result or an error is put before the WaitGroup is told.               *)
LEMMA CastStep ==
  ASSUME NEW w \in Workers, Fork!ForkInv, Fork!CastOk(w) \/ Fork!CastBad(w)
  PROVE  Fork!ForkInv'
<1> USE ForkParts
<1>1. /\ plan = "broadcast" /\ UNCHANGED <<plan, count, returned>>
      /\ worker[w] \in {"ok", "error", "panic"} /\ worker' = [worker EXCEPT ![w] = "leaving"]
  BY DEF Fork!CastOk, Fork!CastBad, Fork!Goto, Fork!Bad
<1>2. worker' \in [Workers -> {"error", "panic", "calling", "ok", "last", "leaving", "done"}]
  BY <1>1
<1>3. Present' = Present
  BY <1>1 DEF Present, Fork!Still, Fork!Answering, Fork!Bad
<1>4. /\ Fork!Still({"last"})' = Fork!Still({"last"})
      /\ Fork!Still({"leaving", "done"})' = Fork!Still({"leaving", "done"}) \union {w}
      /\ w \notin Fork!Still({"leaving", "done"})
  BY <1>1 DEF Fork!Still
<1>5. Fork!CastCount'
  BY <1>1, <1>3, <1>4 DEF Fork!CastCount, Present
<1>6. Fork!ForkCount' /\ Fork!ForkAnswered'
  BY <1>1 DEF Fork!ForkCount, Fork!ForkAnswered
<1>7. CASE Fork!CastOk(w)
  <2>1. once' = once /\ answer' = [answer EXCEPT !.ok = @ \union {w}]
    BY <1>7 DEF Fork!CastOk
  <2>2. answer' \in [ok : SUBSET Workers, err : SUBSET Workers]
    BY <2>1
  <2>3. answer'.ok = answer.ok \union {w} /\ answer'.err = answer.err
    BY <2>1
  <2>4. Fork!CastAnswered'
    BY <1>1, <1>4, <2>1, <2>3 DEF Fork!CastAnswered
  <2> QED
    BY <1>1, <1>2, <1>5, <1>6, <2>1, <2>2, <2>4, ForkPartsNext
<1>8. CASE Fork!CastBad(w)
  <2>1. once' = TRUE /\ answer' = IF once THEN answer ELSE [answer EXCEPT !.err = {w}]
    BY <1>8 DEF Fork!CastBad, Fork!Once
  <2>2. answer' \in [ok : SUBSET Workers, err : SUBSET Workers]
    BY <2>1
  <2>3. answer'.ok = answer.ok /\ answer'.err = IF once THEN answer.err ELSE {w}
    BY <2>1
  <2>4. answer'.err # {}
    BY <1>1, <2>3 DEF Fork!CastAnswered
  <2>5. w \notin answer.ok
    BY <1>1, <1>4 DEF Fork!CastAnswered
  <2>6. Fork!CastAnswered'
    BY <1>1, <1>4, <2>1, <2>3, <2>4, <2>5 DEF Fork!CastAnswered
  <2> QED
    BY <1>1, <1>2, <1>5, <1>6, <2>1, <2>2, <2>6, ForkPartsNext
<1> QED
  BY <1>7, <1>8

(* A goroutine that has put its result leaves the WaitGroup.               *)
LEMMA LeaveStep ==
  ASSUME NEW w \in Workers, Fork!ForkInv, Fork!Leave(w)
  PROVE  Fork!ForkInv'
<1> USE ForkParts
<1>1. /\ worker[w] = "leaving" /\ worker' = [worker EXCEPT ![w] = "done"]
      /\ count' = count - 1 /\ UNCHANGED <<plan, once, answer, returned>>
  BY DEF Fork!Leave, Fork!Goto
<1>2. w \in Fork!Still({"leaving"}) /\ plan = "broadcast"
  BY <1>1 DEF Fork!Still, Fork!ForkCount
<1>3. worker' \in [Workers -> {"error", "panic", "calling", "ok", "last", "leaving", "done"}]
  BY <1>1
<1>4. Present' = Present \ {w} /\ w \in Present
  BY <1>1 DEF Present, Fork!Still, Fork!Answering, Fork!Bad
<1>5. Cardinality(Present') = Cardinality(Present) - 1
  <2>1. IsFiniteSet(Present)
    BY StillIsFinite DEF Present
  <2> QED
    BY <1>4, <2>1, FS_RemoveElement
<1>6. Cardinality(Present') \in Nat /\ Cardinality(Present) \in Nat
  BY StillIsFinite, StillNext DEF Present
<1>7. /\ Fork!Still({"last"})' = Fork!Still({"last"})
      /\ Fork!Still({"leaving", "done"})' = Fork!Still({"leaving", "done"})
  BY <1>1 DEF Fork!Still
<1>8. count = Cardinality(Present) /\ (returned => count = 0)
  BY <1>2, ForkCounts DEF Fork!CastCount, Present
<1>9. count' = Cardinality(Present') /\ ~returned
  BY <1>1, <1>5, <1>6, <1>8
<1>10. Fork!CastCount'
  BY <1>1, <1>2, <1>7, <1>9, ForkCounts DEF Fork!CastCount, Present
<1>11. Fork!CastAnswered'
  BY <1>1, <1>7 DEF Fork!CastAnswered
<1>12. Fork!ForkCount' /\ Fork!ForkAnswered'
  BY <1>1, <1>2 DEF Fork!ForkCount, Fork!ForkAnswered
<1>13. count' \in 0..Cardinality(Workers)
  <2>1. Cardinality(Workers) \in Nat
    BY EndpointsAssumption, FS_CardinalityType
  <2> QED
    BY <2>1, <1>1, <1>6, <1>9
<1> QED
  BY <1>1, <1>3, <1>10, <1>11, <1>12, <1>13, ForkPartsNext

(* The handler returns when someone has answered, or all have left.        *)
LEMMA ReturnStep ==
  ASSUME Fork!ForkInv, Fork!Return
  PROVE  Fork!ForkInv'
<1> USE ForkParts
<1>1. /\ IF plan = "forking" THEN once ELSE count = 0
      /\ returned' = TRUE /\ UNCHANGED <<plan, worker, count, once, answer>>
  BY DEF Fork!Return
<1>2. Fork!ForkCount' /\ Fork!ForkAnswered' /\ Fork!CastCount' /\ Fork!CastAnswered'
  BY <1>1 DEF Fork!ForkCount, Fork!ForkAnswered, Fork!CastCount, Fork!CastAnswered, Fork!Still
<1> QED
  BY <1>1, <1>2, ForkPartsNext

(* Every step of a fork or a broadcast keeps what holds of it.             *)
LEMMA ForkStep == Fork!ForkInv /\ [Fork!Next]_Fork!fvars => Fork!ForkInv'
<1>1. CASE Fork!Next
  BY <1>1, CallStep, ForkOkStep, ForkBadStep, ForkLastStep, CastStep, LeaveStep, ReturnStep
     DEF Fork!Next, Fork!Step
<1>2. CASE UNCHANGED Fork!fvars
  BY <1>2 DEF Fork!fvars, Fork!ForkInv, Fork!TypeOK, Fork!ForkCount, Fork!ForkAnswered,
              Fork!CastCount, Fork!CastAnswered, Fork!Still
<1> QED
  BY <1>1, <1>2

(* A forked request fails only if it failed on every server, and succeeds  *)
(* with the answer of one; the result of a broadcast is complete when it   *)
(* is read.                                                                *)
LEMMA ForkHolds == Fork!ForkInv => ForksAnswer
<1> SUFFICES ASSUME Fork!ForkInv PROVE ForksAnswer
  OBVIOUS
<1> USE ForkParts
<1>1. Fork!ForkAnswers
  <2> SUFFICES ASSUME plan = "forking", returned PROVE Fork!ForkAnswers
    BY DEF Fork!ForkAnswers
  <2>1. once
    BY DEF Fork!ForkCount
  <2>2. \A w : Cardinality({w}) = 1
    BY FS_Singleton
  <2> QED
    BY <2>1, <2>2, ForkCounts DEF Fork!ForkAnswered, Fork!ForkAnswers
<1>2. Fork!CastComplete
  <2> SUFFICES ASSUME plan = "broadcast", returned PROVE Fork!CastComplete
    BY DEF Fork!CastComplete
  <2>1. Cardinality(Present) = 0
    BY ForkCounts DEF Fork!CastCount, Present
  <2>2. Present = {}
    BY <2>1, StillIsFinite DEF Present
  <2>3. Fork!Still({"done"}) = Workers /\ Fork!Still({"leaving", "done"}) = Workers
    BY <2>2 DEF Present, Fork!Still, Fork!Answering, Fork!Bad, Fork!CastCount
  <2>4. answer.ok = Workers <=> answer.err = {}
    BY <2>3 DEF Fork!CastAnswered
  <2> QED
    BY <2>3, <2>4 DEF Fork!CastComplete
<1> QED
  BY <1>1, <1>2 DEF ForksAnswer

(* Forking and Broadcast answer as they promise, whatever fails or panics  *)
(* in whatever order.                                                      *)
THEOREM ForkingAnswers == Fork!Spec => []ForksAnswer
  BY ForkInit, ForkStep, ForkHolds, PTL DEF Fork!Spec

(* What the handler has returned, the goroutines that are late leave as it *)
(* is.                                                                     *)
THEOREM AnswerIsKept == Fork!Spec => Fork!AnswerKept
<1>1. ASSUME Fork!ForkInv, [Fork!Next]_Fork!fvars
      PROVE  [returned => UNCHANGED answer]_Fork!fvars
  <2> USE ForkParts
  <2> SUFFICES ASSUME Fork!Next, returned PROVE UNCHANGED answer
    BY <1>1 DEF Fork!fvars
  <2>1. plan = "forking" => once
    BY <1>1 DEF Fork!ForkCount
  <2>2. plan = "broadcast" => Present = {}
    <3> SUFFICES ASSUME plan = "broadcast" PROVE Present = {}
      OBVIOUS
    <3>1. Cardinality(Present) = 0
      BY <1>1, ForkCounts DEF Fork!CastCount, Present
    <3> QED
      BY <3>1, StillIsFinite DEF Present
  <2>3. ASSUME NEW w \in Workers, Fork!Step(w) PROVE UNCHANGED answer
    <3>1. CASE Fork!ForkOk(w) \/ Fork!ForkLast(w)
      <4>1. plan = "forking"
        BY <1>1, <3>1 DEF Fork!ForkOk, Fork!ForkLast, Fork!Goto, Fork!CastCount, Fork!Still
      <4> QED
        BY <3>1, <4>1, <2>1 DEF Fork!ForkOk, Fork!ForkLast, Fork!Once
    <3>2. CASE Fork!CastOk(w) \/ Fork!CastBad(w)
      <4>1. plan = "broadcast" /\ w \in Present
        BY <3>2 DEF Fork!CastOk, Fork!CastBad, Fork!Goto, Present, Fork!Still, Fork!Answering, Fork!Bad
      <4> QED
        BY <4>1, <2>2
    <3> QED
      BY <2>3, <3>1, <3>2 DEF Fork!Step, Fork!Call, Fork!ForkBad, Fork!Leave
  <2> QED
    BY <2>3 DEF Fork!Next, Fork!Return
<1> QED
  BY <1>1, ForkInit, ForkStep, PTL DEF Fork!Spec, Fork!AnswerKept

-----------------------------------------------------------------------------
(* Execution *)

(* A request starts with nothing in the channel.                           *)
LEMMA ExecutionInit == Execution!Init => Execution!ExecutionInv
<1>1. <<>> \in Seq({"result", "error"}) /\ Len(<<>>) <= 1
  OBVIOUS
<1> QED
  BY <1>1 DEF Execution!Init, Execution!ExecutionInv, Execution!TypeOK, Execution!PanicContained

(* An end of the method is an answer, in the channel or at once, or a      *)
(* panic that Process makes an error; only aside of it it goes on.         *)
LEMMA ExecutionStep == Execution!ExecutionInv /\ [Execution!Next]_Execution!evars => Execution!ExecutionInv'
<1> SUFFICES ASSUME Execution!ExecutionInv, [Execution!Next]_Execution!evars PROVE Execution!ExecutionInv'
  OBVIOUS
<1> USE DEF Execution!ExecutionInv, Execution!TypeOK, Execution!PanicContained
<1>1. CASE Execution!Start
  BY <1>1 DEF Execution!Start
<1>2. CASE Execution!Expire
  BY <1>2 DEF Execution!Expire
<1>3. CASE Execution!EndHere
  BY <1>3 DEF Execution!EndHere, Execution!Ends
<1>4. CASE Execution!EndAside
  <2>1. plugin # "none" /\ UNCHANGED <<plugin, handler, over, answers, reply>>
    BY <1>4 DEF Execution!EndAside
  <2>2. crashed' \in BOOLEAN /\ method' \in {"result", "error", "done"}
    BY <1>4 DEF Execution!EndAside, Execution!Ends
  <2> QED
    BY <2>1, <2>2
<1>5. CASE Execution!Deliver
  <2>1. /\ method \in {"result", "error"} /\ Len(answers) < 1 /\ answers' = Append(answers, method)
        /\ method' = "done" /\ UNCHANGED <<plugin, handler, over, reply, crashed>>
    BY <1>5 DEF Execution!Deliver
  <2>2. answers' \in Seq({"result", "error"}) /\ Len(answers') = Len(answers) + 1 /\ Len(answers) \in Nat
    BY <2>1
  <2>3. Len(answers') <= 1
    BY <2>1, <2>2
  <2> QED
    BY <2>1, <2>2, <2>3
<1>6. CASE Execution!Select
  <2>1. handler' = "returned" /\ UNCHANGED <<plugin, method, over, crashed>>
    BY <1>6 DEF Execution!Select
  <2>2. CASE reply' = "timeout" /\ answers' = answers
    BY <2>1, <2>2
  <2>3. CASE answers # <<>> /\ reply' = Head(answers) /\ answers' = Tail(answers)
    <3>1. reply' \in {"result", "error"} /\ answers' \in Seq({"result", "error"}) /\ Len(answers') = Len(answers) - 1
      BY <2>3, HeadTailProperties
    <3>2. Len(answers) \in Nat /\ Len(answers') <= 1
      BY <3>1
    <3> QED
      BY <2>1, <3>1, <3>2
  <2> QED
    BY <1>6, <2>2, <2>3 DEF Execution!Select
<1>7. CASE UNCHANGED Execution!evars
  BY <1>7 DEF Execution!evars
<1> QED
  BY <1>1, <1>2, <1>3, <1>4, <1>5, <1>6, <1>7 DEF Execution!Next

(* A panic of a method ends its request and no more; only in a goroutine   *)
(* of the timeout or the oneway plugin does it end the process.            *)
THEOREM PanicIsContained == Execution!Spec => []Execution!PanicContained
<1>1. Execution!ExecutionInv => Execution!PanicContained
  BY DEF Execution!ExecutionInv
<1> QED
  BY <1>1, ExecutionInit, ExecutionStep, PTL DEF Execution!Spec

-----------------------------------------------------------------------------
(* MockAgent *)

(* At first nobody calls.                                                  *)
LEMMA MockInit == Mock!Init => Mock!MockInv
  BY EndpointsAssumption DEF Mock!Init, Mock!MockInv, Mock!TypeOK, Mock!ClosedIsQuiet, Mock!AllCalls

(* A writer gets the lock when no handler runs, and a handler runs only if *)
(* it was registered when its goroutine got the lock.                      *)
LEMMA MockStep == Mock!MockInv /\ [Mock!Next]_Mock!avars => Mock!MockInv'
<1> SUFFICES ASSUME Mock!MockInv, [Mock!Next]_Mock!avars PROVE Mock!MockInv'
  OBVIOUS
<1> USE EndpointsAssumption DEF Mock!MockInv, Mock!TypeOK, Mock!ClosedIsQuiet
<1>1. CASE Mock!Lock
  BY <1>1 DEF Mock!Lock
<1>2. CASE Mock!Write
  BY <1>2 DEF Mock!Write
<1>3. ASSUME NEW c \in Mock!AllCalls, Mock!Transport(c) PROVE Mock!MockInv'
  <2>1. /\ caller' = [caller EXCEPT ![c] = "waiting"] /\ gor' = [gor EXCEPT ![c] = "lock"]
        /\ UNCHANGED <<registered, readers, writer, writes>>
    BY <1>3 DEF Mock!Transport
  <2>2. c \notin readers
    BY <1>3 DEF Mock!Transport, Mock!Root
  <2> QED
    BY <2>1, <2>2
<1>4. ASSUME NEW c \in Mock!AllCalls, Mock!RLock(c) PROVE Mock!MockInv'
  BY <1>4 DEF Mock!RLock
<1>5. ASSUME NEW c \in Mock!AllCalls, Mock!Handle(c) PROVE Mock!MockInv'
  BY <1>5 DEF Mock!Handle
<1>6. ASSUME NEW c \in Mock!AllCalls, Mock!Deliver(c) PROVE Mock!MockInv'
  BY <1>6 DEF Mock!Deliver
<1>7. ASSUME NEW c \in Mock!AllCalls, Mock!Return(c) PROVE Mock!MockInv'
  BY <1>7 DEF Mock!Return
<1>8. CASE UNCHANGED Mock!avars
  BY <1>8 DEF Mock!avars
<1> QED
  BY <1>1, <1>2, <1>3, <1>4, <1>5, <1>6, <1>7, <1>8 DEF Mock!Next, Mock!Step

(* When Cancel, the close of a mock server, has returned, none of its      *)
(* handlers runs any more.                                                 *)
THEOREM ClosedServerIsQuiet == Mock!Spec => []Mock!ClosedIsQuiet
<1>1. Mock!MockInv => Mock!ClosedIsQuiet
  BY DEF Mock!MockInv
<1> QED
  BY <1>1, MockInit, MockStep, PTL DEF Mock!Spec

-----------------------------------------------------------------------------
(* ConnHandler: counting the places of a request *)

(* The cardinality that the module of the handler knows is that of this.   *)
LEMMA ServerCounts == \A S : Server!Cardinality(S) = Cardinality(S)
  BY DEF Server!Cardinality, Cardinality

Is(p) == IF p THEN 1 ELSE 0

(* The places of r among the elements of a sequence.                       *)
At(s, r) == {i \in DOMAIN s : s[i].request = r}

(* A sequence has finitely many places.                                    *)
LEMMA CountedAt ==
  ASSUME NEW S, NEW s \in Seq(S), NEW r
  PROVE  /\ IsFiniteSet(At(s, r)) /\ Server!Count(s, r) = Cardinality(At(s, r))
         /\ Server!Count(s, r) \in Nat
<1>1. Len(s) \in Nat /\ DOMAIN s = 1..Len(s)
  OBVIOUS
<1>2. IsFiniteSet(1..Len(s))
  BY <1>1, FS_Interval
<1>3. At(s, r) \in SUBSET (1..Len(s))
  BY <1>1 DEF At
<1>4. IsFiniteSet(At(s, r))
  BY <1>2, <1>3, FS_Subset
<1>5. Server!Count(s, r) = Cardinality(At(s, r))
  BY ServerCounts DEF Server!Count, At
<1> QED
  BY <1>4, <1>5, FS_CardinalityType

(* What two sequences count, one behind the other counts.                  *)
LEMMA CountConcat ==
  ASSUME NEW S, NEW s \in Seq(S), NEW t \in Seq(S), NEW r
  PROVE  Server!Count(s \o t, r) = Server!Count(s, r) + Server!Count(t, r)
<1> DEFINE m == Len(s)
           n == Len(t)
           moved == {i \in (m+1)..(m+n) : t[i-m].request = r}
           f == [i \in At(t, r) |-> i + m]
<1>1. /\ m \in Nat /\ n \in Nat /\ DOMAIN s = 1..m /\ DOMAIN t = 1..n
      /\ s \o t \in Seq(S) /\ DOMAIN (s \o t) = 1..(m+n)
      /\ \A i \in 1..m : (s \o t)[i] = s[i]
      /\ \A i \in (m+1)..(m+n) : (s \o t)[i] = t[i-m]
  BY ConcatProperties
<1> HIDE DEF m, n
<1>2. At(s \o t, r) = At(s, r) \union moved /\ At(s, r) \cap moved = {}
  <2>1. At(s, r) = {i \in 1..m : s[i].request = r}
    BY <1>1 DEF At
  <2>2. At(s \o t, r) = {i \in 1..(m+n) : (s \o t)[i].request = r}
    BY <1>1 DEF At
  <2>3. 1..(m+n) = (1..m) \union ((m+1)..(m+n)) /\ (1..m) \cap ((m+1)..(m+n)) = {}
    BY <1>1
  <2>4. ASSUME NEW i \in 1..m PROVE i \in At(s \o t, r) <=> i \in At(s, r)
    BY <1>1, <2>1, <2>2, <2>3
  <2>5. ASSUME NEW i \in (m+1)..(m+n) PROVE i \in At(s \o t, r) <=> i \in moved
    BY <1>1, <2>2, <2>3
  <2>6. At(s \o t, r) \subseteq 1..(m+n) /\ At(s, r) \subseteq 1..m /\ moved \subseteq (m+1)..(m+n)
    BY <2>1, <2>2
  <2> HIDE DEF moved
  <2> QED
    BY <2>3, <2>4, <2>5, <2>6
<1>3. f \in Bijection(At(t, r), moved)
  <2>1. f \in [At(t, r) -> moved]
    <3>1. ASSUME NEW i \in At(t, r) PROVE i + m \in moved
      <4>1. i \in 1..n /\ t[i].request = r /\ (i + m) - m = i
        BY <1>1 DEF At
      <4> QED
        BY <4>1, <1>1
    <3> QED
      BY <3>1
  <2>2. ASSUME NEW i \in At(t, r), NEW j \in At(t, r), f[i] = f[j] PROVE i = j
    BY <2>2, <1>1 DEF At
  <2>3. ASSUME NEW j \in moved PROVE \E i \in At(t, r) : f[i] = j
    <3>1. j - m \in At(t, r) /\ (j - m) + m = j
      BY <1>1 DEF At
    <3> QED
      BY <3>1
  <2> HIDE DEF f, moved
  <2>4. f \in Injection(At(t, r), moved)
    BY <2>1, <2>2 DEF Injection, IsInjective
  <2>5. f \in Surjection(At(t, r), moved)
    BY <2>1, <2>3 DEF Surjection
  <2> QED
    BY <2>4, <2>5 DEF Bijection
<1>4. IsFiniteSet(At(t, r)) /\ IsFiniteSet(At(s, r))
  BY CountedAt
<1> HIDE DEF f, moved
<1>5. IsFiniteSet(moved) /\ Cardinality(moved) = Cardinality(At(t, r))
  BY <1>3, <1>4, FS_Bijection DEF ExistsBijection
<1>6. Cardinality(At(s \o t, r)) = Cardinality(At(s, r)) + Cardinality(moved)
  <2>1. Cardinality(At(s \o t, r)) = Cardinality(At(s, r)) + Cardinality(moved) - Cardinality({})
    BY <1>2, <1>4, <1>5, FS_Union
  <2>2. Cardinality(At(s, r)) \in Nat /\ Cardinality(moved) \in Nat /\ Cardinality({}) = 0
    BY <1>4, <1>5, FS_CardinalityType, FS_EmptySet
  <2> QED
    BY <2>1, <2>2
<1> QED
  BY <1>1, <1>5, <1>6, CountedAt

(* Nothing is counted in the empty sequence, and once in that of one.      *)
LEMMA CountOne ==
  ASSUME NEW x, NEW r
  PROVE  Server!Count(<<>>, r) = 0 /\ Server!Count(<<x>>, r) = Is(x.request = r)
<1>1. At(<<>>, r) = {} /\ At(<<x>>, r) = IF x.request = r THEN {1} ELSE {}
  BY DEF At
<1>2. Cardinality({}) = 0 /\ Cardinality({1}) = 1
  BY FS_EmptySet, FS_Singleton
<1>3. Server!Count(<<>>, r) = Cardinality(At(<<>>, r)) /\ Server!Count(<<x>>, r) = Cardinality(At(<<x>>, r))
  BY ServerCounts DEF Server!Count, At
<1> QED
  BY <1>1, <1>2, <1>3 DEF Is

(* An element more at the end counts for itself.                           *)
LEMMA CountAppend ==
  ASSUME NEW S, NEW s \in Seq(S), NEW x \in S, NEW r
  PROVE  Server!Count(Append(s, x), r) = Server!Count(s, r) + Is(x.request = r)
<1>1. Append(s, x) = s \o <<x>> /\ <<x>> \in Seq(S)
  BY AppendIsConcat
<1>2. Server!Count(s \o <<x>>, r) = Server!Count(s, r) + Server!Count(<<x>>, r)
  BY <1>1, CountConcat
<1> QED
  BY <1>1, <1>2, CountOne

(* The first element counts for itself, too.                               *)
LEMMA CountHead ==
  ASSUME NEW S, NEW s \in Seq(S), s # <<>>, NEW r
  PROVE  Server!Count(s, r) = Is(Head(s).request = r) + Server!Count(Tail(s), r)
<1>1. s = <<Head(s)>> \o Tail(s) /\ <<Head(s)>> \in Seq(S) /\ Tail(s) \in Seq(S)
  <2>1. Len(s) \in Nat /\ Len(s) >= 1
    BY EmptySeq
  <2>2. Head(s) \in S /\ Tail(s) \in Seq(S)
    BY HeadTailProperties
  <2> QED
    BY <2>1, <2>2
<1>2. Server!Count(<<Head(s)>> \o Tail(s), r) = Server!Count(<<Head(s)>>, r) + Server!Count(Tail(s), r)
  BY <1>1, CountConcat
<1>3. Server!Count(<<Head(s)>>, r) = Is(Head(s).request = r)
  BY CountOne
<1>4. s = <<Head(s)>> \o Tail(s)
  BY <1>1
<1> DEFINE u == <<Head(s)>> \o Tail(s)
<1>5. s = u
  BY <1>4
<1>6. Server!Count(s, r) = Server!Count(u, r)
  <2> HIDE DEF u
  <2> QED
    BY <1>5
<1> QED
  BY <1>2, <1>3, <1>6

-----------------------------------------------------------------------------
(* ConnHandler: what is where *)

Kinds    == {"socket", "websocket", "udp"}
Readings == {"loop", "submit", "refuse", "gone"}
Workings == {"none", "running", "ok", "error", "big", "gone"}

(* What may be one of the three sequences of responses.                    *)
IsResponses(s) == s \in Seq(Server!Responses)

(* receive holds one request or none.                                      *)
LEMMA FewHeld ==
  ASSUME NEW S, S = {} \/ \E r \in Asked : S = {r}
  PROVE  Cardinality(S) <= 1
<1>1. CASE S = {}
  BY <1>1, FS_EmptySet
<1>2. ASSUME NEW r \in Asked, S = {r} PROVE Cardinality(S) <= 1
  <2>1. Cardinality({r}) = 1
    BY FS_Singleton
  <2> QED
    BY <1>2, <2>1
<1> QED
  BY <1>1, <1>2

(* What Shape says, with the cardinality of this module.                   *)
LEMMA ShapeParts ==
  Server!Shape <=>
    /\ receive \in Readings /\ send \in {"loop", "gone"} /\ serve \in {"serving", "closing", "gone"}
    /\ Len(queue) <= QueueSize /\ Len(batch) <= MaxBatch
    /\ pooled => Cardinality(Server!Active) <= PoolSize
    /\ kind \in Kinds /\ pooled \in BOOLEAN /\ ctxDone \in BOOLEAN
    /\ asked \subseteq Asked
    /\ held = {} \/ \E r \in Asked : held = {r}
    /\ receive \in {"loop", "gone"} => held = {}
    /\ work \in [Asked -> Workings]
    /\ IsResponses(queue) /\ IsResponses(batch) /\ IsResponses(written)
<1>1. (held = {} \/ \E r \in Asked : held = {r}) => Cardinality(held) <= 1
  BY FewHeld
<1> QED
  BY <1>1, ServerCounts DEF Server!Shape, Server!TypeOK, Kinds, Readings, Workings, IsResponses

(* The same after a step.                                                  *)
LEMMA ShapePartsNext ==
  Server!Shape' <=>
    /\ receive' \in Readings /\ send' \in {"loop", "gone"} /\ serve' \in {"serving", "closing", "gone"}
    /\ Len(queue') <= QueueSize /\ Len(batch') <= MaxBatch
    /\ pooled' => Cardinality(Server!Active') <= PoolSize
    /\ kind' \in Kinds /\ pooled' \in BOOLEAN /\ ctxDone' \in BOOLEAN
    /\ asked' \subseteq Asked
    /\ held' = {} \/ \E r \in Asked : held' = {r}
    /\ receive' \in {"loop", "gone"} => held' = {}
    /\ work' \in [Asked -> Workings]
    /\ IsResponses(queue') /\ IsResponses(batch') /\ IsResponses(written')
<1>1. (held' = {} \/ \E r \in Asked : held' = {r}) => Cardinality(held') <= 1
  BY FewHeld
<1> QED
  BY <1>1, ServerCounts DEF Server!Shape, Server!TypeOK, Kinds, Readings, Workings, IsResponses

(* Workers are finitely many, and fewer if none is added.                  *)
LEMMA ActiveIsFinite ==
  /\ IsFiniteSet(Server!Active) /\ Cardinality(Server!Active) \in Nat
  /\ Server!Active' \subseteq Server!Active => Cardinality(Server!Active') <= Cardinality(Server!Active)
  /\ Cardinality(Server!Active') \in Nat
<1>1. Server!Active \in SUBSET Asked /\ Server!Active' \in SUBSET Asked
  BY DEF Server!Active
<1>2. IsFiniteSet(Server!Active) /\ IsFiniteSet(Server!Active')
  BY <1>1, EndpointsAssumption, FS_Subset
<1>3. Server!Active' \subseteq Server!Active => Cardinality(Server!Active') <= Cardinality(Server!Active)
  BY <1>2, FS_Subset
<1> QED
  BY <1>2, <1>3, FS_CardinalityType

(* A response goes to the queue, or for UDP to send itself, or is dropped. *)
LEMMA PutPlaces ==
  ASSUME NEW x, Server!PutOrDrop(x)
  PROVE  \/ kind # "udp" /\ Len(queue) < QueueSize /\ queue' = Append(queue, x) /\ batch' = batch
         \/ kind = "udp" /\ batch = <<>> /\ batch' = <<x>> /\ queue' = queue
         \/ ctxDone /\ queue' = queue /\ batch' = batch
  BY DEF Server!PutOrDrop, Server!Put

(* So it leaves responses, within the limits.                              *)
LEMMA PutShape ==
  ASSUME Server!Shape, NEW x \in Server!Responses, Server!PutOrDrop(x)
  PROVE  /\ Len(queue') <= QueueSize /\ Len(batch') <= MaxBatch
         /\ IsResponses(queue') /\ IsResponses(batch')
<1> USE ShapeParts, EndpointsAssumption
<1>1. CASE kind # "udp" /\ Len(queue) < QueueSize /\ queue' = Append(queue, x) /\ batch' = batch
  <2>1. queue' \in Seq(Server!Responses) /\ Len(queue') = Len(queue) + 1 /\ Len(queue) \in Nat
    BY <1>1, AppendProperties DEF IsResponses
  <2> QED
    BY <1>1, <2>1 DEF IsResponses
<1>2. CASE kind = "udp" /\ batch = <<>> /\ batch' = <<x>> /\ queue' = queue
  <2>1. batch' \in Seq(Server!Responses) /\ Len(batch') = 1
    BY <1>2
  <2> QED
    BY <1>2, <2>1 DEF IsResponses
<1>3. CASE ctxDone /\ queue' = queue /\ batch' = batch
  BY <1>3
<1> QED
  BY <1>1, <1>2, <1>3, PutPlaces

(* The places of a request, one by one.                                    *)
LEMMA PlacesAre ==
  ASSUME NEW r
  PROVE  Server!Places(r) = Is(r \in held) + Is(r \in Server!Active) + Server!Count(queue, r)
                            + Server!Count(batch, r) + Server!Count(written, r)
<1>1. ASSUME NEW S PROVE Server!Cardinality(S \cap {r}) = Is(r \in S)
  <2>1. S \cap {r} = IF r \in S THEN {r} ELSE {}
    OBVIOUS
  <2>2. Cardinality({r}) = 1 /\ Cardinality({}) = 0
    BY FS_Singleton, FS_EmptySet
  <2> QED
    BY <2>1, <2>2, ServerCounts DEF Is
<1>2. Server!Cardinality(held \cap {r}) = Is(r \in held)
  BY <1>1
<1>3. Server!Cardinality(Server!Active \cap {r}) = Is(r \in Server!Active)
  BY <1>1
<1> QED
  BY <1>2, <1>3 DEF Server!Places

(* The same after a step.                                                  *)
LEMMA PlacesAreNext ==
  ASSUME NEW CONSTANT r
  PROVE  Server!Places(r)' = Is(r \in held') + Is(r \in Server!Active') + Server!Count(queue', r)
                            + Server!Count(batch', r) + Server!Count(written', r)
<1>1. ASSUME NEW S PROVE Server!Cardinality(S \cap {r}) = Is(r \in S)
  <2>1. S \cap {r} = IF r \in S THEN {r} ELSE {}
    OBVIOUS
  <2>2. Cardinality({r}) = 1 /\ Cardinality({}) = 0
    BY FS_Singleton, FS_EmptySet
  <2> QED
    BY <2>1, <2>2, ServerCounts DEF Is
<1>2. Server!Cardinality(held' \cap {r}) = Is(r \in held')
  BY <1>1
<1>3. Server!Cardinality(Server!Active' \cap {r}) = Is(r \in Server!Active')
  BY <1>1
<1> QED
  BY <1>2, <1>3 DEF Server!Places, Server!Count

(* A server starts with every request still to be read.                    *)
LEMMA HandlerInit == Server!Init => Server!HandlerInv
<1> SUFFICES ASSUME Server!Init PROVE Server!HandlerInv
  OBVIOUS
<1> USE EndpointsAssumption DEF Server!Init
<1>1. Server!Active = {} /\ Cardinality({}) = 0
  BY FS_EmptySet DEF Server!Active
<1>2. Len(<<>>) = 0 /\ <<>> \in Seq(Server!Responses) /\ DOMAIN <<>> = {}
  OBVIOUS
<1>3. Server!Shape
  <2>1. Len(queue) <= QueueSize /\ Len(batch) <= MaxBatch
    BY <1>2
  <2>2. IsResponses(queue) /\ IsResponses(batch) /\ IsResponses(written)
    BY <1>2 DEF IsResponses
  <2>3. work \in [Asked -> Workings]
    BY DEF Workings
  <2>4. Cardinality(Server!Active) <= PoolSize
    BY <1>1
  <2>5. receive \in Readings /\ kind \in Kinds
    BY DEF Readings, Kinds
  <2> QED
    BY <2>1, <2>2, <2>3, <2>4, <2>5, ShapeParts
<1>4. Server!NothingBehind /\ Server!ErrorIsLast
  BY <1>2 DEF Server!NothingBehind, Server!ErrorIsLast
<1>5. ASSUME NEW r \in Asked PROVE Server!Places(r) = 0
  <2>1. Server!Count(<<>>, r) = 0
    BY CountOne
  <2>2. Is(r \in held) = 0 /\ Is(r \in Server!Active) = 0
    BY <1>1 DEF Is
  <2>4. queue = <<>> /\ batch = <<>> /\ written = <<>>
    OBVIOUS
  <2>5. Server!Count(queue, r) = 0 /\ Server!Count(batch, r) = 0 /\ Server!Count(written, r) = 0
    BY <2>1, <2>4
  <2> QED
    BY <2>2, <2>5, PlacesAre
<1>6. Server!NotYetRead /\ Server!AnsweredOnce
  BY <1>5 DEF Server!NotYetRead, Server!AnsweredOnce
<1> QED
  BY <1>3, <1>4, <1>6 DEF Server!HandlerInv

(* Every step keeps pool, queue and batch within their limits.             *)
LEMMA ShapeStep == Server!Shape /\ [Server!Next]_Server!hvars => Server!Shape'
<1> SUFFICES ASSUME Server!Shape, [Server!Next]_Server!hvars PROVE Server!Shape'
  OBVIOUS
<1> USE ShapeParts, EndpointsAssumption DEF Readings, Kinds
<1>1. ASSUME NEW r \in Asked, Server!Read(r) PROVE Server!Shape'
  <2>1. /\ receive = "loop" /\ asked' = asked \ {r}
        /\ UNCHANGED <<kind, pooled, queue, send, batch, written, errChan, ctxDone, serve>>
    BY <1>1 DEF Server!Read
  <2>2. CASE ~pooled /\ work' = [work EXCEPT ![r] = "running"] /\ UNCHANGED <<receive, held>>
    <3>1. work' \in [Asked -> Workings]
      BY <2>2 DEF Workings
    <3> QED
      BY <2>1, <2>2, <3>1, ShapePartsNext
  <2>3. CASE receive' \in {"refuse", "submit"} /\ held' = {r} /\ UNCHANGED work
    <3>1. Server!Active' = Server!Active
      BY <2>3 DEF Server!Active
    <3> QED
      BY <2>1, <2>3, <3>1, ShapePartsNext
  <2> QED
    BY <1>1, <2>2, <2>3 DEF Server!Read
<1>2. ASSUME NEW r \in Asked, Server!Submit(r) PROVE Server!Shape'
  <2>1. /\ work' = [work EXCEPT ![r] = "running"] /\ receive' = "loop" /\ held' = {}
        /\ UNCHANGED <<kind, pooled, asked, queue, send, batch, written, errChan, ctxDone, serve>>
        /\ Cardinality(Server!Active) < PoolSize
    BY <1>2, ServerCounts DEF Server!Submit
  <2>2. Server!Active' = Server!Active \union {r}
    BY <2>1 DEF Server!Active
  <2>3. Cardinality(Server!Active') <= PoolSize
    <3>1. IsFiniteSet(Server!Active) /\ Cardinality(Server!Active) \in Nat
      BY ActiveIsFinite
    <3>2. Cardinality(Server!Active \union {r})
            = IF r \in Server!Active THEN Cardinality(Server!Active) ELSE Cardinality(Server!Active) + 1
      BY <3>1, FS_AddElement
    <3>3. Cardinality(Server!Active') \in Nat
      BY ActiveIsFinite
    <3> QED
      BY <2>1, <2>2, <3>1, <3>2, <3>3
  <2>4. work' \in [Asked -> Workings]
    BY <2>1 DEF Workings
  <2> QED
    BY <2>1, <2>3, <2>4, ShapePartsNext
<1>3. ASSUME NEW r \in Asked, Server!Refuse(r) PROVE Server!Shape'
  <2>1. /\ receive' \in {"loop", "gone"} /\ held' = {}
        /\ UNCHANGED <<kind, pooled, asked, work, send, written, errChan, ctxDone, serve>>
    BY <1>3 DEF Server!Refuse
  <2>2. Server!Response(r, "large") \in Server!Responses /\ Server!PutOrDrop(Server!Response(r, "large"))
    BY <1>3 DEF Server!Refuse, Server!Response, Server!Responses, Server!Failing
  <2>3. Server!Active' = Server!Active
    BY <2>1 DEF Server!Active
  <2> QED
    BY <2>1, <2>2, <2>3, PutShape, ShapePartsNext
<1>4. CASE Server!ReceiveStops
  <2>1. Server!Active' = Server!Active
    BY <1>4 DEF Server!ReceiveStops, Server!Active
  <2> QED
    BY <1>4, <2>1, ShapePartsNext DEF Server!ReceiveStops
<1>5. CASE Server!ReadFails
  <2>1. Server!Active' = Server!Active
    BY <1>5 DEF Server!ReadFails, Server!Active
  <2> QED
    BY <1>5, <2>1, ShapePartsNext DEF Server!ReadFails, Server!Report
<1>6. ASSUME NEW r \in Asked, Server!Handle(r) PROVE Server!Shape'
  <2>1. PICK what \in {"ok", "error", "big"} : work' = [work EXCEPT ![r] = what]
    BY <1>6 DEF Server!Handle
  <2>2. /\ work[r] = "running"
        /\ UNCHANGED <<kind, pooled, asked, receive, held, queue, send, batch, written, errChan, ctxDone, serve>>
    BY <1>6 DEF Server!Handle
  <2>3. Server!Active' = Server!Active
    BY <2>1, <2>2 DEF Server!Active
  <2>4. work' \in [Asked -> Workings]
    BY <2>1 DEF Workings
  <2> QED
    BY <2>2, <2>3, <2>4, ShapePartsNext
<1>7. ASSUME NEW r \in Asked, Server!Respond(r) PROVE Server!Shape'
  <2>1. /\ work' = [work EXCEPT ![r] = "gone"] /\ work[r] \in {"ok", "error", "big"}
        /\ UNCHANGED <<kind, pooled, asked, receive, held, send, written, errChan, ctxDone, serve>>
    BY <1>7 DEF Server!Respond
  <2>2. Server!Response(r, work[r]) \in Server!Responses /\ Server!PutOrDrop(Server!Response(r, work[r]))
    BY <1>7, <2>1 DEF Server!Respond, Server!Response, Server!Responses, Server!Failing
  <2>3. Server!Active' \subseteq Server!Active
    BY <2>1 DEF Server!Active
  <2>4. work' \in [Asked -> Workings]
    BY <2>1 DEF Workings
  <2>5. pooled' => Cardinality(Server!Active') <= PoolSize
    BY <2>1, <2>3, ActiveIsFinite
  <2> QED
    BY <2>1, <2>2, <2>4, <2>5, PutShape, ShapePartsNext
<1>8. CASE Server!Collect
  <2>1. /\ batch' = Append(batch, Head(queue)) /\ queue' = Tail(queue) /\ queue # <<>>
        /\ UNCHANGED <<kind, pooled, asked, receive, held, work, send, written, errChan, ctxDone, serve>>
        /\ batch = <<>> \/ Len(batch) < MaxBatch
    BY <1>8 DEF Server!Collect, Server!More
  <2>2. Head(queue) \in Server!Responses /\ IsResponses(queue') /\ Len(queue') = Len(queue) - 1 /\ Len(queue) \in Nat
    BY <2>1, HeadTailProperties DEF IsResponses
  <2>3. IsResponses(batch') /\ Len(batch') = Len(batch) + 1 /\ Len(batch) \in Nat
    BY <2>1, <2>2, AppendProperties DEF IsResponses
  <2>4. Len(batch') <= MaxBatch /\ Len(queue') <= QueueSize
    BY <2>1, <2>2, <2>3
  <2>5. Server!Active' = Server!Active
    BY <2>1 DEF Server!Active
  <2> QED
    BY <2>1, <2>2, <2>3, <2>4, <2>5, ShapePartsNext
<1>9. CASE Server!Write
  <2>1. /\ batch' = <<>> /\ send' \in {"loop", "gone"} /\ written' \in {written, written \o batch}
        /\ UNCHANGED <<kind, pooled, asked, receive, held, work, queue, ctxDone, serve>>
    BY <1>9 DEF Server!Write, Server!Wrote
  <2>2. written \o batch \in Seq(Server!Responses)
    BY ConcatProperties DEF IsResponses
  <2>3. <<>> \in Seq(Server!Responses) /\ Len(<<>>) <= MaxBatch
    OBVIOUS
  <2>4. IsResponses(written') /\ IsResponses(batch') /\ Len(batch') <= MaxBatch
    BY <2>1, <2>2, <2>3 DEF IsResponses
  <2>5. Server!Active' = Server!Active
    BY <2>1 DEF Server!Active
  <2> QED
    BY <2>1, <2>4, <2>5, ShapePartsNext
<1>10. CASE Server!SendStops
  <2>1. Server!Active' = Server!Active
    BY <1>10 DEF Server!SendStops, Server!Active
  <2> QED
    BY <1>10, <2>1, ShapePartsNext DEF Server!SendStops
<1>11. CASE Server!Shutdown \/ Server!Cancel \/ Server!CloseConn
  <2>1. /\ ctxDone' \in BOOLEAN /\ serve' \in {"serving", "closing", "gone"}
        /\ UNCHANGED <<kind, pooled, asked, receive, held, work, queue, send, batch, written, errChan>>
    BY <1>11 DEF Server!Shutdown, Server!Cancel, Server!CloseConn
  <2>2. Server!Active' = Server!Active
    BY <2>1 DEF Server!Active
  <2> QED
    BY <2>1, <2>2, ShapePartsNext
<1>12. CASE UNCHANGED Server!hvars
  BY <1>12 DEF Server!hvars, Server!Shape, Server!TypeOK, Server!Active
<1> QED
  BY <1>1, <1>2, <1>3, <1>4, <1>5, <1>6, <1>7, <1>8, <1>9, <1>10, <1>11, <1>12
     DEF Server!Next, Server!Receiver, Server!Sender, Server!Server, Server!Worker

(* Nothing follows an error: what send does not touch stays, what it       *)
(* collects ends with an error at most, and it leaves when it wrote one.   *)
LEMMA LateStep ==
  Server!Shape /\ Server!NothingBehind /\ Server!ErrorIsLast /\ [Server!Next]_Server!hvars
    => Server!NothingBehind' /\ Server!ErrorIsLast'
<1> SUFFICES ASSUME Server!Shape, Server!NothingBehind, Server!ErrorIsLast,
                    [Server!Next]_Server!hvars, kind' # "udp"
             PROVE  Server!NothingBehind' /\ Server!ErrorIsLast'
  BY DEF Server!NothingBehind, Server!ErrorIsLast
<1>1. kind' = kind
  BY DEF Server!Next, Server!hvars, Server!Receiver, Server!Sender, Server!Server, Server!Worker,
         Server!Read, Server!Submit, Server!Refuse, Server!ReceiveStops, Server!ReadFails,
         Server!Handle, Server!Respond, Server!Collect, Server!Write, Server!SendStops,
         Server!Shutdown, Server!Cancel, Server!CloseConn
<1>2. /\ \A i \in DOMAIN batch : batch[i].what \in Server!Failing => i = Len(batch)
      /\ send = "loop" => \A i \in DOMAIN written : written[i].what \notin Server!Failing
      /\ \A i \in DOMAIN written : written[i].what \in Server!Failing => i = Len(written)
  BY <1>1 DEF Server!NothingBehind, Server!ErrorIsLast
<1>3. /\ batch \in Seq(Server!Responses) /\ written \in Seq(Server!Responses)
      /\ queue \in Seq(Server!Responses) /\ send \in {"loop", "gone"}
  BY ShapeParts DEF IsResponses
<1>4. ASSUME UNCHANGED <<batch, written>>, send' = send \/ send' = "gone"
      PROVE  Server!NothingBehind' /\ Server!ErrorIsLast'
  BY <1>2, <1>4 DEF Server!NothingBehind, Server!ErrorIsLast
<1>5. ASSUME NEW r \in Asked, Server!Refuse(r) PROVE Server!NothingBehind' /\ Server!ErrorIsLast'
  <2>1. batch' = batch
    BY <1>1, <1>5, PutPlaces DEF Server!Refuse
  <2> QED
    BY <1>4, <1>5, <2>1 DEF Server!Refuse
<1>6. ASSUME NEW r \in Asked, Server!Respond(r) PROVE Server!NothingBehind' /\ Server!ErrorIsLast'
  <2>1. batch' = batch
    BY <1>1, <1>6, PutPlaces DEF Server!Respond
  <2> QED
    BY <1>4, <1>6, <2>1 DEF Server!Respond
<1>7. CASE Server!Collect
  <2>1. /\ batch' = Append(batch, Head(queue)) /\ queue # <<>> /\ UNCHANGED <<send, written>>
        /\ batch = <<>> \/ ~Server!Fatal(batch)
    BY <1>7 DEF Server!Collect, Server!More
  <2>2. Head(queue) \in Server!Responses
    BY <1>3, <2>1, HeadTailProperties
  <2>3. /\ Len(batch') = Len(batch) + 1 /\ Len(batch) \in Nat /\ DOMAIN batch = 1..Len(batch)
        /\ DOMAIN batch' = 1..(Len(batch) + 1)
        /\ \A i \in 1..Len(batch) : batch'[i] = batch[i]
    BY <1>3, <2>1, <2>2, AppendProperties
  <2>4. \A i \in DOMAIN batch : batch[i].what \notin Server!Failing
    <3>1. CASE batch = <<>>
      BY <3>1
    <3>2. CASE batch # <<>>
      <4>1. batch[Len(batch)].what \notin Server!Failing
        BY <1>1, <2>1, <3>2 DEF Server!Fatal, Server!Last
      <4> QED
        BY <1>2, <4>1
    <3> QED
      BY <3>1, <3>2
  <2>5. ASSUME NEW i \in DOMAIN batch', batch'[i].what \in Server!Failing PROVE i = Len(batch')
    BY <2>3, <2>4, <2>5
  <2> QED
    BY <1>2, <2>1, <2>5 DEF Server!NothingBehind, Server!ErrorIsLast
<1>8. CASE Server!Write
  <2>1. /\ send = "loop" /\ batch # <<>> /\ batch' = <<>>
        /\ (written' = written \o batch /\ send' = IF Server!Fatal(batch) THEN "gone" ELSE send)
           \/ (written' = written /\ send' = "gone")
    BY <1>1, <1>8 DEF Server!Write, Server!Wrote
  <2>2. DOMAIN batch' = {}
    BY <2>1
  <2>3. CASE written' = written /\ send' = "gone"
    BY <1>2, <2>2, <2>3 DEF Server!NothingBehind, Server!ErrorIsLast
  <2>4. CASE written' = written \o batch /\ send' = IF Server!Fatal(batch) THEN "gone" ELSE send
    <3> DEFINE m == Len(written)
               n == Len(batch)
    <3>1. /\ m \in Nat /\ n \in Nat \ {0} /\ DOMAIN written = 1..m /\ DOMAIN batch = 1..n
          /\ Len(written') = m + n /\ DOMAIN written' = 1..(m+n)
          /\ \A i \in 1..m : written'[i] = written[i]
          /\ \A i \in (m+1)..(m+n) : written'[i] = batch[i-m]
      <4>1. written \o batch \in Seq(Server!Responses) /\ Len(written \o batch) = m + n
        BY <1>3, ConcatProperties
      <4> QED
        BY <1>3, <2>1, <2>4, <4>1, ConcatProperties, EmptySeq
    <3> HIDE DEF m, n
    <3>2. ASSUME NEW i \in 1..(m+n), written'[i].what \in Server!Failing PROVE i = m + n
      <4>1. i \notin 1..m
        BY <1>2, <2>1, <3>1, <3>2
      <4>2. i - m \in 1..n /\ i \in (m+1)..(m+n)
        BY <3>1, <4>1
      <4>3. i - m = n
        BY <1>2, <3>1, <3>2, <4>2 DEF n
      <4> QED
        BY <3>1, <4>2, <4>3
    <3>3. ASSUME send' = "loop", NEW i \in 1..(m+n) PROVE written'[i].what \notin Server!Failing
      <4>1. ~Server!Fatal(batch)
        BY <2>4, <3>3
      <4>2. batch[n].what \notin Server!Failing
        BY <1>1, <2>1, <4>1 DEF Server!Fatal, Server!Last, n
      <4>3. (m+n) - m = n /\ m + n \in (m+1)..(m+n)
        BY <3>1
      <4> QED
        BY <3>1, <3>2, <4>2, <4>3
    <3> QED
      BY <2>2, <3>1, <3>2, <3>3 DEF Server!NothingBehind, Server!ErrorIsLast
  <2> QED
    BY <2>1, <2>3, <2>4
<1>9. CASE UNCHANGED Server!hvars
  BY <1>4, <1>9 DEF Server!hvars
<1>10. ASSUME NEW r \in Asked, Server!Read(r) \/ Server!Submit(r) \/ Server!Handle(r)
       PROVE  Server!NothingBehind' /\ Server!ErrorIsLast'
  BY <1>4, <1>10 DEF Server!Read, Server!Submit, Server!Handle
<1>11. CASE Server!ReceiveStops \/ Server!ReadFails \/ Server!SendStops \/ Server!Shutdown
            \/ Server!Cancel \/ Server!CloseConn
  BY <1>4, <1>11 DEF Server!ReceiveStops, Server!ReadFails, Server!SendStops, Server!Shutdown,
                     Server!Cancel, Server!CloseConn
<1> QED
  BY <1>5, <1>6, <1>7, <1>8, <1>9, <1>10, <1>11
     DEF Server!Next, Server!Receiver, Server!Sender, Server!Server, Server!Worker

-----------------------------------------------------------------------------
(* ConnHandler: a request is in one place *)

(* What AnsweredOnce and NotYetRead say of one request.                    *)
OnceAt(r) ==
  /\ r \in asked => Server!Places(r) = 0
  /\ Server!Places(r) <= 1
  /\ r \notin asked /\ ~ctxDone /\ send = "loop" /\ kind # "udp" => Server!Places(r) = 1

(* The two invariants are that of all requests.                            *)
LEMMA OnceParts ==
  ASSUME Server!Shape
  PROVE  Server!NotYetRead /\ Server!AnsweredOnce <=> \A r \in Asked : OnceAt(r)
<1>1. asked \subseteq Asked
  BY ShapeParts
<1> QED
  BY <1>1 DEF Server!NotYetRead, Server!AnsweredOnce, OnceAt

(* The same after a step.                                                  *)
LEMMA OncePartsNext ==
  ASSUME Server!Shape'
  PROVE  (\A r \in Asked : OnceAt(r)') => Server!NotYetRead' /\ Server!AnsweredOnce'
<1>1. asked' \subseteq Asked
  BY ShapePartsNext
<1> QED
  BY <1>1 DEF Server!NotYetRead, Server!AnsweredOnce, OnceAt

(* Every place is counted by a number.                                     *)
LEMMA PlacesNat ==
  ASSUME Server!Shape, NEW r
  PROVE  /\ Is(r \in held) \in 0..1 /\ Is(r \in Server!Active) \in 0..1
         /\ Server!Count(queue, r) \in Nat /\ Server!Count(batch, r) \in Nat
         /\ Server!Count(written, r) \in Nat
<1>1. /\ queue \in Seq(Server!Responses) /\ batch \in Seq(Server!Responses)
      /\ written \in Seq(Server!Responses)
  BY ShapeParts DEF IsResponses
<1> QED
  BY <1>1, CountedAt DEF Is

(* A step that moves nothing, ...                                          *)
LEMMA Unmoved ==
  ASSUME NEW CONSTANT r, OnceAt(r), UNCHANGED <<asked, held, queue, batch, written, kind>>,
         Server!Active' = Server!Active,
         ctxDone' = ctxDone \/ ctxDone', send' = send \/ send' = "gone"
  PROVE  OnceAt(r)'
<1>1. Server!Places(r)' = Server!Places(r)
  BY PlacesAre, PlacesAreNext
<1> QED
  BY <1>1 DEF OnceAt

(* ... one that takes a request from the peer, ...                         *)
LEMMA ReadOnce ==
  ASSUME Server!Shape, NEW CONSTANT r \in Asked, NEW CONSTANT q \in Asked, OnceAt(r), Server!Read(q)
  PROVE  OnceAt(r)'
<1>1. /\ receive = "loop" /\ q \in asked /\ asked' = asked \ {q} /\ held = {}
      /\ UNCHANGED <<kind, queue, send, batch, written, ctxDone>>
  BY ShapeParts DEF Server!Read
<1>2. work \in [Asked -> Workings]
  BY ShapeParts
<1>3. CASE r # q
  <2>1. (r \in held' <=> r \in held) /\ (r \in Server!Active' <=> r \in Server!Active)
    BY <1>1, <1>2, <1>3 DEF Server!Read, Server!Active
  <2>2. Server!Places(r)' = Server!Places(r)
    BY <1>1, <2>1, PlacesAre, PlacesAreNext DEF Is
  <2> QED
    BY <1>1, <1>3, <2>2 DEF OnceAt
<1>4. CASE r = q
  <2>1. Server!Places(r) = 0
    BY <1>1, <1>4 DEF OnceAt
  <2>2. /\ Is(r \in held) = 0 /\ Is(r \in Server!Active) = 0 /\ Server!Count(queue, r) = 0
        /\ Server!Count(batch, r) = 0 /\ Server!Count(written, r) = 0
    BY <2>1, PlacesAre, PlacesNat
  <2>3. r \notin Server!Active
    BY <2>2 DEF Is
  <2>4. \/ held' = {r} /\ Server!Active' = Server!Active
        \/ held' = held /\ Server!Active' = Server!Active \union {r}
    <3>1. CASE held' = {q} /\ UNCHANGED work
      BY <1>4, <3>1 DEF Server!Active
    <3>2. CASE work' = [work EXCEPT ![q] = "running"] /\ held' = held
      BY <1>2, <1>4, <3>2 DEF Server!Active
    <3> QED
      BY <3>1, <3>2 DEF Server!Read
  <2>5. Is(r \in held') + Is(r \in Server!Active') = 1
    BY <1>1, <2>3, <2>4 DEF Is
  <2>6. /\ Server!Count(queue', r) = 0 /\ Server!Count(batch', r) = 0 /\ Server!Count(written', r) = 0
    BY <1>1, <2>2
  <2>7. Server!Places(r)' = 1
    BY <2>5, <2>6, PlacesAreNext DEF Is
  <2> QED
    BY <1>1, <1>4, <2>7 DEF OnceAt
<1> QED
  BY <1>3, <1>4

(* ... one that hands it to a worker, ...                                  *)
LEMMA SubmitOnce ==
  ASSUME Server!Shape, NEW CONSTANT r \in Asked, NEW CONSTANT q \in Asked, OnceAt(r), Server!Submit(q)
  PROVE  OnceAt(r)'
<1>1. /\ q \in held /\ held' = {} /\ work' = [work EXCEPT ![q] = "running"]
      /\ UNCHANGED <<asked, kind, queue, send, batch, written, ctxDone>>
  BY DEF Server!Submit
<1>2. work \in [Asked -> Workings] /\ held = {q}
  BY <1>1, ShapeParts
<1>3. Server!Active' = Server!Active \union {q}
  BY <1>1, <1>2 DEF Server!Active
<1>4. Is(r \in held') + Is(r \in Server!Active') = Is(r \in held) + Is(r \in Server!Active)
  <2>1. CASE r # q
    BY <1>1, <1>2, <1>3, <2>1 DEF Is
  <2>2. CASE r = q
    <3>1. Is(r \in held) = 1
      BY <1>1, <2>2 DEF Is
    <3>2. Is(r \in Server!Active) = 0
      BY <3>1, PlacesAre, PlacesNat DEF OnceAt
    <3> QED
      BY <1>1, <1>3, <2>2, <3>1, <3>2 DEF Is
  <2> QED
    BY <2>1, <2>2
<1>5. Server!Places(r)' = Server!Places(r)
  BY <1>1, <1>4, PlacesAre, PlacesAreNext, PlacesNat DEF Is
<1> QED
  BY <1>1, <1>5 DEF OnceAt

(* ... one that puts the response of q, which was in one place, in the     *)
(* queue, or with send, or drops it at the end of the connection, ...      *)
LEMMA PutOnce ==
  ASSUME Server!Shape, NEW CONSTANT r \in Asked, NEW CONSTANT q \in Asked, OnceAt(r),
         NEW x, x \in Server!Responses, x.request = q, Server!PutOrDrop(x),
         Is(r \in held) + Is(r \in Server!Active)
           = Is(r \in held') + Is(r \in Server!Active') + Is(q = r),
         UNCHANGED <<asked, kind, written, send, ctxDone>>
  PROVE  OnceAt(r)'
<1>1. queue \in Seq(Server!Responses) /\ batch \in Seq(Server!Responses)
  BY ShapeParts DEF IsResponses
<1>2. CASE kind # "udp" /\ queue' = Append(queue, x) /\ batch' = batch
  <2>1. Server!Count(queue', r) = Server!Count(queue, r) + Is(q = r)
    BY <1>1, <1>2, CountAppend
  <2>2. Server!Places(r)' = Server!Places(r)
    BY <1>2, <2>1, PlacesAre, PlacesAreNext, PlacesNat DEF Is
  <2> QED
    BY <2>2 DEF OnceAt
<1>3. CASE kind = "udp" /\ batch = <<>> /\ batch' = <<x>> /\ queue' = queue
  <2>1. Server!Count(batch', r) = Is(q = r) /\ Server!Count(batch, r) = 0
    BY <1>3, CountOne
  <2>2. Server!Places(r)' = Server!Places(r)
    BY <1>3, <2>1, PlacesAre, PlacesAreNext, PlacesNat DEF Is
  <2> QED
    BY <2>2 DEF OnceAt
<1>4. CASE ctxDone /\ queue' = queue /\ batch' = batch
  <2>1. Server!Places(r)' + Is(q = r) = Server!Places(r) /\ Server!Places(r)' \in Nat
    BY <1>4, PlacesAre, PlacesAreNext, PlacesNat DEF Is
  <2>2. Server!Places(r)' <= Server!Places(r) /\ (Server!Places(r) = 0 => Server!Places(r)' = 0)
    BY <2>1 DEF Is
  <2>3. Server!Places(r) \in Nat
    BY PlacesAre, PlacesNat
  <2> QED
    BY <1>4, <2>1, <2>2, <2>3 DEF OnceAt
<1> QED
  BY <1>2, <1>3, <1>4, PutPlaces

(* ... one that moves a response from the queue into the batch, ...        *)
LEMMA CollectOnce ==
  ASSUME Server!Shape, NEW CONSTANT r \in Asked, OnceAt(r), Server!Collect
  PROVE  OnceAt(r)'
<1>1. /\ batch' = Append(batch, Head(queue)) /\ queue' = Tail(queue) /\ queue # <<>>
      /\ UNCHANGED <<asked, held, work, kind, send, written, ctxDone>>
  BY DEF Server!Collect
<1>2. queue \in Seq(Server!Responses) /\ batch \in Seq(Server!Responses)
  BY ShapeParts DEF IsResponses
<1>3. Head(queue) \in Server!Responses /\ Tail(queue) \in Seq(Server!Responses)
  BY <1>1, <1>2, HeadTailProperties
<1>4. Server!Count(queue, r) = Is(Head(queue).request = r) + Server!Count(queue', r)
  BY <1>1, <1>2, CountHead
<1>5. Server!Count(batch', r) = Server!Count(batch, r) + Is(Head(queue).request = r)
  BY <1>1, <1>2, <1>3, CountAppend
<1>6. Server!Count(queue', r) \in Nat
  BY <1>1, <1>3, CountedAt
<1>7. Server!Active' = Server!Active
  BY <1>1 DEF Server!Active
<1>8. Server!Places(r)' = Server!Places(r)
  BY <1>1, <1>4, <1>5, <1>6, <1>7, PlacesAre, PlacesAreNext, PlacesNat DEF Is
<1> QED
  BY <1>1, <1>8 DEF OnceAt

(* ... and one that writes the batch, or loses it to UDP or a closed       *)
(* connection: each request is then still in one place, or in none.        *)
LEMMA WriteOnce ==
  ASSUME Server!Shape, NEW CONSTANT r \in Asked, OnceAt(r), Server!Write
  PROVE  OnceAt(r)'
<1>1. /\ batch' = <<>> /\ UNCHANGED <<asked, held, work, kind, queue, ctxDone>>
      /\ \/ written' = written \o batch /\ (send' = send \/ send' = "gone")
         \/ written' = written /\ send' = "gone"
         \/ written' = written /\ kind = "udp"
  BY DEF Server!Write, Server!Wrote
<1>2. written \in Seq(Server!Responses) /\ batch \in Seq(Server!Responses)
  BY ShapeParts DEF IsResponses
<1>3. Server!Count(batch', r) = 0
  BY <1>1, CountOne
<1>4. Server!Active' = Server!Active
  BY <1>1 DEF Server!Active
<1>5. CASE written' = written \o batch /\ (send' = send \/ send' = "gone")
  <2>1. Server!Count(written', r) = Server!Count(written, r) + Server!Count(batch, r)
    BY <1>2, <1>5, CountConcat
  <2>2. Server!Places(r)' = Server!Places(r)
    BY <1>1, <1>3, <1>4, <2>1, PlacesAre, PlacesAreNext, PlacesNat, SMTT(20)
  <2> QED
    BY <1>1, <1>5, <2>2 DEF OnceAt
<1>6. CASE written' = written /\ (send' = "gone" \/ kind = "udp")
  <2>1. Server!Places(r)' + Server!Count(batch, r) = Server!Places(r) /\ Server!Places(r)' \in Nat
    BY <1>1, <1>3, <1>4, <1>6, PlacesAre, PlacesAreNext, PlacesNat
  <2>2. Server!Places(r) \in Nat /\ Server!Count(batch, r) \in Nat
    BY PlacesAre, PlacesNat
  <2> QED
    BY <1>1, <1>6, <2>1, <2>2 DEF OnceAt
<1> QED
  BY <1>1, <1>5, <1>6

(* Every step keeps each request in one place at most.                     *)
LEMMA OnceStep ==
  ASSUME Server!Shape, NEW CONSTANT r \in Asked, OnceAt(r), [Server!Next]_Server!hvars
  PROVE  OnceAt(r)'
<1>1. ASSUME NEW q \in Asked, Server!Refuse(q) PROVE OnceAt(r)'
  <2> DEFINE x == Server!Response(q, "large")
  <2>1. /\ q \in held /\ held' = {} /\ Server!PutOrDrop(x)
        /\ UNCHANGED <<asked, kind, written, send, ctxDone, work>>
    BY <1>1 DEF Server!Refuse
  <2>2. x \in Server!Responses /\ x.request = q
    BY DEF Server!Response, Server!Responses, Server!Failing
  <2>3. held = {q} /\ Server!Active' = Server!Active
    BY <2>1, ShapeParts DEF Server!Active
  <2>4. Is(r \in held) + Is(r \in Server!Active) = Is(r \in held') + Is(r \in Server!Active') + Is(q = r)
    BY <2>1, <2>3 DEF Is
  <2> HIDE DEF x
  <2> QED
    BY <2>1, <2>2, <2>4, PutOnce
<1>2. ASSUME NEW q \in Asked, Server!Respond(q) PROVE OnceAt(r)'
  <2> DEFINE x == Server!Response(q, work[q])
  <2>1. /\ work[q] \in {"ok", "error", "big"} /\ work' = [work EXCEPT ![q] = "gone"]
        /\ Server!PutOrDrop(x)
        /\ UNCHANGED <<asked, kind, written, send, ctxDone, held>>
    BY <1>2 DEF Server!Respond
  <2>2. x \in Server!Responses /\ x.request = q
    BY <2>1 DEF Server!Response, Server!Responses, Server!Failing
  <2>3. work \in [Asked -> Workings]
    BY ShapeParts
  <2>4. q \in Server!Active /\ Server!Active' = Server!Active \ {q}
    BY <2>1, <2>3 DEF Server!Active
  <2>5. Is(r \in held) + Is(r \in Server!Active) = Is(r \in held') + Is(r \in Server!Active') + Is(q = r)
    BY <2>1, <2>4 DEF Is
  <2> HIDE DEF x
  <2> QED
    BY <2>1, <2>2, <2>5, PutOnce
<1>3. ASSUME NEW q \in Asked, Server!Handle(q) PROVE OnceAt(r)'
  <2>1. PICK what \in {"ok", "error", "big"} : work' = [work EXCEPT ![q] = what]
    BY <1>3 DEF Server!Handle
  <2>2. /\ work[q] = "running"
        /\ UNCHANGED <<kind, asked, held, queue, send, batch, written, ctxDone>>
    BY <1>3 DEF Server!Handle
  <2>3. work \in [Asked -> Workings]
    BY ShapeParts
  <2>4. Server!Active' = Server!Active
    BY <2>1, <2>2, <2>3 DEF Server!Active
  <2> QED
    BY <2>2, <2>4, Unmoved
<1>4. CASE Server!ReceiveStops \/ Server!ReadFails \/ Server!SendStops \/ UNCHANGED Server!hvars
  <2>1. /\ UNCHANGED <<asked, held, work, queue, batch, written, kind, ctxDone>>
        /\ send' = send \/ send' = "gone"
    BY <1>4 DEF Server!ReceiveStops, Server!ReadFails, Server!SendStops, Server!hvars
  <2>2. Server!Active' = Server!Active
    BY <2>1 DEF Server!Active
  <2> QED
    BY <2>1, <2>2, Unmoved
<1>5. CASE Server!Shutdown \/ Server!Cancel \/ Server!CloseConn
  <2>1. /\ UNCHANGED <<asked, held, work, queue, batch, written, kind, send>>
        /\ ctxDone' = ctxDone \/ ctxDone'
    BY <1>5 DEF Server!Shutdown, Server!Cancel, Server!CloseConn
  <2>2. Server!Active' = Server!Active
    BY <2>1 DEF Server!Active
  <2> QED
    BY <2>1, <2>2, Unmoved
<1> QED
  BY <1>1, <1>2, <1>3, <1>4, <1>5, ReadOnce, SubmitOnce, CollectOnce, WriteOnce
     DEF Server!Next, Server!Receiver, Server!Sender, Server!Server, Server!Worker

(* Every step of a server's connection keeps what holds of it.             *)
LEMMA HandlerStep == Server!HandlerInv /\ [Server!Next]_Server!hvars => Server!HandlerInv'
<1> SUFFICES ASSUME Server!HandlerInv, [Server!Next]_Server!hvars PROVE Server!HandlerInv'
  OBVIOUS
<1>1. Server!Shape'
  BY ShapeStep DEF Server!HandlerInv
<1>2. Server!NothingBehind' /\ Server!ErrorIsLast'
  BY LateStep DEF Server!HandlerInv
<1>3. \A r \in Asked : OnceAt(r)
  BY OnceParts DEF Server!HandlerInv
<1>4. ASSUME NEW CONSTANT r \in Asked PROVE OnceAt(r)'
  BY <1>3, OnceStep DEF Server!HandlerInv
<1>5. Server!NotYetRead' /\ Server!AnsweredOnce'
  BY <1>1, <1>4, OncePartsNext
<1> QED
  BY <1>1, <1>2, <1>5 DEF Server!HandlerInv

(* A request that a server has read is answered once, nothing is written   *)
(* behind an error on a connection, and no response is lost while the      *)
(* connection lives, with any pool, queue or batch.                        *)
THEOREM ServerAnswersOnce == Server!Spec => [](Server!AnsweredOnce /\ Server!ErrorIsLast)
<1>1. Server!HandlerInv => Server!AnsweredOnce /\ Server!ErrorIsLast
  BY DEF Server!HandlerInv
<1> QED
  BY <1>1, HandlerInit, HandlerStep, PTL DEF Server!Spec

-----------------------------------------------------------------------------
(* MessageConn *)

(* The map of a connection, from indexes to calls.                         *)
Maps == UNION {[D -> Calls] : D \in SUBSET Nat}
CallForms == [at : {"idle", "store", "offer", "wait"}, conn : Conns \union {0}, index : Nat]

(* An index after n, counted round m: it is new until the counter is at m. *)
LEMMA IndexAfter ==
  ASSUME NEW n \in Nat, NEW m \in Nat \ {0}
  PROVE  (n+1) % m \in Nat /\ (n+1 < m => (n+1) % m = n+1) /\ (n < m => (n+1) % m \notin 1..n)
<1>1. (n+1) % m \in Nat
  OBVIOUS
<1>2. n+1 < m => (n+1) % m = n+1
  OBVIOUS
<1>3. n+1 = m => (n+1) % m = 0
  OBVIOUS
<1> QED
  BY <1>1, <1>2, <1>3

(* A map with another index, and one without.                              *)
Added(map, x, c) == [j \in DOMAIN map \union {x} |-> IF j = x THEN c ELSE map[j]]
Removed(map, x) == [j \in DOMAIN map \ {x} |-> map[j]]
MoreBy(new, map, x, c) ==
  /\ DOMAIN new = DOMAIN map \union {x} /\ new[x] = c
  /\ \A j \in DOMAIN map : j # x => new[j] = map[j]
LessBy(new, map, x) ==
  /\ DOMAIN new = DOMAIN map \ {x}
  /\ \A j \in DOMAIN map : j # x => new[j] = map[j]

(* A map is what it gives for its indexes, ...                             *)
LEMMA MapForm ==
  ASSUME NEW map \in Maps
  PROVE  DOMAIN map \in SUBSET Nat /\ \A x \in DOMAIN map : map[x] \in Calls
<1>1. PICK D \in SUBSET Nat : map \in [D -> Calls]
  BY DEF Maps
<1> QED
  BY <1>1

(* ... it has one more when one is added, ...                              *)
LEMMA AddedForm ==
  ASSUME NEW map \in Maps, NEW c \in Calls, NEW x \in Nat
  PROVE  Added(map, x, c) \in Maps /\ MoreBy(Added(map, x, c), map, x, c)
<1>1. DOMAIN map \in SUBSET Nat /\ \A j \in DOMAIN map : map[j] \in Calls
  BY MapForm
<1>2. Added(map, x, c) \in [DOMAIN map \union {x} -> Calls] /\ DOMAIN map \union {x} \in SUBSET Nat
  BY <1>1 DEF Added
<1> QED
  BY <1>2 DEF Added, Maps, MoreBy

(* ... and one less when one is taken out.                                 *)
LEMMA RemovedForm ==
  ASSUME NEW map \in Maps, NEW x
  PROVE  Removed(map, x) \in Maps /\ LessBy(Removed(map, x), map, x)
<1>1. DOMAIN map \in SUBSET Nat /\ \A j \in DOMAIN map : map[j] \in Calls
  BY MapForm
<1>2. Removed(map, x) \in [DOMAIN map \ {x} -> Calls] /\ DOMAIN map \ {x} \in SUBSET Nat
  BY <1>1 DEF Removed
<1> QED
  BY <1>2 DEF Removed, Maps, LessBy

(* The cardinality that the module of the connection knows is that of this.*)
LEMMA ConnCounts == \A S : Conn!Cardinality(S) = Cardinality(S)
  BY DEF Conn!Cardinality, Cardinality

(* What Forms says, part by part.                                          *)
LEMMA FormsParts ==
  Conn!Forms <=>
    /\ current \in Conns \union {0} /\ open \subseteq Conns /\ done \subseteq Conns
    /\ answered \in [Calls -> {"none", "own", "other", "error", "timeout"}]
    /\ mask \in Nat \ {0} /\ counter \in [Conns -> Nat] /\ lapped \in BOOLEAN
    /\ calling \in [Calls -> CallForms]
    /\ \A c \in Calls : calling[c].at # "idle" => calling[c].conn \in Conns
    /\ inbox \in [Calls -> SUBSET {"own", "other", "error"}]
    /\ results \in [Conns -> Maps]
    /\ Conn!UnderWay \subseteq Conn!Messages
    /\ writing \in [Conns -> SUBSET Conn!Messages] /\ \A k \in Conns : \A m \in writing[k] : m.conn = k
<1>1. inbox \in [Calls -> SUBSET {"own", "other", "error"}] => \A c \in Calls : inbox[c] \subseteq {"own", "other", "error"}
  OBVIOUS
<1> QED
  BY <1>1 DEF Conn!Forms, Conn!TypeOK, CallForms, Maps

(* The same after a step.                                                  *)
LEMMA FormsPartsNext ==
  Conn!Forms' <=>
    /\ current' \in Conns \union {0} /\ open' \subseteq Conns /\ done' \subseteq Conns
    /\ answered' \in [Calls -> {"none", "own", "other", "error", "timeout"}]
    /\ mask' \in Nat \ {0} /\ counter' \in [Conns -> Nat] /\ lapped' \in BOOLEAN
    /\ calling' \in [Calls -> CallForms]
    /\ \A c \in Calls : calling'[c].at # "idle" => calling'[c].conn \in Conns
    /\ inbox' \in [Calls -> SUBSET {"own", "other", "error"}]
    /\ results' \in [Conns -> Maps]
    /\ Conn!UnderWay' \subseteq Conn!Messages
    /\ writing' \in [Conns -> SUBSET Conn!Messages] /\ \A k \in Conns : \A m \in writing'[k] : m.conn = k
<1>1. inbox' \in [Calls -> SUBSET {"own", "other", "error"}] => \A c \in Calls : inbox'[c] \subseteq {"own", "other", "error"}
  OBVIOUS
<1> QED
  BY <1>1 DEF Conn!Forms, Conn!TypeOK, CallForms, Maps, Conn!Messages

(* No call has been made, and no connection is there.                      *)
LEMMA RepliesInit == Conn!Init => Conn!RepliesInv
<1> SUFFICES ASSUME Conn!Init PROVE Conn!RepliesInv
  OBVIOUS
<1> USE EndpointsAssumption DEF Conn!Init
<1>1. mask \in Nat \ {0}
  <2>1. Cardinality(Calls) \in Nat /\ Cardinality(Calls) # 0
    BY FS_CardinalityType, FS_EmptySet
  <2> QED
    BY <2>1, ConnCounts
<1>2. Conn!Nobody \in Maps /\ DOMAIN Conn!Nobody = {}
  <2>1. Conn!Nobody \in [{} -> Calls] /\ {} \in SUBSET Nat
    BY DEF Conn!Nobody
  <2> QED
    BY <2>1 DEF Maps
<1>3. results \in [Conns -> Maps] /\ \A k \in Conns : DOMAIN results[k] = {}
  BY <1>2
<1>4. Conn!UnderWay = {}
  BY DEF Conn!UnderWay
<1>5. calling \in [Calls -> CallForms] /\ \A c \in Calls : calling[c].at = "idle"
  BY DEF Conn!NoCall, CallForms
<1>6. Conn!Forms
  BY <1>1, <1>3, <1>4, <1>5, FormsParts
<1>7. Conn!Mapped /\ Conn!NothingYet /\ Conn!NewIndexes /\ Conn!OwnIndexes /\ Conn!OwnReply
  BY <1>3, <1>4, <1>5 DEF Conn!Mapped, Conn!NothingYet, Conn!NewIndexes, Conn!OwnIndexes, Conn!OwnReply, Conn!Asking
<1>8. Conn!OneResult
  BY FS_EmptySet, ConnCounts DEF Conn!OneResult
<1> QED
  BY <1>6, <1>7, <1>8 DEF Conn!RepliesInv

(* What the messages do alone: as long as no other is under way, ...       *)
LEMMA MessagesMove ==
  ASSUME Conn!RepliesInv, Conn!Forms', Conn!UnderWay' \subseteq Conn!UnderWay,
         UNCHANGED <<mask, counter, lapped, calling, inbox, answered, results>>
  PROVE  Conn!RepliesInv'
<1>1. Conn!Mapped' /\ Conn!NothingYet' /\ Conn!OneResult' /\ Conn!OwnReply'
  BY DEF Conn!RepliesInv, Conn!Mapped, Conn!NothingYet, Conn!OneResult, Conn!OwnReply, Conn!Asking
<1>2. Conn!NewIndexes' /\ Conn!OwnIndexes'
  BY DEF Conn!RepliesInv, Conn!NewIndexes, Conn!OwnIndexes, Conn!Asking
<1> QED
  BY <1>1, <1>2 DEF Conn!RepliesInv

(* ... whether they are taken, written, answered, lost or thrown away.     *)
LEMMA MessageSteps ==
  ASSUME Conn!RepliesInv,
         \/ \E k \in Conns : Conn!Take(k) \/ Conn!Write(k) \/ Conn!SendStops(k) \/ Conn!ReceiveFails(k)
                             \/ Conn!Exit(k) \/ Conn!Close(k) \/ Conn!Abort(k)
         \/ \E m \in asks : Conn!Serve(m)
         \/ \E m \in asks \union replies : Conn!Lose(m)
  PROVE  Conn!RepliesInv'
<1> USE FormsParts DEF Conn!RepliesInv
<1>1. ASSUME NEW k \in Conns, Conn!Take(k) PROVE Conn!RepliesInv'
  <2>1. PICK m \in requests : m.conn = k /\ writing' = [writing EXCEPT ![k] = {m}] /\ requests' = requests \ {m}
    BY <1>1 DEF Conn!Take, Conn!Hold
  <2>2. UNCHANGED <<mask, current, open, done, counter, results, calling, inbox, answered, asks, replies, lapped>>
    BY <1>1 DEF Conn!Take
  <2>3. m \in Conn!UnderWay /\ m \in Conn!Messages
    BY <2>1 DEF Conn!UnderWay
  <2>4. Conn!UnderWay' \subseteq Conn!UnderWay
    BY <2>1, <2>2, <2>3 DEF Conn!UnderWay
  <2>5. writing' \in [Conns -> SUBSET Conn!Messages] /\ \A q \in Conns : \A n \in writing'[q] : n.conn = q
    BY <2>1, <2>3
  <2>6. Conn!UnderWay' \subseteq Conn!Messages
    BY <2>4
  <2>7. Conn!Forms'
    BY <2>2, <2>5, <2>6, FormsPartsNext
  <2> QED
    BY <2>2, <2>4, <2>7, MessagesMove
<1>2. ASSUME NEW k \in Conns, Conn!Write(k) PROVE Conn!RepliesInv'
  <2>1. /\ writing' = [writing EXCEPT ![k] = {}] /\ (asks' = asks \union writing[k] \/ asks' = asks)
        /\ UNCHANGED <<mask, current, open, done, counter, results, requests, calling, inbox, answered, replies, lapped>>
    BY <1>2 DEF Conn!Write
  <2>2. Conn!UnderWay' \subseteq Conn!UnderWay
    BY <2>1 DEF Conn!UnderWay
  <2>3. writing' \in [Conns -> SUBSET Conn!Messages] /\ \A q \in Conns : \A n \in writing'[q] : n.conn = q
    BY <2>1
  <2>4. Conn!UnderWay' \subseteq Conn!Messages
    BY <2>2
  <2>5. Conn!Forms'
    BY <2>1, <2>3, <2>4, FormsPartsNext
  <2> QED
    BY <2>1, <2>2, <2>5, MessagesMove
<1>3. ASSUME NEW k \in Conns,
             Conn!SendStops(k) \/ Conn!ReceiveFails(k) \/ Conn!Exit(k) \/ Conn!Close(k) \/ Conn!Abort(k)
      PROVE  Conn!RepliesInv'
  <2>1. /\ current' \in {current, 0} /\ open' \subseteq open /\ done' \in {done, done \union {k}}
        /\ asks' \subseteq asks /\ replies' \subseteq replies
        /\ UNCHANGED <<mask, counter, results, requests, writing, calling, inbox, answered, lapped>>
    BY <1>3 DEF Conn!SendStops, Conn!ReceiveFails, Conn!Exit, Conn!OnExit, Conn!Close, Conn!Abort
  <2>2. Conn!UnderWay' \subseteq Conn!UnderWay
    BY <2>1 DEF Conn!UnderWay
  <2>3. Conn!UnderWay' \subseteq Conn!Messages
    BY <2>2
  <2>4. Conn!Forms'
    BY <2>1, <2>3, FormsPartsNext
  <2> QED
    BY <2>1, <2>2, <2>4, MessagesMove
<1>4. ASSUME NEW m \in asks \union replies, (m \in asks /\ Conn!Serve(m)) \/ Conn!Lose(m)
      PROVE  Conn!RepliesInv'
  <2>1. /\ asks' \subseteq asks /\ replies' \subseteq replies \union asks
        /\ UNCHANGED <<mask, current, open, done, counter, results, requests, writing, calling, inbox, answered, lapped>>
    BY <1>4 DEF Conn!Serve, Conn!Lose
  <2>2. Conn!UnderWay' \subseteq Conn!UnderWay
    BY <2>1 DEF Conn!UnderWay
  <2>3. Conn!UnderWay' \subseteq Conn!Messages
    BY <2>2
  <2>4. Conn!Forms'
    BY <2>1, <2>3, FormsPartsNext
  <2> QED
    BY <2>1, <2>2, <2>4, MessagesMove
<1> QED
  BY <1>1, <1>2, <1>3, <1>4

(* What it says of the map after a step.                                   *)
LEMMA MappedNext ==
  Conn!Mapped' <=>
    \A k \in Conns : \A i \in DOMAIN results'[k] :
      /\ calling'[results'[k][i]].at \in {"offer", "wait"} /\ calling'[results'[k][i]].conn = k
      /\ calling'[results'[k][i]].index = i /\ inbox'[results'[k][i]] = {}
  BY DEF Conn!Mapped, Conn!Asking

(* What a call is once it has its connection.                              *)
LEMMA CallBegins ==
  ASSUME NEW k \in Conns
  PROVE  /\ [Conn!NoCall EXCEPT !.at = "store", !.conn = k] \in CallForms
         /\ [Conn!NoCall EXCEPT !.at = "store", !.conn = k].at = "store"
         /\ [Conn!NoCall EXCEPT !.at = "store", !.conn = k].conn = k
<1> DEFINE begun == [Conn!NoCall EXCEPT !.at = "store", !.conn = k]
<1>1. Conn!NoCall \in CallForms
  BY DEF Conn!NoCall, CallForms
<1>2. begun \in CallForms
  BY <1>1 DEF CallForms
<1>3. begun.at = "store"
  BY <1>1 DEF CallForms
<1>4. begun.conn = k
  BY <1>1 DEF CallForms
<1> QED
  BY <1>2, <1>3, <1>4

(* A call that gets a connection has no index and no entry yet.            *)
LEMMA GetConnStep ==
  ASSUME Conn!RepliesInv, NEW c \in Calls, NEW k \in Conns, Conn!GetConn(c, k)
  PROVE  Conn!RepliesInv'
<1> USE FormsParts DEF Conn!RepliesInv
<1>1. /\ calling[c] = Conn!NoCall /\ answered[c] = "none"
      /\ calling' = [calling EXCEPT ![c] = [Conn!NoCall EXCEPT !.at = "store", !.conn = k]]
      /\ current' \in Conns \union {0} /\ open' \subseteq Conns
      /\ UNCHANGED <<mask, done, counter, results, requests, writing, inbox, answered, asks, replies, lapped>>
  BY DEF Conn!GetConn
<1> DEFINE new == [Conn!NoCall EXCEPT !.at = "store", !.conn = k]
<1>a. calling \in [Calls -> CallForms] /\ calling' = [calling EXCEPT ![c] = new]
  <2> HIDE DEF new
  <2> QED
    BY <1>1 DEF new
<1>b. calling[c].at = "idle"
  BY <1>1 DEF Conn!NoCall
<1>c. new \in CallForms /\ new.at = "store" /\ new.conn = k
  BY CallBegins
<1> HIDE DEF new
<1>2. /\ calling[c].at = "idle" /\ calling'[c].at = "store" /\ calling'[c].conn = k
      /\ \A d \in Calls \ {c} : calling'[d] = calling[d]
  BY <1>a, <1>b, <1>c
<1>3. calling' \in [Calls -> CallForms]
  BY <1>a, <1>c
<1>4. Conn!UnderWay' = Conn!UnderWay
  BY <1>1 DEF Conn!UnderWay
<1>5. \A d \in Calls : calling'[d].at # "idle" => calling'[d].conn \in Conns
  BY <1>2
<1>6. Conn!Forms'
  BY <1>1, <1>3, <1>4, <1>5, FormsPartsNext
<1>7. \A d \in Calls : Conn!Asking(d)' <=> Conn!Asking(d)
  BY <1>2 DEF Conn!Asking
<1>8. \A d \in Calls : Conn!Asking(d) => calling'[d] = calling[d]
  BY <1>2 DEF Conn!Asking
<1>9. Conn!Mapped'
  <2>1. ASSUME NEW q \in Conns, NEW i \in DOMAIN results[q]
        PROVE  /\ calling'[results[q][i]].at \in {"offer", "wait"} /\ calling'[results[q][i]].conn = q
               /\ calling'[results[q][i]].index = i /\ inbox'[results[q][i]] = {}
    <3>1. PICK d \in Calls : d = results[q][i]
      BY MapForm
    <3>2. Conn!Asking(d) /\ calling[d].conn = q /\ calling[d].index = i /\ inbox[d] = {}
      BY <3>1 DEF Conn!Mapped
    <3> QED
      BY <1>1, <1>8, <3>1, <3>2 DEF Conn!Asking
  <2> QED
    BY <1>1, <2>1, MappedNext
<1>10. Conn!NothingYet'
  BY <1>1, <1>2, <1>7 DEF Conn!NothingYet
<1>11. Conn!NewIndexes'
  BY <1>1, <1>4, <1>7, <1>8 DEF Conn!NewIndexes
<1>12. Conn!OwnIndexes'
  BY <1>1, <1>4, <1>7, <1>8 DEF Conn!OwnIndexes
<1>13. Conn!OwnReply' /\ Conn!OneResult'
  BY <1>1 DEF Conn!OwnReply, Conn!OneResult
<1> QED
  BY <1>6, <1>9, <1>10, <1>11, <1>12, <1>13

(* A call that takes an index is the owner of its entry: the index is new, *)
(* or not in use any more.                                                 *)
LEMMA StoreStep ==
  ASSUME Conn!RepliesInv, NEW c \in Calls, Conn!Store(c)
  PROVE  Conn!RepliesInv'
<1> USE FormsParts DEF Conn!RepliesInv
<1>0. PICK k \in Conns : k = calling[c].conn
  BY DEF Conn!Store
<1>2. counter[k] \in Nat /\ results[k] \in Maps
  BY <1>0
<1>a. PICK i \in Nat : i = (counter[k] + 1) % mask
  BY <1>2, IndexAfter
<1>b. PICK g \in Maps : g = results[k]
  BY <1>2
<1>c. PICK f \in Maps : f = Added(g, i, c) /\ MoreBy(f, g, i, c)
  BY <1>a, <1>b, AddedForm, Zenon
<1>1. /\ calling[c].at = "store" /\ counter' = [counter EXCEPT ![k] = @ + 1]
      /\ calling' = [calling EXCEPT ![c].at = "offer", ![c].index = i]
      /\ results' = [results EXCEPT ![k] = f]
      /\ lapped' = (lapped \/ (counter[k] >= mask /\ Conn!InUse(k, i)))
      /\ UNCHANGED <<mask, current, open, done, requests, writing, inbox, answered, asks, replies>>
  BY <1>0, <1>a, <1>b, <1>c DEF Conn!Store, Added
<1>3. (counter[k] + 1 < mask => i = counter[k] + 1) /\ (counter[k] < mask => i \notin 1..counter[k])
  BY <1>2, <1>a, IndexAfter
<1>4. /\ DOMAIN f = DOMAIN results[k] \union {i} /\ f[i] = c
      /\ \A j \in DOMAIN results[k] : j # i => f[j] = results[k][j]
  BY <1>b, <1>c DEF MoreBy
<1>5. /\ calling'[c].at = "offer" /\ calling'[c].conn = k /\ calling'[c].index = i
      /\ \A d \in Calls \ {c} : calling'[d] = calling[d]
      /\ calling' \in [Calls -> CallForms]
  <2>1. calling[c] \in CallForms
    OBVIOUS
  <2> QED
    BY <1>0, <1>1, <2>1 DEF CallForms
<1>6. results'[k] = f /\ \A q \in Conns \ {k} : results'[q] = results[q]
  BY <1>1, <1>2
<1>7. counter'[k] = counter[k] + 1 /\ \A q \in Conns \ {k} : counter'[q] = counter[q]
  BY <1>1, <1>2
<1>8. Conn!UnderWay' = Conn!UnderWay
  BY <1>1 DEF Conn!UnderWay
<1>9. lapped' \in BOOLEAN
  BY <1>1
<1>10. Conn!Forms'
  <2>1. counter' \in [Conns -> Nat] /\ results' \in [Conns -> Maps]
    BY <1>1, <1>2, <1>4
  <2>2. \A d \in Calls : calling'[d].at # "idle" => calling'[d].conn \in Conns
    BY <1>2, <1>5
  <2> QED
    BY <1>1, <1>5, <1>8, <1>9, <2>1, <2>2, FormsPartsNext
<1>11. /\ Conn!Asking(c)' /\ ~Conn!Asking(c) /\ inbox[c] = {} /\ answered[c] = "none"
       /\ \A d \in Calls \ {c} : Conn!Asking(d)' <=> Conn!Asking(d)
  BY <1>1, <1>5 DEF Conn!Asking, Conn!NothingYet
<1>12. \A q \in Conns : \A j \in DOMAIN results[q] : results[q][j] \in Calls \ {c}
  BY <1>11, MapForm DEF Conn!Mapped
<1>13. Conn!Mapped'
  <2>1. ASSUME NEW q \in Conns, NEW j \in DOMAIN results'[q]
        PROVE  /\ calling'[results'[q][j]].at \in {"offer", "wait"} /\ calling'[results'[q][j]].conn = q
               /\ calling'[results'[q][j]].index = j /\ inbox'[results'[q][j]] = {}
    <3>1. CASE q = k /\ j = i
      <4>1. results'[q][j] = c
        BY <1>4, <1>6, <3>1
      <4> QED
        BY <1>1, <1>5, <1>11, <3>1, <4>1
    <3>2. CASE ~(q = k /\ j = i)
      <4>1. j \in DOMAIN results[q] /\ results'[q][j] = results[q][j]
        BY <1>4, <1>6, <2>1, <3>2
      <4>2. PICK d \in Calls \ {c} : d = results[q][j]
        BY <1>12, <4>1
      <4>3. Conn!Asking(d) /\ calling[d].conn = q /\ calling[d].index = j /\ inbox[d] = {}
        BY <4>1, <4>2 DEF Conn!Mapped
      <4> QED
        BY <1>1, <1>5, <4>1, <4>2, <4>3 DEF Conn!Asking
    <3> QED
      BY <3>1, <3>2
  <2> QED
    BY <2>1, MappedNext
<1>14. Conn!NothingYet'
  BY <1>1, <1>5, <1>11 DEF Conn!NothingYet
<1>15. Conn!NewIndexes'
  <2>1. ASSUME NEW q \in Conns, counter'[q] < mask, NEW d \in Calls, Conn!Asking(d)', calling'[d].conn = q
        PROVE  calling'[d].index \in 1..counter'[q]
    <3>1. CASE d = c
      <4>1. q = k /\ calling'[d].index = i
        BY <1>5, <2>1, <3>1
      <4> QED
        BY <1>2, <1>3, <1>7, <2>1, <4>1
    <3>2. CASE d # c
      <4>1. Conn!Asking(d) /\ calling[d].conn = q /\ calling'[d].index = calling[d].index
        BY <1>5, <1>11, <2>1, <3>2
      <4>2. counter[q] \in Nat /\ counter[q] <= counter'[q] /\ counter'[q] \in Nat /\ counter[q] < mask
        BY <1>2, <1>7, <2>1
      <4>3. calling[d].index \in 1..counter[q]
        BY <4>1, <4>2 DEF Conn!NewIndexes
      <4> QED
        BY <4>1, <4>2, <4>3
    <3> QED
      BY <3>1, <3>2
  <2>2. ASSUME NEW q \in Conns, counter'[q] < mask, NEW m \in Conn!UnderWay, m.conn = q
        PROVE  m.index \in 1..counter'[q]
    <3>1. counter[q] \in Nat /\ counter[q] <= counter'[q] /\ counter'[q] \in Nat /\ counter[q] < mask
      BY <1>2, <1>7, <2>2
    <3>2. m.index \in 1..counter[q]
      BY <2>2, <3>1 DEF Conn!NewIndexes
    <3> QED
      BY <3>1, <3>2
  <2> QED
    BY <1>1, <1>8, <2>1, <2>2 DEF Conn!NewIndexes
<1>16. ASSUME ~lapped'
       PROVE  /\ ~lapped
              /\ \A d \in Calls : Conn!Asking(d) /\ calling[d].conn = k => calling[d].index # i
              /\ \A m \in Conn!UnderWay : m.conn = k => m.index # i
  <2>1. CASE counter[k] < mask
    BY <1>1, <1>2, <1>3, <1>16, <2>1 DEF Conn!NewIndexes
  <2>2. CASE ~(counter[k] < mask)
    <3>0. counter[k] >= mask
      BY <1>2, <2>2
    <3>1. ~lapped /\ ~Conn!InUse(k, i)
      BY <1>1, <1>16, <3>0, Zenon
    <3>2. \A d \in Calls : ~(calling[d].conn = k /\ Conn!Asking(d) /\ calling[d].index = i)
      BY <3>1 DEF Conn!InUse, Conn!Asking
    <3>3. ASSUME NEW m \in Conn!UnderWay, m.conn = k PROVE m.index # i
      <4>1. m \in asks \union replies \union requests \union writing[k]
        BY <1>2, <3>3 DEF Conn!UnderWay
      <4> QED
        BY <3>1, <3>3, <4>1 DEF Conn!InUse
    <3> QED
      BY <3>1, <3>2, <3>3
  <2> QED
    BY <2>1, <2>2
<1>17. Conn!OwnIndexes'
  <2> SUFFICES ASSUME ~lapped' PROVE Conn!OwnIndexes'
    BY DEF Conn!OwnIndexes
  <2>1. ASSUME NEW m \in Conn!UnderWay, m.index \in DOMAIN results'[m.conn]
        PROVE  results'[m.conn][m.index] = m.call
    <3>1. m.conn \in Conns
      BY DEF Conn!Messages
    <3>2. ~(m.conn = k /\ m.index = i)
      BY <1>16
    <3>3. m.index \in DOMAIN results[m.conn] /\ results'[m.conn][m.index] = results[m.conn][m.index]
      BY <1>4, <1>6, <2>1, <3>1, <3>2
    <3> QED
      BY <1>16, <3>3 DEF Conn!OwnIndexes
  <2>2. ASSUME NEW d \in Calls, Conn!Asking(d)', calling'[d].index \in DOMAIN results'[calling'[d].conn]
        PROVE  results'[calling'[d].conn][calling'[d].index] = d
    <3>1. CASE d = c
      BY <1>4, <1>5, <1>6, <3>1
    <3>2. CASE d # c
      <4>1. Conn!Asking(d) /\ calling'[d] = calling[d] /\ calling[d].conn \in Conns
        BY <1>5, <1>11, <2>2, <3>2 DEF Conn!Asking
      <4>2. ~(calling[d].conn = k /\ calling[d].index = i)
        BY <1>16, <4>1
      <4>3. /\ calling[d].index \in DOMAIN results[calling[d].conn]
            /\ results'[calling[d].conn][calling[d].index] = results[calling[d].conn][calling[d].index]
        BY <1>4, <1>6, <2>2, <4>1, <4>2
      <4> QED
        BY <1>16, <4>1, <4>3 DEF Conn!OwnIndexes
    <3> QED
      BY <3>1, <3>2
  <2>3. \A d \in Calls : "other" \notin inbox'[d]
    BY <1>1, <1>16 DEF Conn!OwnIndexes
  <2> QED
    BY <1>8, <2>1, <2>2, <2>3 DEF Conn!OwnIndexes
<1>18. Conn!OwnReply' /\ Conn!OneResult'
  BY <1>1 DEF Conn!OwnReply, Conn!OneResult
<1> QED
  BY <1>10, <1>13, <1>14, <1>15, <1>17, <1>18

(* A request that is offered carries the index of its call.                *)
LEMMA OfferStep ==
  ASSUME Conn!RepliesInv, NEW c \in Calls, Conn!Offer(c)
  PROVE  Conn!RepliesInv'
<1> USE FormsParts DEF Conn!RepliesInv
<1> DEFINE k == calling[c].conn
           n == [conn |-> k, index |-> calling[c].index, call |-> c]
<1>1. /\ calling[c].at = "offer" /\ calling' = [calling EXCEPT ![c].at = "wait"]
      /\ UNCHANGED <<mask, current, open, done, counter, results, inbox, answered, asks, replies, lapped>>
      /\ \/ requests' = requests \union {n} /\ UNCHANGED writing
         \/ writing' = [writing EXCEPT ![k] = {n}] /\ UNCHANGED requests
  BY DEF Conn!Offer, Conn!Hold, Conn!Message
<1>2. k \in Conns /\ n \in Conn!Messages
  <2>1. calling[c] \in CallForms
    OBVIOUS
  <2> QED
    BY <1>1, <2>1 DEF Conn!Messages, CallForms
<1> HIDE DEF n
<1>3. /\ calling'[c] = [calling[c] EXCEPT !.at = "wait"]
      /\ \A d \in Calls \ {c} : calling'[d] = calling[d]
      /\ calling' \in [Calls -> CallForms]
      /\ calling'[c].at = "wait" /\ calling'[c].conn = k /\ calling'[c].index = calling[c].index
  <2>1. calling[c] \in CallForms
    OBVIOUS
  <2> QED
    BY <1>1, <2>1 DEF CallForms
<1>4. \A d \in Calls : /\ Conn!Asking(d)' <=> Conn!Asking(d)
                       /\ calling'[d].conn = calling[d].conn /\ calling'[d].index = calling[d].index
                       /\ calling'[d].at # "idle" <=> calling[d].at # "idle"
  BY <1>1, <1>3 DEF Conn!Asking
<1>5. Conn!UnderWay' \subseteq Conn!UnderWay \union {n}
  BY <1>1, <1>2 DEF Conn!UnderWay
<1>6. writing' \in [Conns -> SUBSET Conn!Messages] /\ \A q \in Conns : \A m \in writing'[q] : m.conn = q
  BY <1>1, <1>2 DEF n
<1>7. Conn!UnderWay' \subseteq Conn!Messages
  BY <1>2, <1>5
<1>8. \A d \in Calls : calling'[d].at # "idle" => calling'[d].conn \in Conns
  BY <1>4
<1>9. Conn!Forms'
  BY <1>1, <1>3, <1>6, <1>7, <1>8, FormsPartsNext
<1>10. Conn!Mapped'
  <2>1. ASSUME NEW q \in Conns, NEW i \in DOMAIN results[q]
        PROVE  /\ calling'[results[q][i]].at \in {"offer", "wait"} /\ calling'[results[q][i]].conn = q
               /\ calling'[results[q][i]].index = i /\ inbox'[results[q][i]] = {}
    <3>1. PICK d \in Calls : d = results[q][i]
      BY MapForm
    <3>2. Conn!Asking(d) /\ calling[d].conn = q /\ calling[d].index = i /\ inbox[d] = {}
      BY <3>1 DEF Conn!Mapped
    <3>3. calling'[d].at \in {"offer", "wait"}
      BY <1>4, <3>2 DEF Conn!Asking
    <3> QED
      BY <1>1, <1>4, <3>1, <3>2, <3>3
  <2> QED
    BY <1>1, <2>1, MappedNext
<1>11. Conn!NothingYet'
  BY <1>1, <1>4 DEF Conn!NothingYet
<1>12. Conn!Asking(c) /\ n.conn = k /\ n.index = calling[c].index /\ n.call = c
  BY <1>1 DEF Conn!Asking, n
<1>13. Conn!NewIndexes'
  <2>1. ASSUME NEW q \in Conns, counter[q] < mask PROVE \A d \in Calls : Conn!Asking(d)' /\ calling'[d].conn = q => calling'[d].index \in 1..counter[q]
    BY <1>4, <2>1 DEF Conn!NewIndexes
  <2>2. ASSUME NEW q \in Conns, counter[q] < mask, NEW m \in Conn!UnderWay', m.conn = q PROVE m.index \in 1..counter[q]
    <3>1. CASE m \in Conn!UnderWay
      BY <2>2, <3>1 DEF Conn!NewIndexes
    <3>2. CASE m = n
      BY <1>12, <2>2, <3>2 DEF Conn!NewIndexes
    <3> QED
      BY <1>5, <3>1, <3>2
  <2> QED
    BY <1>1, <2>1, <2>2 DEF Conn!NewIndexes
<1>14. Conn!OwnIndexes'
  <2> SUFFICES ASSUME ~lapped PROVE Conn!OwnIndexes'
    BY <1>1 DEF Conn!OwnIndexes
  <2>1. ASSUME NEW m \in Conn!UnderWay', m.index \in DOMAIN results[m.conn] PROVE results[m.conn][m.index] = m.call
    <3>1. CASE m \in Conn!UnderWay
      BY <2>1, <3>1 DEF Conn!OwnIndexes
    <3>2. CASE m = n
      BY <1>12, <2>1, <3>2 DEF Conn!OwnIndexes
    <3> QED
      BY <1>5, <3>1, <3>2
  <2>2. ASSUME NEW d \in Calls, Conn!Asking(d)', calling'[d].index \in DOMAIN results[calling'[d].conn]
        PROVE  results[calling'[d].conn][calling'[d].index] = d
    BY <1>4, <2>2 DEF Conn!OwnIndexes
  <2>3. \A d \in Calls : "other" \notin inbox[d]
    BY DEF Conn!OwnIndexes
  <2> QED
    BY <1>1, <2>1, <2>2, <2>3 DEF Conn!OwnIndexes
<1>15. Conn!OwnReply' /\ Conn!OneResult'
  BY <1>1 DEF Conn!OwnReply, Conn!OneResult
<1> QED
  BY <1>9, <1>10, <1>11, <1>13, <1>14, <1>15

(* What OneResult says: a call has the same result twice if it has two, ...*)
LEMMA OneMost ==
  ASSUME NEW S \in SUBSET {"own", "other", "error"}
  PROVE  Conn!Cardinality(S) <= 1 <=> \A x, y \in S : x = y
<1>1. IsFiniteSet({"own", "other", "error"})
  <2>1. IsFiniteSet({"own"} \union {"other"} \union {"error"})
    BY FS_Singleton, FS_Union
  <2> QED
    BY <2>1
<1>2. IsFiniteSet(S) /\ Cardinality(S) \in Nat
  BY <1>1, FS_Subset, FS_CardinalityType
<1>3. ASSUME Cardinality(S) <= 1, NEW x \in S, NEW y \in S, x # y PROVE FALSE
  <2>1. IsFiniteSet({x}) /\ Cardinality({x}) = 1
    BY FS_Singleton
  <2>2. Cardinality({x} \union {y}) = 2
    BY <1>3, <2>1, FS_AddElement
  <2>3. Cardinality({x} \union {y}) <= Cardinality(S)
    BY <1>2, FS_Subset
  <2> QED
    BY <1>2, <1>3, <2>2, <2>3
<1>4. ASSUME \A x, y \in S : x = y PROVE Cardinality(S) <= 1
  <2>1. CASE S = {}
    BY <2>1, FS_EmptySet
  <2>2. CASE S # {}
    <3>1. PICK x \in S : TRUE
      BY <2>2
    <3>2. S = {x}
      BY <1>4, <3>1
    <3> QED
      BY <3>2, FS_Singleton
  <2> QED
    BY <2>1, <2>2
<1> QED
  BY <1>3, <1>4, ConnCounts

(* ... and none once it has taken one, before a step ...                   *)
LEMMA ResultParts ==
  ASSUME Conn!Forms
  PROVE  Conn!OneResult <=>
           \A c \in Calls : /\ \A x, y \in inbox[c] : x = y
                            /\ answered[c] \in {"own", "other", "error"} => inbox[c] = {}
<1>1. \A c \in Calls : inbox[c] \in SUBSET {"own", "other", "error"}
  BY FormsParts
<1> QED
  BY <1>1, OneMost, Zenon DEF Conn!OneResult

(* ... and after it.                                                       *)
LEMMA ResultPartsNext ==
  ASSUME Conn!Forms'
  PROVE  Conn!OneResult' <=>
           \A c \in Calls : /\ \A x, y \in inbox'[c] : x = y
                            /\ answered'[c] \in {"own", "other", "error"} => inbox'[c] = {}
<1>1. \A c \in Calls : inbox'[c] \in SUBSET {"own", "other", "error"}
  BY FormsPartsNext
<1> QED
  BY <1>1, OneMost, Zenon DEF Conn!OneResult

(* A step leaves a call as it is, ends it, or puts a result in its channel.*)
Stays(d) == calling'[d] = calling[d] /\ answered'[d] = answered[d]
Same(d) == Stays(d) /\ inbox'[d] = inbox[d]
Ends(d) ==
  /\ calling'[d].at = "idle" /\ answered'[d] # "none" /\ inbox'[d] \subseteq inbox[d]
  /\ answered'[d] = "other" => "other" \in inbox[d]
  /\ answered'[d] \in {"own", "other", "error"} => inbox'[d] = {}
Gets(d) ==
  /\ Stays(d) /\ Conn!Asking(d)
  /\ \E x : inbox'[d] = {x} /\ (x = "other" => lapped)

(* As long as the entries that stay are those of calls that stay the same, *)
(* results keep going where they belong.                                   *)
LEMMA Settled ==
  ASSUME Conn!RepliesInv, Conn!Forms', UNCHANGED <<mask, counter, lapped>>,
         Conn!UnderWay' \subseteq Conn!UnderWay,
         \A q \in Conns : \A j \in DOMAIN results'[q] :
           j \in DOMAIN results[q] /\ results'[q][j] = results[q][j] /\ Same(results[q][j]),
         \A d \in Calls : Same(d) \/ Ends(d) \/ Gets(d)
  PROVE  Conn!RepliesInv'
<1>1. Conn!Mapped'
  <2>1. ASSUME NEW q \in Conns, NEW j \in DOMAIN results'[q]
        PROVE  /\ calling'[results'[q][j]].at \in {"offer", "wait"} /\ calling'[results'[q][j]].conn = q
               /\ calling'[results'[q][j]].index = j /\ inbox'[results'[q][j]] = {}
    <3>1. PICK d : d = results[q][j] /\ results'[q][j] = d /\ Same(d) /\ j \in DOMAIN results[q]
      BY <2>1
    <3>2. Conn!Asking(d) /\ calling[d].conn = q /\ calling[d].index = j /\ inbox[d] = {}
      BY <3>1, SMTT(20) DEF Conn!RepliesInv, Conn!Mapped
    <3> QED
      BY <3>1, <3>2 DEF Same, Stays, Conn!Asking
  <2> QED
    BY <2>1, MappedNext
<1>2. Conn!NothingYet'
  BY DEF Conn!RepliesInv, Conn!NothingYet, Same, Ends, Gets, Stays, Conn!Asking
<1>3. \A d \in Calls : calling'[d].at \in {"offer", "wait"} => calling'[d] = calling[d]
  BY DEF Same, Ends, Gets, Stays
<1>4. Conn!NewIndexes'
  BY <1>3 DEF Conn!RepliesInv, Conn!NewIndexes, Conn!Asking
<1>5. Conn!OwnIndexes'
  <2> SUFFICES ASSUME ~lapped PROVE Conn!OwnIndexes'
    BY DEF Conn!OwnIndexes
  <2>1. ASSUME NEW m \in Conn!UnderWay', m.index \in DOMAIN results'[m.conn]
        PROVE  results'[m.conn][m.index] = m.call
    <3>1. m \in Conn!UnderWay /\ m.conn \in Conns
      BY FormsParts DEF Conn!Messages, Conn!RepliesInv
    <3>2. m.index \in DOMAIN results[m.conn] /\ results'[m.conn][m.index] = results[m.conn][m.index]
      BY <2>1, <3>1
    <3> QED
      BY <3>1, <3>2 DEF Conn!RepliesInv, Conn!OwnIndexes
  <2>2. ASSUME NEW d \in Calls, calling'[d].at \in {"offer", "wait"},
               calling'[d].index \in DOMAIN results'[calling'[d].conn]
        PROVE  results'[calling'[d].conn][calling'[d].index] = d
    <3>1. calling'[d] = calling[d] /\ Conn!Asking(d)
      BY <1>3, <2>2 DEF Conn!Asking
    <3>2. calling[d].conn \in Conns
      BY <3>1, FormsParts DEF Conn!RepliesInv, Conn!Asking
    <3>3. /\ calling[d].index \in DOMAIN results[calling[d].conn]
          /\ results'[calling[d].conn][calling[d].index] = results[calling[d].conn][calling[d].index]
      BY <2>2, <3>1, <3>2
    <3> QED
      BY <3>1, <3>3 DEF Conn!RepliesInv, Conn!OwnIndexes
  <2>3. ASSUME NEW d \in Calls PROVE "other" \notin inbox'[d]
    <3>1. "other" \notin inbox[d]
      BY DEF Conn!RepliesInv, Conn!OwnIndexes
    <3> QED
      BY <3>1 DEF Same, Ends, Gets
  <2> QED
    BY <2>1, <2>2, <2>3 DEF Conn!OwnIndexes, Conn!Asking
<1>6. Conn!OwnReply'
  BY DEF Conn!RepliesInv, Conn!OwnReply, Conn!OwnIndexes, Same, Ends, Gets, Stays
<1>7. Conn!OneResult'
  <2>1. ASSUME NEW d \in Calls
        PROVE  /\ \A x, y \in inbox'[d] : x = y
               /\ answered'[d] \in {"own", "other", "error"} => inbox'[d] = {}
    <3>1. /\ \A x, y \in inbox[d] : x = y
          /\ answered[d] \in {"own", "other", "error"} => inbox[d] = {}
      BY ResultParts DEF Conn!RepliesInv
    <3>2. CASE Same(d) \/ Ends(d)
      BY <3>1, <3>2 DEF Same, Ends, Stays
    <3>3. CASE Gets(d)
      <4>1. answered'[d] = "none"
        BY <3>3 DEF Gets, Stays, Conn!Asking, Conn!RepliesInv, Conn!NothingYet
      <4> QED
        BY <3>3, <4>1 DEF Gets
    <3> QED
      BY <3>2, <3>3
  <2> QED
    BY <2>1, ResultPartsNext
<1> QED
  BY <1>1, <1>2, <1>4, <1>5, <1>6, <1>7 DEF Conn!RepliesInv

(* A call takes the result out of its channel, or gives up and takes its   *)
(* entry out of the map, ...                                               *)
LEMMA AnswerStep ==
  ASSUME Conn!RepliesInv, NEW c \in Calls, Conn!GetResult(c) \/ Conn!TimeOut(c)
  PROVE  Conn!RepliesInv'
<1> USE FormsParts DEF Conn!RepliesInv
<1>1. /\ calling[c].at \in {"offer", "wait"} /\ calling' = [calling EXCEPT ![c].at = "idle"]
      /\ UNCHANGED <<mask, current, open, done, counter, requests, writing, asks, replies, lapped>>
  BY DEF Conn!GetResult, Conn!TimeOut, Conn!Answer
<1>2. PICK k \in Conns, i \in Nat : k = calling[c].conn /\ i = calling[c].index
  <2>1. calling[c] \in CallForms
    OBVIOUS
  <2> QED
    BY <1>1, <2>1 DEF CallForms
<1>3. PICK g \in Maps : g = results[k]
  BY <1>2
<1>4. /\ calling'[c].at = "idle" /\ \A d \in Calls \ {c} : calling'[d] = calling[d]
      /\ calling' \in [Calls -> CallForms]
  <2>1. calling[c] \in CallForms
    OBVIOUS
  <2> QED
    BY <1>1, <2>1 DEF CallForms
<1>5. Conn!UnderWay' = Conn!UnderWay
  BY <1>1 DEF Conn!UnderWay
<1>6. /\ inbox' \in [Calls -> SUBSET {"own", "other", "error"}]
      /\ answered' \in [Calls -> {"none", "own", "other", "error", "timeout"}]
      /\ \A d \in Calls \ {c} : inbox'[d] = inbox[d] /\ answered'[d] = answered[d]
      /\ Ends(c)
  <2>1. CASE Conn!GetResult(c)
    <3>1. PICK r \in inbox[c] : answered' = [answered EXCEPT ![c] = r] /\ inbox' = [inbox EXCEPT ![c] = @ \ {r}]
      BY <2>1 DEF Conn!GetResult, Conn!Answer
    <3>2. inbox[c] = {r} /\ r \in {"own", "other", "error"}
      BY <3>1, ResultParts
    <3> QED
      BY <1>4, <3>1, <3>2 DEF Ends
  <2>2. CASE Conn!TimeOut(c)
    <3>1. answered' = [answered EXCEPT ![c] = "timeout"] /\ inbox' = inbox
      BY <2>2 DEF Conn!TimeOut, Conn!Answer
    <3> QED
      BY <1>4, <3>1 DEF Ends
  <2> QED
    BY <2>1, <2>2
<1>7. /\ results' \in [Conns -> Maps]
      /\ \A q \in Conns : \A j \in DOMAIN results'[q] :
           /\ j \in DOMAIN results[q] /\ results'[q][j] = results[q][j]
           /\ results[q][j] \in Calls \ {c}
  <2>1. CASE Conn!GetResult(c)
    <3>1. results' = results /\ inbox[c] # {}
      BY <2>1 DEF Conn!GetResult
    <3>2. ASSUME NEW q \in Conns, NEW j \in DOMAIN results[q] PROVE results[q][j] \in Calls \ {c}
      <4>1. PICK d \in Calls : d = results[q][j]
        BY MapForm
      <4>2. inbox[d] = {}
        BY <4>1 DEF Conn!Mapped
      <4> QED
        BY <3>1, <4>1, <4>2
    <3> QED
      BY <3>1, <3>2
  <2>2. CASE Conn!TimeOut(c)
    <3>1. PICK f \in Maps : f = Removed(g, i) /\ LessBy(f, g, i)
      BY <1>3, RemovedForm, Zenon
    <3>2. results' = [results EXCEPT ![k] = f]
      BY <1>2, <1>3, <2>2, <3>1 DEF Conn!TimeOut, Conn!Without, Removed
    <3>3. /\ results' \in [Conns -> Maps] /\ results'[k] = f
          /\ \A q \in Conns \ {k} : results'[q] = results[q]
      BY <3>2
    <3>4. ASSUME NEW q \in Conns, NEW j \in DOMAIN results'[q]
          PROVE  /\ j \in DOMAIN results[q] /\ results'[q][j] = results[q][j]
                 /\ ~(q = k /\ j = i)
      <4>1. CASE q = k
        BY <1>3, <3>1, <3>3, <3>4, <4>1 DEF LessBy
      <4>2. CASE q # k
        BY <3>3, <4>2
      <4> QED
        BY <4>1, <4>2
    <3>5. ASSUME NEW q \in Conns, NEW j \in DOMAIN results'[q] PROVE results[q][j] \in Calls \ {c}
      <4>1. PICK d \in Calls : d = results[q][j]
        BY <3>4, <3>5, MapForm
      <4>2. calling[d].conn = q /\ calling[d].index = j
        BY <3>4, <3>5, <4>1 DEF Conn!Mapped
      <4> QED
        BY <1>2, <3>4, <3>5, <4>1, <4>2
    <3> QED
      BY <3>3, <3>4, <3>5
  <2> QED
    BY <2>1, <2>2
<1>8. Conn!Forms'
  <2>1. \A d \in Calls : calling'[d].at # "idle" => calling'[d].conn \in Conns
    BY <1>4
  <2> QED
    BY <1>1, <1>4, <1>5, <1>6, <1>7, <2>1, FormsPartsNext
<1>9. \A d \in Calls \ {c} : Same(d)
  BY <1>4, <1>6 DEF Same, Stays
<1> QED
  BY <1>1, <1>5, <1>6, <1>7, <1>8, <1>9, Settled

(* ... and a reply or the end of the connection puts one into its channel, *)
(* which is empty, and takes its entry out.                                *)
LEMMA DeliverStep ==
  ASSUME Conn!RepliesInv, NEW k \in Conns, Conn!Receive(k) \/ Conn!RangeAndClean(k)
  PROVE  Conn!RepliesInv'
<1> USE FormsParts DEF Conn!RepliesInv
<1>1. /\ UNCHANGED <<mask, current, open, done, counter, requests, writing, calling, answered, asks, lapped>>
      /\ replies' \subseteq replies
  BY DEF Conn!Receive, Conn!RangeAndClean
<1>2. Conn!UnderWay' \subseteq Conn!UnderWay
  BY <1>1 DEF Conn!UnderWay
<1>3. Conn!UnderWay' \subseteq Conn!Messages
  BY <1>2
<1>4. CASE UNCHANGED <<inbox, results>>
  <2>1. Conn!Forms'
    BY <1>1, <1>3, <1>4, FormsPartsNext
  <2> QED
    BY <1>1, <1>2, <1>4, <2>1, MessagesMove
<1>5. ASSUME NEW m \in replies, m.conn = k, m.index \in DOMAIN results[k],
             inbox' = [inbox EXCEPT ![results[k][m.index]] =
                         @ \union {IF m.call = results[k][m.index] THEN "own" ELSE "other"}],
             results' = Conn!Without(k, m.index)
      PROVE  Conn!RepliesInv'
  <2>1. PICK g \in Maps, i \in Nat : g = results[k] /\ i = m.index
    <3>1. m \in Conn!Messages
      BY DEF Conn!UnderWay
    <3> QED
      BY <3>1 DEF Conn!Messages
  <2>2. PICK c \in Calls : c = results[k][i]
    BY <1>5, <2>1, MapForm
  <2>3. Conn!Asking(c) /\ calling[c].conn = k /\ calling[c].index = i /\ inbox[c] = {}
    BY <1>5, <2>1, <2>2 DEF Conn!Mapped
  <2>4. PICK f \in Maps : f = Removed(g, i) /\ LessBy(f, g, i)
    BY <2>1, RemovedForm, Zenon
  <2>5. results' = [results EXCEPT ![k] = f]
    BY <1>5, <2>1, <2>4 DEF Conn!Without, Removed
  <2>6. /\ results' \in [Conns -> Maps] /\ results'[k] = f
        /\ \A q \in Conns \ {k} : results'[q] = results[q]
    BY <2>5
  <2>7. PICK x \in {"own", "other"} : inbox' = [inbox EXCEPT ![c] = @ \union {x}] /\ (x = "other" => m.call # c)
    BY <1>5, <2>1, <2>2
  <2>8. /\ inbox' \in [Calls -> SUBSET {"own", "other", "error"}] /\ inbox'[c] = {x}
        /\ \A d \in Calls \ {c} : inbox'[d] = inbox[d]
    BY <2>3, <2>7
  <2>9. x = "other" => lapped
    <3>1. m \in Conn!UnderWay
      BY DEF Conn!UnderWay
    <3>2. ~lapped => c = m.call
      BY <1>5, <2>1, <2>2, <3>1 DEF Conn!OwnIndexes
    <3> QED
      BY <2>7, <3>2
  <2>10. Gets(c)
    BY <1>1, <2>3, <2>8, <2>9 DEF Gets, Stays
  <2>11. \A d \in Calls \ {c} : Same(d)
    BY <1>1, <2>8 DEF Same, Stays
  <2>12. ASSUME NEW q \in Conns, NEW j \in DOMAIN results'[q]
         PROVE  /\ j \in DOMAIN results[q] /\ results'[q][j] = results[q][j]
                /\ ~(q = k /\ j = i)
    <3>1. CASE q = k
      BY <2>1, <2>4, <2>6, <2>12, <3>1 DEF LessBy
    <3>2. CASE q # k
      BY <2>6, <3>2
    <3> QED
      BY <3>1, <3>2
  <2>13. ASSUME NEW q \in Conns, NEW j \in DOMAIN results'[q] PROVE results[q][j] \in Calls \ {c}
    <3>1. PICK d \in Calls : d = results[q][j]
      BY <2>12, <2>13, MapForm
    <3>2. calling[d].conn = q /\ calling[d].index = j
      BY <2>12, <2>13, <3>1 DEF Conn!Mapped
    <3> QED
      BY <2>3, <2>12, <2>13, <3>1, <3>2
  <2>14. Conn!Forms'
    BY <1>1, <1>3, <2>6, <2>8, FormsPartsNext
  <2> QED
    BY <1>1, <1>2, <2>10, <2>11, <2>12, <2>13, <2>14, Settled
<1>6. ASSUME Conn!Sweep(k) PROVE Conn!RepliesInv'
  <2>1. Conn!Nobody \in Maps /\ DOMAIN Conn!Nobody = {}
    <3>1. Conn!Nobody \in [{} -> Calls] /\ {} \in SUBSET Nat
      BY DEF Conn!Nobody
    <3> QED
      BY <3>1 DEF Maps
  <2>2. /\ results' \in [Conns -> Maps] /\ DOMAIN results'[k] = {}
        /\ \A q \in Conns \ {k} : results'[q] = results[q]
    BY <1>6, <2>1 DEF Conn!Sweep
  <2>3. PICK left : left = {results[k][i] : i \in DOMAIN results[k]}
    OBVIOUS
  <2>4. inbox' = [c \in Calls |-> IF c \in left THEN inbox[c] \union {"error"} ELSE inbox[c]]
    BY <1>6, <2>3 DEF Conn!Sweep
  <2>5. ASSUME NEW c \in left PROVE Conn!Asking(c) /\ calling[c].conn = k /\ inbox[c] = {}
    BY <2>3, <2>5 DEF Conn!Mapped
  <2>6. inbox' \in [Calls -> SUBSET {"own", "other", "error"}]
    BY <2>4
  <2>7. ASSUME NEW d \in Calls PROVE IF d \in left THEN Gets(d) ELSE Same(d)
    <3>1. CASE d \in left
      <4>1. inbox'[d] = {"error"}
        BY <2>4, <2>5, <3>1
      <4> QED
        BY <1>1, <2>5, <3>1, <4>1 DEF Gets, Stays
    <3>2. CASE d \notin left
      BY <1>1, <2>4, <3>2 DEF Same, Stays
    <3> QED
      BY <3>1, <3>2
  <2>8. ASSUME NEW q \in Conns, NEW j \in DOMAIN results'[q]
        PROVE  j \in DOMAIN results[q] /\ results'[q][j] = results[q][j] /\ Same(results[q][j])
    <3>1. q # k /\ results'[q] = results[q] /\ j \in DOMAIN results[q]
      BY <2>2, <2>8
    <3>2. PICK d \in Calls : d = results[q][j]
      BY <3>1, MapForm
    <3>3. calling[d].conn = q
      BY <3>1, <3>2 DEF Conn!Mapped
    <3>4. d \notin left
      BY <2>5, <3>1, <3>3
    <3> QED
      BY <2>7, <3>1, <3>2, <3>4
  <2>9. Conn!Forms'
    BY <1>1, <1>3, <2>2, <2>6, FormsPartsNext
  <2> QED
    BY <1>1, <1>2, <2>7, <2>8, <2>9, Settled
<1> QED
  BY <1>4, <1>5, <1>6 DEF Conn!Receive, Conn!RangeAndClean

(* Every step of the transport keeps all of it.                            *)
LEMMA RepliesStep == Conn!RepliesInv /\ [Conn!Next]_Conn!mvars => Conn!RepliesInv'
<1> SUFFICES ASSUME Conn!RepliesInv, [Conn!Next]_Conn!mvars PROVE Conn!RepliesInv'
  OBVIOUS
<1>1. CASE UNCHANGED Conn!mvars
  BY <1>1 DEF Conn!mvars, Conn!RepliesInv, Conn!Forms, Conn!TypeOK, Conn!Mapped, Conn!NothingYet,
     Conn!NewIndexes, Conn!OwnIndexes, Conn!OwnReply, Conn!OneResult, Conn!UnderWay, Conn!Asking
<1>2. CASE Conn!Next
  BY <1>2, GetConnStep, StoreStep, OfferStep, AnswerStep, DeliverStep, MessageSteps
     DEF Conn!Next, Conn!Client, Conn!Sender, Conn!Closing
<1> QED
  BY <1>1, <1>2

(* Whatever becomes of its messages and its connection, a call gets one    *)
(* result at most, its own unless an index in use was given out again, and *)
(* leaves no entry behind in any map.                                      *)
THEOREM RepliesAreKept == Conn!Spec => []RepliesKept
<1>1. Conn!RepliesInv => RepliesKept
  <2> SUFFICES ASSUME Conn!RepliesInv PROVE RepliesKept
    OBVIOUS
  <2>1. ASSUME \A c \in Calls : calling[c].at = "idle", NEW k \in Conns PROVE results[k] = Conn!Nobody
    <3>1. results[k] \in Maps
      BY FormsParts DEF Conn!RepliesInv
    <3>2. ASSUME NEW i \in DOMAIN results[k] PROVE FALSE
      <4>1. PICK d \in Calls : d = results[k][i]
        BY <3>1, MapForm
      <4>2. Conn!Asking(d)
        BY <4>1 DEF Conn!RepliesInv, Conn!Mapped
      <4> QED
        BY <2>1, <4>2 DEF Conn!Asking
    <3>3. DOMAIN results[k] = {}
      BY <3>2
    <3> QED
      BY <3>1, <3>3 DEF Maps, Conn!Nobody
  <2> QED
    BY <2>1 DEF RepliesKept, Conn!RepliesInv, Conn!NothingLeft
<1> QED
  BY <1>1, RepliesInit, RepliesStep, PTL DEF Conn!Spec

-----------------------------------------------------------------------------
(* All of them together *)

(* What holds of each part.                                                *)
PartsInv ==
  /\ BreakerInv /\ Limiter!LimiterInv /\ Fork!ForkInv /\ Execution!ExecutionInv
  /\ Conn!RepliesInv /\ Server!HandlerInv /\ Mock!MockInv

(* Together the parts begin as each does.                                  *)
LEMMA PartsInit == MCInit => PartsInv
  BY BreakerInit, LimiterInit, ForkInit, ExecutionInit, RepliesInit, HandlerInit, MockInit DEF MCInit, PartsInv

(* A step of one is a step that stands still for each of the others.       *)
LEMMA StepOfParts ==
  [MCNext]_allvars =>
    /\ [Next]_bvars /\ [Limiter!Next]_Limiter!lvars /\ [Fork!Next]_Fork!fvars
    /\ [Execution!Next]_Execution!evars /\ [Conn!Next]_Conn!mvars
    /\ [Server!Next]_Server!hvars /\ [Mock!Next]_Mock!avars
<1>1. /\ UNCHANGED lvars => UNCHANGED Limiter!lvars
      /\ UNCHANGED fvars => UNCHANGED Fork!fvars
      /\ UNCHANGED evars => UNCHANGED Execution!evars
      /\ UNCHANGED mvars => UNCHANGED Conn!mvars
      /\ UNCHANGED hvars => UNCHANGED Server!hvars
      /\ UNCHANGED avars => UNCHANGED Mock!avars
  BY DEF lvars, fvars, evars, mvars, hvars, avars, Limiter!lvars, Fork!fvars, Execution!evars,
     Conn!mvars, Server!hvars, Mock!avars
<1>2. UNCHANGED allvars => UNCHANGED <<bvars, lvars, fvars, evars, mvars, hvars, avars>>
  BY DEF allvars
<1> QED
  BY <1>1, <1>2 DEF MCNext

(* Every step keeps what holds of the parts.                               *)
LEMMA PartsStep == PartsInv /\ [MCNext]_allvars => PartsInv'
  BY StepOfParts, BreakerStep, LimiterStep, ForkStep, ExecutionStep, RepliesStep, HandlerStep, MockStep DEF PartsInv

(* The type invariants of all the parts hold in every behaviour of them    *)
(* together, with the limits of the pool, the queues and the tokens, ...   *)
THEOREM EndpointsTyped == MCSpec => []Types
<1>1. PartsInv => Types
  BY DEF PartsInv, Types, BreakerInv, Limiter!LimiterInv, Fork!ForkInv, Execution!ExecutionInv,
     Conn!RepliesInv, Conn!Forms, Server!HandlerInv, Server!Shape, Mock!MockInv
<1> QED
  BY <1>1, PartsInit, PartsStep, PTL DEF MCSpec

(* ... and the servers answer each request once, an error last, keep the   *)
(* panic of a method to its request, and are quiet when they are closed.   *)
THEOREM ServersAnswerOnce == MCSpec => []ServersAnswer
<1>1. PartsInv => ServersAnswer
  BY DEF PartsInv, ServersAnswer, Execution!ExecutionInv, Server!HandlerInv, Mock!MockInv
<1> QED
  BY <1>1, PartsInit, PartsStep, PTL DEF MCSpec
=============================================================================

---------------------------- MODULE PluginProofs -----------------------------
(* Theorems about the parts of MCPlugins, for every value of their         *)
(* constants: the cluster makes a request as often as its retries allow,   *)
(* calls pass the plugins that are in use and are found by Abort, and the  *)
(* rate is kept.  A part begins with its invariant, which a lemma for each *)
(* action keeps; at the end the parts are put together, the balancers of   *)
(* BalanceProofs with them.                                                *)
EXTENDS BalanceProofs, SequenceTheorems

-----------------------------------------------------------------------------
(* Cluster *)

(* What Formed says, part by part.                                         *)
LEMMA FormedParts ==
  Formed <=>
    /\ index \in Nat /\ requests \in 0..MaxRequests /\ config \in Kinds
    /\ pc \in [Callers -> Places] /\ idempotent \in [Callers -> BOOLEAN] /\ shared \in [Callers -> BOOLEAN]
    /\ retried \in [Callers -> 0..Retry] /\ before \in [Callers -> 0..Retry] /\ tries \in [Callers -> Nat]
    /\ tried \in [Callers -> SUBSET (0..(Servers - 1))]
  BY DEF Formed, TypeOK, Places

(* The same after a step.                                                  *)
LEMMA FormedPartsNext ==
  Formed' <=>
    /\ index' \in Nat /\ requests' \in 0..MaxRequests /\ config' \in Kinds
    /\ pc' \in [Callers -> Places] /\ idempotent' \in [Callers -> BOOLEAN] /\ shared' \in [Callers -> BOOLEAN]
    /\ retried' \in [Callers -> 0..Retry] /\ before' \in [Callers -> 0..Retry] /\ tries' \in [Callers -> Nat]
    /\ tried' \in [Callers -> SUBSET (0..(Servers - 1))]
  BY DEF Formed, TypeOK, Places

(* At first nothing has been requested.                                    *)
LEMMA ClusterInit == Init => ClusterInv
<1> SUFFICES ASSUME Init PROVE ClusterInv
  OBVIOUS
<1> USE ClusterAssumption DEF Init
<1>1. Formed
  BY FormedParts DEF Kinds, Places
<1>2. IndexInRange
  <2>1. Resetting = {}
    BY DEF Resetting
  <2>2. Cardinality(Resetting) = 0
    BY <2>1, FS_EmptySet
  <2> QED
    BY <2>2 DEF IndexInRange
<1>3. Counted /\ TriesExact /\ Round /\ AllTried
  BY DEF Counted, TriesExact, Round, AllTried
<1> QED
  BY <1>1, <1>2, <1>3 DEF ClusterInv

(* A step of a caller, as far as it goes for the others.                   *)
Aside(c) ==
  /\ UNCHANGED <<config, idempotent>>
  /\ \A d \in Callers \ {c} : /\ pc'[d] = pc[d] /\ url'[d] = url[d] /\ retried'[d] = retried[d]
                              /\ before'[d] = before[d] /\ tries'[d] = tries[d] /\ tried'[d] = tried[d]

(* The steps keep the form of the state, ...                               *)
LEMMA FormedStep ==
  ASSUME Formed, url \in [Callers -> 0..(Servers - 1)], NEW c \in Callers, Request(c) \/ Step(c)
  PROVE  Formed' /\ url' \in [Callers -> 0..(Servers - 1)] /\ Aside(c)
<1> USE ClusterAssumption, FormedParts DEF Places, Goto, Aside
<1>1. CASE Request(c)
  <2>1. PICK kept \in {0, retried[c]} : retried' = [retried EXCEPT ![c] = kept]
    BY <1>1 DEF Request
  <2>2. /\ pc' = [pc EXCEPT ![c] = "calling"] /\ url' = [url EXCEPT ![c] = 0]
        /\ before' = [before EXCEPT ![c] = kept] /\ requests < MaxRequests /\ requests' = requests + 1
        /\ tries' = [tries EXCEPT ![c] = 1] /\ tried' = [tried EXCEPT ![c] = {0}]
        /\ shared' = [shared EXCEPT ![c] = FALSE]
        /\ UNCHANGED <<config, index, idempotent>>
    BY <1>1, <2>1 DEF Request
  <2>3. kept \in 0..Retry /\ 0 \in 0..(Servers - 1)
    BY <2>1
  <2>4. retried' \in [Callers -> 0..Retry] /\ before' \in [Callers -> 0..Retry] /\ requests' \in 0..MaxRequests
    BY <2>1, <2>2, <2>3
  <2>5. /\ pc' \in [Callers -> Places] /\ tries' \in [Callers -> Nat] /\ shared' \in [Callers -> BOOLEAN]
        /\ tried' \in [Callers -> SUBSET (0..(Servers - 1))] /\ url' \in [Callers -> 0..(Servers - 1)]
    BY <2>2, <2>3
  <2> QED
    BY <2>1, <2>2, <2>4, <2>5, FormedPartsNext
<1>2. CASE Answer(c) \/ Fail(c)
  <2>1. PICK to \in Places : pc' = [pc EXCEPT ![c] = to]
    BY <1>2 DEF Answer, Fail
  <2>2. UNCHANGED <<config, index, idempotent, url, retried, before, tries, tried, shared, requests>>
    BY <1>2 DEF Answer, Fail
  <2> QED
    BY <2>1, <2>2, FormedPartsNext
<1>3. CASE AddIndex(c) \/ StoreIndex(c)
  <2>1. PICK to \in Places : pc' = [pc EXCEPT ![c] = to]
    BY <1>3 DEF AddIndex, StoreIndex
  <2>2. /\ index' \in Nat /\ shared' = Others(c) /\ UNCHANGED <<config, idempotent, retried, before, tries, tried, requests>>
    BY <1>3 DEF AddIndex, StoreIndex
  <2>3. PICK u \in 0..(Servers - 1) : url' = [url EXCEPT ![c] = u]
    <3>1. CASE AddIndex(c)
      <4> DEFINE v == IF index + 1 < Servers THEN index + 1 ELSE 0
      <4>1. v \in 0..(Servers - 1)
        OBVIOUS
      <4>2. url' = [url EXCEPT ![c] = v]
        BY <3>1 DEF AddIndex
      <4> HIDE DEF v
      <4> QED
        BY <4>1, <4>2
    <3>2. CASE StoreIndex(c)
      <4>1. url' = [url EXCEPT ![c] = url[c]] /\ url[c] \in 0..(Servers - 1)
        BY <3>2 DEF StoreIndex
      <4> QED
        BY <4>1
    <3> QED
      BY <1>3, <3>1, <3>2
  <2>4. shared' \in [Callers -> BOOLEAN]
    BY <2>2 DEF Others
  <2> QED
    BY <2>1, <2>2, <2>3, <2>4, FormedPartsNext
<1>4. CASE RetryRequest(c)
  <2>1. /\ retried[c] < Retry /\ pc' = [pc EXCEPT ![c] = "calling"] /\ retried' = [retried EXCEPT ![c] = @ + 1]
        /\ tries' = [tries EXCEPT ![c] = @ + 1] /\ tried' = [tried EXCEPT ![c] = @ \union {url[c]}]
        /\ UNCHANGED <<config, index, idempotent, url, before, shared, requests>>
    BY <1>4 DEF RetryRequest, Again
  <2>2. retried' \in [Callers -> 0..Retry] /\ tries' \in [Callers -> Nat]
    BY <2>1
  <2>3. tried' \in [Callers -> SUBSET (0..(Servers - 1))]
    BY <2>1
  <2> QED
    BY <2>1, <2>2, <2>3, FormedPartsNext
<1> QED
  BY <1>1, <1>2, <1>3, <1>4 DEF Step

(* ... the shared index is out of range by as many as are about to set it  *)
(* back, ...                                                               *)
LEMMA IndexStep ==
  ASSUME Formed, IndexInRange, NEW c \in Callers, Request(c) \/ Step(c)
  PROVE  IndexInRange'
<1> USE ClusterAssumption, FormedParts DEF IndexInRange, Goto, Places
<1>1. url' \in [Callers -> 0..(Servers - 1)]
  BY FormedStep
<1>2. IsFiniteSet(Resetting) /\ Cardinality(Resetting) \in Nat
  <2>1. Resetting \in SUBSET Callers
    BY DEF Resetting
  <2> QED
    BY <2>1, FS_Subset, FS_CardinalityType
<1>3. CASE AddIndex(c)
  <2>1. /\ pc[c] = "add" /\ index' = index + 1
        /\ pc' = [pc EXCEPT ![c] = IF index + 1 < Servers THEN "decide" ELSE "store"]
    BY <1>3 DEF AddIndex
  <2>2. CASE index + 1 < Servers
    <3>1. Resetting' = Resetting
      BY <2>1, <2>2 DEF Resetting
    <3> QED
      BY <1>1, <1>2, <2>1, <2>2, <3>1
  <2>3. CASE ~(index + 1 < Servers)
    <3>1. Resetting' = Resetting \union {c} /\ c \notin Resetting
      BY <2>1, <2>3 DEF Resetting
    <3>2. Cardinality(Resetting') = Cardinality(Resetting) + 1
      BY <1>2, <3>1, FS_AddElement
    <3> QED
      BY <1>1, <1>2, <2>1, <3>2
  <2> QED
    BY <2>2, <2>3
<1>4. CASE StoreIndex(c)
  <2>1. Resetting' \in SUBSET Callers
    BY DEF Resetting
  <2>2. Cardinality(Resetting') \in Nat
    BY <2>1, FS_Subset, FS_CardinalityType
  <2>3. index' = 0
    BY <1>4 DEF StoreIndex
  <2> QED
    BY <1>1, <2>2, <2>3
<1>5. CASE Request(c) \/ Answer(c) \/ RetryRequest(c) \/ Fail(c)
  <2>1. PICK to \in Places : pc' = [pc EXCEPT ![c] = to] /\ to # "store" /\ pc[c] # "store" /\ index' = index
    BY <1>5 DEF Request, Answer, RetryRequest, Fail
  <2>2. Resetting' = Resetting
    BY <2>1 DEF Resetting
  <2> QED
    BY <1>1, <2>1, <2>2
<1> QED
  BY <1>3, <1>4, <1>5 DEF Step

(* What Counted and TriesExact say of one caller.                          *)
MayRetry(c) == config # "failfast" /\ idempotent[c]
CountedOf(c) ==
  /\ before[c] <= retried[c] /\ tries[c] = IF pc[c] = "idle" THEN 0 ELSE 1 + retried[c] - before[c]
  /\ pc[c] = "idle" => before[c] = 0
  /\ pc[c] # "idle" => 0 \in tried[c]
  /\ ~MayRetry(c) => retried[c] = before[c]
TriesOf(c) == pc[c] = "failed" /\ MayRetry(c) => retried[c] = Retry

(* Each caller has its count, and one that has failed has used it up.      *)
LEMMA CountParts ==
  ASSUME Formed
  PROVE  Counted /\ TriesExact <=> \A c \in Callers : CountedOf(c) /\ TriesOf(c)
<1> USE ClusterAssumption, FormedParts
<1>1. Counted <=> \A c \in Callers : CountedOf(c)
  BY DEF Counted, CountedOf, MayRetry, Kinds
<1>2. ASSUME Counted PROVE TriesExact <=> \A c \in Callers : TriesOf(c)
  <2>1. ASSUME NEW c \in Callers
        PROVE  /\ tries[c] <= IF MayRetry(c) THEN 1 + Retry - before[c] ELSE 1
               /\ (pc[c] = "failed" => tries[c] = IF MayRetry(c) THEN 1 + Retry - before[c] ELSE 1) <=> TriesOf(c)
    <3>1. CountedOf(c)
      BY <1>1, <1>2
    <3>2. retried[c] \in 0..Retry /\ before[c] \in 0..Retry
      OBVIOUS
    <3> QED
      BY <3>1, <3>2 DEF CountedOf, TriesOf
  <2> QED
    BY <2>1 DEF TriesExact, MayRetry
<1> QED
  BY <1>1, <1>2

(* The same after a step.                                                  *)
LEMMA CountPartsNext ==
  ASSUME Formed'
  PROVE  (\A c \in Callers : CountedOf(c)' /\ TriesOf(c)') => Counted' /\ TriesExact'
<1> USE ClusterAssumption, FormedPartsNext
<1> SUFFICES ASSUME \A c \in Callers : CountedOf(c)' /\ TriesOf(c)' PROVE Counted' /\ TriesExact'
  OBVIOUS
<1>1. Counted'
  BY DEF Counted, CountedOf, MayRetry, Kinds
<1>2. ASSUME NEW c \in Callers
      PROVE  /\ tries'[c] <= IF MayRetry(c)' THEN 1 + Retry - before'[c] ELSE 1
             /\ pc'[c] = "failed" => tries'[c] = IF MayRetry(c)' THEN 1 + Retry - before'[c] ELSE 1
  <2>1. retried'[c] \in 0..Retry /\ before'[c] \in 0..Retry
    OBVIOUS
  <2> QED
    BY <2>1 DEF CountedOf, TriesOf
<1> QED
  BY <1>1, <1>2 DEF TriesExact, MayRetry

(* ... a retry is counted, and only one that may be is made, ...           *)
LEMMA CountStep ==
  ASSUME Formed, Formed', NEW c \in Callers, Aside(c), Request(c) \/ Step(c),
         \A d \in Callers : CountedOf(d) /\ TriesOf(d)
  PROVE  \A d \in Callers : CountedOf(d)' /\ TriesOf(d)'
<1> USE ClusterAssumption, FormedParts DEF Goto
<1>1. ASSUME NEW d \in Callers, d # c PROVE CountedOf(d)' /\ TriesOf(d)'
  BY <1>1 DEF Aside, CountedOf, TriesOf, MayRetry
<1>2. CountedOf(c) /\ TriesOf(c) /\ (MayRetry(c)' <=> MayRetry(c))
  BY DEF Aside, MayRetry
<1>3. CASE Request(c)
  <2>1. PICK kept \in {0, retried[c]} : retried' = [retried EXCEPT ![c] = kept]
    BY <1>3 DEF Request
  <2>2. pc'[c] = "calling" /\ before'[c] = kept /\ tries'[c] = 1 /\ tried'[c] = {0} /\ retried'[c] = kept
    BY <1>3, <2>1 DEF Request, Places
  <2> QED
    BY <1>1, <2>1, <2>2 DEF CountedOf, TriesOf
<1>4. CASE Answer(c) \/ AddIndex(c) \/ StoreIndex(c)
  <2>1. /\ pc[c] # "idle" /\ pc'[c] \notin {"idle", "failed"}
        /\ UNCHANGED <<retried, before, tries, tried>>
    BY <1>4 DEF Answer, AddIndex, StoreIndex, Places
  <2> QED
    BY <1>1, <1>2, <2>1 DEF CountedOf, TriesOf
<1>5. CASE RetryRequest(c)
  <2>1. /\ MayRetry(c) /\ pc[c] # "idle" /\ pc'[c] = "calling" /\ retried'[c] = retried[c] + 1
        /\ tries'[c] = tries[c] + 1 /\ tried'[c] = tried[c] \union {url[c]} /\ before'[c] = before[c]
    BY <1>5 DEF RetryRequest, Again, MayRetry, Places
  <2> QED
    BY <1>1, <1>2, <2>1 DEF CountedOf, TriesOf
<1>6. CASE Fail(c)
  <2>1. /\ pc[c] # "idle" /\ pc'[c] = "failed" /\ UNCHANGED <<retried, before, tries, tried>>
        /\ MayRetry(c) => ~(retried[c] < Retry)
    BY <1>6 DEF Fail, Again, MayRetry, Places
  <2>2. MayRetry(c) => retried[c] = Retry
    BY <2>1
  <2> QED
    BY <1>1, <1>2, <2>1, <2>2 DEF CountedOf, TriesOf
<1> QED
  BY <1>3, <1>4, <1>5, <1>6 DEF Step

(* What Round and AllTried say of one caller.                              *)
RoundOf(c) ==
  config = "failover" /\ Servers > 1 /\ ~shared[c] =>
    /\ pc[c] \in {"calling", "add"} => Behind(c, index, 0) /\ (tries[c] > 1 => index < Servers)
    /\ pc[c] = "store" => Behind(c, 0, 1) /\ url[c] = 0
    /\ pc[c] = "decide" => Behind(c, index, 1) /\ url[c] = index
TriedOf(c) ==
  config = "failover" /\ pc[c] = "failed" /\ ~shared[c] /\ tries[c] > Servers
    => tried[c] = 0..(Servers - 1)

(* Who has gone all the way round has tried them all.                      *)
LEMMA AllRound ==
  ASSUME NEW S \in Nat, S > 1, NEW at \in 0..(S - 1), NEW t \in Nat, t > S, NEW T \in SUBSET (0..(S - 1)),
         \A j \in 1..(t - 1), k \in 0..(S - 1) : k = at - j \/ k = at - j + S => k \in T
  PROVE  T = 0..(S - 1)
<1>1. ASSUME NEW k \in 0..(S - 1) PROVE k \in T
  <2>1. CASE k < at
    <3>1. at - k \in 1..(t - 1) /\ k = at - (at - k)
      BY <2>1
    <3> QED
      BY <3>1
  <2>2. CASE ~(k < at)
    <3>1. at - k + S \in 1..(t - 1) /\ k = at - (at - k + S) + S
      BY <2>2
    <3> QED
      BY <3>1
  <2> QED
    BY <2>1, <2>2
<1> QED
  BY <1>1

(* ... and a round that nobody disturbs goes on where it was, and ends     *)
(* with every server tried.                                                *)
LEMMA RoundStep ==
  ASSUME Formed, Formed', url \in [Callers -> 0..(Servers - 1)], NEW c \in Callers, Aside(c), Request(c) \/ Step(c),
         \A d \in Callers : CountedOf(d) /\ RoundOf(d) /\ TriedOf(d)
  PROVE  \A d \in Callers : RoundOf(d)' /\ TriedOf(d)'
<1> USE ClusterAssumption, FormedParts DEF Goto
<1>1. ASSUME NEW d \in Callers, d # c PROVE RoundOf(d)' /\ TriedOf(d)'
  <2>1. CASE AddIndex(c) \/ StoreIndex(c)
    <3>1. shared'[d] = TRUE
      BY <1>1, <2>1 DEF AddIndex, StoreIndex, Others
    <3> QED
      BY <3>1 DEF RoundOf, TriedOf
  <2>2. CASE Request(c) \/ Answer(c) \/ RetryRequest(c) \/ Fail(c)
    <3>1. index' = index /\ shared'[d] = shared[d]
      BY <1>1, <2>2 DEF Request, Answer, RetryRequest, Fail
    <3> QED
      BY <1>1, <3>1 DEF Aside, RoundOf, TriedOf, Behind
  <2> QED
    BY <2>1, <2>2 DEF Step
<1>2. RoundOf(c) /\ CountedOf(c) /\ index \in Nat /\ tries[c] \in Nat /\ url[c] \in 0..(Servers - 1)
  OBVIOUS
<1>3. CASE Request(c)
  <2>1. PICK kept \in {0, retried[c]} : retried' = [retried EXCEPT ![c] = kept]
    BY <1>3 DEF Request
  <2>2. pc'[c] = "calling" /\ tries'[c] = 1
    BY <1>3 DEF Request, Places
  <2>3. Behind(c, index, 0)'
    BY <2>2 DEF Behind
  <2> QED
    BY <1>1, <2>2, <2>3 DEF RoundOf, TriedOf
<1>4. CASE Answer(c)
  <2>1. /\ pc[c] = "calling" /\ UNCHANGED <<config, index, url, tries, tried, shared>>
        /\ \/ pc'[c] = "answered"
           \/ pc'[c] = IF config = "failover" /\ Servers > 1 THEN "add" ELSE "decide"
    BY <1>4 DEF Answer, Places
  <2>2. Behind(c, index, 0)' <=> Behind(c, index, 0)
    BY <2>1 DEF Behind
  <2> QED
    BY <1>1, <1>2, <2>1, <2>2 DEF RoundOf, TriedOf
<1>5. CASE AddIndex(c)
  <2>1. /\ pc[c] = "add" /\ index' = index + 1 /\ UNCHANGED <<config, tries, tried>> /\ shared'[c] = shared[c]
        /\ pc'[c] = IF index + 1 < Servers THEN "decide" ELSE "store"
        /\ url'[c] = IF index + 1 < Servers THEN index + 1 ELSE 0
    BY <1>5 DEF AddIndex, Others, Places
  <2>2. SUFFICES ASSUME config = "failover", Servers > 1, ~shared[c]
        PROVE  /\ pc'[c] = "store" => Behind(c, 0, 1)'
               /\ pc'[c] = "decide" => Behind(c, index, 1)'
    BY <1>1, <2>1 DEF RoundOf, TriedOf
  <2>3. Behind(c, index, 0) /\ (tries[c] > 1 => index < Servers)
    BY <1>2, <2>1, <2>2 DEF RoundOf
  <2>4. CASE index + 1 < Servers
    <3>1. ASSUME NEW j \in 1..(tries[c] - 1), NEW k \in 0..(Servers - 1), k = index + 1 - j \/ k = index + 1 - j + Servers
          PROVE  k \in tried[c]
      <4>1. j - 1 \in 0..(tries[c] - 2) /\ (k = index - (j - 1) \/ k = index - (j - 1) + Servers)
        BY <1>2, <3>1
      <4> QED
        BY <2>3, <4>1 DEF Behind
    <3> QED
      BY <1>2, <2>1, <2>4, <3>1 DEF Behind
  <2>5. CASE ~(index + 1 < Servers)
    <3>1. ASSUME NEW j \in 1..(tries[c] - 1), NEW k \in 0..(Servers - 1), k = 0 - j \/ k = 0 - j + Servers
          PROVE  k \in tried[c]
      <4>1. tries[c] > 1
        BY <1>2, <3>1
      <4>2. index = Servers - 1
        BY <1>2, <2>3, <2>5, <4>1
      <4>3. j - 1 \in 0..(tries[c] - 2) /\ k = index - (j - 1)
        BY <1>2, <3>1, <4>2
      <4> QED
        BY <2>3, <4>3 DEF Behind
    <3> QED
      BY <1>2, <2>1, <2>5, <3>1 DEF Behind
  <2> QED
    BY <2>4, <2>5
<1>6. CASE StoreIndex(c)
  <2>1. /\ pc[c] = "store" /\ index' = 0 /\ UNCHANGED <<config, url, tries, tried>> /\ shared'[c] = shared[c]
        /\ pc'[c] = "decide"
    BY <1>6 DEF StoreIndex, Others, Places
  <2>2. Behind(c, index, 1)' <=> Behind(c, 0, 1)
    BY <2>1 DEF Behind
  <2> QED
    BY <1>1, <1>2, <2>1, <2>2 DEF RoundOf, TriedOf
<1>7. CASE RetryRequest(c)
  <2>1. /\ pc[c] = "decide" /\ pc'[c] = "calling" /\ UNCHANGED <<config, index, url, shared>>
        /\ tries'[c] = tries[c] + 1 /\ tried'[c] = tried[c] \union {url[c]}
    BY <1>7 DEF RetryRequest, Places
  <2>2. SUFFICES ASSUME config = "failover", Servers > 1, ~shared[c]
        PROVE  Behind(c, index, 0)' /\ index < Servers
    BY <1>1, <2>1 DEF RoundOf, TriedOf
  <2>3. Behind(c, index, 1) /\ url[c] = index
    BY <1>2, <2>1, <2>2 DEF RoundOf
  <2>4. ASSUME NEW j \in 0..(tries[c] - 1), NEW k \in 0..(Servers - 1), k = index - j \/ k = index - j + Servers
        PROVE  k \in tried[c] \union {url[c]}
    <3>1. CASE j = 0
      BY <1>2, <2>3, <2>4, <3>1
    <3>2. CASE j # 0
      <4>1. j \in 1..(tries[c] - 2 + 1)
        BY <1>2, <2>4, <3>2
      <4> QED
        BY <2>3, <2>4, <4>1 DEF Behind
    <3> QED
      BY <3>1, <3>2
  <2> QED
    BY <1>2, <2>1, <2>3, <2>4 DEF Behind
<1>8. CASE Fail(c)
  <2>1. /\ pc[c] = "decide" /\ pc'[c] = "failed" /\ UNCHANGED <<config, index, url, tries, tried, shared>>
    BY <1>8 DEF Fail, Places
  <2>2. SUFFICES ASSUME config = "failover", ~shared[c], tries[c] > Servers
        PROVE  tried[c] = 0..(Servers - 1)
    BY <1>1, <2>1 DEF RoundOf, TriedOf
  <2>3. CASE Servers > 1
    <3>1. Behind(c, index, 1) /\ url[c] = index
      BY <1>2, <2>1, <2>2, <2>3 DEF RoundOf
    <3>2. \A j \in 1..(tries[c] - 1), k \in 0..(Servers - 1) :
            k = index - j \/ k = index - j + Servers => k \in tried[c]
      BY <1>2, <3>1 DEF Behind
    <3>3. index \in 0..(Servers - 1) /\ tried[c] \in SUBSET (0..(Servers - 1))
      BY <1>2, <3>1
    <3> QED
      BY <1>2, <2>2, <2>3, <3>2, <3>3, AllRound
  <2>4. CASE ~(Servers > 1)
    <3>1. 0..(Servers - 1) = {0} /\ tried[c] \in SUBSET (0..(Servers - 1)) /\ 0 \in tried[c]
      BY <1>2, <2>1, <2>4 DEF CountedOf
    <3> QED
      BY <3>1
  <2> QED
    BY <2>3, <2>4
<1> QED
  BY <1>3, <1>4, <1>5, <1>6, <1>7, <1>8 DEF Step

(* Every step of the cluster keeps all of it.                              *)
LEMMA ClusterStep == ClusterInv /\ [Next]_cvars => ClusterInv'
<1> SUFFICES ASSUME ClusterInv, [Next]_cvars PROVE ClusterInv'
  OBVIOUS
<1>1. CASE UNCHANGED cvars
  BY <1>1 DEF cvars, ClusterInv, Formed, TypeOK, IndexInRange, Resetting, Counted, TriesExact, Round, Behind, AllTried
<1>2. ASSUME NEW c \in Callers, Request(c) \/ Step(c) PROVE ClusterInv'
  <2>1. url \in [Callers -> 0..(Servers - 1)]
    BY DEF ClusterInv, IndexInRange
  <2>2. Formed' /\ Aside(c)
    BY <1>2, <2>1, FormedStep DEF ClusterInv
  <2>3. IndexInRange'
    BY <1>2, IndexStep DEF ClusterInv
  <2>4. \A d \in Callers : CountedOf(d) /\ TriesOf(d) /\ RoundOf(d) /\ TriedOf(d)
    BY CountParts DEF ClusterInv, Round, RoundOf, AllTried, TriedOf
  <2>5. Counted' /\ TriesExact'
    BY <1>2, <2>2, <2>4, CountStep, CountPartsNext DEF ClusterInv
  <2>6. \A d \in Callers : RoundOf(d)' /\ TriedOf(d)'
    BY <1>2, <2>1, <2>2, <2>4, RoundStep DEF ClusterInv
  <2>7. Round' /\ AllTried'
    BY <2>6 DEF Round, RoundOf, AllTried, TriedOf
  <2> QED
    BY <2>2, <2>3, <2>5, <2>7 DEF ClusterInv
<1> QED
  BY <1>1, <1>2 DEF Next

(* The shared index names a server whenever it is used, a request is made  *)
(* as often as its retries allow and given up no earlier, and a failover   *)
(* that no other disturbs has then tried every server, with any number of  *)
(* callers, servers and retries.                                           *)
THEOREM ClusterRetries == Spec => []RetriesExact
<1>1. ClusterInv => RetriesExact
  BY DEF ClusterInv, RetriesExact
<1> QED
  BY <1>1, ClusterInit, ClusterStep, PTL DEF Spec

-----------------------------------------------------------------------------
(* ClientCore: the lists.  Counting is counting, in an instance too.       *)
LEMMA CoreCounts == \A S : Core!Cardinality(S) = Cardinality(S)
  BY DEF Core!Cardinality, Cardinality

(* What Without leaves is a sequence of the members that are not taken     *)
(* out, each of which it finds at the place that it counts for it.         *)
LEMMA WithoutMembers ==
  ASSUME NEW D, NEW s \in Seq(D), NEW S
  PROVE  /\ Core!Without(s, S) \in Seq(D)
         /\ Core!ToSet(Core!Without(s, S)) = Core!ToSet(s) \ S
<1> DEFINE kept     == {i \in DOMAIN s : s[i] \notin S}
           Place(i) == Core!Cardinality(kept \cap (1..i))
           n        == Core!Cardinality(kept)
           at(k)    == CHOOSE i \in kept : Place(i) = k
           w        == [k \in 1..n |-> s[at(k)]]
<1>1. DOMAIN s = 1..Len(s) /\ Len(s) \in Nat /\ \A i \in DOMAIN s : s[i] \in D
  BY LenProperties
<1>2. kept \in SUBSET (1..Len(s)) /\ kept \in SUBSET Nat
  BY <1>1
<1>3. IsFiniteSet(1..Len(s))
  BY <1>1, FS_Interval
<1>4. IsFiniteSet(kept) /\ n \in Nat
  BY <1>2, <1>3, CoreCounts, FS_Subset, FS_CardinalityType
<1> HIDE DEF kept, n
<1>5. ASSUME NEW i \in kept
      PROVE  IsFiniteSet(kept \cap (1..i)) /\ Place(i) \in 1..n
  <2>1. (kept \cap (1..i)) \in SUBSET kept /\ i \in kept \cap (1..i)
    BY <1>2
  <2>2. IsFiniteSet(kept \cap (1..i)) /\ Place(i) <= n
    BY <1>4, <2>1, CoreCounts, FS_Subset DEF n
  <2>3. Place(i) \in Nat /\ Place(i) # 0
    BY <2>1, <2>2, CoreCounts, FS_CardinalityType, FS_EmptySet
  <2> QED
    BY <1>4, <2>2, <2>3
<1>6. ASSUME NEW i \in kept, NEW j \in kept, i < j
      PROVE  Place(i) # Place(j)
  <2>1. (kept \cap (1..i)) \in SUBSET (kept \cap (1..j))
    BY <1>2, <1>6
  <2>2. j \in kept \cap (1..j) /\ j \notin kept \cap (1..i)
    BY <1>2, <1>6
  <2>3. Place(i) # Place(j)
    BY <1>5, <2>1, <2>2, CoreCounts, FS_Subset
  <2> QED
    BY <2>3
<1>7. ASSUME NEW i \in kept, NEW j \in kept, i # j
      PROVE  Place(i) # Place(j)
  <2>1. i \in Nat /\ j \in Nat
    BY <1>2
  <2>2. i < j \/ j < i
    BY <2>1, <1>7
  <2> QED
    BY <2>2, <1>6
<1>8. ASSUME NEW k \in 1..n
      PROVE  \E i \in kept : Place(i) = k
  <2> DEFINE f == [i \in kept |-> Place(i)]
  <2>1. f \in [kept -> 1..n]
    BY <1>5
  <2>2. f \in Injection(kept, 1..n)
    BY <2>1, <1>7 DEF Injection, IsInjective
  <2>3. IsFiniteSet(1..n) /\ Cardinality(1..n) = n /\ Cardinality(kept) = n
    BY <1>4, CoreCounts, FS_Interval DEF n
  <2>4. f \in Surjection(kept, 1..n)
    BY <2>2, <2>3, FS_Injection
  <2>5. \E i \in kept : f[i] = k
    BY <2>4 DEF Surjection
  <2> QED
    BY <2>5
<1> HIDE DEF Place
<1>9. ASSUME NEW k \in 1..n
      PROVE  at(k) \in kept /\ Place(at(k)) = k
  BY <1>8
<1>10. ASSUME NEW i \in kept
       PROVE  at(Place(i)) = i
  <2>1. Place(i) \in 1..n
    BY <1>5
  <2> QED
    BY <2>1, <1>9, <1>7
<1> HIDE DEF at
<1>11. \A k \in 1..n : at(k) \in DOMAIN s /\ s[at(k)] \in D /\ s[at(k)] \notin S
  BY <1>9, <1>1 DEF kept
<1>12. w \in Seq(D)
  BY <1>11, <1>4
<1>13. ASSUME NEW x PROVE x \in Core!ToSet(w) <=> x \in Core!ToSet(s) /\ x \notin S
  <2>1. x \in Core!ToSet(w) <=> \E k \in 1..n : x = s[at(k)]
    BY DEF Core!ToSet
  <2>2. x \in Core!ToSet(s) /\ x \notin S <=> \E i \in kept : x = s[i]
    BY DEF Core!ToSet, kept
  <2>3. (\E k \in 1..n : x = s[at(k)]) => \E i \in kept : x = s[i]
    BY <1>9
  <2>4. (\E i \in kept : x = s[i]) => \E k \in 1..n : x = s[at(k)]
    BY <1>10, <1>5
  <2> QED
    BY <2>1, <2>2, <2>3, <2>4
<1>14. Core!Without(s, S) = w
  BY DEF Core!Without, w, at, Place, kept, n
<1> QED
  BY <1>12, <1>13, <1>14

(* What Append adds.                                                       *)
LEMMA AppendMembers ==
  ASSUME NEW D, NEW s \in Seq(D), NEW e \in D
  PROVE  /\ Append(s, e) \in Seq(D)
         /\ Core!ToSet(Append(s, e)) = Core!ToSet(s) \union {e}
<1>1. /\ Append(s, e) \in Seq(D) /\ Len(s) \in Nat /\ DOMAIN s = 1..Len(s)
      /\ DOMAIN Append(s, e) = 1..(Len(s) + 1)
      /\ \A i \in 1..Len(s) : Append(s, e)[i] = s[i]
      /\ Append(s, e)[Len(s) + 1] = e
  BY AppendProperties, LenProperties
<1>2. ASSUME NEW x PROVE x \in Core!ToSet(Append(s, e)) <=> x \in Core!ToSet(s) \union {e}
  <2>1. x \in Core!ToSet(Append(s, e)) <=> \E i \in 1..(Len(s) + 1) : x = Append(s, e)[i]
    BY <1>1 DEF Core!ToSet
  <2>2. x \in Core!ToSet(s) <=> \E i \in 1..Len(s) : x = s[i]
    BY <1>1 DEF Core!ToSet
  <2>3. \A i : i \in 1..(Len(s) + 1) <=> i \in 1..Len(s) \/ i = Len(s) + 1
    BY <1>1
  <2> QED
    BY <1>1, <2>1, <2>2, <2>3
<1> QED
  BY <1>1, <1>2

-----------------------------------------------------------------------------
(* ClientCore: the steps                                                   *)

(* The lists and what the users do, in the shape they have.                *)
LEMMA ShapedParts ==
  Core!Shaped <=>
    /\ user \in [Users -> [op : {"none", "Use", "Unuse"}, p : Plugins \union {"none"}, m : {"invoke", "io"},
                           at : {"idle", "lock", "locked"}, alone : BOOLEAN]]
    /\ \A u \in Users : user[u].at = "idle"  => user[u].op = "none"
    /\ \A u \in Users : user[u].at # "idle" => user[u].op # "none" /\ user[u].p \in Plugins
    /\ handlers \in [{"invoke", "io"} -> Seq(Plugins)] /\ chain \in [{"invoke", "io"} -> Seq(Plugins)]
    /\ seen \in [Calls -> [{"invoke", "io"} -> Seq(Plugins)]]
  BY DEF Core!Shaped, Core!Managers

(* The same after a step.                                                  *)
LEMMA ShapedNext ==
  Core!Shaped' <=>
    /\ user' \in [Users -> [op : {"none", "Use", "Unuse"}, p : Plugins \union {"none"}, m : {"invoke", "io"},
                           at : {"idle", "lock", "locked"}, alone : BOOLEAN]]
    /\ \A u \in Users : user'[u].at = "idle"  => user'[u].op = "none"
    /\ \A u \in Users : user'[u].at # "idle" => user'[u].op # "none" /\ user'[u].p \in Plugins
    /\ handlers' \in [{"invoke", "io"} -> Seq(Plugins)] /\ chain' \in [{"invoke", "io"} -> Seq(Plugins)]
    /\ seen' \in [Calls -> [{"invoke", "io"} -> Seq(Plugins)]]
  BY DEF Core!Shaped, Core!Managers

(* At first no list has a plugin, and no call is under way.                *)
LEMMA CoreInit == Core!Init => Core!CoreInv
<1> SUFFICES ASSUME Core!Init PROVE Core!CoreInv
  OBVIOUS
<1> USE DEF Core!Init, Core!NoChains, Core!Managers, Core!Resting
<1>1. Core!TypeOK
  BY PluginsAssumption DEF Core!TypeOK
<1>2. << >> \in Seq(Plugins)
  OBVIOUS
<1>3. Core!Shaped
  BY <1>2, ShapedParts
<1>4. Core!InBoth /\ Core!OnItsWay /\ Core!StillInUse
  BY DEF Core!InBoth, Core!OnItsWay, Core!StillInUse
<1>5. Core!UsedIsSeen /\ Core!CancelsExact
  BY DEF Core!UsedIsSeen, Core!CancelsExact
<1> QED
  BY <1>1, <1>3, <1>4, <1>5 DEF Core!CoreInv

(* Who begins an Unuse is the only one for whom there is one more.         *)
LEMMA UserBegins ==
  ASSUME Core!Shaped, NEW u \in Users, NEW op \in {"Use", "Unuse"}, NEW p \in Plugins, Core!Begin(u, op, p)
  PROVE  /\ user[u].op = "none"
         /\ user' \in [Users -> [op : {"none", "Use", "Unuse"}, p : Plugins \union {"none"}, m : {"invoke", "io"},
                                 at : {"idle", "lock", "locked"}, alone : BOOLEAN]]
         /\ user'[u].op = op /\ user'[u].p = p /\ user'[u].m = "invoke" /\ user'[u].at = "lock"
         /\ user'[u].alone = ~Core!Unusing(p)
         /\ \A v \in Users \ {u} :
              /\ user'[v].op = user[v].op /\ user'[v].p = user[v].p
              /\ user'[v].m = user[v].m /\ user'[v].at = user[v].at
              /\ user'[v].alone => user[v].alone /\ ~(op = "Unuse" /\ user[v].p \in Core!SameCode(p))
<1> DEFINE U == [op : {"none", "Use", "Unuse"}, p : Plugins \union {"none"}, m : {"invoke", "io"},
                 at : {"idle", "lock", "locked"}, alone : BOOLEAN]
<1>1. user \in [Users -> U]
  BY ShapedParts
<1>2. /\ user[u] = Core!Resting
      /\ user' = [v \in Users |->
           CASE v = u -> [op |-> op, p |-> p, m |-> "invoke", at |-> "lock", alone |-> ~Core!Unusing(p)]
             [] v # u /\ op = "Unuse" /\ user[v].p \in Core!SameCode(p) -> [user[v] EXCEPT !.alone = FALSE]
             [] OTHER -> user[v]]
  BY DEF Core!Begin
<1>3. user'[u] = [op |-> op, p |-> p, m |-> "invoke", at |-> "lock", alone |-> ~Core!Unusing(p)]
  BY <1>2
<1>4. ASSUME NEW v \in Users, v # u
      PROVE  user'[v] = IF op = "Unuse" /\ user[v].p \in Core!SameCode(p)
                        THEN [user[v] EXCEPT !.alone = FALSE] ELSE user[v]
  BY <1>2, <1>4
<1>5. ASSUME NEW v \in Users, v # u
      PROVE  /\ user'[v].op = user[v].op /\ user'[v].p = user[v].p
             /\ user'[v].m = user[v].m /\ user'[v].at = user[v].at
             /\ user'[v].alone => user[v].alone /\ ~(op = "Unuse" /\ user[v].p \in Core!SameCode(p))
             /\ user'[v] \in U
  <2>1. user[v] \in U
    BY <1>1
  <2> QED
    BY <1>4, <1>5, <2>1
<1>6. Core!Unusing(p) \in BOOLEAN
  BY DEF Core!Unusing
<1>7. user'[u] \in U
  BY <1>3, <1>6
<1>8. \A v \in Users : user'[v] \in U
  BY <1>5, <1>7
<1>9. user' \in [Users -> U]
  BY <1>2, <1>8
<1>10. user[u].op = "none"
  BY <1>2 DEF Core!Resting
<1> QED
  BY <1>3, <1>5, <1>9, <1>10

(* Begin: what an Unuse takes out is no longer promised.                   *)
LEMMA BeginKeeps ==
  ASSUME Core!CoreInv, NEW u \in Users, NEW op \in {"Use", "Unuse"}, NEW p \in Plugins, Core!Begin(u, op, p)
  PROVE  Core!CoreInv'
<1> USE DEF Core!CoreInv
<1>1. /\ edits < MaxEdits /\ edits' = edits + 1
      /\ inUse' = IF op = "Unuse" THEN inUse \ Core!SameCode(p) ELSE inUse
      /\ due' = IF op = "Unuse" THEN [c \in Calls |-> due[c] \ Core!SameCode(p)] ELSE due
      /\ UNCHANGED <<handlers, chain, call, seen, cancels, cancelled, aborts>>
  BY DEF Core!Begin
<1>2. Core!TypeOK'
  BY <1>1, PluginsAssumption DEF Core!TypeOK
<1>3. Core!Shaped'
  <2>1. user'[u].at # "idle" /\ user'[u].op # "none" /\ user'[u].p \in Plugins
    BY UserBegins
  <2>2. ASSUME NEW v \in Users, v # u
        PROVE  /\ user'[v].at = "idle" => user'[v].op = "none"
               /\ user'[v].at # "idle" => user'[v].op # "none" /\ user'[v].p \in Plugins
    <3>1. user'[v].op = user[v].op /\ user'[v].p = user[v].p /\ user'[v].at = user[v].at
      BY <2>2, UserBegins
    <3>2. (user[v].at = "idle" => user[v].op = "none") /\ (user[v].at # "idle" => user[v].op # "none" /\ user[v].p \in Plugins)
      BY ShapedParts
    <3> QED
      BY <3>1, <3>2
  <2>3. /\ UNCHANGED <<handlers, chain, seen>>
        /\ handlers \in [{"invoke", "io"} -> Seq(Plugins)] /\ chain \in [{"invoke", "io"} -> Seq(Plugins)]
        /\ seen \in [Calls -> [{"invoke", "io"} -> Seq(Plugins)]]
    BY <1>1, ShapedParts
  <2>4. user' \in [Users -> [op : {"none", "Use", "Unuse"}, p : Plugins \union {"none"}, m : {"invoke", "io"},
                            at : {"idle", "lock", "locked"}, alone : BOOLEAN]]
    BY UserBegins
  <2> QED
    BY <2>1, <2>2, <2>3, <2>4, ShapedNext
<1>4. ASSUME NEW q, Core!Unusing(q)'
      PROVE  Core!Unusing(q) \/ (op = "Unuse" /\ p \in Core!SameCode(q))
  <2>1. PICK v \in Users : user'[v].op = "Unuse" /\ user'[v].p \in Core!SameCode(q)
    BY <1>4 DEF Core!Unusing, Core!SameCode
  <2> QED
    BY <2>1, UserBegins DEF Core!Unusing
<1>5. \A q \in Plugins : p \in Core!SameCode(q) <=> q \in Core!SameCode(p)
  BY DEF Core!SameCode
<1>6. Core!InBoth'
  <2>1. ASSUME NEW q \in inUse' PROVE ~Core!Unusing(q)' /\ q \in inUse
    <3>1. q \in inUse /\ q \in Plugins /\ ~(op = "Unuse" /\ q \in Core!SameCode(p))
      BY <1>1, <2>1 DEF Core!TypeOK
    <3>2. ~Core!Unusing(q)
      BY <3>1 DEF Core!InBoth
    <3> QED
      BY <1>4, <1>5, <3>1, <3>2
  <2> QED
    BY <1>1, <2>1 DEF Core!InBoth
<1>7. Core!OnItsWay'
  <2> SUFFICES ASSUME NEW v \in Users, NEW q, q = user'[v].p, user'[v].op = "Use", user'[v].alone
               PROVE  /\ ~Core!Unusing(q)'
                      /\ user'[v].at = "locked" => q \in Core!ToSet(handlers'[user'[v].m])
                      /\ user'[v].m = "io" => /\ q \in Core!ToSet(handlers'["invoke"])
                                              /\ q \in Core!ToSet(chain'["invoke"])
    BY DEF Core!OnItsWay, Core!Unusing, Core!SameCode, Core!ToSet
  <2>1. CASE v = u
    <3>1. q = p /\ op = "Use" /\ ~Core!Unusing(q) /\ user'[v].m = "invoke" /\ user'[v].at = "lock"
      BY <2>1, UserBegins
    <3> QED
      BY <3>1, <1>4
  <2>2. CASE v # u
    <3>1. /\ user[v].op = "Use" /\ user[v].alone /\ q = user[v].p
          /\ user[v].at = user'[v].at /\ user[v].m = user'[v].m
          /\ ~(op = "Unuse" /\ q \in Core!SameCode(p))
      BY <2>2, UserBegins
    <3>2. q \in Plugins
      BY <3>1, ShapedParts
    <3>3. ~Core!Unusing(q)'
      BY <1>4, <1>5, <3>1, <3>2 DEF Core!OnItsWay
    <3> QED
      BY <1>1, <3>1, <3>3 DEF Core!OnItsWay
  <2> QED
    BY <2>1, <2>2
<1>8. Core!StillInUse'
  BY <1>1 DEF Core!StillInUse, Core!TypeOK
<1>9. Core!UsedIsSeen' /\ Core!CancelsExact'
  <2>1. \A c \in Calls : due'[c] \subseteq due[c]
    BY <1>1 DEF Core!TypeOK
  <2> QED
    BY <1>1, <2>1 DEF Core!UsedIsSeen, Core!CancelsExact
<1> QED
  BY <1>2, <1>3, <1>6, <1>7, <1>8, <1>9

(* A user that goes on, for the other users: nothing, and no Unuse begins. *)
LEMMA UserGoesOn ==
  ASSUME Core!Shaped, NEW u \in Users, Core!Change(u) \/ Core!Rebuild(u)
  PROVE  /\ user[u].op \in {"Use", "Unuse"} /\ user[u].p \in Plugins /\ user[u].m \in {"invoke", "io"}
         /\ \A v \in Users \ {u} : user'[v] = user[v]
         /\ user'[u].op \in {user[u].op, "none"}
         /\ user'[u].op = user[u].op => user'[u].p = user[u].p /\ user'[u].alone = user[u].alone
         /\ \A q : Core!Unusing(q)' => Core!Unusing(q)
         /\ user' \in [Users -> [op : {"none", "Use", "Unuse"}, p : Plugins \union {"none"}, m : {"invoke", "io"},
                                 at : {"idle", "lock", "locked"}, alone : BOOLEAN]]
         /\ user'[u].at = "idle"  => user'[u].op = "none"
         /\ user'[u].at # "idle" => user'[u].op # "none" /\ user'[u].p \in Plugins
<1> DEFINE U == [op : {"none", "Use", "Unuse"}, p : Plugins \union {"none"}, m : {"invoke", "io"},
                 at : {"idle", "lock", "locked"}, alone : BOOLEAN]
<1>1. user \in [Users -> U] /\ user[u] \in U
  BY ShapedParts
<1>2. user[u].at \in {"lock", "locked"}
  BY DEF Core!Change, Core!Rebuild
<1>3. user[u].op \in {"Use", "Unuse"} /\ user[u].p \in Plugins
  BY <1>1, <1>2, ShapedParts
<1>4. PICK new \in {[user[u] EXCEPT !.at = "locked"], Core!Resting, [user[u] EXCEPT !.m = "io", !.at = "lock"]} :
        user' = [user EXCEPT ![u] = new]
  <2>1. CASE Core!Change(u)
    BY <2>1, <1>1 DEF Core!Change
  <2>2. CASE Core!Rebuild(u)
    BY <2>2, <1>1 DEF Core!Rebuild
  <2> QED
    BY <2>1, <2>2
<1>5. new \in U /\ user'[u] = new /\ \A v \in Users \ {u} : user'[v] = user[v]
  <2>1. Core!Resting \in U
    BY DEF Core!Resting
  <2>2. [user[u] EXCEPT !.at = "locked"] \in U /\ [user[u] EXCEPT !.m = "io", !.at = "lock"] \in U
    BY <1>1
  <2>3. new \in U
    BY <1>4, <2>1, <2>2, Zenon
  <2>4. user'[u] = new /\ \A v \in Users \ {u} : user'[v] = user[v]
    <3> HIDE DEF U
    <3> QED
      BY <1>1, <1>4
  <2> QED
    BY <2>3, <2>4
<1>6. user' \in [Users -> U]
  BY <1>1, <1>4, <1>5
<1>7. \/ /\ new.op = user[u].op /\ new.p = user[u].p /\ new.alone = user[u].alone /\ new.at # "idle"
      \/ new.op = "none" /\ new.at = "idle"
  <2>1. CASE new = Core!Resting
    BY <2>1 DEF Core!Resting
  <2>2. CASE new = [user[u] EXCEPT !.at = "locked"]
    BY <2>2, <1>1
  <2>3. CASE new = [user[u] EXCEPT !.m = "io", !.at = "lock"]
    BY <2>3, <1>1
  <2> QED
    BY <1>4, <2>1, <2>2, <2>3
<1>8. ASSUME NEW q, Core!Unusing(q)' PROVE Core!Unusing(q)
  <2>1. PICK v \in Users : user'[v].op = "Unuse" /\ user'[v].p \in Core!SameCode(q)
    BY <1>8 DEF Core!Unusing, Core!SameCode
  <2>2. user[v].op = "Unuse" /\ user[v].p \in Core!SameCode(q)
    BY <2>1, <1>5, <1>7
  <2> QED
    BY <2>2 DEF Core!Unusing
<1>9. new.op \in {user[u].op, "none"} /\ (new.op = user[u].op => new.p = user[u].p /\ new.alone = user[u].alone)
  BY <1>3, <1>7
<1>10. (new.at = "idle" => new.op = "none") /\ (new.at # "idle" => new.op # "none" /\ new.p \in Plugins)
  BY <1>3, <1>7
<1> QED
  BY <1>1, <1>3, <1>5, <1>6, <1>8, <1>9, <1>10

(* Change: an Unuse takes out no plugin that is promised, since none of    *)
(* those has its code; a Use puts its own in.                              *)
LEMMA ChangeKeeps ==
  ASSUME Core!CoreInv, NEW u \in Users, Core!Change(u)
  PROVE  Core!CoreInv'
<1> USE DEF Core!CoreInv
<1> DEFINE m == user[u].m  p == user[u].p
<1>1. /\ user[u].at = "lock"
      /\ handlers' = [handlers EXCEPT ![m] = IF user[u].op = "Use" THEN Append(handlers[m], p)
                                             ELSE Core!Without(handlers[m], Core!SameCode(p))]
      /\ user' = [user EXCEPT ![u].at = "locked"]
      /\ UNCHANGED <<chain, edits, call, seen, cancels, cancelled, aborts, inUse, due>>
  BY ShapedParts DEF Core!Change
<1>2. p \in Plugins /\ m \in {"invoke", "io"} /\ user[u].op \in {"Use", "Unuse"}
  BY UserGoesOn
<1>3. \A k \in {"invoke", "io"} : handlers[k] \in Seq(Plugins)
  BY ShapedParts
<1> HIDE DEF m, p
<1>4. /\ handlers' \in [{"invoke", "io"} -> Seq(Plugins)]
      /\ \A k \in {"invoke", "io"}, q \in Plugins :
           /\ q \in Core!ToSet(handlers[k]) =>
                q \in Core!ToSet(handlers'[k]) \/ (user[u].op = "Unuse" /\ q \in Core!SameCode(p))
      /\ user[u].op = "Use" => p \in Core!ToSet(handlers'[m])
  <2>1. /\ \A k \in {"invoke", "io"} \ {m} : handlers'[k] = handlers[k]
        /\ handlers'[m] = IF user[u].op = "Use" THEN Append(handlers[m], p)
                          ELSE Core!Without(handlers[m], Core!SameCode(p))
        /\ DOMAIN handlers' = {"invoke", "io"} /\ handlers' = [k \in {"invoke", "io"} |-> handlers'[k]]
    BY <1>1, <1>2, ShapedParts
  <2>2. CASE user[u].op = "Use"
    <3>1. handlers'[m] \in Seq(Plugins) /\ Core!ToSet(handlers'[m]) = Core!ToSet(handlers[m]) \union {p}
      BY <1>2, <1>3, <2>1, <2>2, AppendMembers
    <3> QED
      BY <1>2, <1>3, <2>1, <3>1
  <2>3. CASE user[u].op = "Unuse"
    <3>1. /\ handlers'[m] \in Seq(Plugins)
          /\ Core!ToSet(handlers'[m]) = Core!ToSet(handlers[m]) \ Core!SameCode(p)
      BY <1>2, <1>3, <2>1, <2>3, WithoutMembers
    <3> QED
      BY <1>2, <1>3, <2>1, <2>3, <3>1
  <2> QED
    BY <1>2, <2>2, <2>3
<1>5. user[u].op = "Unuse" => \A q \in Plugins : q \in Core!SameCode(p) => Core!Unusing(q)
  BY <1>2 DEF Core!Unusing, Core!SameCode, p
<1>6. \A q \in Plugins, k \in {"invoke", "io"} :
        ~Core!Unusing(q) /\ q \in Core!ToSet(handlers[k]) => q \in Core!ToSet(handlers'[k])
  BY <1>4, <1>5
<1>7. Core!TypeOK'
  BY <1>1 DEF Core!TypeOK
<1>8. Core!Shaped'
  BY <1>1, <1>4, UserGoesOn, ShapedParts, ShapedNext
<1>9. Core!InBoth'
  BY <1>1, <1>6, UserGoesOn DEF Core!InBoth, Core!TypeOK, Core!Managers
<1>10. Core!OnItsWay'
  <2> SUFFICES ASSUME NEW v \in Users, NEW q, q = user'[v].p, user'[v].op = "Use", user'[v].alone
               PROVE  /\ ~Core!Unusing(q)'
                      /\ user'[v].at = "locked" => q \in Core!ToSet(handlers'[user'[v].m])
                      /\ user'[v].m = "io" => /\ q \in Core!ToSet(handlers'["invoke"])
                                              /\ q \in Core!ToSet(chain'["invoke"])
    BY DEF Core!OnItsWay, Core!Unusing, Core!SameCode, Core!ToSet
  <2>1. /\ user[v].op = "Use" /\ user[v].alone /\ q = user[v].p /\ user'[v].m = user[v].m
        /\ v # u => user'[v].at = user[v].at
    BY <1>1, ShapedParts
  <2>2. q \in Plugins /\ user[v].m \in {"invoke", "io"}
    BY <2>1, ShapedParts
  <2>3. /\ ~Core!Unusing(q)
        /\ user[v].at = "locked" => q \in Core!ToSet(handlers[user[v].m])
        /\ user[v].m = "io" => q \in Core!ToSet(handlers["invoke"]) /\ q \in Core!ToSet(chain["invoke"])
    BY <2>1 DEF Core!OnItsWay
  <2>4. CASE v = u
    BY <1>1, <1>4, <1>6, <2>1, <2>2, <2>3, <2>4, UserGoesOn DEF m, p
  <2>5. CASE v # u
    BY <1>1, <1>6, <2>1, <2>2, <2>3, <2>5, UserGoesOn
  <2> QED
    BY <2>4, <2>5
<1>11. Core!StillInUse' /\ Core!UsedIsSeen' /\ Core!CancelsExact'
  BY <1>1 DEF Core!StillInUse, Core!UsedIsSeen, Core!CancelsExact
<1> QED
  BY <1>7, <1>8, <1>9, <1>10, <1>11

(* Rebuild: the snapshot is the list, and whose Use is over is in both.    *)
LEMMA RebuildKeeps ==
  ASSUME Core!CoreInv, NEW u \in Users, Core!Rebuild(u)
  PROVE  Core!CoreInv'
<1> USE DEF Core!CoreInv
<1> DEFINE m == user[u].m  p == user[u].p
<1>1. /\ user[u].at = "locked"
      /\ chain' = [chain EXCEPT ![m] = handlers[m]]
      /\ user' = [user EXCEPT ![u] = IF m = "io" THEN Core!Resting ELSE [user[u] EXCEPT !.m = "io", !.at = "lock"]]
      /\ inUse' = IF m = "io" /\ user[u].op = "Use" /\ user[u].alone THEN inUse \union {p} ELSE inUse
      /\ UNCHANGED <<handlers, edits, call, seen, cancels, cancelled, aborts, due>>
  BY DEF Core!Rebuild
<1>2. p \in Plugins /\ m \in {"invoke", "io"} /\ user[u].op \in {"Use", "Unuse"}
  BY UserGoesOn
<1>3. /\ user[u].op = "Use" /\ user[u].alone =>
           /\ ~Core!Unusing(p) /\ p \in Core!ToSet(handlers[m])
           /\ m = "io" => p \in Core!ToSet(handlers["invoke"]) /\ p \in Core!ToSet(chain["invoke"])
  BY <1>1 DEF Core!OnItsWay
<1>4. /\ handlers \in [{"invoke", "io"} -> Seq(Plugins)] /\ chain \in [{"invoke", "io"} -> Seq(Plugins)]
      /\ user \in [Users -> [op : {"none", "Use", "Unuse"}, p : Plugins \union {"none"}, m : {"invoke", "io"},
                             at : {"idle", "lock", "locked"}, alone : BOOLEAN]]
  BY ShapedParts
<1>5. /\ user'[u] = IF m = "io" THEN Core!Resting ELSE [user[u] EXCEPT !.m = "io", !.at = "lock"]
      /\ \A v \in Users \ {u} : user'[v] = user[v]
  BY <1>1, <1>4
<1>6. /\ m # "io" => user'[u].op = user[u].op /\ user'[u].p = p /\ user'[u].alone = user[u].alone
                     /\ user'[u].m = "io" /\ user'[u].at = "lock"
      /\ m = "io" => user'[u].op = "none"
  <2>1. ASSUME m = "io" PROVE user'[u].op = "none"
    BY <1>5, <2>1 DEF Core!Resting
  <2>2. ASSUME m # "io"
        PROVE  /\ user'[u].op = user[u].op /\ user'[u].p = p /\ user'[u].alone = user[u].alone
               /\ user'[u].m = "io" /\ user'[u].at = "lock"
    BY <1>4, <1>5, <2>2
  <2> QED
    BY <2>1, <2>2
<1> HIDE DEF m, p
<1>7. /\ chain' \in [{"invoke", "io"} -> Seq(Plugins)]
      /\ chain'[m] = handlers[m] /\ \A k \in {"invoke", "io"} \ {m} : chain'[k] = chain[k]
  BY <1>1, <1>2, <1>4
<1>8. Core!TypeOK'
  BY <1>1, <1>2 DEF Core!TypeOK
<1>9. Core!Shaped'
  <2>1. UNCHANGED <<handlers, seen>> /\ seen \in [Calls -> [{"invoke", "io"} -> Seq(Plugins)]]
    BY <1>1, ShapedParts
  <2>2. user' \in [Users -> [op : {"none", "Use", "Unuse"}, p : Plugins \union {"none"}, m : {"invoke", "io"},
                             at : {"idle", "lock", "locked"}, alone : BOOLEAN]]
    BY UserGoesOn
  <2>3. /\ user'[u].at = "idle"  => user'[u].op = "none"
        /\ user'[u].at # "idle" => user'[u].op # "none" /\ user'[u].p \in Plugins
    BY UserGoesOn
  <2>4. \A v \in Users \ {u} : /\ user'[v].at = "idle"  => user'[v].op = "none"
                               /\ user'[v].at # "idle" => user'[v].op # "none" /\ user'[v].p \in Plugins
    BY <1>5, ShapedParts
  <2> QED
    BY <1>4, <1>7, <2>1, <2>2, <2>3, <2>4, ShapedNext
<1>10. ASSUME NEW q \in Plugins, NEW k \in {"invoke", "io"},
              q \in Core!ToSet(handlers[k]), q \in Core!ToSet(chain[k])
       PROVE  q \in Core!ToSet(handlers'[k]) /\ q \in Core!ToSet(chain'[k])
  BY <1>1, <1>7, <1>10
<1>11. Core!InBoth'
  <2>1. ASSUME NEW q \in inUse', NEW k \in {"invoke", "io"}
        PROVE  ~Core!Unusing(q)' /\ q \in Core!ToSet(handlers'[k]) /\ q \in Core!ToSet(chain'[k])
    <3>1. CASE q \in inUse
      <4>1. q \in Plugins /\ ~Core!Unusing(q) /\ q \in Core!ToSet(handlers[k]) /\ q \in Core!ToSet(chain[k])
        BY <3>1 DEF Core!InBoth, Core!TypeOK, Core!Managers
      <4> QED
        BY <4>1, <1>10, UserGoesOn
    <3>2. CASE q \notin inUse
      <4>1. m = "io" /\ user[u].op = "Use" /\ user[u].alone /\ q = p
        BY <1>1, <3>2
      <4>2. ~Core!Unusing(q)'
        BY <4>1, <1>3, UserGoesOn
      <4>3. q \in Core!ToSet(handlers["io"]) /\ q \in Core!ToSet(handlers["invoke"]) /\ q \in Core!ToSet(chain["invoke"])
        BY <4>1, <1>3
      <4>4. handlers' = handlers /\ chain'["io"] = handlers["io"] /\ chain'["invoke"] = chain["invoke"]
        BY <4>1, <1>1, <1>7
      <4> QED
        BY <4>2, <4>3, <4>4
    <3> QED
      BY <3>1, <3>2
  <2> QED
    BY <2>1 DEF Core!InBoth, Core!Managers
<1>12. Core!OnItsWay'
  <2> SUFFICES ASSUME NEW v \in Users, NEW q, q = user'[v].p, user'[v].op = "Use", user'[v].alone
               PROVE  /\ ~Core!Unusing(q)'
                      /\ user'[v].at = "locked" => q \in Core!ToSet(handlers'[user'[v].m])
                      /\ user'[v].m = "io" => /\ q \in Core!ToSet(handlers'["invoke"])
                                              /\ q \in Core!ToSet(chain'["invoke"])
    BY DEF Core!OnItsWay, Core!Unusing, Core!SameCode, Core!ToSet
  <2>1. CASE v = u
    <3>1. /\ m = "invoke" /\ user[u].op = "Use" /\ user[u].alone /\ q = p
          /\ user'[v].at = "lock"
      BY <1>2, <1>6, <2>1
    <3> QED
      BY <1>1, <1>3, <1>7, <3>1, UserGoesOn
  <2>2. CASE v # u
    <3>1. user'[v] = user[v]
      BY <1>5, <2>2
    <3>2. /\ ~Core!Unusing(q)
          /\ user[v].at = "locked" => q \in Core!ToSet(handlers[user[v].m])
          /\ user[v].m = "io" => q \in Core!ToSet(handlers["invoke"]) /\ q \in Core!ToSet(chain["invoke"])
      BY <3>1 DEF Core!OnItsWay
    <3>3. q \in Plugins
      BY <3>1, ShapedParts
    <3>4. ~Core!Unusing(q)' /\ handlers' = handlers
      BY <1>1, <3>2, UserGoesOn
    <3> QED
      BY <1>10, <3>1, <3>2, <3>3, <3>4
  <2> QED
    BY <2>1, <2>2
<1>13. Core!StillInUse' /\ Core!UsedIsSeen' /\ Core!CancelsExact'
  BY <1>1 DEF Core!StillInUse, Core!UsedIsSeen, Core!CancelsExact
<1> QED
  BY <1>8, <1>9, <1>11, <1>12, <1>13

(* A call loads snapshots that hold what it has to pass, and is in cancels *)
(* or cancelled as long as it is in the transport.                         *)
LEMMA CallKeeps ==
  ASSUME Core!CoreInv, NEW c \in Calls,
         Core!Invoke(c) \/ Core!Request(c) \/ Core!Transport(c) \/ Core!Return(c)
  PROVE  Core!CoreInv'
<1> USE DEF Core!CoreInv
<1>1. UNCHANGED <<handlers, chain, user, edits, aborts, inUse>>
  BY DEF Core!Invoke, Core!Request, Core!Transport, Core!Return
<1>2. Core!InBoth' /\ Core!OnItsWay'
  BY <1>1 DEF Core!InBoth, Core!OnItsWay, Core!Unusing, Core!SameCode
<1>3. /\ seen \in [Calls -> [{"invoke", "io"} -> Seq(Plugins)]] /\ chain \in [{"invoke", "io"} -> Seq(Plugins)]
      /\ call \in [Calls -> {"idle", "invoked", "requested", "sent"}] /\ due \in [Calls -> SUBSET Plugins]
      /\ cancels \subseteq Calls /\ cancelled \subseteq Calls /\ inUse \subseteq Plugins
  BY ShapedParts DEF Core!TypeOK
<1>4. /\ Core!NoChains \in [{"invoke", "io"} -> Seq(Plugins)]
      /\ [Core!NoChains EXCEPT !.invoke = chain.invoke] \in [{"invoke", "io"} -> Seq(Plugins)]
  <2>1. << >> \in Seq(Plugins) /\ chain.invoke \in Seq(Plugins)
    BY <1>3
  <2>2. Core!NoChains = [m \in {"invoke", "io"} |-> << >>]
    BY DEF Core!NoChains, Core!Managers
  <2> QED
    BY <2>1, <2>2
<1>5. \A q \in inUse : q \in Core!ToSet(chain["invoke"]) /\ q \in Core!ToSet(chain["io"])
  BY DEF Core!InBoth, Core!Managers
<1>6. Core!TypeOK'
  BY <1>1, <1>3 DEF Core!TypeOK, Core!Invoke, Core!Request, Core!Transport, Core!Return
<1>7. PICK chains \in [{"invoke", "io"} -> Seq(Plugins)] :
        /\ seen' = [seen EXCEPT ![c] = chains]
        /\ call'[c] = "invoked" => chains.invoke = chain.invoke
        /\ call'[c] = "requested" => chains.io = chain.io
        /\ call'[c] = "sent" => chains = seen[c]
  <2>1. CASE Core!Invoke(c)
    <3>1. /\ seen' = [seen EXCEPT ![c] = [Core!NoChains EXCEPT !.invoke = chain.invoke]] /\ call'[c] = "invoked"
      BY <2>1, <1>3 DEF Core!Invoke
    <3>2. [Core!NoChains EXCEPT !.invoke = chain.invoke].invoke = chain.invoke
      BY DEF Core!NoChains, Core!Managers
    <3> QED
      BY <1>4, <3>1, <3>2
  <2>2. CASE Core!Request(c)
    <3>1. seen' = [seen EXCEPT ![c] = [seen[c] EXCEPT !.io = chain.io]] /\ call'[c] = "requested"
      BY <2>2, <1>3 DEF Core!Request
    <3>2. /\ [seen[c] EXCEPT !.io = chain.io] \in [{"invoke", "io"} -> Seq(Plugins)]
          /\ [seen[c] EXCEPT !.io = chain.io].io = chain.io
      BY <1>3
    <3> QED
      BY <3>1, <3>2
  <2>3. CASE Core!Transport(c)
    <3>1. seen' = [seen EXCEPT ![c] = seen[c]] /\ call'[c] = "sent" /\ seen[c] \in [{"invoke", "io"} -> Seq(Plugins)]
      BY <2>3, <1>3 DEF Core!Transport
    <3> QED
      BY <3>1
  <2>4. CASE Core!Return(c)
    <3>1. seen' = [seen EXCEPT ![c] = Core!NoChains] /\ call'[c] = "idle"
      BY <2>4, <1>3 DEF Core!Return
    <3> QED
      BY <1>4, <3>1
  <2> QED
    BY <2>1, <2>2, <2>3, <2>4
<1>8. Core!Shaped'
  BY <1>1, <1>3, <1>7, ShapedParts, ShapedNext
<1>9. /\ \A d \in Calls \ {c} : call'[d] = call[d] /\ due'[d] = due[d] /\ seen'[d] = seen[d]
      /\ due'[c] \in {inUse, due[c], {}} /\ (call'[c] \in {"requested", "sent"} => due'[c] = due[c])
      /\ call'[c] = "invoked" => due'[c] = inUse
      /\ call'[c] = "requested" => call[c] = "invoked"
      /\ call'[c] = "sent" => call[c] = "requested"
      /\ seen'[c] = chains
  BY <1>3, <1>7 DEF Core!Invoke, Core!Request, Core!Transport, Core!Return
<1>10. Core!StillInUse'
  BY <1>1, <1>9 DEF Core!StillInUse
<1>11. Core!UsedIsSeen'
  <2>1. ASSUME NEW d \in Calls \ {c}
        PROVE  /\ call'[d] = "invoked"               => due'[d] \subseteq Core!ToSet(seen'[d].invoke)
               /\ call'[d] \in {"requested", "sent"} => due'[d] \subseteq Core!ToSet(seen'[d].io)
    BY <1>9 DEF Core!UsedIsSeen
  <2>2. call'[c] = "invoked" => due'[c] \subseteq Core!ToSet(seen'[c].invoke)
    BY <1>5, <1>7, <1>9
  <2>3. call'[c] = "requested" => due'[c] \subseteq Core!ToSet(seen'[c].io)
    BY <1>5, <1>7, <1>9 DEF Core!StillInUse
  <2>4. call'[c] = "sent" => due'[c] \subseteq Core!ToSet(seen'[c].io)
    BY <1>7, <1>9 DEF Core!UsedIsSeen
  <2> QED
    BY <2>1, <2>2, <2>3, <2>4 DEF Core!UsedIsSeen
<1>12. Core!CancelsExact'
  <2>1. \/ /\ UNCHANGED <<cancels, cancelled>> /\ call[c] # "sent" /\ call'[c] # "sent"
        \/ /\ cancels' = cancels \union {c} /\ cancelled' = cancelled
           /\ call[c] # "sent" /\ call'[c] = "sent"
        \/ /\ cancels' = cancels \ {c} /\ cancelled' = cancelled \ {c} /\ call'[c] # "sent"
    BY <1>3 DEF Core!Invoke, Core!Request, Core!Transport, Core!Return
  <2>2. cancels \cap cancelled = {} /\ cancels \union cancelled = {d \in Calls : call[d] = "sent"}
    BY DEF Core!CancelsExact
  <2>3. \A d \in Calls \ {c} : call'[d] = call[d]
    BY <1>9
  <2>4. cancels' \cap cancelled' = {}
    BY <2>1, <2>2
  <2>5. cancels' \union cancelled' = {d \in Calls : call'[d] = "sent"}
    BY <1>3, <2>1, <2>2, <2>3
  <2> QED
    BY <2>4, <2>5 DEF Core!CancelsExact
<1> QED
  BY <1>2, <1>6, <1>8, <1>10, <1>11, <1>12

(* Abort moves what it finds in cancels to cancelled.                      *)
LEMMA AbortKeeps ==
  ASSUME Core!CoreInv, Core!Abort
  PROVE  Core!CoreInv'
<1> USE DEF Core!CoreInv
<1>1. /\ aborts < MaxAborts /\ aborts' = aborts + 1 /\ cancels' = {} /\ cancelled' = cancelled \union cancels
      /\ UNCHANGED <<handlers, chain, user, edits, call, seen, inUse, due>>
  BY DEF Core!Abort
<1>2. Core!TypeOK'
  BY <1>1, PluginsAssumption DEF Core!TypeOK
<1>3. Core!Shaped'
  BY <1>1, ShapedParts, ShapedNext
<1>4. Core!InBoth' /\ Core!OnItsWay' /\ Core!StillInUse' /\ Core!UsedIsSeen'
  BY <1>1 DEF Core!InBoth, Core!OnItsWay, Core!StillInUse, Core!UsedIsSeen, Core!Unusing, Core!SameCode
<1>5. Core!CancelsExact'
  BY <1>1 DEF Core!CancelsExact
<1> QED
  BY <1>2, <1>3, <1>4, <1>5

(* CoreInv is inductive.                                                   *)
LEMMA CoreStep == Core!CoreInv /\ [Core!Next]_Core!cvars => Core!CoreInv'
<1> SUFFICES ASSUME Core!CoreInv, [Core!Next]_Core!cvars PROVE Core!CoreInv'
  OBVIOUS
<1>1. CASE Core!Abort
  BY <1>1, AbortKeeps
<1>2. ASSUME NEW u \in Users, Core!Change(u) PROVE Core!CoreInv'
  BY <1>2, ChangeKeeps
<1>3. ASSUME NEW u \in Users, Core!Rebuild(u) PROVE Core!CoreInv'
  BY <1>3, RebuildKeeps
<1>4. ASSUME NEW u \in Users, NEW p \in Plugins, NEW op \in {"Use", "Unuse"}, Core!Begin(u, op, p)
      PROVE  Core!CoreInv'
  BY <1>4, BeginKeeps
<1>5. ASSUME NEW c \in Calls, Core!Invoke(c) \/ Core!Request(c) \/ Core!Transport(c) \/ Core!Return(c)
      PROVE  Core!CoreInv'
  BY <1>5, CallKeeps
<1>6. CASE UNCHANGED Core!cvars
  BY <1>6 DEF Core!cvars, Core!CoreInv, Core!TypeOK, Core!Shaped, Core!InBoth, Core!OnItsWay, Core!StillInUse,
              Core!UsedIsSeen, Core!CancelsExact, Core!Unusing, Core!SameCode
<1> QED
  BY <1>1, <1>2, <1>3, <1>4, <1>5, <1>6 DEF Core!Next

(* A call that begins after Use of a plugin has returned passes both its   *)
(* handlers until an Unuse names the plugin or another with its code,      *)
(* whatever users do at the same time; and Abort finds the cancel function *)
(* of every call in a transport, and of no other (core/plugin_manager.go,  *)
(* core/client.go).                                                        *)
THEOREM CallsAreGuarded == Core!Spec => []CallsGuarded
<1>1. Core!CoreInv => CallsGuarded
  BY DEF Core!CoreInv, CallsGuarded
<1> QED
  BY <1>1, CoreInit, CoreStep, PTL DEF Core!Spec

-----------------------------------------------------------------------------
(* RateLimiter *)

(* What the invariant says of the state's form.                            *)
LEMMA RateParts ==
  Rate!TypeOK /\ Rate!Shaped <=>
    /\ clock \in 0..MaxTime /\ earned \in Int /\ asks \in 0..MaxAcquires /\ Len(granted) <= asks
    /\ maxPermits \in Permits /\ timeout \in Timeouts /\ raced \in BOOLEAN
    /\ doing \in [Clients -> {"idle", "load", "store", "waiting"}]
    /\ asked \in [Clients -> [tokens : Nat, now : Nat, last : Int, place : Nat]]
    /\ granted \in Seq(Rate!Grants) /\ (raced => granted = << >>)
  BY DEF Rate!TypeOK, Rate!Shaped

(* The same after a step.                                                  *)
LEMMA RatePartsNext ==
  (Rate!TypeOK /\ Rate!Shaped)' <=>
    /\ clock' \in 0..MaxTime /\ earned' \in Int /\ asks' \in 0..MaxAcquires /\ Len(granted') <= asks'
    /\ maxPermits' \in Permits /\ timeout' \in Timeouts /\ raced' \in BOOLEAN
    /\ doing' \in [Clients -> {"idle", "load", "store", "waiting"}]
    /\ asked' \in [Clients -> [tokens : Nat, now : Nat, last : Int, place : Nat]]
    /\ granted' \in Seq(Rate!Grants) /\ (raced' => granted' = << >>)
  BY DEF Rate!TypeOK, Rate!Shaped

(* A request that is granted, and its fields.                              *)
LEMMA GrantFields ==
  ASSUME Rate!TypeOK /\ Rate!Shaped
  PROVE  /\ Len(granted) \in Nat /\ DOMAIN granted = 1..Len(granted)
         /\ \A i \in DOMAIN granted : /\ granted[i] \in Rate!Grants
                                      /\ granted[i].tokens \in Nat /\ granted[i].asked \in Nat /\ granted[i].last \in Int
                                      /\ granted[i].through \in Nat /\ granted[i].at \in Nat
         /\ Rate!Spent \in Nat
<1>1. granted \in Seq(Rate!Grants)
  BY RateParts
<1>2. Len(granted) \in Nat /\ DOMAIN granted = 1..Len(granted) /\ \A i \in DOMAIN granted : granted[i] \in Rate!Grants
  BY <1>1
<1>3. \A i \in DOMAIN granted : /\ granted[i].tokens \in Nat /\ granted[i].asked \in Nat /\ granted[i].last \in Int
                                /\ granted[i].through \in Nat /\ granted[i].at \in Nat
  BY <1>2 DEF Rate!Grants
<1>4. ASSUME granted = << >> PROVE Rate!Spent \in Nat
  BY <1>4 DEF Rate!Spent
<1>5. ASSUME granted # << >> PROVE Rate!Spent \in Nat
  <2>1. Len(granted) \in DOMAIN granted
    BY <1>1, <1>2, <1>5
  <2>2. Rate!Spent = granted[Len(granted)].through
    BY <1>5 DEF Rate!Spent
  <2> QED
    BY <1>3, <2>1, <2>2
<1> QED
  BY <1>2, <1>3, <1>4, <1>5

(* Nothing has been granted at first.                                      *)
LEMMA RateInit == Rate!Init => Rate!RateInv
<1> SUFFICES ASSUME Rate!Init PROVE Rate!RateInv
  OBVIOUS
<1>1. << >> \in Seq(Rate!Grants) /\ Len(<< >>) = 0
  OBVIOUS
<1>2. /\ clock = 0 /\ earned = 0 /\ asks = 0 /\ granted = << >> /\ raced = FALSE
      /\ maxPermits \in Permits /\ timeout \in Timeouts
      /\ doing = [c \in Clients |-> "idle"]
      /\ asked = [c \in Clients |-> [tokens |-> 0, now |-> 0, last |-> 0, place |-> 0]]
  BY DEF Rate!Init, Rate!NotAsked
<1>3. Rate!TypeOK /\ Rate!Shaped
  <2>1. clock \in 0..MaxTime /\ asks \in 0..MaxAcquires /\ earned \in Int /\ Len(granted) <= asks
    BY <1>1, <1>2, PluginsAssumption
  <2>2. asked \in [Clients -> [tokens : Nat, now : Nat, last : Int, place : Nat]]
    BY <1>2
  <2> QED
    BY <1>1, <1>2, <2>1, <2>2, RateParts
<1>4. DOMAIN granted = {}
  BY <1>2
<1>5. \A c \in Clients : doing[c] = "idle"
  BY <1>2
<1> QED
  BY <1>2, <1>3, <1>4, <1>5 DEF Rate!RateInv, Rate!Alone, Rate!PassedInTime, Rate!Earning

(* A history that stays, or is no longer kept, keeps what it says.         *)
LEMMA HistoryStays ==
  ASSUME Rate!PassedInTime, Rate!Earning, maxPermits' = maxPermits, earned' = earned,
         IF raced' THEN granted' = << >> ELSE granted' = granted /\ ~raced
  PROVE  Rate!PassedInTime' /\ Rate!Earning'
<1>1. CASE raced'
  <2>1. DOMAIN granted' = {}
    BY <1>1
  <2> QED
    BY <1>1, <2>1 DEF Rate!PassedInTime, Rate!Earning
<1>2. CASE ~raced'
  BY <1>2 DEF Rate!PassedInTime, Rate!Earning, Rate!Spent, Rate!TokensBetween
<1> QED
  BY <1>1, <1>2

(* The clock and the steps up to the store touch nothing that is granted,  *)
(* unless two requests race.                                               *)
LEMMA TickKeeps ==
  ASSUME Rate!RateInv, Rate!Tick
  PROVE  Rate!RateInv'
<1> USE DEF Rate!RateInv
<1>1. /\ clock < MaxTime /\ clock' = clock + 1
      /\ UNCHANGED <<maxPermits, timeout, earned, doing, asked, asks, granted, raced>>
  BY DEF Rate!Tick
<1>2. (Rate!TypeOK /\ Rate!Shaped)'
  <2>1. clock' \in 0..MaxTime
    BY <1>1, RateParts, PluginsAssumption
  <2> QED
    BY <1>1, <2>1, RateParts, RatePartsNext
<1>3. Rate!Alone'
  <2>1. \A c \in Clients : doing[c] # "idle" => asked[c].now <= clock'
    <3>1. \A c \in Clients : asked[c].now \in Nat
      BY RateParts
    <3>2. clock \in Nat
      BY RateParts, PluginsAssumption
    <3> QED
      BY <1>1, <3>1, <3>2 DEF Rate!Alone
  <2> QED
    BY <1>1, <2>1 DEF Rate!Alone
<1>4. Rate!PassedInTime' /\ Rate!Earning'
  BY <1>1, RateParts, HistoryStays
<1> QED
  BY <1>2, <1>3, <1>4

(* Ask.                                                                    *)
LEMMA AskKeeps ==
  ASSUME Rate!RateInv, NEW c \in Clients, Rate!Ask(c)
  PROVE  Rate!RateInv'
<1> USE DEF Rate!RateInv
<1>1. PICK t \in Sizes : asked' = [asked EXCEPT ![c] = [tokens |-> t, now |-> clock, last |-> 0, place |-> 0]]
  BY DEF Rate!Ask, Rate!NotAsked
<1>2. /\ doing[c] = "idle" /\ asks < MaxAcquires /\ asks' = asks + 1
      /\ doing' = [doing EXCEPT ![c] = "load"]
      /\ raced' = (raced \/ \E d \in Clients : doing[d] \in {"load", "store"})
      /\ granted' = IF raced' THEN << >> ELSE granted
      /\ UNCHANGED <<maxPermits, timeout, clock, earned>>
  BY DEF Rate!Ask
<1>3. t \in Nat /\ clock \in Nat
  BY RateParts, PluginsAssumption
<1>4. (Rate!TypeOK /\ Rate!Shaped)'
  <2>1. asked' \in [Clients -> [tokens : Nat, now : Nat, last : Int, place : Nat]]
    <3>1. [tokens |-> t, now |-> clock, last |-> 0, place |-> 0] \in [tokens : Nat, now : Nat, last : Int, place : Nat]
      BY <1>3
    <3> QED
      BY <1>1, <3>1, RateParts
  <2>2. granted' \in Seq(Rate!Grants) /\ (raced' => granted' = << >>) /\ Len(granted') <= asks'
    BY <1>2, RateParts
  <2>3. asks' \in 0..MaxAcquires /\ raced' \in BOOLEAN
    <3>1. asks \in 0..MaxAcquires /\ raced \in BOOLEAN /\ MaxAcquires \in Nat
      BY RateParts, PluginsAssumption
    <3>2. asks' \in 0..MaxAcquires
      BY <1>2, <3>1
    <3>3. raced' \in BOOLEAN
      BY <1>2, Zenon
    <3> QED
      BY <3>2, <3>3
  <2>4. doing' \in [Clients -> {"idle", "load", "store", "waiting"}]
    BY <1>2, RateParts
  <2> QED
    BY <1>2, <2>1, <2>2, <2>3, <2>4, RateParts, RatePartsNext
<1>5. Rate!Alone'
  <2>1. /\ doing'[c] = "load" /\ asked'[c].now = clock
        /\ \A d \in Clients \ {c} : doing'[d] = doing[d] /\ asked'[d] = asked[d]
    BY <1>1, <1>2, RateParts
  <2>2. \A d \in Clients : doing'[d] # "idle" => asked'[d].now <= clock
    BY <1>3, <2>1 DEF Rate!Alone
  <2>3. ASSUME ~raced'
        PROVE  /\ ~raced /\ granted' = granted /\ \A d \in Clients : doing[d] \notin {"load", "store"}
               /\ Len(granted') < asks'
    <3>1. Len(granted) \in Nat /\ asks \in Nat /\ Len(granted) <= asks
      BY RateParts, GrantFields
    <3>2. ~raced /\ granted' = granted /\ \A d \in Clients : doing[d] \notin {"load", "store"}
      BY <1>2, <2>3
    <3> QED
      BY <1>2, <3>1, <3>2
  <2>4. ASSUME ~raced'
        PROVE  /\ \A d, e \in Clients : doing'[d] \in {"load", "store"} /\ doing'[e] \in {"load", "store"} => d = e
               /\ \A d \in Clients : doing'[d] # "store"
               /\ \A d \in Clients : doing'[d] = "waiting" => d # c /\ doing[d] = "waiting"
    BY <2>1, <2>3, <2>4
  <2> QED
    BY <1>2, <2>1, <2>2, <2>3, <2>4 DEF Rate!Alone
<1>6. Rate!PassedInTime' /\ Rate!Earning'
  BY <1>2, HistoryStays
<1> QED
  BY <1>4, <1>5, <1>6

(* Load.                                                                   *)
LEMMA LoadKeeps ==
  ASSUME Rate!RateInv, NEW c \in Clients, Rate!Load(c)
  PROVE  Rate!RateInv'
<1> USE DEF Rate!RateInv
<1>1. /\ doing[c] = "load" /\ asked' = [asked EXCEPT ![c].last = earned]
      /\ doing' = [doing EXCEPT ![c] = "store"]
      /\ UNCHANGED <<maxPermits, timeout, clock, earned, asks, granted, raced>>
  BY DEF Rate!Load
<1>2. /\ asked \in [Clients -> [tokens : Nat, now : Nat, last : Int, place : Nat]]
      /\ doing \in [Clients -> {"idle", "load", "store", "waiting"}] /\ earned \in Int
  BY RateParts
<1>3. /\ asked' \in [Clients -> [tokens : Nat, now : Nat, last : Int, place : Nat]]
      /\ doing' \in [Clients -> {"idle", "load", "store", "waiting"}]
      /\ asked'[c].last = earned /\ asked'[c].now = asked[c].now /\ doing'[c] = "store"
      /\ \A d \in Clients \ {c} : asked'[d] = asked[d] /\ doing'[d] = doing[d]
  BY <1>1, <1>2
<1>4. (Rate!TypeOK /\ Rate!Shaped)'
  BY <1>1, <1>3, RateParts, RatePartsNext
<1>5. Rate!Alone'
  <2>1. \A d \in Clients : doing'[d] # "idle" => asked'[d].now <= clock
    BY <1>1, <1>3 DEF Rate!Alone
  <2>2. ASSUME ~raced
        PROVE  /\ \A d, e \in Clients : doing'[d] \in {"load", "store"} /\ doing'[e] \in {"load", "store"} => d = e
               /\ \A d \in Clients : doing'[d] \in {"load", "store"} => Len(granted) < asks
               /\ \A d \in Clients : doing'[d] = "store" => asked'[d].last = earned
               /\ \A d \in Clients : doing'[d] = "waiting" => d # c /\ doing[d] = "waiting"
    <3>1. \A d \in Clients : doing'[d] \in {"load", "store"} => d = c
      BY <1>1, <1>3, <2>2 DEF Rate!Alone
    <3>2. Len(granted) < asks
      BY <1>1, <2>2 DEF Rate!Alone
    <3> QED
      BY <1>3, <3>1, <3>2
  <2> QED
    BY <1>1, <1>3, <2>1, <2>2 DEF Rate!Alone
<1>6. Rate!PassedInTime' /\ Rate!Earning'
  BY <1>1, RateParts, HistoryStays
<1> QED
  BY <1>4, <1>5, <1>6

(* Multiplying by the time of a token distributes.                         *)
LEMMA Distributes == \A a, b, k \in Int : (a + b) * k = a * k + b * k
  OBVIOUS

(* A history that has grown by one.                                        *)
LEMMA GrantAppended ==
  ASSUME Rate!TypeOK /\ Rate!Shaped, NEW e \in Rate!Grants, granted' = Append(granted, e)
  PROVE  /\ granted' \in Seq(Rate!Grants) /\ Len(granted') = Len(granted) + 1
         /\ DOMAIN granted' = 1..(Len(granted) + 1)
         /\ \A i \in DOMAIN granted : i \in DOMAIN granted' /\ granted'[i] = granted[i]
         /\ granted'[Len(granted) + 1] = e /\ Rate!Spent' = e.through
<1>1. granted \in Seq(Rate!Grants) /\ Len(granted) \in Nat /\ DOMAIN granted = 1..Len(granted)
  BY RateParts, GrantFields
<1>2. /\ granted' \in Seq(Rate!Grants) /\ Len(granted') = Len(granted) + 1
      /\ DOMAIN granted' = 1..(Len(granted) + 1)
      /\ \A i \in 1..Len(granted) : granted'[i] = granted[i]
      /\ granted'[Len(granted) + 1] = e
  BY <1>1, AppendProperties
<1>3. granted' # << >>
  BY <1>1, <1>2
<1>4. Rate!Spent' = granted'[Len(granted')].through
  BY <1>3 DEF Rate!Spent
<1> QED
  BY <1>1, <1>2, <1>4

(* Store charges the tokens to next, and goes no further back than         *)
(* maxPermits allows.                                                      *)
LEMMA NextIsCharged ==
  ASSUME NEW a \in [tokens : Nat, now : Nat, last : Int, place : Nat], maxPermits \in Int
  PROVE  /\ Rate!NextTime(a) \in Int /\ maxPermits * Interval \in Int /\ a.tokens * Interval \in Int
         /\ Rate!NextTime(a) >= a.last + a.tokens * Interval
         /\ Rate!NextTime(a) >= a.now - maxPermits * Interval
<1>1. a.tokens \in Nat /\ a.now \in Nat /\ a.last \in Int /\ Interval \in Int
  BY PluginsAssumption
<1>2. PICK x \in Int : x = a.tokens * Interval
  BY <1>1
<1>3. PICK y \in Int : y = maxPermits * Interval
  BY <1>1
<1>4. Rate!NextTime(a) = IF a.last + x < a.now - y THEN a.now - y ELSE a.last + x
  BY <1>2, <1>3 DEF Rate!NextTime
<1> QED
  BY <1>1, <1>2, <1>3, <1>4

(* Store, for the client that stores: it is no longer between load and     *)
(* store, and waits only at the end of the history.                        *)
LEMMA StoreAlone ==
  ASSUME Rate!RateInv, NEW c \in Clients, Rate!Store(c)
  PROVE  /\ asked' \in [Clients -> [tokens : Nat, now : Nat, last : Int, place : Nat]]
         /\ doing' \in [Clients -> {"idle", "load", "store", "waiting"}]
         /\ \A d \in Clients \ {c} : doing'[d] = doing[d] /\ asked'[d] = asked[d]
         /\ doing'[c] \in {"idle", "waiting"}
         /\ doing'[c] = "waiting" =>
              asked'[c].now = asked[c].now /\ asked'[c].last = asked[c].last /\ asked'[c].place = Len(granted) + 1
<1> USE DEF Rate!RateInv
<1>1. /\ asked \in [Clients -> [tokens : Nat, now : Nat, last : Int, place : Nat]] /\ Len(granted) + 1 \in Nat
      /\ doing \in [Clients -> {"idle", "load", "store", "waiting"}]
  BY RateParts, GrantFields
<1>2. /\ doing' = [doing EXCEPT ![c] = IF Rate!Outcome(asked[c]) = "wait" THEN "waiting" ELSE "idle"]
      /\ asked' = [asked EXCEPT ![c] = IF Rate!Outcome(asked[c]) = "wait"
                                       THEN [asked[c] EXCEPT !.place = Len(granted) + 1] ELSE Rate!NotAsked]
  BY DEF Rate!Store
<1>3. CASE Rate!Outcome(asked[c]) = "wait"
  BY <1>1, <1>2, <1>3
<1>4. CASE Rate!Outcome(asked[c]) # "wait"
  <2>1. Rate!NotAsked \in [tokens : Nat, now : Nat, last : Int, place : Nat]
    BY DEF Rate!NotAsked
  <2> QED
    BY <1>1, <1>2, <1>4, <2>1
<1> QED
  BY <1>3, <1>4

(* Store adds its request to the history, and to next the time it costs.   *)
LEMMA StoreKeeps ==
  ASSUME Rate!RateInv, NEW c \in Clients, Rate!Store(c)
  PROVE  Rate!RateInv'
<1> USE DEF Rate!RateInv
<1>1. PICK a : a = asked[c]
  OBVIOUS
<1>2. PICK e : e = [tokens |-> a.tokens, asked |-> a.now, last |-> a.last, through |-> Rate!Spent + a.tokens,
                    out |-> Rate!Outcome(a), at |-> clock]
  OBVIOUS
<1>3. /\ doing[c] = "store" /\ earned' = Rate!NextTime(a)
      /\ granted' = IF raced THEN << >> ELSE Append(granted, e)
      /\ UNCHANGED <<maxPermits, timeout, clock, asks, raced>>
  BY <1>1, <1>2 DEF Rate!Store
<1>4. /\ a \in [tokens : Nat, now : Nat, last : Int, place : Nat] /\ clock \in Nat /\ maxPermits \in Int
      /\ a.tokens \in Nat /\ a.now \in Nat /\ a.last \in Int /\ a.now <= clock /\ Rate!Spent \in Nat
  <2>1. a \in [tokens : Nat, now : Nat, last : Int, place : Nat]
    BY <1>1, RateParts
  <2>2. a.tokens \in Nat /\ a.now \in Nat /\ a.last \in Int
    BY <2>1
  <2>3. clock \in Nat /\ maxPermits \in Int
    <3>1. clock \in 0..MaxTime /\ maxPermits \in Permits
      BY RateParts
    <3> QED
      BY <3>1, PluginsAssumption
  <2>4. a.now <= clock
    BY <1>1, <1>3 DEF Rate!Alone
  <2> QED
    BY <2>1, <2>2, <2>3, <2>4, GrantFields
<1>5. /\ Rate!Outcome(a) \in {"pass", "wait", "refused"}
      /\ Rate!Outcome(a) = "pass" => a.last <= a.now
  BY <1>4 DEF Rate!Outcome
<1>6. /\ e \in Rate!Grants /\ e.tokens = a.tokens /\ e.asked = a.now /\ e.last = a.last
      /\ e.through = Rate!Spent + a.tokens /\ e.out = Rate!Outcome(a) /\ e.at = clock
  <2>1. Rate!Spent + a.tokens \in Nat
    BY <1>4
  <2> QED
    BY <1>2, <1>4, <1>5, <2>1 DEF Rate!Grants
<1>7. PICK n \in Nat : n = Len(granted) + 1
  BY GrantFields
<1>8. ~raced => /\ granted' \in Seq(Rate!Grants) /\ Len(granted') = n /\ DOMAIN granted' = 1..n
                /\ \A i \in DOMAIN granted : i \in DOMAIN granted' /\ granted'[i] = granted[i]
                /\ granted'[n] = e /\ Rate!Spent' = Rate!Spent + a.tokens
  BY <1>3, <1>6, <1>7, GrantAppended
<1>9. ~raced => a.last = earned /\ n <= asks
  <2>1. ~raced => Len(granted) < asks /\ a.last = earned
    BY <1>1, <1>3 DEF Rate!Alone
  <2>2. asks \in Nat
    BY RateParts
  <2> QED
    BY <1>7, <2>1, <2>2, GrantFields
<1>10. (Rate!TypeOK /\ Rate!Shaped)'
  <2>1. earned' \in Int
    BY <1>3, <1>4, NextIsCharged
  <2>2. granted' \in Seq(Rate!Grants) /\ (raced' => granted' = << >>) /\ Len(granted') <= asks'
    <3>1. CASE raced
      <4>1. granted' = << >> /\ << >> \in Seq(Rate!Grants) /\ Len(<< >>) = 0 /\ asks' \in Nat
        BY <1>3, <3>1, RateParts
      <4> QED
        BY <4>1
    <3>2. CASE ~raced
      BY <1>3, <1>8, <1>9, <3>2
    <3> QED
      BY <3>1, <3>2
  <2> QED
    BY <1>3, <2>1, <2>2, StoreAlone, RateParts, RatePartsNext
<1>11. Rate!Alone'
  <2>1. \A d \in Clients : doing'[d] # "idle" => asked'[d].now <= clock'
    BY <1>1, <1>3, <1>4, StoreAlone DEF Rate!Alone
  <2>2. ASSUME ~raced, NEW d \in Clients, doing'[d] \in {"load", "store"}
        PROVE  FALSE
    <3>1. d # c /\ doing[d] \in {"load", "store"}
      BY <2>2, StoreAlone
    <3> QED
      BY <1>3, <2>2, <3>1 DEF Rate!Alone
  <2>3. ASSUME ~raced, NEW d \in Clients, doing'[d] = "waiting"
        PROVE  asked'[d].place \in DOMAIN granted' /\ granted'[asked'[d].place].last = asked'[d].last
    <3>1. CASE d = c
      <4>1. asked'[c].last = e.last /\ asked'[c].place = n
        BY <1>1, <1>6, <1>7, <2>3, <3>1, StoreAlone
      <4>2. n \in DOMAIN granted' /\ granted'[n] = e
        BY <1>7, <1>8, <2>3, GrantFields
      <4> QED
        BY <3>1, <4>1, <4>2
    <3>2. CASE d # c
      <4>1. doing[d] = "waiting" /\ asked'[d] = asked[d]
        BY <2>3, <3>2, StoreAlone
      <4>2. asked[d].place \in DOMAIN granted /\ granted[asked[d].place].last = asked[d].last
        BY <2>3, <4>1 DEF Rate!Alone
      <4> QED
        BY <1>8, <2>3, <4>1, <4>2
    <3> QED
      BY <3>1, <3>2
  <2> QED
    BY <1>3, <2>1, <2>2, <2>3 DEF Rate!Alone
<1>12. CASE raced
  <2>1. DOMAIN granted' = {} /\ raced'
    BY <1>3, <1>12
  <2> QED
    BY <1>10, <1>11, <2>1 DEF Rate!PassedInTime, Rate!Earning
<1>13. CASE ~raced
  <2>1. Rate!PassedInTime'
    <3>1. ASSUME NEW j \in DOMAIN granted', granted'[j].out = "pass" PROVE granted'[j].last <= granted'[j].at
      <4>1. CASE j = n
        BY <1>4, <1>5, <1>6, <1>8, <1>13, <3>1, <4>1
      <4>2. CASE j # n
        <5>1. j \in DOMAIN granted /\ granted'[j] = granted[j]
          BY <1>7, <1>8, <1>13, <4>2, GrantFields
        <5> QED
          BY <3>1, <5>1 DEF Rate!PassedInTime
      <4> QED
        BY <4>1, <4>2
    <3> QED
      BY <3>1 DEF Rate!PassedInTime
  <2>2. PICK cost \in Int, most \in Int : cost = a.tokens * Interval /\ most = maxPermits * Interval
    BY <1>4, NextIsCharged
  <2>3. earned' \in Int /\ earned \in Int /\ earned' >= earned + cost /\ earned' >= a.now - most
    BY <1>3, <1>4, <1>9, <1>13, <2>2, NextIsCharged, RateParts
  <2>4. ASSUME NEW i \in DOMAIN granted
        PROVE  /\ i \in DOMAIN granted' /\ i < n /\ i # n /\ granted'[i] = granted[i]
               /\ granted[i].tokens \in Nat /\ granted[i].asked \in Nat /\ granted[i].through \in Nat
               /\ (Rate!Spent - granted[i].through) * Interval \in Int
               /\ (Rate!Spent - granted[i].through) * Interval <= earned - granted[i].asked + most
               /\ (Rate!Spent + a.tokens - granted[i].through) * Interval
                    = (Rate!Spent - granted[i].through) * Interval + cost
    <3>1. /\ i \in DOMAIN granted' /\ i < n /\ i # n /\ granted'[i] = granted[i]
          /\ granted[i].tokens \in Nat /\ granted[i].asked \in Nat /\ granted[i].through \in Nat
      BY <1>7, <1>8, <1>13, GrantFields
    <3>2. PICK d \in Int : d = Rate!Spent - granted[i].through
      BY <1>4, <3>1
    <3>3. Interval \in Int /\ a.tokens \in Int /\ d * Interval \in Int
      BY <1>4, <3>2, PluginsAssumption
    <3>4. (d + a.tokens) * Interval = d * Interval + cost
      <4>1. PICK t \in Int, k \in Int : t = a.tokens /\ k = Interval
        BY <3>3
      <4>2. (d + t) * k = d * k + t * k
        BY Distributes
      <4> QED
        BY <2>2, <4>1, <4>2, Zenon
    <3>5. Rate!Spent + a.tokens - granted[i].through = d + a.tokens
      BY <1>4, <3>1, <3>2
    <3>6. d * Interval <= earned - granted[i].asked + most
      BY <1>13, <2>2, <3>2 DEF Rate!Earning
    <3> QED
      BY <3>1, <3>2, <3>3, <3>4, <3>5, <3>6
  <2>5. ASSUME NEW i \in DOMAIN granted'
        PROVE  (Rate!Spent' - granted'[i].through) * Interval <= earned' - granted'[i].asked + most
    <3>1. CASE i = n
      <4>1. PICK z \in Nat : z = Rate!Spent + a.tokens
        BY <1>4
      <4>2. granted'[i].through = z /\ Rate!Spent' = z /\ granted'[i].asked = a.now
        BY <1>6, <1>8, <1>13, <3>1, <4>1
      <4>3. (z - z) * Interval = 0
        BY <4>1, PluginsAssumption
      <4>4. (Rate!Spent' - granted'[i].through) * Interval = 0
        BY <4>2, <4>3
      <4> QED
        BY <1>4, <2>2, <2>3, <4>2, <4>4
    <3>2. CASE i # n
      <4>1. i \in DOMAIN granted
        BY <1>7, <1>8, <1>13, <3>2, GrantFields
      <4>2. (Rate!Spent' - granted'[i].through) * Interval = (Rate!Spent - granted[i].through) * Interval + cost
        <5>1. Rate!Spent' = Rate!Spent + a.tokens /\ granted'[i] = granted[i]
          BY <1>8, <1>13, <2>4, <4>1
        <5>2. Rate!Spent' - granted'[i].through = Rate!Spent + a.tokens - granted[i].through
          BY <1>4, <2>4, <4>1, <5>1
        <5> QED
          BY <2>4, <4>1, <5>2
      <4>3. granted'[i].asked = granted[i].asked /\ granted[i].asked \in Nat
        BY <2>4, <4>1
      <4> QED
        BY <2>2, <2>3, <2>4, <4>1, <4>2, <4>3
    <3> QED
      BY <3>1, <3>2
  <2>6. ASSUME NEW i \in DOMAIN granted', NEW j \in DOMAIN granted', i < j
        PROVE  (granted'[j].through - granted'[j].tokens - granted'[i].through) * Interval
                 <= granted'[j].last - granted'[i].asked + most
    <3>1. i \in DOMAIN granted
      BY <1>7, <1>8, <1>13, <2>6, GrantFields
    <3>2. CASE j = n
      <4>1. /\ granted'[j].through = Rate!Spent + a.tokens /\ granted'[j].tokens = a.tokens /\ granted'[j].last = earned
            /\ granted'[i] = granted[i]
        BY <1>6, <1>8, <1>9, <1>13, <2>4, <3>1, <3>2
      <4>2. granted'[j].through - granted'[j].tokens - granted'[i].through = Rate!Spent - granted[i].through
        BY <1>4, <2>4, <3>1, <4>1
      <4> QED
        BY <2>4, <3>1, <4>1, <4>2
    <3>3. CASE j # n
      <4>1. j \in DOMAIN granted
        BY <1>7, <1>8, <1>13, <3>3, GrantFields
      <4>2. granted'[i] = granted[i] /\ granted'[j] = granted[j]
        BY <2>4, <3>1, <4>1
      <4> QED
        BY <1>13, <2>2, <2>6, <3>1, <4>1, <4>2 DEF Rate!Earning, Rate!TokensBetween
    <3> QED
      BY <3>2, <3>3
  <2>7. Rate!Earning'
    BY <1>3, <2>2, <2>5, <2>6 DEF Rate!Earning, Rate!TokensBetween
  <2> QED
    BY <1>10, <1>11, <2>1, <2>7
<1> QED
  BY <1>12, <1>13

(* Who has waited, or whose context is over, leaves with its outcome.      *)
LEMMA LeaveKeeps ==
  ASSUME Rate!RateInv, NEW c \in Clients, Rate!Wait(c) \/ Rate!ContextEnds(c)
  PROVE  Rate!RateInv'
<1> USE DEF Rate!RateInv
<1>1. PICK out \in {"pass", "over"} : Rate!Leave(c, out) /\ (out = "pass" => clock >= asked[c].last)
  BY DEF Rate!Wait, Rate!ContextEnds
<1>2. PICK k : k = asked[c].place
  OBVIOUS
<1>3. /\ doing[c] = "waiting" /\ doing' = [doing EXCEPT ![c] = "idle"]
      /\ asked' = [asked EXCEPT ![c] = Rate!NotAsked]
      /\ granted' = IF raced THEN << >> ELSE [granted EXCEPT ![k].out = out, ![k].at = clock]
      /\ UNCHANGED <<maxPermits, timeout, clock, earned, asks, raced>>
  BY <1>1, <1>2 DEF Rate!Leave, Rate!Wait, Rate!ContextEnds
<1>4. Rate!NotAsked \in [tokens : Nat, now : Nat, last : Int, place : Nat] /\ clock \in Nat
  BY RateParts, PluginsAssumption DEF Rate!NotAsked
<1>5. /\ doing' \in [Clients -> {"idle", "load", "store", "waiting"}]
      /\ asked' \in [Clients -> [tokens : Nat, now : Nat, last : Int, place : Nat]]
      /\ doing'[c] = "idle" /\ \A d \in Clients \ {c} : doing'[d] = doing[d] /\ asked'[d] = asked[d]
  BY <1>3, <1>4, RateParts
<1>6. ASSUME ~raced
      PROVE  /\ granted' \in Seq(Rate!Grants) /\ Len(granted') = Len(granted) /\ DOMAIN granted' = DOMAIN granted
             /\ \A i \in DOMAIN granted :
                  /\ granted'[i].tokens = granted[i].tokens /\ granted'[i].asked = granted[i].asked
                  /\ granted'[i].last = granted[i].last /\ granted'[i].through = granted[i].through
                  /\ granted'[i] = granted[i] \/ (granted'[i].out = "pass" => granted'[i].last <= granted'[i].at)
  <2>1. k \in DOMAIN granted /\ granted[k].last = asked[c].last /\ granted \in Seq(Rate!Grants)
    BY <1>2, <1>3, <1>6, RateParts DEF Rate!Alone
  <2>2. granted[k] \in Rate!Grants
    BY <2>1, GrantFields
  <2>3. PICK e : e = [granted[k] EXCEPT !.out = out, !.at = clock]
    OBVIOUS
  <2>4. /\ e \in Rate!Grants /\ e.tokens = granted[k].tokens /\ e.asked = granted[k].asked
        /\ e.last = granted[k].last /\ e.through = granted[k].through /\ e.out = out /\ e.at = clock
    BY <1>1, <1>4, <2>2, <2>3 DEF Rate!Grants
  <2>5. granted' = [granted EXCEPT ![k] = e]
    BY <1>3, <1>6, <2>1, <2>3
  <2>6. /\ granted' \in Seq(Rate!Grants) /\ Len(granted') = Len(granted) /\ DOMAIN granted' = DOMAIN granted
        /\ granted'[k] = e /\ \A i \in DOMAIN granted \ {k} : granted'[i] = granted[i]
    BY <2>1, <2>4, <2>5
  <2>7. e.out = "pass" => e.last <= e.at
    BY <1>1, <1>4, <2>1, <2>4, RateParts
  <2> QED
    BY <2>4, <2>6, <2>7
<1>7. (Rate!TypeOK /\ Rate!Shaped)'
  <2>1. granted' \in Seq(Rate!Grants) /\ (raced' => granted' = << >>) /\ Len(granted') <= asks'
    <3>1. CASE raced
      <4>1. granted' = << >> /\ << >> \in Seq(Rate!Grants) /\ Len(<< >>) = 0 /\ asks' \in Nat
        BY <1>3, <3>1, RateParts
      <4> QED
        BY <4>1
    <3>2. CASE ~raced
      BY <1>3, <1>6, <3>2, RateParts
    <3> QED
      BY <3>1, <3>2
  <2> QED
    BY <1>3, <1>5, <2>1, RateParts, RatePartsNext
<1>8. Rate!Alone'
  <2>1. \A d \in Clients : doing'[d] # "idle" => d # c /\ doing[d] = doing'[d] /\ asked'[d] = asked[d]
    BY <1>5
  <2>2. ASSUME ~raced, NEW d \in Clients, doing'[d] = "waiting"
        PROVE  asked'[d].place \in DOMAIN granted' /\ granted'[asked'[d].place].last = asked'[d].last
    <3>1. asked[d].place \in DOMAIN granted /\ granted[asked[d].place].last = asked[d].last /\ asked'[d] = asked[d]
      BY <2>1, <2>2 DEF Rate!Alone
    <3> QED
      BY <1>6, <2>2, <3>1
  <2>3. ~raced => Len(granted') = Len(granted)
    BY <1>6
  <2> QED
    BY <1>3, <2>1, <2>2, <2>3 DEF Rate!Alone
<1>9. CASE raced
  <2>1. DOMAIN granted' = {} /\ raced'
    BY <1>3, <1>9
  <2> QED
    BY <1>7, <1>8, <2>1 DEF Rate!PassedInTime, Rate!Earning
<1>10. CASE ~raced
  <2>1. Rate!PassedInTime'
    BY <1>6, <1>10 DEF Rate!PassedInTime
  <2>2. Rate!Spent' = Rate!Spent
    <3>1. CASE granted = << >>
      BY <1>6, <1>10, <3>1 DEF Rate!Spent
    <3>2. CASE granted # << >>
      <4>1. Len(granted) \in DOMAIN granted /\ granted' # << >>
        BY <1>6, <1>10, <3>2, RateParts
      <4>2. granted'[Len(granted')].through = granted[Len(granted)].through
        BY <1>6, <1>10, <4>1
      <4> QED
        BY <3>2, <4>1, <4>2 DEF Rate!Spent
    <3> QED
      BY <3>1, <3>2
  <2>3. Rate!Earning'
    BY <1>3, <1>6, <1>10, <2>2 DEF Rate!Earning, Rate!TokensBetween
  <2> QED
    BY <1>7, <1>8, <2>1, <2>3
<1> QED
  BY <1>9, <1>10

(* RateInv is inductive.                                                   *)
LEMMA RateStep == Rate!RateInv /\ [Rate!Next]_Rate!ravars => Rate!RateInv'
<1> SUFFICES ASSUME Rate!RateInv, [Rate!Next]_Rate!ravars PROVE Rate!RateInv'
  OBVIOUS
<1>1. CASE Rate!Tick
  BY <1>1, TickKeeps
<1>2. ASSUME NEW c \in Clients, Rate!Ask(c) PROVE Rate!RateInv'
  BY <1>2, AskKeeps
<1>3. ASSUME NEW c \in Clients, Rate!Load(c) PROVE Rate!RateInv'
  BY <1>3, LoadKeeps
<1>4. ASSUME NEW c \in Clients, Rate!Store(c) PROVE Rate!RateInv'
  BY <1>4, StoreKeeps
<1>5. ASSUME NEW c \in Clients, Rate!Wait(c) \/ Rate!ContextEnds(c) PROVE Rate!RateInv'
  BY <1>5, LeaveKeeps
<1>6. CASE UNCHANGED Rate!ravars
  BY <1>6 DEF Rate!ravars, Rate!RateInv, Rate!TypeOK, Rate!Shaped, Rate!Alone, Rate!PassedInTime, Rate!Earning,
              Rate!Spent, Rate!TokensBetween
<1> QED
  BY <1>1, <1>2, <1>3, <1>4, <1>5, <1>6 DEF Rate!Next

(* Whoever passes has been paid for by then.                               *)
LEMMA RateInvKeepsRate == Rate!RateInv => RateKept
<1> SUFFICES ASSUME Rate!RateInv, ~raced, NEW i \in DOMAIN granted, NEW j \in DOMAIN granted,
                    i < j, granted[j].out = "pass"
             PROVE  Rate!TokensBetween(i, j) * Interval <= granted[j].at - granted[i].asked + maxPermits * Interval
  BY DEF RateKept, Rate!RateKept
<1>1. Rate!TokensBetween(i, j) * Interval <= granted[j].last - granted[i].asked + maxPermits * Interval
  BY DEF Rate!RateInv, Rate!Earning
<1>2. granted[j].last <= granted[j].at
  BY DEF Rate!RateInv, Rate!PassedInTime
<1>3. PICK x \in Int, y \in Int : x = Rate!TokensBetween(i, j) * Interval /\ y = maxPermits * Interval
  <2>1. Rate!TokensBetween(i, j) \in Int
    BY GrantFields DEF Rate!RateInv, Rate!TokensBetween
  <2>2. maxPermits \in Permits
    BY RateParts DEF Rate!RateInv
  <2> QED
    BY <2>1, <2>2, PluginsAssumption
<1>4. granted[j].last \in Int /\ granted[j].at \in Int /\ granted[i].asked \in Int
  BY GrantFields DEF Rate!RateInv
<1> QED
  BY <1>1, <1>2, <1>3, <1>4

(* As long as Acquires do not overlap, no more tokens are asked for        *)
(* between one request and a later one that passes than the time between   *)
(* them earns and maxPermits allows (plugins/limiter/rate_limiter.go).     *)
THEOREM RateIsKept == Rate!Spec => []RateKept
  BY RateInvKeepsRate, RateInit, RateStep, PTL DEF Rate!Spec

-----------------------------------------------------------------------------
(* All of them together *)

(* What holds of each part.                                                *)
PartsInv == ClusterInv /\ Core!CoreInv /\ Rate!RateInv /\ Load!LoadInv /\ Load!RoundInv

(* Together the parts begin as each does.                                  *)
LEMMA PartsInit == MCInit => PartsInv
  BY ClusterInit, CoreInit, RateInit, LoadInit, RoundsBegin DEF MCInit, Begin, PartsInv

(* A step of one is a step that stands still for each of the others.       *)
LEMMA StepOfParts ==
  [MCNext]_allvars =>
    [Next]_cvars /\ [Core!Next]_Core!cvars /\ [Load!Next]_Load!bvars /\ [Rate!Next]_Rate!ravars
<1>1. /\ UNCHANGED corevars => UNCHANGED Core!cvars
      /\ UNCHANGED loadvars => UNCHANGED Load!bvars
      /\ UNCHANGED ratevars => UNCHANGED Rate!ravars
  BY DEF corevars, loadvars, ratevars, Core!cvars, Load!bvars, Rate!ravars
<1>2. UNCHANGED allvars => UNCHANGED <<cvars, corevars, loadvars, ratevars>>
  BY DEF allvars
<1> QED
  BY <1>1, <1>2 DEF MCNext

(* Every step keeps what holds of the parts.                               *)
LEMMA PartsStep == PartsInv /\ [MCNext]_allvars => PartsInv'
  BY StepOfParts, ClusterStep, CoreStep, LoadStep, RoundsGoOn, RateStep DEF PartsInv

(* In every behaviour of the parts together, whichever part moves: the     *)
(* types are right, calls are guarded, retries are exact, the balancers    *)
(* serve fairly and count what they should, and the rate is kept.          *)
THEOREM PluginsTogether == MCSpec => [](Types /\ CallsGuarded /\ RetriesExact /\ LoadBalanced /\ RateKept)
<1>1. PartsInv => CallsGuarded /\ RetriesExact
  BY DEF PartsInv, ClusterInv, Core!CoreInv, CallsGuarded, RetriesExact
<1>2. PartsInv => RateKept
  BY RateInvKeepsRate DEF PartsInv
<1>3. PartsInv => LoadBalanced
  BY RoundKeepsShares DEF PartsInv, LoadBalanced, Load!LoadInv
<1>4. PartsInv => Types
  BY LoadTypes DEF PartsInv, Types, ClusterInv, Formed, Core!CoreInv, Rate!RateInv
<1> QED
  BY <1>1, <1>2, <1>3, <1>4, PartsInit, PartsStep, PTL DEF MCSpec
=============================================================================

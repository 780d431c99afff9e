----------------------------- MODULE LoadBalance -----------------------------
(* plugins/loadbalance: the handlers that choose a server for each request.*)
(* A request reads the shared weights and counters and chooses, begins     *)
(* (least active balancers count it), is answered, and is taken back into  *)
(* account by the deferred function.  Each step holds the balancer's lock, *)
(* or is one atomic operation.                                             *)
EXTENDS Integers, FiniteSets, FiniteSetsExt, Functions

CONSTANTS Servers,     \* 1..n; the last may be one a client adds later
          Weights, Requests, MaxPicks

VARIABLES balancer,     \* which balancer it is (never changes)
          urls,         \* the servers of the client
          position,     \* index (round robin, weighted round robin)
          level,        \* currentWeight (weighted round robin)
          current,      \* currentWeights (nginx)
          effective,    \* effectiveWeights
          actives,      \* actives; a sequence as long as the list it was made for
          task,         \* what each request is doing, and with which server
          picks,        \* history: picks of each server in this round
          picked,       \* history: how many picks
          upset         \* history: what the rounds do not hold for: a request
                        \* that failed, a step in between, a longer list

bvars == <<balancer, urls, position, level, current, effective, actives, task, picks, picked, upset>>

Weighted   == {"weighted", "nginx", "weightedRandom", "weightedLeastActive"}
Adaptive   == Weighted \ {"weighted"}
Counting   == {"leastActive", "weightedLeastActive"}
Fair       == {"roundRobin", "weighted", "nginx"}
Balancers  == Weighted \union {"roundRobin", "random", "leastActive"}

n == Cardinality(Servers)
Idle == [at |-> "idle", server |-> 0, from |-> {}]
None == [s \in Servers |-> 0]

Sum(f, S)  == FoldFunctionOnSet(LAMBDA x, y : x + y, 0, f, S)
Least(f, S) == {s \in S : \A t \in S : f[s] <= f[t]}

Init ==
  /\ balancer \in Balancers
  /\ urls \in IF balancer = "leastActive" /\ n > 1 THEN {Servers, 1..(n - 1)} ELSE {Servers}
  /\ position = (IF balancer = "roundRobin" THEN -1 ELSE 0)
  /\ level = 0 /\ current = None /\ effective = Weights
  /\ actives = IF balancer = "weightedLeastActive" THEN None ELSE << >>
  /\ task = [r \in Requests |-> Idle]
  /\ picks = None /\ picked = 0 /\ upset = FALSE

-----------------------------------------------------------------------------
(* The choices: who may be chosen, and what the choice does to the state.  *)

(* atomic.AddInt64 is the choice of roundRobin; position is an index, -1   *)
(* before the first.                                                       *)
RoundRobin(s) ==
  /\ IF n > 1 THEN /\ position' = position + 1
                   /\ s = IF position + 1 < n THEN position + 2 ELSE 1
     ELSE s = 1 /\ UNCHANGED position
  /\ UNCHANGED <<level, current>>

(* WeightedRoundRobinLoadBalance.getIndex: goes round the servers (index   *)
(* is position - 1) with a level that falls by the greatest common divisor *)
(* each time, until a server's weight reaches it.                          *)
MaxWeight == CHOOSE w \in Range(Weights) : \A v \in Range(Weights) : v <= w
GCD == CHOOSE d \in 1..MaxWeight :
         /\ \A s \in Servers : Weights[s] % d = 0
         /\ \A e \in (d + 1)..MaxWeight : \E s \in Servers : Weights[s] % e /= 0
(* mutant: the level starts one step too low.                              *)
LowerWrong(l) == IF l - GCD <= 0 THEN MaxWeight - GCD ELSE l - GCD

Lower(l) == IF l - GCD <= 0 THEN MaxWeight ELSE l - GCD

Place(k) == 1 + ((position + k - 1) % n)
LevelAt[k \in Nat] ==
  IF k = 0 THEN level
  ELSE IF Place(k) = 1 THEN Lower(LevelAt[k - 1]) ELSE LevelAt[k - 1]
Reaches(k) == Weights[Place(k)] >= LevelAt[k]

WeightedRoundRobin(s) ==
  /\ \E k \in 1..(n * (MaxWeight + 1)) :
       /\ Reaches(k) /\ \A j \in 1..(k - 1) : ~Reaches(j)
       /\ s = Place(k) /\ position' = s /\ level' = LevelAt[k]
  /\ UNCHANGED current

(* mutant: the chosen server pays the total of the given weights.          *)
NginxFixed(s) ==
  LET total  == Sum(Weights, Servers)
      raised == [t \in Servers |-> current[t] + effective[t]]
  IN  /\ \A t \in Servers : raised[t] < raised[s] \/ (raised[t] = raised[s] /\ s <= t)
      /\ current' = [raised EXCEPT ![s] = @ - total]
      /\ UNCHANGED <<position, level>>

(* NginxRoundRobinLoadBalance.getIndex: the first of the greatest current  *)
(* weights; any server once all effective weights are 0.                   *)
Nginx(s) ==
  LET total  == Sum(effective, Servers)
      raised == [t \in Servers |-> current[t] + effective[t]]
  IN  /\ IF total > 0
           THEN /\ \A t \in Servers : raised[t] < raised[s] \/ (raised[t] = raised[s] /\ s <= t)
                /\ current' = [raised EXCEPT ![s] = @ - total]
           ELSE UNCHANGED current
      /\ UNCHANGED <<position, level>>

(* The random balancers: any server with weight, if there is one.          *)
Random(s, S) ==
  /\ balancer \in Adaptive /\ Sum(effective, S) > 0 => effective[s] > 0
  /\ UNCHANGED <<position, level, current>>

Choice(s) ==
  CASE balancer = "roundRobin" -> RoundRobin(s)
    [] balancer = "weighted"   -> WeightedRoundRobin(s)
    [] balancer = "nginx"      -> Nginx(s)
    [] OTHER                   -> Random(s, Servers)

(* picks of a round, which is as long as the weights it serves; for the    *)
(* round robins without weights every server has the same.                 *)
Share(s) == CASE balancer = "weighted" -> Weights[s] \div GCD
              [] balancer = "nginx"    -> Weights[s]
              [] OTHER                 -> 1
History(s, disturbed) ==
  LET new == [picks EXCEPT ![s] = @ + 1] IN
  /\ picked' = picked + 1
  /\ upset' = (upset \/ disturbed)
  /\ picks' = IF upset' \/ balancer \notin Fair \/ \A t \in Servers : new[t] = Share(t) THEN None ELSE new

Busy(s) == \E r \in Requests : task[r].at \in s

(* The balancers that choose in one step: their URL is theirs to the end.  *)
Pick(r, s) ==
  /\ balancer \notin Counting
  /\ task[r] = Idle /\ picked < MaxPicks
  /\ Choice(s)
  /\ task' = [task EXCEPT ![r] = [Idle EXCEPT !.server = s,
                !.at = IF balancer = "roundRobin" /\ position' >= n THEN "wrap" ELSE "calling"]]
  /\ History(s, Busy({"wrap"}))
  /\ UNCHANGED <<balancer, urls, effective, actives>>

(* mutant: the index is not stored.                                        *)
WrapKeeps(r) ==
  /\ task[r].at = "wrap"
  /\ task' = [task EXCEPT ![r].at = "calling"]
  /\ UNCHANGED <<balancer, urls, position, level, current, effective, actives, picks, picked, upset>>

(* roundRobin: atomic.StoreInt64 of 0, when Add has passed the end.        *)
Wrap(r) ==
  /\ task[r].at = "wrap"
  /\ position' = 0
  /\ task' = [task EXCEPT ![r].at = "calling"]
  /\ UNCHANGED <<balancer, urls, level, current, effective, actives, picks, picked, upset>>

-----------------------------------------------------------------------------
(* The least active balancers, in three steps.                             *)

(* A longer list than there are counters is given new counters, all zero.  *)
Grow(r) ==
  /\ balancer = "leastActive" /\ task[r] = Idle /\ picked < MaxPicks
  /\ Cardinality(DOMAIN actives) < Cardinality(urls)
  /\ actives' = [s \in urls |-> 0]
  /\ upset' = (upset \/ Busy({"active"}))
  /\ UNCHANGED <<balancer, urls, position, level, current, effective, task, picks, picked>>

(* The servers with the least, under the read lock.                        *)
Look(r) ==
  /\ balancer \in Counting
  /\ task[r] = Idle /\ picked < MaxPicks
  /\ Cardinality(DOMAIN actives) >= Cardinality(urls)
  /\ task' = [task EXCEPT ![r] = [Idle EXCEPT !.at = "looked", !.from = Least(actives, urls)]]
  /\ picked' = picked + 1
  /\ UNCHANGED <<balancer, urls, position, level, current, effective, actives, picks, upset>>

(* One of them (by effective weights read later, so that any of them with  *)
(* weight, or none, may be found), counted under the lock.                 *)
Begin(r, s) ==
  /\ task[r].at = "looked" /\ s \in task[r].from
  /\ task' = [task EXCEPT ![r] = [Idle EXCEPT !.at = "active", !.server = s]]
  /\ actives' = [actives EXCEPT ![s] = @ + 1]
  /\ UNCHANGED <<balancer, urls, position, level, current, effective, picks, picked, upset>>

-----------------------------------------------------------------------------
(* mutant: a success takes no account of the weight that was given.        *)
Overweigh(s, ok) ==
  effective' = IF balancer \notin Adaptive THEN effective
               ELSE IF ok THEN [effective EXCEPT ![s] = @ + 1]
               ELSE [effective EXCEPT ![s] = IF @ > 0 THEN @ - 1 ELSE @]

(* What the deferred functions do: the request is no longer active, and a  *)
(* server loses weight with every failure and gains it back by successes.  *)
Weigh(s, ok) ==
  effective' = IF balancer \notin Adaptive THEN effective
               ELSE IF ok THEN [effective EXCEPT ![s] = IF @ < Weights[s] THEN @ + 1 ELSE @]
               ELSE [effective EXCEPT ![s] = IF @ > 0 THEN @ - 1 ELSE @]

(* mutant: a panic leaves the request active.                              *)
EndSometimes(r) ==
  LET s == task[r].server IN
  /\ task[r].at \in {"calling", "active"}
  /\ \E ok \in BOOLEAN :
       /\ Weigh(s, ok) /\ upset' = upset
       /\ actives' = IF ok /\ balancer \in Counting THEN [actives EXCEPT ![s] = @ - 1] ELSE actives
  /\ task' = [task EXCEPT ![r] = Idle]
  /\ UNCHANGED <<balancer, urls, position, level, current, picks, picked>>

End(r) ==
  LET s == task[r].server IN
  /\ task[r].at \in {"calling", "active"}
  /\ \E ok \in BOOLEAN : Weigh(s, ok) /\ upset' = (upset \/ (~ok /\ balancer \in Adaptive))
  /\ actives' = IF balancer \in Counting THEN [actives EXCEPT ![s] = @ - 1] ELSE actives
  /\ task' = [task EXCEPT ![r] = Idle]
  /\ UNCHANGED <<balancer, urls, position, level, current, picks, picked>>

(* The user of the client gives it one server more.                        *)
Extend ==
  /\ urls /= Servers /\ urls' = Servers
  /\ UNCHANGED <<balancer, position, level, current, effective, actives, task, picks, picked, upset>>

Next ==
  \/ Extend
  \/ \E r \in Requests :
       \/ Wrap(r) \/ Grow(r) \/ Look(r) \/ End(r)
       \/ \E s \in Servers : Pick(r, s) \/ Begin(r, s)

Spec == Init /\ [][Next]_bvars

-----------------------------------------------------------------------------
(* Properties *)

TypeOK ==
  /\ balancer \in Balancers /\ urls \subseteq Servers
  /\ position \in -1..(n + Cardinality(Requests))
  /\ level \in 0..MaxWeight
  /\ effective \in [Servers -> 0..n * MaxWeight]
  /\ picked \in 0..MaxPicks

(* Each round of the round robin, of the weighted one and of the smooth    *)
(* weighted one of nginx serves every server exactly its share, whoever    *)
(* picks, as long as nothing upsets it: no server is ahead of its share,   *)
(* and the round ends when all have theirs.                                *)
SharesKept == ~upset => \A s \in Servers : picks[s] <= Share(s)

(* However the effective weights move, the current weights of nginx always *)
(* balance: what one server is owed the others have had.                   *)
Balanced == balancer = "nginx" => Sum(current, Servers) = 0

(* The effective weight stays between 0 and the weight that was given,     *)
(* with as many requests ending at once as there may be.                   *)
WeightsBounded == \A s \in Servers : effective[s] \in 0..Weights[s]

(* The counters of the least active balancers are the requests under way,  *)
(* also after errors and panics; only a list that grows under running      *)
(* requests breaks them (Grow), for good.                                  *)
ActivesExact ==
  ~upset \/ balancer = "weightedLeastActive" =>
    \A s \in DOMAIN actives :
      actives[s] = Cardinality({r \in Requests : task[r].at = "active" /\ task[r].server = s})

-----------------------------------------------------------------------------
(* The inductive invariant behind WeightsBounded and ActivesExact: what    *)
(* each balancer may be doing, and on which servers.                       *)
Formed ==
  /\ balancer \in Balancers /\ urls \subseteq Servers /\ upset \in BOOLEAN
  /\ task \in [Requests -> [at : {"idle", "wrap", "calling", "looked", "active"},
                           server : Servers \union {0}, from : SUBSET Servers]]
  /\ \A r \in Requests :
       /\ task[r].at \in IF balancer \in Counting THEN {"idle", "looked", "active"} ELSE {"idle", "wrap", "calling"}
       /\ task[r].at \in {"wrap", "calling", "active"} => task[r].server \in Servers
  /\ effective \in [Servers -> Int]
  /\ actives \in [DOMAIN actives -> Int] /\ DOMAIN actives \subseteq Servers
  /\ balancer \notin Counting => DOMAIN actives = {}

(* And the one behind SharesKept, Balanced and TypeOK: how far each of the *)
(* fair balancers is in its round, and what it has given until there.      *)
Wraps == {r \in Requests : task[r].at = "wrap"}

(* The round of roundRobin has reached the server after position; the      *)
(* first of a round may be picked with its index past the end.             *)
RoundRobinRound ==
  balancer = "roundRobin" =>
    /\ position \in -1..(n - 1 + Cardinality(Wraps))
    /\ n = 1 => position = -1 /\ Wraps = {}
    /\ ~upset =>
         /\ position <= n
         /\ IF position = n THEN \E r \in Requests : Wraps = {r} ELSE Wraps = {}
         /\ LET last == IF position = n THEN 1 ELSE position + 1 IN
            picks = [s \in Servers |-> IF position /= n - 1 /\ s <= last THEN 1 ELSE 0]

(* The weighted round has served each server once for every level that its *)
(* weight reaches, at this level only up to the last chosen; it starts     *)
(* before the first level, or when the last server is served at the last.  *)
WeightedRound ==
  balancer = "weighted" =>
    /\ \/ level = 0 /\ position = 0
       \/ level \in GCD..MaxWeight /\ level % GCD = 0 /\ position \in 1..n
    /\ ~upset =>
         picks = [s \in Servers |->
           IF level = 0 \/ (level = GCD /\ position = n) \/ Weights[s] < level THEN 0
           ELSE (Weights[s] - level) \div GCD + IF s <= position THEN 1 ELSE 0]

(* The current weights of nginx are what each server is owed by the picks  *)
(* of this round, less what it has had.                                    *)
NginxRound ==
  balancer = "nginx" =>
    /\ current \in [Servers -> Int] /\ Sum(current, Servers) = 0
    /\ ~upset =>
         LET done == Sum(picks, Servers)  total == Sum(Weights, Servers) IN
         /\ effective = Weights /\ done < total
         /\ \A s \in Servers :
              picks[s] <= Weights[s] /\ current[s] = done * Weights[s] - total * picks[s]

Elsewhere ==
  /\ balancer \notin {"roundRobin", "weighted"} => position = 0
  /\ balancer /= "weighted" => level = 0
  /\ balancer /= "roundRobin" => Wraps = {}
  /\ balancer \notin Fair => picks = None

RoundInv ==
  /\ picks \in [Servers -> Nat] /\ picked \in 0..MaxPicks
  /\ RoundRobinRound /\ WeightedRound /\ NginxRound /\ Elsewhere

LoadInv == Formed /\ WeightsBounded /\ ActivesExact
=============================================================================

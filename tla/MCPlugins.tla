------------------------------ MODULE MCPlugins ------------------------------
(* Four parts of the client that meet in no shared state: the client with  *)
(* its plugin chains, the cluster, the load balancers and the rate limiter.*)
(* part says which of them moves; the others stand still.                  *)
EXTENDS Cluster, Sequences, TLC

CONSTANTS Plugins, Code, Calls, Users, MaxEdits, MaxAborts,
          Weights, Requests, MaxPicks,
          Clients, Interval, Sizes, Permits, Timeouts, MaxTime, MaxAcquires

ASSUME PluginsAssumption ==
  /\ MaxEdits \in Nat /\ MaxAborts \in Nat /\ MaxPicks \in Nat
  /\ Weights \in [1..Servers -> Nat \ {0}] /\ IsFiniteSet(Requests)
  /\ Interval \in Nat /\ Sizes \subseteq Nat /\ Permits \subseteq Nat /\ Timeouts \subseteq Nat
  /\ MaxTime \in Nat /\ MaxAcquires \in Nat

VARIABLES part,
          handlers, chain, user, edits, call, seen, cancels, cancelled, aborts, inUse, due,
          balancer, urls, position, level, current, effective, actives, task, picks, picked, upset,
          maxPermits, timeout, clock, earned, doing, asked, asks, granted, raced

corevars == <<handlers, chain, user, edits, call, seen, cancels, cancelled, aborts, inUse, due>>
loadvars == <<balancer, urls, position, level, current, effective, actives, task, picks, picked, upset>>
ratevars == <<maxPermits, timeout, clock, earned, doing, asked, asks, granted, raced>>
allvars  == <<part, cvars, corevars, loadvars, ratevars>>

(* A function as plugin and two structs with a Handler method, of whatever *)
(* types: methods taken through the interface share one code pointer.      *)
ThreePlugins == {"function", "log", "limiter"}
TwoCodes     == [p \in ThreePlugins |-> IF p = "function" THEN 1 ELSE 2]
ThreeWeights == <<4, 2, 2>>

Core == INSTANCE ClientCore
Load == INSTANCE LoadBalance WITH Servers <- 1..Servers
Rate == INSTANCE RateLimiter

Parts == {"core", "cluster", "balance", "rate"}

(* What has a choice of options makes it only if it is the part that moves.*)
Begin ==
  /\ Init /\ (part = "cluster" \/ (config = "failfast" /\ idempotent = [c \in Callers |-> TRUE]))
  /\ Core!Init
  /\ Load!Init /\ (part = "balance" \/ balancer = "random")
  /\ Rate!Init /\ (part = "rate" \/ \A p \in Permits, t \in Timeouts : maxPermits <= p /\ timeout <= t)

MCInit == part \in Parts /\ Begin

MCNext ==
  \/ part = "core"    /\ Core!Next /\ UNCHANGED <<part, cvars, loadvars, ratevars>>
  \/ part = "cluster" /\ Next      /\ UNCHANGED <<part, corevars, loadvars, ratevars>>
  \/ part = "balance" /\ Load!Next /\ UNCHANGED <<part, cvars, corevars, ratevars>>
  \/ part = "rate"    /\ Rate!Next /\ UNCHANGED <<part, cvars, corevars, loadvars>>

MCSpec == MCInit /\ [][MCNext]_allvars

Symmetry == Permutations(Calls) \union Permutations(Users)

-----------------------------------------------------------------------------
(* The invariants of the parts.                                            *)

(* The type invariants of all four.                                        *)
Types == TypeOK /\ Core!TypeOK /\ Load!TypeOK /\ Rate!TypeOK

(* ClientCore: a call passes the handlers of every plugin in use, and      *)
(* Abort reaches the calls in a transport, no other.                       *)
CallsGuarded == Core!UsedIsSeen /\ Core!CancelsExact

(* Cluster: the shared index names a server, a request is made as often as *)
(* its retries say, and tries all servers before it gives up.              *)
RetriesExact == IndexInRange /\ TriesExact /\ AllTried

(* LoadBalance: every server has its share of a round, the weights of nginx *)
(* keep their sum and range, and the counters are the requests under way.  *)
LoadBalanced == Load!SharesKept /\ Load!Balanced /\ Load!WeightsBounded /\ Load!ActivesExact

(* RateLimiter: requests that do not overlap keep to the rate.             *)
RateKept == Rate!RateKept
=============================================================================

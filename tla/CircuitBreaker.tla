--------------------------- MODULE CircuitBreaker ----------------------------
(* plugins/circuitbreaker: IOHandler counts the failures in a row, refuses *)
(* requests while the count is over Threshold and RecoverTime has not      *)
(* passed, and lets requests through again with half the count.  Count and *)
(* time are two atomics that concurrent requests read and write one by one;*)
(* the clock is the age of lastFailTime, as far as RecoverTime.            *)
EXTENDS Naturals, FiniteSets

CONSTANTS Requests,     \* callers, each one request at a time
          Threshold,
          RecoverTime,
          MaxChanges    \* how often the server goes down or comes back

ASSUME BreakerAssumption ==
  /\ IsFiniteSet(Requests)
  /\ Threshold \in Nat /\ RecoverTime \in Nat /\ MaxChanges \in Nat

VARIABLES failCount, age, up, changes,
          at,           \* the step of IOHandler each caller is at
          failures      \* history: requests that failed since the last that succeeded

bvars == <<failCount, age, up, changes, at, failures>>

Steps == {"idle", "over", "recovered", "calling", "succeeded", "failed", "counted", "refused"}

Init ==
  /\ failCount = 0 /\ age = RecoverTime /\ failures = 0
  /\ up \in BOOLEAN /\ changes = 0
  /\ at = [r \in Requests |-> "idle"]

Goto(r, from, to) == at[r] = from /\ at' = [at EXCEPT ![r] = to]

(* The server goes down or comes back; time passes.                        *)
Change ==
  /\ changes < MaxChanges
  /\ changes' = changes + 1 /\ up' = ~up
  /\ UNCHANGED <<failCount, age, at, failures>>

Tick ==
  /\ age < RecoverTime
  /\ age' = age + 1
  /\ UNCHANGED <<failCount, up, changes, at, failures>>

Load(r) ==
  /\ Goto(r, "idle", IF failCount > Threshold THEN "over" ELSE "calling")
  /\ UNCHANGED <<failCount, age, up, changes, failures>>

Interval(r) ==
  /\ Goto(r, "over", IF age < RecoverTime THEN "refused" ELSE "recovered")
  /\ UNCHANGED <<failCount, age, up, changes, failures>>

(* mutants: the half-open breaker keeps its count, or only restores it to  *)
(* the threshold.                                                          *)
KeepsCount(r) ==
  /\ Goto(r, "recovered", "calling")
  /\ UNCHANGED <<failCount, age, up, changes, failures>>
WholeThreshold(r) ==
  /\ Goto(r, "recovered", "calling")
  /\ failCount' = Threshold
  /\ UNCHANGED <<age, up, changes, failures>>

HalfOpen(r) ==
  /\ Goto(r, "recovered", "calling")
  /\ failCount' = Threshold \div 2
  /\ UNCHANGED <<age, up, changes, failures>>

(* next returns, fails or panics.                                          *)
Answer(r) ==
  /\ Goto(r, "calling", IF up THEN "succeeded" ELSE "failed")
  /\ UNCHANGED <<failCount, age, up, changes, failures>>

Clear(r) ==
  /\ Goto(r, "succeeded", "idle")
  /\ failCount' = 0 /\ failures' = 0
  /\ UNCHANGED <<age, up, changes>>

(* The history is only kept as far as the count can go (CountBounded).     *)
MostFailures == Threshold + Cardinality(Requests)
Count(r) ==
  /\ Goto(r, "failed", "counted")
  /\ failCount' = failCount + 1
  /\ failures' = IF failures < MostFailures THEN failures + 1 ELSE failures
  /\ UNCHANGED <<age, up, changes>>

Stamp(r) ==
  /\ Goto(r, "counted", "idle")
  /\ age' = 0
  /\ UNCHANGED <<failCount, up, changes, failures>>

(* mutant: a refusal counts as a failure, as it would inside the defer.    *)
RefusalStamps(r) ==
  /\ Goto(r, "refused", "idle")
  /\ age' = 0
  /\ UNCHANGED <<failCount, up, changes, failures>>

(* ErrBreaker, or the answer of the mock service in its place.             *)
Refuse(r) ==
  /\ Goto(r, "refused", "idle")
  /\ UNCHANGED <<failCount, age, up, changes, failures>>

Step(r) ==
  \/ Load(r) \/ Interval(r) \/ HalfOpen(r) \/ Answer(r)
  \/ Clear(r) \/ Count(r) \/ Stamp(r) \/ Refuse(r)

Next == Change \/ Tick \/ \E r \in Requests : Step(r)

(* Callers go on calling and their goroutines run; time passes.            *)
Fairness == WF_bvars(Tick) /\ \A r \in Requests : WF_bvars(Step(r))

Spec == Init /\ [][Next]_bvars /\ Fairness

-----------------------------------------------------------------------------
(* Properties *)

TypeOK ==
  /\ failCount \in Nat /\ failures \in Nat
  /\ age \in 0..RecoverTime
  /\ up \in BOOLEAN /\ changes \in 0..MaxChanges
  /\ at \in [Requests -> Steps]

(* A breaker that is over its threshold admits nobody until it has halved  *)
(* its count: what was admitted before can at most bring the count to the  *)
(* threshold and one for each caller, however their loads, probes and      *)
(* counts interleave.                                                      *)
Admitted == {r \in Requests : at[r] \in {"calling", "succeeded", "failed"}}
CountBounded == failCount + Cardinality(Admitted) <= Threshold + Cardinality(Requests)

(* The breaker opens only on failures: the count is never more than the    *)
(* failures since the last success and the half that a probe may bring     *)
(* back after that success, so no fewer than Threshold - Threshold \div 2  *)
(* failures in a row ever close the door.                                  *)
OpensOnFailures == failCount <= failures + Threshold \div 2

(* Once the server is back for good, the breaker closes and stays closed,  *)
(* whatever stale probes and failures were still under way.                *)
Recovers == <>[]up => <>[](failCount = 0)
=============================================================================

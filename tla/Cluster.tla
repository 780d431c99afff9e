------------------------------- MODULE Cluster -------------------------------
(* plugins/cluster/cluster.go, Cluster.Handler with the failover, failtry  *)
(* and failfast configurations: a failed request is made again, by the     *)
(* deferred function, until it succeeds or has been retried Retry times.   *)
(* All requests of a failover cluster share one index into the servers;    *)
(* the number of retries is kept in the context of the request, which a    *)
(* caller may use for its next request.  A sleep may last any time.        *)
EXTENDS Integers, FiniteSets

CONSTANTS Callers, Servers,     \* len(URLs)
          Retry, MaxRequests

ASSUME ClusterAssumption ==
  /\ IsFiniteSet(Callers) /\ Servers \in Nat \ {0} /\ Retry \in Nat /\ MaxRequests \in Nat

VARIABLES config,       \* failover, failtry or failfast (never changes)
          index,        \* the index of the failover configuration
          pc,           \* where each caller is in Handler
          idempotent,   \* of each caller's context
          url, retried, \* of each caller's context
          before,       \* history: retried when the request began
          tries, tried, \* history: of each request
          shared,       \* history: another request has failed meanwhile
          requests      \* how many have been made

cvars == <<config, index, pc, idempotent, url, retried, before, tries, tried, shared, requests>>

Init ==
  /\ config \in {"failover", "failtry", "failfast"}
  /\ index = 0 /\ requests = 0
  /\ pc = [c \in Callers |-> "idle"]
  /\ idempotent \in [Callers -> BOOLEAN]
  /\ url = [c \in Callers |-> 0] /\ retried = [c \in Callers |-> 0]
  /\ before = [c \in Callers |-> 0]
  /\ tries = [c \in Callers |-> 0] /\ tried = [c \in Callers |-> {}]
  /\ shared = [c \in Callers |-> FALSE]

Goto(c, from, to) == pc[c] = from /\ pc' = [pc EXCEPT ![c] = to]

(* Client.InvokeContext with a new context, or with the last one, whose    *)
(* Init only sets the URL again.                                           *)
Request(c) ==
  /\ requests < MaxRequests /\ requests' = requests + 1
  /\ \E s \in {"idle", "answered", "failed"} : Goto(c, s, "calling")
  /\ url' = [url EXCEPT ![c] = 0]
  /\ \E kept \in {0, retried[c]} : retried' = [retried EXCEPT ![c] = kept]
  /\ before' = [before EXCEPT ![c] = retried'[c]]
  /\ tries' = [tries EXCEPT ![c] = 1] /\ tried' = [tried EXCEPT ![c] = {0}]
  /\ shared' = [shared EXCEPT ![c] = FALSE]
  /\ UNCHANGED <<config, index, idempotent>>

(* next succeeds, or fails or panics; OnFailure only moves in a failover.  *)
Answer(c) ==
  /\ \/ Goto(c, "calling", "answered")
     \/ Goto(c, "calling", IF config = "failover" /\ Servers > 1 THEN "add" ELSE "decide")
  /\ UNCHANGED <<config, index, idempotent, url, retried, before, tries, tried, shared, requests>>

Others(c) == [d \in Callers |-> IF d = c THEN shared[d] ELSE TRUE]

(* mutant: an off-by-one at the last server.                               *)
MissesLast(c) ==
  /\ Goto(c, "add", IF index + 2 < Servers THEN "decide" ELSE "store")
  /\ index' = index + 1
  /\ url' = [url EXCEPT ![c] = IF index + 2 < Servers THEN index + 1 ELSE 0]
  /\ shared' = Others(c)
  /\ UNCHANGED <<config, idempotent, retried, before, tries, tried, requests>>

(* OnFailure, getIndex: the index goes up, and back to 0 in a step of its  *)
(* own when it has passed the last server.                                 *)
AddIndex(c) ==
  /\ Goto(c, "add", IF index + 1 < Servers THEN "decide" ELSE "store")
  /\ index' = index + 1
  /\ url' = [url EXCEPT ![c] = IF index + 1 < Servers THEN index + 1 ELSE 0]
  /\ shared' = Others(c)
  /\ UNCHANGED <<config, idempotent, retried, before, tries, tried, requests>>

(* mutant: the index is not set back.                                      *)
KeepsIndex(c) ==
  /\ Goto(c, "store", "decide")
  /\ UNCHANGED <<config, index, idempotent, url, retried, before, tries, tried, shared, requests>>

StoreIndex(c) ==
  /\ Goto(c, "store", "decide")
  /\ index' = 0
  /\ shared' = Others(c)
  /\ UNCHANGED <<config, idempotent, url, retried, before, tries, tried, requests>>

(* mutant: whether the request is idempotent is not asked.                 *)
AlwaysAgain(c) == config /= "failfast" /\ retried[c] < Retry

(* Once more (OnRetry counts and sleeps), or give the error back.          *)
Again(c) == config /= "failfast" /\ idempotent[c] /\ retried[c] < Retry

RetryRequest(c) ==
  /\ Again(c)
  /\ Goto(c, "decide", "calling")
  /\ retried' = [retried EXCEPT ![c] = @ + 1]
  /\ tries' = [tries EXCEPT ![c] = @ + 1]
  /\ tried' = [tried EXCEPT ![c] = @ \union {url[c]}]
  /\ UNCHANGED <<config, index, idempotent, url, before, shared, requests>>

Fail(c) ==
  /\ ~Again(c)
  /\ Goto(c, "decide", "failed")
  /\ UNCHANGED <<config, index, idempotent, url, retried, before, tries, tried, shared, requests>>

Step(c) == Answer(c) \/ AddIndex(c) \/ StoreIndex(c) \/ RetryRequest(c) \/ Fail(c)
Next == \E c \in Callers : Request(c) \/ Step(c)

Spec == Init /\ [][Next]_cvars

-----------------------------------------------------------------------------
(* Properties *)

TypeOK ==
  /\ index \in Nat
  /\ pc \in [Callers -> {"idle", "calling", "add", "store", "decide", "answered", "failed"}]
  /\ idempotent \in [Callers -> BOOLEAN]
  /\ retried \in [Callers -> 0..Retry]
  /\ requests \in 0..MaxRequests

(* The index names a server whenever it is used, and leaves the range only *)
(* as far as requests are about to set it back, however they interleave.   *)
Resetting == {c \in Callers : pc[c] = "store"}
IndexInRange ==
  /\ url \in [Callers -> 0..(Servers - 1)]
  /\ index <= Servers - 1 + Cardinality(Resetting)

(* A request that is not idempotent, or not to be retried, is never made   *)
(* twice; any other is given up only after Retry retries, those of the     *)
(* earlier requests of its context included, and never made more often.    *)
TriesExact ==
  \A c \in Callers :
    LET allowed == IF config /= "failfast" /\ idempotent[c] THEN 1 + Retry - before[c] ELSE 1
    IN  /\ tries[c] <= allowed
        /\ pc[c] = "failed" => tries[c] = allowed

(* A failover that no other failing request disturbs has tried every       *)
(* server before it gives up, wherever the shared index stood, if it may   *)
(* retry as often as there are servers.                                    *)
AllTried ==
  \A c \in Callers :
    config = "failover" /\ pc[c] = "failed" /\ ~shared[c] /\ tries[c] > Servers
      => tried[c] = 0..(Servers - 1)

(* Why they hold.  tries counts the retries since the request began, ...   *)
Kinds == {"failover", "failtry", "failfast"}
Places == {"idle", "calling", "add", "store", "decide", "answered", "failed"}
Formed ==
  /\ TypeOK /\ config \in Kinds /\ before \in [Callers -> 0..Retry] /\ tries \in [Callers -> Nat]
  /\ tried \in [Callers -> SUBSET (0..(Servers - 1))] /\ shared \in [Callers -> BOOLEAN]

Counted ==
  \A c \in Callers :
    /\ before[c] <= retried[c] /\ tries[c] = IF pc[c] = "idle" THEN 0 ELSE 1 + retried[c] - before[c]
    /\ pc[c] = "idle" => before[c] = 0
    /\ pc[c] /= "idle" => 0 \in tried[c]
    /\ config = "failfast" \/ ~idempotent[c] => retried[c] = before[c]

(* ... and while no other request moves the index, the servers tried are   *)
(* the last tries - 1 before it, going round; the one it names is next     *)
(* once OnFailure has moved it.                                            *)
Behind(c, at, by) ==
  \A j \in by..(tries[c] - 2 + by), k \in 0..(Servers - 1) : k = at - j \/ k = at - j + Servers => k \in tried[c]
Round ==
  \A c \in Callers :
    config = "failover" /\ Servers > 1 /\ ~shared[c] =>
      /\ pc[c] \in {"calling", "add"} => Behind(c, index, 0) /\ (tries[c] > 1 => index < Servers)
      /\ pc[c] = "store" => Behind(c, 0, 1) /\ url[c] = 0
      /\ pc[c] = "decide" => Behind(c, index, 1) /\ url[c] = index

ClusterInv == Formed /\ IndexInRange /\ Counted /\ TriesExact /\ Round /\ AllTried
=============================================================================

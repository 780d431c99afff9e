-------------------------- MODULE ConcurrentLimiter --------------------------
(* plugins/limiter/concurrent_limiter.go: a request puts a token in the    *)
(* tasks channel before it goes on and takes one out when it ends.  A full *)
(* channel parks senders and wakes them in the order they came (as Go's    *)
(* channels do); with a timeout a parked sender may give up first.         *)
EXTENDS Naturals, FiniteSets, SequencesExt

CONSTANTS Callers, Slots

VARIABLES timed,    \* is there a timeout (never changes)
          tasks,    \* len(l.tasks)
          queue,    \* the parked senders
          where     \* what each caller is doing

lvars == <<timed, tasks, queue, where>>

Init ==
  /\ timed \in BOOLEAN
  /\ tasks = 0 /\ queue = <<>>
  /\ where = [c \in Callers |-> "idle"]

Acquire(c) ==
  /\ where[c] = "idle"
  /\ IF tasks < Slots
       THEN tasks' = tasks + 1 /\ where' = [where EXCEPT ![c] = "running"] /\ UNCHANGED queue
       ELSE queue' = Append(queue, c) /\ where' = [where EXCEPT ![c] = "waiting"] /\ UNCHANGED tasks
  /\ UNCHANGED timed

(* mutant: the token of a sender that gave up is taken back all the same.  *)
GiveUpReleases(c) ==
  /\ timed /\ where[c] = "waiting"
  /\ \E i \in DOMAIN queue : queue[i] = c /\ queue' = RemoveAt(queue, i)
  /\ where' = [where EXCEPT ![c] = "idle"]
  /\ tasks' = tasks - 1
  /\ UNCHANGED timed

(* ErrTimeout: the sender leaves its place; its token is never in.         *)
GiveUp(c) ==
  /\ timed /\ where[c] = "waiting"
  /\ \E i \in DOMAIN queue : queue[i] = c /\ queue' = RemoveAt(queue, i)
  /\ where' = [where EXCEPT ![c] = "idle"]
  /\ UNCHANGED <<timed, tasks>>

(* next returns or fails (an error or a panic).                            *)
Finish(c) ==
  /\ where[c] = "running"
  /\ \E end \in {"returned", "failed"} : where' = [where EXCEPT ![c] = end]
  /\ UNCHANGED <<timed, tasks, queue>>

(* mutant: Release is called after next rather than deferred.              *)
ReleaseReturned(c) ==
  /\ where[c] \in {"returned", "failed"}
  /\ IF where[c] = "returned" /\ queue /= <<>>
       THEN /\ where' = [where EXCEPT ![c] = "idle", ![Head(queue)] = "running"]
            /\ queue' = Tail(queue)
       ELSE where' = [where EXCEPT ![c] = "idle"] /\ UNCHANGED queue
  /\ tasks' = IF where[c] = "returned" /\ queue = <<>> THEN tasks - 1 ELSE tasks
  /\ UNCHANGED timed

(* The deferred Release takes a token and lets the first sender put his.   *)
Release(c) ==
  /\ where[c] \in {"returned", "failed"} /\ tasks > 0
  /\ IF queue = <<>>
       THEN tasks' = tasks - 1 /\ where' = [where EXCEPT ![c] = "idle"] /\ UNCHANGED queue
       ELSE /\ where' = [where EXCEPT ![c] = "idle", ![Head(queue)] = "running"]
            /\ queue' = Tail(queue)
            /\ UNCHANGED tasks
  /\ UNCHANGED timed

Next == \E c \in Callers : Acquire(c) \/ GiveUp(c) \/ Finish(c) \/ Release(c)

(* Calls end, and an ended call releases.                                  *)
Fairness == \A c \in Callers : WF_lvars(Finish(c)) /\ WF_lvars(Release(c))

Spec == Init /\ [][Next]_lvars /\ Fairness

-----------------------------------------------------------------------------
(* Properties *)

Doing(s) == {c \in Callers : where[c] \in s}

TypeOK ==
  /\ timed \in BOOLEAN
  /\ tasks \in 0..Slots
  /\ queue \in Seq(Callers)
  /\ where \in [Callers -> {"idle", "waiting", "running", "returned", "failed"}]

(* A token for every request that runs or has still to release, and no     *)
(* other: none is lost by an error, a panic or a timeout, Release never    *)
(* waits for one, and at most Slots requests run.  Nobody waits, and nobody  *)
(* who waits is forgotten, while a token is free.                          *)
SlotsHeld ==
  /\ tasks = Cardinality(Doing({"running", "returned", "failed"}))
  /\ ToSet(queue) = Doing({"waiting"})
  /\ queue /= <<>> => tasks = Slots

(* Nobody is queued twice, which it takes to know that a token given on or *)
(* a place given up leaves nobody of the same name behind.                 *)
QueuedOnce == \A i, j \in DOMAIN queue : queue[i] = queue[j] => i = j
LimiterInv == TypeOK /\ SlotsHeld /\ QueuedOnce

(* Nobody waits for ever, however many callers keep coming: who waits runs *)
(* at last, or gives up if there is a timeout.                             *)
Served == \A c \in Callers : []<>(where[c] /= "waiting")
=============================================================================

------------------------------- MODULE Forking -------------------------------
(* plugins/cluster/cluster.go, Forking and Broadcast: one goroutine for    *)
(* each server sends the request.  Forking answers with the first success, *)
(* or with the error of the goroutine that brings the count of the others  *)
(* to zero; Broadcast waits for all and keeps the first error.             *)
EXTENDS Naturals, FiniteSets

CONSTANTS Workers      \* one for each of the client's URLs

VARIABLES plan,        \* "forking" or "broadcast" (never changes)
          worker,      \* what each goroutine is doing
          count,       \* count, or the WaitGroup
          once,        \* has once.Do run
          answer,      \* response and err: whose
          returned     \* has the handler returned

fvars == <<plan, worker, count, once, answer, returned>>

NoAnswer == [ok |-> {}, err |-> {}]
Bad == {"error", "panic"}

Init ==
  /\ plan \in {"forking", "broadcast"}
  /\ worker = [w \in Workers |-> "calling"]
  /\ count = Cardinality(Workers)
  /\ once = FALSE /\ answer = NoAnswer /\ returned = FALSE

Goto(w, from, to) == worker[w] = from /\ worker' = [worker EXCEPT ![w] = to]

(* next on one server: an answer, an error or a panic, whenever it comes.  *)
Call(w) ==
  /\ \E end \in Bad \union {"ok"} : Goto(w, "calling", end)
  /\ UNCHANGED <<plan, count, once, answer, returned>>

(* mutant: every goroutine closes and answers for itself.                  *)
EveryTime(new) == once' = TRUE /\ answer' = new

(* once.Do(f): close(done) is part of it in Forking.                       *)
Once(new) ==
  IF once THEN UNCHANGED <<once, answer>>
  ELSE once' = TRUE /\ answer' = new

(* Forking: a success is the answer if it is the first.                    *)
ForkOk(w) ==
  /\ plan = "forking"
  /\ Goto(w, "ok", "done")
  /\ Once([NoAnswer EXCEPT !.ok = {w}])
  /\ UNCHANGED <<plan, count, returned>>

(* mutant: an off-by-one in the count of the others.                       *)
ForkBadEarly(w) ==
  /\ plan = "forking" /\ \E bad \in Bad : Goto(w, bad, IF count - 1 <= 1 THEN "last" ELSE "done")
  /\ count' = count - 1
  /\ UNCHANGED <<plan, once, answer, returned>>
(* mutant: a panic is recovered from but not counted.                      *)
ForkBadUncounted(w) ==
  /\ plan = "forking" /\ \E bad \in Bad : Goto(w, bad, IF count - 1 <= 0 THEN "last" ELSE "done")
  /\ count' = IF worker[w] = "panic" THEN count ELSE count - 1
  /\ UNCHANGED <<plan, once, answer, returned>>

(* An error or a panic takes one off; the last has the last word.          *)
ForkBad(w) ==
  /\ plan = "forking" /\ \E bad \in Bad : Goto(w, bad, IF count - 1 <= 0 THEN "last" ELSE "done")
  /\ count' = count - 1
  /\ UNCHANGED <<plan, once, answer, returned>>

ForkLast(w) ==
  /\ Goto(w, "last", "done")
  /\ Once([NoAnswer EXCEPT !.err = {w}])
  /\ UNCHANGED <<plan, count, returned>>

(* Broadcast: the result is kept at its index, the first error too, and    *)
(* the deferred function tells the WaitGroup.                              *)
CastOk(w) ==
  /\ plan = "broadcast"
  /\ Goto(w, "ok", "leaving")
  /\ answer' = [answer EXCEPT !.ok = @ \union {w}]
  /\ UNCHANGED <<plan, count, once, returned>>

(* mutant: the error is stored after the WaitGroup was told.               *)
CastBadLate(w) ==
  /\ plan = "broadcast" /\ \E bad \in Bad : Goto(w, bad, "last")
  /\ count' = count - 1
  /\ UNCHANGED <<plan, once, answer, returned>>

CastBad(w) ==
  /\ plan = "broadcast" /\ \E bad \in Bad : Goto(w, bad, "leaving")
  /\ Once([answer EXCEPT !.err = {w}])
  /\ UNCHANGED <<plan, count, returned>>

Leave(w) ==
  /\ Goto(w, "leaving", "done")
  /\ count' = count - 1
  /\ UNCHANGED <<plan, once, answer, returned>>

(* <-done, wg.Wait().                                                      *)
Return ==
  /\ ~returned /\ IF plan = "forking" THEN once ELSE count = 0
  /\ returned' = TRUE
  /\ UNCHANGED <<plan, worker, count, once, answer>>

Step(w) == Call(w) \/ ForkOk(w) \/ ForkBad(w) \/ ForkLast(w) \/ CastOk(w) \/ CastBad(w) \/ Leave(w)
Next == Return \/ \E w \in Workers : Step(w)

(* Every call ends (the client's timeout sees to it).                      *)
Fairness == WF_fvars(Return) /\ \A w \in Workers : WF_fvars(Step(w))

Spec == Init /\ [][Next]_fvars /\ Fairness

-----------------------------------------------------------------------------
(* Properties *)

TypeOK ==
  /\ count \in 0..Cardinality(Workers)
  /\ worker \in [Workers -> Bad \union {"calling", "ok", "last", "leaving", "done"}]
  /\ once \in BOOLEAN /\ returned \in BOOLEAN

Still(s) == {w \in Workers : worker[w] \in s}

(* A forked request fails only if it failed everywhere: no server's answer *)
(* is then still to come; it succeeds with the answer of one server.       *)
ForkAnswers ==
  plan = "forking" /\ returned =>
    \/ answer.ok = {} /\ Cardinality(answer.err) = 1 /\ Still({"calling", "ok"}) = {}
    \/ answer.err = {} /\ Cardinality(answer.ok) = 1

(* The result of a broadcast is complete when it is read: every server has *)
(* put its result or its error, and there is an error if one failed.       *)
CastComplete ==
  plan = "broadcast" /\ returned =>
    /\ Still({"done"}) = Workers
    /\ answer.ok = Workers <=> answer.err = {}

(* What the handler has returned, late goroutines do not change.           *)
AnswerKept == [][returned => UNCHANGED answer]_fvars

(* Why they hold.  Until someone has answered a fork, the count is that of *)
(* the goroutines that have not been counted, so that there is a last one  *)
(* only when all have failed; the WaitGroup counts those that have not     *)
(* left.                                                                   *)
Answering == Bad \union {"calling", "ok"}

ForkCount ==
  plan = "forking" =>
    /\ Still({"leaving"}) = {}
    /\ count >= Cardinality(Still(Answering))
    /\ ~once => /\ count = Cardinality(Still(Answering))
                /\ answer = NoAnswer
                /\ Still({"last"}) # {} => count = 0
    /\ returned => once

ForkAnswered ==
  plan = "forking" /\ once =>
    \/ answer.ok = {} /\ (\E w \in Workers : answer.err = {w}) /\ Still({"calling", "ok"}) = {}
    \/ answer.err = {} /\ (\E w \in Workers : answer.ok = {w})

CastCount ==
  plan = "broadcast" =>
    /\ Still({"last"}) = {}
    /\ count = Cardinality(Still(Answering \union {"leaving"}))
    /\ returned => count = 0

CastAnswered ==
  plan = "broadcast" =>
    /\ once <=> answer.err # {}
    /\ answer.ok \subseteq Still({"leaving", "done"})
    /\ once <=> Still({"leaving", "done"}) \ answer.ok # {}

ForkInv ==
  /\ TypeOK /\ plan \in {"forking", "broadcast"}
  /\ answer \in [ok : SUBSET Workers, err : SUBSET Workers]
  /\ ForkCount /\ ForkAnswered /\ CastCount /\ CastAnswered

(* Both return, whatever fails or panics in whatever order.                *)
Returns == []<>returned
=============================================================================

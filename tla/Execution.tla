------------------------------ MODULE Execution ------------------------------
(* One request in the service: Service.Process runs the invoke handlers,   *)
(* and the method at their end, under a recover.  The timeout plugin runs  *)
(* the rest in a goroutine of its own and waits for it or for the timeout; *)
(* the oneway plugin does not wait at all.                                 *)
EXTENDS Naturals, Sequences

VARIABLES plugin,     \* "none", "timeout" or "oneway" (never changes)
          handler,    \* the goroutine of Process
          method,     \* the method, where it runs, and how it ended
          over,       \* is the context of the timeout plugin done
          inbox,      \* the channel c, with room for one answer
          reply,      \* what Process returns
          crashed     \* a panic has reached the top of a goroutine

evars == <<plugin, handler, method, over, inbox, reply, crashed>>

Ends == {"result", "error", "panic"}

Init ==
  /\ plugin \in {"none", "timeout", "oneway"}
  /\ handler = "called" /\ method = "none"
  /\ over = FALSE /\ inbox = <<>> /\ reply = "none" /\ crashed = FALSE

(* The handlers in front of the method.                                    *)
Start ==
  /\ handler = "called"
  /\ method' = "running"
  /\ IF plugin = "oneway" THEN handler' = "returned" /\ reply' = "empty"
     ELSE handler' = "waiting" /\ UNCHANGED reply
  /\ UNCHANGED <<plugin, over, inbox, crashed>>

(* The deadline passes, or the service's own context ends.                 *)
Expire ==
  /\ ~crashed /\ plugin = "timeout" /\ handler = "waiting" /\ ~over
  /\ over' = TRUE
  /\ UNCHANGED <<plugin, handler, method, inbox, reply, crashed>>

(* mutant: Process does not recover.                                       *)
EndUnrecovered ==
  /\ plugin = "none" /\ method = "running"
  /\ \E end \in Ends : reply' = end /\ crashed' = (end = "panic")
  /\ method' = "done" /\ handler' = "returned"
  /\ UNCHANGED <<plugin, over, inbox>>

(* The method ends in the goroutine of Process, which makes a panic an     *)
(* error.                                                                  *)
EndHere ==
  /\ plugin = "none" /\ method = "running"
  /\ \E end \in Ends : reply' = IF end = "panic" THEN "error" ELSE end
  /\ method' = "done" /\ handler' = "returned"
  /\ UNCHANGED <<plugin, over, inbox, crashed>>

(* It ends in a goroutine of its own, where nobody recovers.               *)
EndAside ==
  /\ plugin /= "none" /\ method = "running"
  /\ \E end \in Ends :
       /\ crashed' = (end = "panic")
       /\ method' = IF plugin = "timeout" /\ end /= "panic" THEN end ELSE "done"
  /\ UNCHANGED <<plugin, handler, over, inbox, reply>>

(* mutant: a channel without room, where the sender waits for the handler. *)
Rendezvous ==
  /\ method \in {"result", "error"} /\ handler = "waiting"
  /\ reply' = method /\ handler' = "returned" /\ method' = "done"
  /\ UNCHANGED <<plugin, over, inbox, crashed>>

(* c <- returnValue{result, err}                                           *)
Deliver ==
  /\ method \in {"result", "error"} /\ Len(inbox) < 1
  /\ inbox' = Append(inbox, method) /\ method' = "done"
  /\ UNCHANGED <<plugin, handler, over, reply, crashed>>

(* mutant: the handler waits for the method even when its time is over.    *)
WaitForMethod ==
  /\ ~crashed /\ plugin = "timeout" /\ handler = "waiting"
  /\ inbox /= <<>> /\ reply' = Head(inbox) /\ inbox' = Tail(inbox)
  /\ handler' = "returned"
  /\ UNCHANGED <<plugin, method, over, crashed>>

(* The select: either, if both are there.                                  *)
Select ==
  /\ ~crashed /\ plugin = "timeout" /\ handler = "waiting"
  /\ \/ over /\ reply' = "timeout" /\ UNCHANGED inbox
     \/ inbox /= <<>> /\ reply' = Head(inbox) /\ inbox' = Tail(inbox)
  /\ handler' = "returned"
  /\ UNCHANGED <<plugin, method, over, crashed>>

Next == Start \/ Expire \/ EndHere \/ EndAside \/ Deliver \/ Select

(* Goroutines run and timers fire; no method has to end.                   *)
Fairness == WF_evars(Start) /\ WF_evars(Expire) /\ WF_evars(Deliver) /\ WF_evars(Select)

Spec == Init /\ [][Next]_evars /\ Fairness

-----------------------------------------------------------------------------
(* Properties *)

TypeOK ==
  /\ handler \in {"called", "waiting", "returned"}
  /\ method \in {"none", "running", "result", "error", "done"}
  /\ Len(inbox) <= 1
  /\ reply \in {"none", "empty", "result", "error", "timeout"}

(* A panic of a method ends the request and no more; only in a goroutine   *)
(* of the timeout or the oneway plugin does it end the process.            *)
PanicContained == crashed => plugin /= "none"

(* What keeps them: only the method's answers are in the channel.          *)
ExecutionInv ==
  /\ TypeOK /\ PanicContained
  /\ plugin \in {"none", "timeout", "oneway"}
  /\ inbox \in Seq({"result", "error"}) /\ over \in BOOLEAN /\ crashed \in BOOLEAN

(* A request under the timeout plugin is answered in time, with the method *)
(* still running if need be, ...                                           *)
InTime == []<>(plugin = "timeout" /\ handler = "waiting" => crashed)

(* ... and a method that ends later leaves no goroutine behind.            *)
NoGoroutineLeft == []<>(method \notin {"result", "error"})
=============================================================================

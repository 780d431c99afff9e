------------------------------ MODULE MockAgent ------------------------------
(* mock/agent.go and mock/transport.go: a call runs the handler of its     *)
(* address in a goroutine that holds the agent's read lock to the end,     *)
(* while Register and Cancel take the write lock.  A handler may itself    *)
(* call through the agent; a waiting writer then keeps the nested call     *)
(* from the read lock, until the nested caller's timeout.                  *)
EXTENDS Naturals, Sequences

CONSTANTS Nested,      \* call -> the call whose handler makes it, or itself
          MaxWrites

VARIABLES registered,  \* is there a handler for the address
          readers,     \* who holds the read lock
          writer,      \* Register or Cancel: "none", "waiting", "holding"
          writes,
          caller,      \* Transport of each call: "idle", "waiting", "done"
          gor,         \* its goroutine
          result,      \* its channel, with room for one
          outcome      \* what the caller got

avars == <<registered, readers, writer, writes, caller, gor, result, outcome>>

AllCalls == DOMAIN Nested
Parent(c) == Nested[c]
Root(c) == Nested[c] = c

Init ==
  /\ registered = TRUE /\ readers = {} /\ writer = "none" /\ writes = 0
  /\ caller = [c \in AllCalls |-> "idle"] /\ gor = [c \in AllCalls |-> "none"]
  /\ result = [c \in AllCalls |-> <<>>] /\ outcome = [c \in AllCalls |-> "none"]

Transport(c) ==
  /\ caller[c] = "idle" /\ (Root(c) \/ gor[Parent(c)] = "handling")
  /\ caller' = [caller EXCEPT ![c] = "waiting"]
  /\ gor' = [gor EXCEPT ![c] = "lock"]
  /\ UNCHANGED <<registered, readers, writer, writes, result, outcome>>

(* RLock: not while a writer holds the lock or waits for it.               *)
RLock(c) ==
  /\ gor[c] = "lock" /\ writer = "none"
  /\ readers' = readers \union {c}
  /\ gor' = [gor EXCEPT ![c] = IF registered THEN "handling" ELSE "stopped"]
  /\ UNCHANGED <<registered, writer, writes, caller, result, outcome>>

(* The handler returns, when its own calls have, and the deferred RUnlock. *)
Handle(c) ==
  /\ gor[c] \in {"handling", "stopped"}
  /\ \A d \in AllCalls \ {c} : Parent(d) = c => caller[d] /= "waiting"
  /\ readers' = readers \ {c}
  /\ gor' = [gor EXCEPT ![c] = IF gor[c] = "handling" THEN "answer" ELSE "error"]
  /\ UNCHANGED <<registered, writer, writes, caller, result, outcome>>

(* mutant: an unbuffered channel.                                          *)
DeliverToWaiting(c) ==
  /\ gor[c] \in {"answer", "error"} /\ caller[c] = "waiting"
  /\ outcome' = [outcome EXCEPT ![c] = gor[c]]
  /\ caller' = [caller EXCEPT ![c] = "done"]
  /\ gor' = [gor EXCEPT ![c] = "gone"]
  /\ UNCHANGED <<registered, readers, writer, writes, result>>

Deliver(c) ==
  /\ gor[c] \in {"answer", "error"} /\ Len(result[c]) < 1
  /\ result' = [result EXCEPT ![c] = <<gor[c]>>]
  /\ gor' = [gor EXCEPT ![c] = "gone"]
  /\ UNCHANGED <<registered, readers, writer, writes, caller, outcome>>

(* mutant: a transport that only waits for the result.                     *)
ReturnResult(c) ==
  /\ caller[c] = "waiting"
  /\ result[c] /= <<>> /\ outcome' = [outcome EXCEPT ![c] = Head(result[c])]
  /\ caller' = [caller EXCEPT ![c] = "done"]
  /\ UNCHANGED <<registered, readers, writer, writes, gor, result>>

(* The select of Transport: the result, or the end of the call's context.  *)
Return(c) ==
  /\ caller[c] = "waiting"
  /\ \/ result[c] /= <<>> /\ outcome' = [outcome EXCEPT ![c] = Head(result[c])]
     \/ outcome' = [outcome EXCEPT ![c] = "timeout"]
  /\ caller' = [caller EXCEPT ![c] = "done"]
  /\ UNCHANGED <<registered, readers, writer, writes, gor, result>>

(* Register and Cancel.                                                    *)
Lock ==
  /\ writer = "none" /\ writes < MaxWrites
  /\ writer' = "waiting" /\ writes' = writes + 1
  /\ UNCHANGED <<registered, readers, caller, gor, result, outcome>>

(* mutant: the map is changed under the read lock only.                    *)
WriteShared ==
  /\ writer = "waiting"
  /\ writer' = "none" /\ registered' = ~registered
  /\ UNCHANGED <<readers, writes, caller, gor, result, outcome>>

Write ==
  /\ writer = "waiting" /\ readers = {}
  /\ writer' = "none" /\ registered' = ~registered
  /\ UNCHANGED <<readers, writes, caller, gor, result, outcome>>

Step(c) == RLock(c) \/ Handle(c) \/ Deliver(c)
Next == Lock \/ Write \/ \E c \in AllCalls : Transport(c) \/ Step(c) \/ Return(c)

(* Handlers return, contexts end, the lock is given to who can have it.    *)
Spec == Init /\ [][Next]_avars /\ WF_avars(Write)
             /\ \A c \in AllCalls : WF_avars(Step(c)) /\ WF_avars(Return(c))

-----------------------------------------------------------------------------
(* Properties *)

TypeOK ==
  /\ readers \subseteq AllCalls /\ writer \in {"none", "waiting"} /\ writes \in 0..MaxWrites
  /\ caller \in [AllCalls -> {"idle", "waiting", "done"}]

(* A handler that runs is that of a registered server: Cancel (the close   *)
(* of a server) returns only when none of its handlers runs any more.      *)
ClosedIsQuiet == ~registered => \A c \in AllCalls : gor[c] /= "handling"

(* What keeps it: the readers are the goroutines in or before a handler,   *)
(* and a call has one goroutine.                                           *)
MockInv ==
  /\ TypeOK /\ ClosedIsQuiet
  /\ registered \in BOOLEAN
  /\ gor \in [AllCalls -> {"none", "lock", "handling", "stopped", "answer", "error", "gone"}]
  /\ readers = {c \in AllCalls : gor[c] \in {"handling", "stopped"}}
  /\ \A c \in AllCalls : caller[c] = "idle" => gor[c] = "none"

(* Nested calls and a waiting Register or Cancel do not block each other   *)
(* for ever: the timeout of the nested call frees the writer, ...          *)
WriterServed == []<>(writer = "none")

(* ... and the goroutine of every call ends, its caller waiting or not.    *)
CallsEnd == \A c \in AllCalls : []<>(gor[c] \in {"none", "gone"})
=============================================================================

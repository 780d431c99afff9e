------------------------------ MODULE RpcChannel ------------------------------
(***************************************************************************)
(* What core.Transport promises to the client (rpc/core/client.go): a      *)
(* call is executed at most once by the server, it returns at most once,   *)
(* and a call that returns a response returns the response to its own      *)
(* request.  A call may fail although the server executed it, and the      *)
(* server may execute it after it failed: the contract is at-most-once.    *)
(***************************************************************************)
EXTENDS Naturals

CONSTANTS
  Calls,   \* the calls made through the transport
  None     \* "no response"

VARIABLES
  phase,     \* phase[k]: what the caller of k sees
  executed,  \* executed[k]: how often the server executed k
  reply      \* reply[k]: the call whose response k returned

vars == <<phase, executed, reply>>

Init ==
  /\ phase = [k \in Calls |-> "idle"]
  /\ executed = [k \in Calls |-> 0]
  /\ reply = [k \in Calls |-> None]

\* The client calls Transport.
Invoke(k) ==
  /\ phase[k] = "idle"
  /\ phase' = [phase EXCEPT ![k] = "pending"]
  /\ UNCHANGED <<executed, reply>>

\* The server executes a request that was sent, once.
Execute(k) ==
  /\ phase[k] # "idle"
  /\ executed[k] = 0
  /\ executed' = [executed EXCEPT ![k] = 1]
  /\ UNCHANGED <<phase, reply>>

\* Transport returns (response, nil).
Return(k) ==
  /\ phase[k] = "pending"
  /\ executed[k] = 1
  /\ phase' = [phase EXCEPT ![k] = "replied"]
  /\ reply' = [reply EXCEPT ![k] = k]
  /\ UNCHANGED executed

\* Transport returns (nil, err).
Fail(k) ==
  /\ phase[k] = "pending"
  /\ phase' = [phase EXCEPT ![k] = "failed"]
  /\ UNCHANGED <<executed, reply>>

Next == \E k \in Calls : Invoke(k) \/ Execute(k) \/ Return(k) \/ Fail(k)

Spec == Init /\ [][Next]_vars
===============================================================================

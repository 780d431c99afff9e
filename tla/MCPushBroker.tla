---------------------------- MODULE MCPushBroker ----------------------------
(* Small instances of PushBroker for TLC. *)
EXTENDS PushBroker, TLC

Symmetry == Permutations(Messages) \cup Permutations(Polls) \cup Permutations(Loops)
            \cup Permutations(Caches) \cup Permutations(Topics)

Choice(on) == [timeout      |-> "timeout" \in on,
               heartBeat    |-> "heartBeat" \in on,
               unsubscribes |-> "unsubscribes" \in on,
               unreliable   |-> "unreliable" \in on]

\* Everything but heartbeats; or heartbeats and polls that time out, over a link
\* that does not fail.
SafetyOptions == {Choice({"timeout", "unsubscribes", "unreliable"}),
                  Choice({"timeout", "heartBeat"})}

\* Polls that do not time out, and that nothing disturbs.
QuietOptions == {Choice({})}

TimeoutOptions == {Choice({"timeout"})}
===============================================================================

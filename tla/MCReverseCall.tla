---------------------------- MODULE MCReverseCall ----------------------------
(* Small instances of ReverseCall for TLC. *)
EXTENDS ReverseCall, TLC

Symmetry == Permutations(Calls) \cup Permutations(Polls)

Choice(on) == [idleTimeout |-> "idleTimeout" \in on,
               heartBeat   |-> "heartBeat" \in on,
               closes      |-> "closes" \in on,
               unreliable  |-> "unreliable" \in on]

\* Polls that time out and fail; or heartbeats, over a link that does not fail.
SafetyOptions == {Choice({"idleTimeout", "unreliable"}), Choice({"heartBeat"})}

\* Polls that time out and fail, and a provider that closes.  With a begin call
\* that never fails Listen may wait for ever for a begin that cannot put emptyCall.
ClosingOptions == {Choice({"idleTimeout", "closes", "unreliable"})}

\* Polls that do not time out, and that nothing disturbs.
QuietOptions == {Choice({})}

TimeoutOptions == {Choice({"idleTimeout"})}
===============================================================================

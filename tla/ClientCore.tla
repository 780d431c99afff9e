------------------------------ MODULE ClientCore -----------------------------
(* core/client.go and core/plugin_manager.go: calls go through the invoke  *)
(* handlers and the IO handlers, each a chain built by Use and Unuse under *)
(* a lock and stored as a snapshot that calls load without it, and on to   *)
(* the transport with a context that Abort can cancel.                     *)
EXTENDS Naturals, FiniteSets, SequencesExt

CONSTANTS Plugins,      \* plugins with both kinds of handlers
          Code,         \* the code pointers of their handlers, by which Unuse compares
          Calls, Users, MaxEdits, MaxAborts

VARIABLES handlers,     \* of each manager
          chain,        \* the snapshot in its atomic pointer
          user,         \* what each user of Use and Unuse is doing
          edits,      \* how many have begun
          call,         \* what each call is doing
          seen,         \* the chains it has loaded
          cancels,      \* cancelFuncs, by the calls they cancel
          cancelled,    \* the calls whose context is over
          aborts,       \* how often Abort has been called
          inUse,        \* history: the plugins whose Use has returned, and no Unuse begun
                        \* since the Use did
          due           \* history: those of them that each call has to pass

cvars == <<handlers, chain, user, edits, call, seen, cancels, cancelled, aborts, inUse, due>>

Managers == {"invoke", "io"}
NoChains == [m \in Managers |-> <<>>]
Resting  == [op |-> "none", p |-> "none", m |-> "invoke", at |-> "idle", alone |-> TRUE]

Init ==
  /\ handlers = NoChains /\ chain = NoChains
  /\ user = [u \in Users |-> Resting] /\ edits = 0
  /\ call = [c \in Calls |-> "idle"] /\ seen = [c \in Calls |-> NoChains]
  /\ cancels = {} /\ cancelled = {} /\ aborts = 0
  /\ inUse = {} /\ due = [c \in Calls |-> {}]

-----------------------------------------------------------------------------
(* Use and Unuse: the invoke manager first, then the IO manager.           *)
Locked(m) == \E u \in Users : user[u].m = m /\ user[u].at = "locked"

SameCode(p) == {q \in Plugins : Code[q] = Code[p]}

Unusing(p)  == \E v \in Users : user[v].op = "Unuse" /\ user[v].p \in SameCode(p)

Begin(u, op, p) ==
  /\ user[u] = Resting /\ edits < MaxEdits
  /\ edits' = edits + 1
  /\ user' = [v \in Users |->
       CASE v = u -> [op |-> op, p |-> p, m |-> "invoke", at |-> "lock", alone |-> ~Unusing(p)]
         [] v /= u /\ op = "Unuse" /\ user[v].p \in SameCode(p) -> [user[v] EXCEPT !.alone = FALSE]
         [] OTHER -> user[v]]
  /\ inUse' = IF op = "Unuse" THEN inUse \ SameCode(p) ELSE inUse
  /\ due' = IF op = "Unuse" THEN [c \in Calls |-> due[c] \ SameCode(p)] ELSE due
  /\ UNCHANGED <<handlers, chain, call, seen, cancels, cancelled, aborts>>

(* The sequence s without the members of S, the others in their order.     *)
Without(s, S) ==
  LET kept     == {i \in DOMAIN s : s[i] \notin S}
      Place(i) == Cardinality(kept \intersect 1..i)
  IN  [k \in 1..Cardinality(kept) |-> s[CHOOSE i \in kept : Place(i) = k]]

(* mutant: the list is read before the lock is taken.                      *)
ChangeUnlocked(u) ==
  LET m == user[u].m  p == user[u].p IN
  /\ user[u].at = "lock"
  /\ handlers' = [handlers EXCEPT ![m] =
       IF user[u].op = "Use" THEN Append(chain[m], p) ELSE Without(chain[m], SameCode(p))]
  /\ user' = [user EXCEPT ![u].at = "locked"]
  /\ UNCHANGED <<chain, edits, call, seen, cancels, cancelled, aborts, inUse, due>>

(* The list edits under the lock; Unuse drops every handler whose code     *)
(* is that of p: when p is a struct, every other struct plugin too.        *)
Change(u) ==
  LET m == user[u].m  p == user[u].p IN
  /\ user[u].at = "lock" /\ ~Locked(m)
  /\ handlers' = [handlers EXCEPT ![m] =
       IF user[u].op = "Use" THEN Append(@, p) ELSE Without(@, SameCode(p))]
  /\ user' = [user EXCEPT ![u].at = "locked"]
  /\ UNCHANGED <<chain, edits, call, seen, cancels, cancelled, aborts, inUse, due>>

(* rebuildHandler and the unlock.                                          *)
Rebuild(u) ==
  LET m == user[u].m  last == m = "io" IN
  /\ user[u].at = "locked"
  /\ chain' = [chain EXCEPT ![m] = handlers[m]]
  /\ user' = [user EXCEPT ![u] = IF last THEN Resting ELSE [@ EXCEPT !.m = "io", !.at = "lock"]]
  /\ inUse' = IF last /\ user[u].op = "Use" /\ user[u].alone
              THEN inUse \union {user[u].p} ELSE inUse
  /\ UNCHANGED <<handlers, edits, call, seen, cancels, cancelled, aborts, due>>

-----------------------------------------------------------------------------
(* A call: InvokeContext loads the invoke chain, Request the IO chain.     *)
Invoke(c) ==
  /\ call[c] = "idle"
  /\ call' = [call EXCEPT ![c] = "invoked"]
  /\ seen' = [seen EXCEPT ![c] = [NoChains EXCEPT !.invoke = chain.invoke]]
  /\ due' = [due EXCEPT ![c] = inUse]
  /\ UNCHANGED <<handlers, chain, user, edits, cancels, cancelled, aborts, inUse>>

Request(c) ==
  /\ call[c] = "invoked"
  /\ call' = [call EXCEPT ![c] = "requested"]
  /\ seen' = [seen EXCEPT ![c].io = chain.io]
  /\ UNCHANGED <<handlers, chain, user, edits, cancels, cancelled, aborts, inUse, due>>

Transport(c) ==
  /\ call[c] = "requested"
  /\ call' = [call EXCEPT ![c] = "sent"]
  /\ cancels' = cancels \union {c}
  /\ UNCHANGED <<handlers, chain, user, edits, seen, cancelled, aborts, inUse, due>>

(* mutant: only a call that was not aborted tidies up.                     *)
ReturnOnly(c) ==
  /\ call[c] = "sent"
  /\ call' = [call EXCEPT ![c] = "idle"]
  /\ seen' = [seen EXCEPT ![c] = NoChains] /\ due' = [due EXCEPT ![c] = {}]
  /\ UNCHANGED <<handlers, chain, user, edits, aborts, inUse, cancels, cancelled>>

(* The transport answers, or its context is over; the deferred function    *)
(* removes the cancel function and calls it.                               *)
Return(c) ==
  /\ call[c] = "sent"
  /\ call' = [call EXCEPT ![c] = "idle"]
  /\ seen' = [seen EXCEPT ![c] = NoChains] /\ due' = [due EXCEPT ![c] = {}]
  /\ cancels' = cancels \ {c} /\ cancelled' = cancelled \ {c}
  /\ UNCHANGED <<handlers, chain, user, edits, aborts, inUse>>

(* Abort empties the list under the lock (and aborts the transports).      *)
Abort ==
  /\ aborts < MaxAborts /\ aborts' = aborts + 1
  /\ cancels' = {} /\ cancelled' = cancelled \union cancels
  /\ UNCHANGED <<handlers, chain, user, edits, call, seen, inUse, due>>

Next ==
  \/ Abort
  \/ \E u \in Users : Change(u) \/ Rebuild(u) \/ \E p \in Plugins, op \in {"Use", "Unuse"} : Begin(u, op, p)
  \/ \E c \in Calls : Invoke(c) \/ Request(c) \/ Transport(c) \/ Return(c)

Spec == Init /\ [][Next]_cvars

-----------------------------------------------------------------------------
(* Properties *)

TypeOK ==
  /\ edits \in 0..MaxEdits /\ aborts \in 0..MaxAborts
  /\ call \in [Calls -> {"idle", "invoked", "requested", "sent"}]
  /\ cancels \subseteq Calls /\ cancelled \subseteq Calls
  /\ inUse \subseteq Plugins /\ due \in [Calls -> SUBSET Plugins]

(* A call that begins after Use of a plugin has returned passes its invoke *)
(* handler and its IO handler, whatever other plugins are used or unused   *)
(* at the same time, until an Unuse names it or another with its code.  (A *)
(* Use and an Unuse of one plugin at once may leave one of its handlers.)  *)
UsedIsSeen ==
  \A c \in Calls :
    /\ call[c] = "invoked"               => due[c] \subseteq ToSet(seen[c].invoke)
    /\ call[c] \in {"requested", "sent"} => due[c] \subseteq ToSet(seen[c].io)

(* Abort finds the cancel function of every call in a transport that it    *)
(* has not cancelled yet, and none of a call that is over.                 *)
CancelsExact ==
  /\ cancels \intersect cancelled = {}
  /\ cancels \union cancelled = {c \in Calls : call[c] = "sent"}

-----------------------------------------------------------------------------
(* The inductive invariant behind UsedIsSeen and CancelsExact, in parts.   *)

Shaped ==
  /\ user \in [Users -> [op : {"none", "Use", "Unuse"}, p : Plugins \union {"none"}, m : Managers,
                        at : {"idle", "lock", "locked"}, alone : BOOLEAN]]
  /\ \A u \in Users : user[u].at = "idle"  => user[u].op = "none"
  /\ \A u \in Users : user[u].at /= "idle" => user[u].op /= "none" /\ user[u].p \in Plugins
  /\ handlers \in [Managers -> Seq(Plugins)] /\ chain \in [Managers -> Seq(Plugins)]
  /\ seen \in [Calls -> [Managers -> Seq(Plugins)]]

(* Whose Use has returned is in both lists and both snapshots, and nobody  *)
(* is about to take it out.                                                *)
InBoth == \A p \in inUse : /\ ~Unusing(p)
                          /\ \A m \in Managers : p \in ToSet(handlers[m]) /\ p \in ToSet(chain[m])

(* A Use that no Unuse has met has left its plugin wherever it has been.   *)
OnItsWay ==
  \A u \in Users :
    LET p == user[u].p  m == user[u].m IN
    user[u].op = "Use" /\ user[u].alone =>
      /\ ~Unusing(p)
      /\ user[u].at = "locked" => p \in ToSet(handlers[m])
      /\ m = "io" => p \in ToSet(handlers["invoke"]) /\ p \in ToSet(chain["invoke"])

StillInUse == \A c \in Calls : due[c] \subseteq inUse

CoreInv == TypeOK /\ Shaped /\ InBoth /\ OnItsWay /\ StillInUse /\ UsedIsSeen /\ CancelsExact
=============================================================================

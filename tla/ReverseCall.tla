----------------------------- MODULE ReverseCall -----------------------------
(***************************************************************************)
(* Reverse calls (rpc/plugins/reverse): the service calls a client that    *)
(* long-polls.  caller.go is the service side: Invoke appends a call to    *)
(* the cache of the client's id and hands the cache to the responder of    *)
(* the poll that is parked, if one is; begin answers a poll; end delivers  *)
(* results.  provider.go is the client side: Listen polls and dispatches.  *)
(*                                                                         *)
(* One id is modelled: every map of Caller is keyed by it.  A step is one  *)
(* operation on a concurrent map, a mutex or a channel.                    *)
(***************************************************************************)
EXTENDS Naturals, FiniteSets

CONSTANTS
  Calls,        \* the invocations of InvokeContext
  Polls,        \* names for the begin calls in existence at one time
  Options,      \* the settings and surroundings considered, one in a behaviour
  Closer,       \* the close call, as somebody who stops a poll
  Nil,          \* the nil answer
  None

\* A poll is not Closer, None or a state of Listen.
ASSUME PollsAssumption == Polls \cap {Closer, None, "off", "loop"} = {}
ASSUME OptionAssumption ==
  Options \subseteq [idleTimeout : BOOLEAN, heartBeat : BOOLEAN,
                     closes : BOOLEAN, unreliable : BOOLEAN]
ASSUME NoneAssumption == None # Nil /\ \A S \in SUBSET Calls : S # None /\ S # Nil

VARIABLES
  options,    \* the one of this behaviour
  \* Caller
  cache,      \* calls[id]: the calls not yet taken
  registered, \* results[id]: the calls with a result channel in the map
  result,     \* result[k]: that channel: whose result it holds, or None
  responder,  \* responders[id]: the poll whose responder is parked, or None
  chan,       \* chan[n]: the responder channel of poll n (capacity 1): None
              \*          when empty, Nil, or the set of calls it holds
  online,     \* onlines[id]: the poll whose channel is there, or None
  signalled,  \* signalled[n]: its online channel holds true
  \* the goroutines of the service
  ipc,        \* ipc[k]: where InvokeContext is
  popped,     \* popped[k]: the responder response has popped
  taken,      \* taken[k]: the calls send has taken
  reply,      \* reply[k]: whose result InvokeContext returned
  pc,         \* pc[n]: where begin is; pc[Closer]: where close is
  victim,     \* victim[n]: the responder stop has popped
  hb,         \* hb[n]: the heartbeat goroutine of begin
  \* Provider
  answer,     \* answer[n]: what begin returned and Listen has not yet read
  listen,     \* "off", "loop", or the poll that Listen waits for
  closed,     \* p.closed = 1
  batch,      \* batch[n]: the calls of dispatch still to process
  finished,   \* finished[n]: their results, or None when nothing is dispatched
  executed    \* executed[k]: how often the provider processed k

invokeVars   == <<ipc, popped, taken, reply>>
tableVars    == <<cache, registered, result>>
pollVars     == <<responder, chan, pc, victim, answer>>
onlineVars   == <<online, signalled, hb>>
providerVars == <<listen, closed, batch, finished, executed>>
vars == <<options, invokeVars, tableVars, pollVars, onlineVars, providerVars>>

IdleTimeout == options.idleTimeout  \* c.IdleTimeout > 0
HeartBeat == options.heartBeat      \* c.HeartBeat > 0
Closes == options.closes            \* Provider.Close may be called
Unreliable == options.unreliable    \* begin and end calls may fail: timeouts, broken links

Stoppers == Polls \cup {Closer}

TypeOK ==
  /\ options \in Options
  /\ cache \in SUBSET Calls /\ registered \in SUBSET Calls
  /\ result \in [Calls -> Calls \cup {None}]
  /\ responder \in Polls \cup {None}
  /\ chan \in [Polls -> {None, Nil} \cup SUBSET Calls]
  /\ online \in Polls \cup {None}
  /\ signalled \in [Polls -> BOOLEAN]
  /\ ipc \in [Calls -> {"idle", "register", "pop", "take", "deliver", "restore",
                        "refuse", "wait", "replied", "failed"}]
  /\ popped \in [Calls -> Polls \cup {None}]
  /\ taken \in [Calls -> SUBSET Calls]
  /\ reply \in [Calls -> Calls \cup {None}]
  /\ pc \in [Stoppers -> {"free", "called", "stop", "mark", "send", "park",
                          "idle", "expire", "await", "done"}]
  /\ victim \in [Stoppers -> Polls \cup {None}]
  /\ hb \in [Polls -> {"off", "on", "remove", "done"}]
  /\ answer \in [Polls -> {None, Nil} \cup SUBSET Calls]
  /\ listen \in {"off", "loop"} \cup Polls
  /\ closed \in BOOLEAN
  /\ batch \in [Polls -> SUBSET Calls]
  /\ finished \in [Polls -> {None} \cup SUBSET Calls]
  /\ executed \in [Calls -> Nat]

Init ==
  /\ options \in Options
  /\ cache = {} /\ registered = {}
  /\ result = [k \in Calls |-> None]
  /\ responder = None
  /\ chan = [n \in Polls |-> None]
  /\ online = None
  /\ signalled = [n \in Polls |-> FALSE]
  /\ ipc = [k \in Calls |-> "idle"]
  /\ popped = [k \in Calls |-> None]
  /\ taken = [k \in Calls |-> {}]
  /\ reply = [k \in Calls |-> None]
  /\ pc = [n \in Stoppers |-> "free"]
  /\ victim = [n \in Stoppers |-> None]
  /\ hb = [n \in Polls |-> "off"]
  /\ answer = [n \in Polls |-> None]
  /\ listen = "off"
  /\ closed = TRUE
  /\ batch = [n \in Polls |-> {}]
  /\ finished = [n \in Polls |-> None]
  /\ executed = [k \in Calls |-> 0]

-------------------------------------------------------------------------------
(* Caller.InvokeContext *)

OnlyCall(k) == {k}
WithCall(k) == cache \cup {k}

\* calls.Append, in the cache of the id, which is made once.
Append(k) ==
  /\ ipc[k] = "idle"
  /\ cache' = WithCall(k)
  /\ ipc' = [ipc EXCEPT ![k] = "register"]
  /\ UNCHANGED <<options, popped, taken, reply, registered, result, pollVars, onlineVars,
                 providerVars>>

\* results.Set
Register(k) ==
  /\ ipc[k] = "register"
  /\ registered' = registered \cup {k}
  /\ ipc' = [ipc EXCEPT ![k] = "pop"]
  /\ UNCHANGED <<options, popped, taken, reply, cache, result, pollVars, onlineVars,
                 providerVars>>

\* What is left in the map by responders.Pop.
Peeked == responder
NilResponder == Nil
AfterPop == None

\* response: responders.Pop
Pop(k) ==
  /\ ipc[k] = "pop"
  /\ popped' = [popped EXCEPT ![k] = responder]
  /\ responder' = AfterPop
  /\ ipc' = [ipc EXCEPT ![k] = IF responder = None THEN "wait" ELSE "take"]
  /\ UNCHANGED <<options, taken, reply, tableVars, chan, pc, victim, answer, onlineVars,
                 providerVars>>

\* What is left in the cache by Take.
Copied == cache
AfterTake == {}

\* response: send, up to its channel operation
Take(k) ==
  /\ ipc[k] = "take"
  /\ taken' = [taken EXCEPT ![k] = cache]
  /\ cache' = AfterTake
  /\ ipc' = [ipc EXCEPT ![k] = IF cache = {} THEN "restore" ELSE "deliver"]
  /\ UNCHANGED <<options, popped, reply, registered, result, pollVars, onlineVars,
                 providerVars>>

\* responder <- calls
Deliver(k) ==
  /\ ipc[k] = "deliver"
  /\ chan[popped[k]] = None
  /\ chan' = [chan EXCEPT ![popped[k]] = taken[k]]
  /\ popped' = [popped EXCEPT ![k] = None]
  /\ taken' = [taken EXCEPT ![k] = {}]
  /\ ipc' = [ipc EXCEPT ![k] = "wait"]
  /\ UNCHANGED <<options, reply, tableVars, responder, pc, victim, answer, onlineVars,
                 providerVars>>

\* responders.SetIfAbsent: the responder goes back, unless a newer poll parked.
Restore(k) ==
  /\ ipc[k] = "restore"
  /\ IF responder = None
     THEN /\ responder' = popped[k]
          /\ popped' = [popped EXCEPT ![k] = None]
          /\ ipc' = [ipc EXCEPT ![k] = "wait"]
     ELSE /\ ipc' = [ipc EXCEPT ![k] = "refuse"]
          /\ UNCHANGED <<responder, popped>>
  /\ UNCHANGED <<options, taken, reply, tableVars, chan, pc, victim, answer, onlineVars,
                 providerVars>>

\* responder <- nil
Refuse(k) ==
  /\ ipc[k] = "refuse"
  /\ chan[popped[k]] = None
  /\ chan' = [chan EXCEPT ![popped[k]] = Nil]
  /\ popped' = [popped EXCEPT ![k] = None]
  /\ ipc' = [ipc EXCEPT ![k] = "wait"]
  /\ UNCHANGED <<options, taken, reply, tableVars, responder, pc, victim, answer,
                 onlineVars, providerVars>>

\* result := <-result
Return(k) ==
  /\ ipc[k] = "wait"
  /\ result[k] # None
  /\ reply' = [reply EXCEPT ![k] = result[k]]
  /\ result' = [result EXCEPT ![k] = None]
  /\ ipc' = [ipc EXCEPT ![k] = "replied"]
  /\ UNCHANGED <<options, popped, taken, cache, registered, pollVars, onlineVars,
                 providerVars>>

\* ctx.Done, calls.Delete, results.Delete
Expire(k) ==
  /\ ipc[k] = "wait"
  /\ cache' = cache \ {k}
  /\ registered' = registered \ {k}
  /\ ipc' = [ipc EXCEPT ![k] = "failed"]
  /\ UNCHANGED <<options, popped, taken, reply, result, pollVars, onlineVars,
                 providerVars>>

-------------------------------------------------------------------------------
(* Caller.begin and Caller.close *)

\* The request reaches the service; stop pops the responder that is parked.
StopPop(n) ==
  /\ pc[n] = "called"
  /\ victim' = [victim EXCEPT ![n] = responder]
  /\ responder' = AfterPop
  /\ pc' = [pc EXCEPT ![n] = IF responder = None THEN "mark" ELSE "stop"]
  /\ UNCHANGED <<options, invokeVars, tableVars, chan, answer, onlineVars, providerVars>>

\* stop: responder <- nil
StopSend(n) ==
  /\ pc[n] = "stop"
  /\ chan[victim[n]] = None
  /\ chan' = [chan EXCEPT ![victim[n]] = Nil]
  /\ victim' = [victim EXCEPT ![n] = None]
  /\ pc' = [pc EXCEPT ![n] = "mark"]
  /\ UNCHANGED <<options, invokeVars, tableVars, responder, answer, onlineVars,
                 providerVars>>

\* begin: onlines.Upsert.  The heartbeat of the poll before is told.
Mark(n) ==
  /\ n \in Polls
  /\ pc[n] = "mark"
  /\ signalled' = [m \in Polls |-> signalled[m] \/ m = online]
  /\ online' = n
  /\ pc' = [pc EXCEPT ![n] = "send"]
  /\ UNCHANGED <<options, invokeVars, tableVars, responder, chan, victim, answer, hb,
                 providerVars>>

\* close: onlines.Remove, and the call returns.
CloseReturns ==
  /\ pc[Closer] = "mark"
  /\ online' = None
  /\ pc' = [pc EXCEPT ![Closer] = "done"]
  /\ UNCHANGED <<options, invokeVars, tableVars, responder, chan, victim, answer,
                 signalled,
                 hb, providerVars>>

\* begin: send.  Nobody else knows the responder yet.
Send(n) ==
  /\ pc[n] = "send"
  /\ cache' = AfterTake
  /\ chan' = [chan EXCEPT ![n] = IF cache = {} THEN None ELSE cache]
  /\ pc' = [pc EXCEPT ![n] = IF cache = {} THEN "park" ELSE "await"]
  /\ UNCHANGED <<options, invokeVars, registered, result, responder, victim, answer,
                 onlineVars, providerVars>>

\* begin: responders.Upsert, which sends nil to a responder that is there.
Park(n) ==
  /\ pc[n] = "park"
  /\ responder # None => chan[responder] = None
  /\ chan' = [m \in Polls |-> IF m = responder THEN Nil ELSE chan[m]]
  /\ responder' = n
  /\ pc' = [pc EXCEPT ![n] = IF IdleTimeout THEN "idle" ELSE "await"]
  /\ UNCHANGED <<options, invokeVars, tableVars, victim, answer, onlineVars,
                 providerVars>>

\* begin: ctx.Done after IdleTimeout, ...
IdleExpire(n) ==
  /\ pc[n] = "idle"
  /\ pc' = [pc EXCEPT ![n] = "expire"]
  /\ UNCHANGED <<options, invokeVars, tableVars, responder, chan, victim, answer,
                 onlineVars,
                 providerVars>>

\* ... then responder <- emptyCall
PutEmpty(n) ==
  /\ pc[n] = "expire"
  /\ chan[n] = None
  /\ chan' = [chan EXCEPT ![n] = {}]
  /\ pc' = [pc EXCEPT ![n] = "await"]
  /\ UNCHANGED <<options, invokeVars, tableVars, responder, victim, answer, onlineVars,
                 providerVars>>

\* begin returns <-responder; the deferred heartbeat starts.
BeginReturns(n) ==
  /\ pc[n] \in {"idle", "await"}
  /\ chan[n] # None
  /\ answer' = [answer EXCEPT ![n] = chan[n]]
  /\ chan' = [chan EXCEPT ![n] = None]
  /\ pc' = [pc EXCEPT ![n] = "done"]
  /\ hb' = [hb EXCEPT ![n] = IF HeartBeat THEN "on" ELSE "done"]
  /\ UNCHANGED <<options, invokeVars, tableVars, responder, victim, online, signalled,
                 providerVars>>

\* The heartbeat goroutine: <-online, ...
BeatInTime(n) ==
  /\ hb[n] = "on"
  /\ signalled[n]
  /\ hb' = [hb EXCEPT ![n] = "done"]
  /\ UNCHANGED <<options, invokeVars, tableVars, pollVars, online, signalled,
                 providerVars>>

\* ... or the timer, ...
BeatMissed(n) ==
  /\ hb[n] = "on"
  /\ hb' = [hb EXCEPT ![n] = "remove"]
  /\ UNCHANGED <<options, invokeVars, tableVars, pollVars, online, signalled,
                 providerVars>>

\* ... then onlines.Remove, whichever poll put the entry there.
GoOffline(n) ==
  /\ hb[n] = "remove"
  /\ online' = None
  /\ hb' = [hb EXCEPT ![n] = "done"]
  /\ UNCHANGED <<options, invokeVars, tableVars, pollVars, signalled, providerVars>>

-------------------------------------------------------------------------------
(* Provider *)

\* Listen: p.closed goes from 1 to 0.
Listen ==
  /\ listen = "off" /\ closed
  /\ listen' = "loop"
  /\ closed' = FALSE
  /\ UNCHANGED <<options, invokeVars, tableVars, pollVars, onlineVars, batch, finished,
                 executed>>

Unchecked == TRUE
MayPoll == ~closed

\* One turn of the loop: p.closed is read, and begin is called.
CallBegin(n) ==
  /\ listen = "loop" /\ MayPoll
  /\ pc[n] = "free"
  /\ listen' = n
  /\ pc' = [pc EXCEPT ![n] = "called"]
  /\ UNCHANGED <<options, invokeVars, tableVars, responder, chan, victim, answer,
                 onlineVars,
                 closed, batch, finished, executed>>

LeaveLoop ==
  /\ listen = "loop" /\ closed
  /\ listen' = "off"
  /\ UNCHANGED <<options, invokeVars, tableVars, pollVars, onlineVars, closed, batch,
                 finished,
                 executed>>

\* begin returned: nil ends Listen, calls are dispatched.
Answered(n) ==
  /\ listen = n
  /\ answer[n] # None
  /\ answer' = [answer EXCEPT ![n] = None]
  /\ IF answer[n] = Nil
     THEN listen' = "off" /\ UNCHANGED <<batch, finished>>
     ELSE /\ listen' = "loop"
          /\ batch' = [batch EXCEPT ![n] = answer[n]]
          /\ finished' = [finished EXCEPT ![n] = {}]
  /\ UNCHANGED <<options, invokeVars, tableVars, responder, chan, pc, victim, onlineVars,
                 closed, executed>>

\* begin fails: a timeout of the client, or a broken link.  The request may
\* be served all the same.
BeginFails(n) ==
  /\ Unreliable
  /\ listen = n
  /\ listen' = "loop"
  /\ UNCHANGED <<options, invokeVars, tableVars, pollVars, onlineVars, closed, batch,
                 finished,
                 executed>>

\* p.process, in a goroutine of its own
Process(n, k) ==
  /\ k \in batch[n]
  /\ batch' = [batch EXCEPT ![n] = @ \ {k}]
  /\ finished' = [finished EXCEPT ![n] = @ \cup {k}]
  /\ executed' = [executed EXCEPT ![k] = @ + 1]
  /\ UNCHANGED <<options, invokeVars, tableVars, pollVars, onlineVars, listen, closed>>

\* GetAndDelete and value <- rv, for every result.
Complete(done) ==
  /\ registered' = registered \ done
  /\ result' = [k \in Calls |-> IF k \in done \cap registered THEN k ELSE result[k]]

\* dispatch: end, retried until it succeeds.
End(n) ==
  /\ finished[n] # None /\ batch[n] = {}
  /\ Complete(finished[n])
  /\ finished' = [finished EXCEPT ![n] = None]
  /\ UNCHANGED <<options, invokeVars, cache, pollVars, onlineVars, listen, closed, batch,
                 executed>>

\* An end call that fails before or after the service handled it.
EndFails(n) ==
  /\ Unreliable
  /\ finished[n] # None /\ batch[n] = {}
  /\ Complete(finished[n]) \/ UNCHANGED <<registered, result>>
  /\ UNCHANGED <<options, invokeVars, cache, pollVars, onlineVars, listen, closed, batch,
                 finished, executed>>

\* Close: p.closed goes from 0 to 1, and close is called.
Close ==
  /\ Closes /\ ~closed /\ pc[Closer] = "free"
  /\ closed' = TRUE
  /\ pc' = [pc EXCEPT ![Closer] = "called"]
  /\ UNCHANGED <<options, invokeVars, tableVars, responder, chan, victim, answer,
                 onlineVars,
                 listen, batch, finished, executed>>

\* Nothing refers to poll n any more: its name can be used for a later one.
Reclaim(n) ==
  /\ pc[n] = "done" /\ hb[n] = "done"
  /\ responder # n /\ online # n /\ listen # n
  /\ finished[n] = None
  /\ \A k \in Calls : popped[k] # n
  /\ \A m \in Stoppers : victim[m] # n
  /\ pc' = [pc EXCEPT ![n] = "free"]
  /\ hb' = [hb EXCEPT ![n] = "off"]
  /\ chan' = [chan EXCEPT ![n] = None]
  /\ answer' = [answer EXCEPT ![n] = None]
  /\ signalled' = [signalled EXCEPT ![n] = FALSE]
  /\ UNCHANGED <<options, invokeVars, tableVars, responder, victim, online, providerVars>>

-------------------------------------------------------------------------------
Invoke(k) ==
  Register(k) \/ Pop(k) \/ Take(k) \/ Deliver(k) \/ Restore(k)
  \/ Refuse(k) \/ Return(k)

Begin(n) ==
  Mark(n) \/ Send(n) \/ Park(n) \/ IdleExpire(n) \/ PutEmpty(n) \/ BeginReturns(n)

Stop(n) == StopPop(n) \/ StopSend(n)

Beat(n) == BeatInTime(n) \/ BeatMissed(n) \/ GoOffline(n)

Dispatch(n) == End(n) \/ \E k \in batch[n] : Process(n, k)

Loop == Listen \/ LeaveLoop \/ \E n \in Polls : CallBegin(n) \/ Answered(n)

Next ==
  \/ \E k \in Calls : Append(k) \/ Invoke(k) \/ Expire(k)
  \/ \E n \in Polls : Begin(n) \/ Beat(n) \/ Dispatch(n) \/ Reclaim(n)
                      \/ BeginFails(n) \/ EndFails(n)
  \/ \E n \in Stoppers : Stop(n)
  \/ CloseReturns \/ Loop \/ Close

Spec == Init /\ [][Next]_vars

\* The goroutines of Invoke, begin, close and Listen run, and timers fire, the
\* one of the client's begin call too.  Nothing is assumed of new calls, of
\* their deadlines or of Close, and the properties need nothing of heartbeats
\* and dispatched calls.
Fairness ==
  /\ \A k \in Calls : WF_vars(Invoke(k))
  /\ \A n \in Polls : WF_vars(Stop(n) \/ Begin(n))
  /\ WF_vars(Stop(Closer) \/ CloseReturns)
  /\ WF_vars(\E n \in Polls : BeginFails(n))
  /\ WF_vars(Loop)

FairSpec == Spec /\ Fairness

-------------------------------------------------------------------------------
(* Safety *)

\* A responder is in the map, or in the hands of one Invoke or of one stop:
\* whoever sends on it is the only one to do so.
OneOwner ==
  /\ \A k \in Calls : popped[k] # None => popped[k] # responder
  /\ \A m \in Stoppers : victim[m] # None => victim[m] # responder
  /\ \A k \in Calls, m \in Stoppers : popped[k] # None => popped[k] # victim[m]
  /\ \A j, k \in Calls : j # k /\ popped[j] # None => popped[j] # popped[k]
  /\ \A m, n \in Stoppers : m # n /\ victim[m] # None => victim[m] # victim[n]

\* Nobody has the responder of a poll before it parks: this makes OneOwner
\* inductive.
NotYetParked == {"free", "called", "stop", "mark", "send", "park"}

OwnedArePolling ==
  /\ responder # None => pc[responder] \notin NotYetParked
  /\ \A k \in Calls : popped[k] # None => pc[popped[k]] \notin NotYetParked
  /\ \A m \in Stoppers : victim[m] # None => pc[victim[m]] \notin NotYetParked

\* Results are collected as long as there are calls to process.
BatchIsOpen == \A n \in Polls : batch[n] # {} => finished[n] # None

OwnerInv == TypeOK /\ BatchIsOpen /\ OneOwner /\ OwnedArePolling

\* The provider processes a call at most once, whatever begin and end calls
\* were retried.
AtMostOnce == \A k \in Calls : executed[k] <= 1

\* Listen is waiting for the answer of poll n, and begin will read its channel.
Attended(n) == listen = n /\ pc[n] \in {"idle", "await"}

\* A call that Invoke waits for and the provider has not processed is still on
\* its way to the provider.
Underway(k) ==
  \/ k \in cache
  \/ \E j \in Calls : k \in taken[j] /\ Attended(popped[j])
  \/ \E n \in Polls :
       \/ chan[n] \notin {None, Nil} /\ k \in chan[n] /\ Attended(n)
       \/ answer[n] \notin {None, Nil} /\ k \in answer[n] /\ listen = n
       \/ k \in batch[n]

NoCallLost == \A k \in Calls : ipc[k] = "wait" /\ executed[k] = 0 => Underway(k)

\* With polls that neither time out nor fail, every call that Invoke waits for
\* is on its way to a poll, heartbeats or not.
BeatingKeepsCalls == ~IdleTimeout /\ ~Unreliable => NoCallLost

\* The result of a call that Invoke still waits for is in its channel, or the
\* provider has it and the service will find the channel.
ResultKept ==
  \A k \in Calls :
    ipc[k] = "wait" /\ executed[k] > 0 =>
      \/ result[k] = k
      \/ k \in registered
         /\ \E n \in Polls : finished[n] # None /\ k \in finished[n]

-------------------------------------------------------------------------------
(* Why reverse calls implement the channel *)

\* Where a call can be between its Invoke and its execution.
Stations ==
  {<<"cache", None>>} \cup ({"taken"} \X Calls) \cup ({"chan", "answer", "batch"} \X Polls)

Carried(x) == IF x \in {None, Nil} THEN {} ELSE x

CallsAt(s) ==
  CASE s[1] = "cache" -> cache
    [] s[1] = "taken" -> taken[s[2]]
    [] s[1] = "chan" -> Carried(chan[s[2]])
    [] s[1] = "answer" -> Carried(answer[s[2]])
    [] s[1] = "batch" -> batch[s[2]]

\* A call is at one station, ...
CallsAreSole ==
  \A r, s \in Stations : r # s => CallsAt(r) \cap CallsAt(s) = {}

\* ... was invoked, and has not been executed.
CarriedAreFresh ==
  \A s \in Stations : \A k \in CallsAt(s) : ipc[k] # "idle" /\ executed[k] = 0

\* What was not invoked was not executed.
UninvokedAreFresh == \A k \in Calls : ipc[k] = "idle" => executed[k] = 0

\* A result is that of the call, which was executed.
ResultsAreOwn ==
  /\ \A n \in Polls : finished[n] # None => \A k \in finished[n] : executed[k] = 1
  /\ \A k \in Calls : result[k] # None => result[k] = k /\ executed[k] = 1

\* With this AtMostOnce is inductive, and each step is one of RpcChannel.
CarriedInv ==
  AtMostOnce /\ CallsAreSole /\ CarriedAreFresh /\ UninvokedAreFresh /\ ResultsAreOwn

-------------------------------------------------------------------------------
(* Why BeatingKeepsCalls holds *)

\* Begin of the poll is running.
Live == {"called", "stop", "mark", "send", "park", "await"}

\* Listen waits for the one poll that is running, and nobody has another's
\* responder.
OnePoll ==
  /\ \A n \in Polls : pc[n] \in Live \cup {"free", "done"}
  /\ \A n \in Polls : pc[n] \in Live \/ answer[n] # None => listen = n
  /\ \A n \in Polls : listen = n => pc[n] # "free"

\* Whose responder somebody has is waiting for it, and it is empty.
OwnedAreWaiting ==
  /\ responder # None => pc[responder] = "await" /\ chan[responder] = None
  /\ \A k \in Calls : popped[k] # None => pc[popped[k]] = "await" /\ chan[popped[k]] = None
  /\ \A m \in Stoppers : victim[m] # None => pc[victim[m]] = "await" /\ chan[victim[m]] = None
  /\ \A n \in Polls : chan[n] # None => pc[n] = "await"

\* What is assigned to holds no call.
NothingOverwritten ==
  /\ \A k \in Calls : ipc[k] \in {"take", "deliver", "restore", "refuse"} <=> popped[k] # None
  /\ \A k \in Calls : ipc[k] # "deliver" => taken[k] = {}
  /\ \A n \in Polls : answer[n] # None => pc[n] = "done"
  /\ \A n \in Polls : batch[n] # {} => pc[n] = "done" /\ answer[n] = None

\* A call that was invoked stays on its way also before Invoke waits for it.
InvokedAreUnderway ==
  \A k \in Calls :
    ipc[k] \notin {"idle", "replied", "failed"} /\ executed[k] = 0 => Underway(k)

UnderwayInv ==
  ~IdleTimeout /\ ~Unreliable =>
    OnePoll /\ OwnedAreWaiting /\ NothingOverwritten /\ InvokedAreUnderway

-------------------------------------------------------------------------------
(* Liveness *)

\* Somebody has popped the responder of poll n and is about to send on it.
Sending(n) ==
  \/ \E k \in Calls : popped[k] = n /\ ipc[k] \in {"deliver", "refuse"}
  \/ \E m \in Stoppers : victim[m] = n

\* Neither response nor stop stays blocked on a responder: who pops one finds
\* its channel empty, or finds a begin that is about to empty it.
ResponseNeverBlocks == \A n \in Polls : Sending(n) ~> ~Sending(n)

\* Listen returns when the provider is closed.
ClosedStopsListen == (closed /\ listen # "off") ~> (listen = "off" \/ ~closed)

-------------------------------------------------------------------------------
(* Reverse calls implement the at-most-once channel. *)

Phase(k) == CASE ipc[k] = "idle" -> "idle"
              [] ipc[k] = "replied" -> "replied"
              [] ipc[k] = "failed" -> "failed"
              [] OTHER -> "pending"

Channel == INSTANCE RpcChannel WITH phase <- [k \in Calls |-> Phase(k)]

ImplementsChannel == Channel!Spec
===============================================================================

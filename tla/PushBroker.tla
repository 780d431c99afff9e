----------------------------- MODULE PushBroker -----------------------------
(***************************************************************************)
(* Message push (rpc/plugins/push).  broker.go is the service side: topics *)
(* with a message cache each, the responder of the poll that is parked,    *)
(* and the signal of the heartbeat goroutine that is the latest.           *)
(* prosumer.go is the consumer: Subscribe starts a goroutine that polls.   *)
(*                                                                         *)
(* One consumer id is modelled: every map of Broker is keyed by it, and    *)
(* Multicast and Broadcast do for each id what Unicast does for one.  A    *)
(* step is one operation on a map, a cache or a channel; the Range of send *)
(* is one step.  Deny is not modelled.                                     *)
(***************************************************************************)
EXTENDS Naturals, FiniteSets

CONSTANTS
  Topics,
  Messages,    \* each is pushed at most once
  Caches,      \* names for the message caches in existence at one time
  Polls,       \* names for the message calls in existence at one time
  Loops,       \* names for the polling goroutines of the prosumer
  Options,     \* the settings and surroundings considered, one in a behaviour
  Nil,         \* the nil answer, which ends a loop
  None

\* The goroutines running doHeartBeat: one for what send put into the responder
\* of a poll, one for the poll that timed out.
Beats == Polls \X {"sent", "timeout"}

\* Who calls response: a push, an unsubscribe or a heartbeat.
Actors == Messages \cup Topics \cup Beats

ASSUME NoneAssumption ==
  /\ None \notin Caches \cup Polls \cup Beats \cup {Nil}
  /\ \A p \in Topics \X Caches : p # None
ASSUME NilAssumption == \A S \in SUBSET (Topics \X Messages) : S # None /\ S # Nil
\* A poll is not a state of a loop.
ASSUME PollsAssumption == Polls \cap {"off", "poll", "resub"} = {}
\* An actor is a push, an unsubscribe or a heartbeat, and not two of these.
ASSUME ActorAssumption ==
  /\ Messages \cap Topics = {} /\ Messages \cap Beats = {} /\ Topics \cap Beats = {}
ASSUME OptionAssumption ==
  Options \subseteq [timeout : BOOLEAN, heartBeat : BOOLEAN,
                     unsubscribes : BOOLEAN, unreliable : BOOLEAN]

VARIABLES
  options,    \* the one of this behaviour
  \* Broker
  entry,      \* entry[t]: the cache of topic t in messages[id], or None
  content,    \* content[c]: the messages in cache c
  responder,  \* responders[id]: the poll whose responder is there, or None
  chan,       \* chan[n]: what the responder of poll n holds (capacity 1)
  signal,     \* signals[id]: the heartbeat whose channel is there, or None
  closed,     \* closed[b]: that channel is closed
  \* the goroutines of the service
  apc,        \* apc[a]: where the actor is
  hold,       \* hold[a]: the topic and the cache it has loaded, or None
  popped,     \* popped[a]: the responder it has popped
  taken,      \* taken[a]: the messages send has taken, with their topics
  left,       \* left[b]: the topics a heartbeat has still to take offline
  returned,   \* what OnUnsubscribe was given
  pc,         \* pc[n]: where message is
  victim,     \* victim[n]: the responder it has popped
  answer,     \* answer[n]: what message returned and no loop has yet read
  \* Prosumer
  callbacks,  \* the topics with a callback
  spc,        \* spc[t]: where Subscribe is
  loop,       \* loop[l]: "off", "poll", "resub", or the poll it waits for
  todo,       \* todo[l]: the topics still to subscribe again
  inbox,      \* what the dispatch goroutines have still to hand over
  received    \* what callbacks were called with

cacheVars   == <<entry, content, returned>>
actorVars   == <<apc, hold, popped, taken, left>>
pollVars    == <<responder, chan, pc, victim, answer>>
signalVars  == <<signal, closed>>
clientVars  == <<callbacks, spc, loop, todo, inbox, received>>
vars == <<options, cacheVars, actorVars, pollVars, signalVars, clientVars>>

Timeout == options.timeout            \* b.Timeout > 0
HeartBeat == options.heartBeat        \* b.HeartBeat > 0
Unsubscribes == options.unsubscribes  \* Prosumer.Unsubscribe may be called
Unreliable == options.unreliable      \* message and subscribe calls may fail

Mail == Topics \X Messages

TypeOK ==
  /\ options \in Options
  /\ entry \in [Topics -> Caches \cup {None}]
  /\ content \in [Caches -> SUBSET Messages]
  /\ responder \in Polls \cup {None}
  /\ chan \in [Polls -> {None, Nil} \cup SUBSET Mail]
  /\ signal \in Beats \cup {None}
  /\ closed \in [Beats -> BOOLEAN]
  /\ apc \in [Actors -> {"idle", "append", "load", "delete", "pop", "take", "deliver",
                         "restore", "refuse", "start", "wait", "offline", "done"}]
  /\ hold \in [Actors -> (Topics \X Caches) \cup {None}]
  /\ popped \in [Actors -> Polls \cup {None}]
  /\ taken \in [Actors -> {Nil} \cup SUBSET Mail]
  /\ left \in [Beats -> SUBSET Topics]
  /\ returned \in SUBSET Mail
  /\ pc \in [Polls -> {"free", "called", "stop", "signal", "send", "park", "wait",
                       "await", "done"}]
  /\ victim \in [Polls -> Polls \cup {None}]
  /\ answer \in [Polls -> {None, Nil} \cup SUBSET Mail]
  /\ callbacks \in SUBSET Topics
  /\ spc \in [Topics -> {"idle", "called", "go"}]
  /\ loop \in [Loops -> {"off", "poll", "resub"} \cup Polls]
  /\ todo \in [Loops -> SUBSET Topics]
  /\ inbox \in SUBSET Mail /\ received \in SUBSET Mail

Init ==
  /\ options \in Options
  /\ entry = [t \in Topics |-> None] /\ content = [c \in Caches |-> {}]
  /\ responder = None /\ chan = [n \in Polls |-> None]
  /\ signal = None /\ closed = [b \in Beats |-> FALSE]
  /\ apc = [a \in Actors |-> "idle"] /\ hold = [a \in Actors |-> None]
  /\ popped = [a \in Actors |-> None] /\ taken = [a \in Actors |-> {}]
  /\ left = [b \in Beats |-> {}] /\ returned = {}
  /\ pc = [n \in Polls |-> "free"] /\ victim = [n \in Polls |-> None]
  /\ answer = [n \in Polls |-> None]
  /\ callbacks = {} /\ spc = [t \in Topics |-> "idle"]
  /\ loop = [l \in Loops |-> "off"] /\ todo = [l \in Loops |-> {}]
  /\ inbox = {} /\ received = {}

-------------------------------------------------------------------------------
(* Broker: what response does, for whoever called it *)

Subscribed == {t \in Topics : entry[t] # None}

\* The messages in the caches of the topics, and those caches once taken from.
Pending == {tm \in Mail : tm[1] \in Subscribed /\ tm[2] \in content[entry[tm[1]]]}
Untaken == content
NilCaches == [c \in Caches |-> {Nil}]
AfterTake == [c \in Caches |-> IF \E t \in Topics : entry[t] = c THEN {} ELSE content[c]]

\* What is left in the map by responders.Pop.
Peeked == responder
AfterPop == None

\* After response: a heartbeat goes on with the next topic, the others return.
Resume(a) == IF a \in Beats THEN "offline" ELSE "done"

\* go b.doHeartBeat, as the goroutine b
Started(pcs, b) == [pcs EXCEPT ![b] = IF HeartBeat THEN "start" ELSE "done"]

\* response: responders.Pop
Pop(a) ==
  /\ apc[a] = "pop"
  /\ popped' = [popped EXCEPT ![a] = responder]
  /\ responder' = AfterPop
  /\ apc' = [apc EXCEPT ![a] = IF responder = None THEN Resume(a) ELSE "take"]
  /\ UNCHANGED <<options, cacheVars, hold, taken, left, chan, pc, victim, answer,
                 signalVars,
                 clientVars>>

\* send, up to its channel operation: nil when no topic is left, else what is
\* in the caches.
Take(a) ==
  /\ apc[a] = "take"
  /\ taken' = [taken EXCEPT ![a] = IF Subscribed = {} THEN Nil ELSE Pending]
  /\ content' = AfterTake
  /\ apc' = [apc EXCEPT ![a] =
               IF Subscribed # {} /\ Pending = {} THEN "restore" ELSE "deliver"]
  /\ UNCHANGED <<options, entry, returned, hold, popped, left, pollVars, signalVars,
                 clientVars>>

\* responder <- result, and go b.doHeartBeat unless the result is nil
Deliver(a) ==
  /\ apc[a] = "deliver"
  /\ chan[popped[a]] = None
  /\ chan' = [chan EXCEPT ![popped[a]] = taken[a]]
  /\ LET returns == [apc EXCEPT ![a] = Resume(a)]
     IN  apc' = IF taken[a] = Nil THEN returns ELSE Started(returns, <<popped[a], "sent">>)
  /\ popped' = [popped EXCEPT ![a] = None]
  /\ taken' = [taken EXCEPT ![a] = {}]
  /\ UNCHANGED <<options, cacheVars, hold, left, responder, pc, victim, answer,
                 signalVars,
                 clientVars>>

\* responders.SetIfAbsent puts the responder back.
NeverAbsent == FALSE
Overwrites  == TRUE
Absent == responder = None

Restore(a) ==
  /\ apc[a] = "restore"
  /\ IF Absent
     THEN /\ responder' = popped[a]
          /\ popped' = [popped EXCEPT ![a] = None]
          /\ apc' = [apc EXCEPT ![a] = Resume(a)]
     ELSE /\ apc' = [apc EXCEPT ![a] = "refuse"]
          /\ UNCHANGED <<responder, popped>>
  /\ UNCHANGED <<options, cacheVars, hold, taken, left, chan, pc, victim, answer,
                 signalVars,
                 clientVars>>

\* responder <- nil
Refuse(a) ==
  /\ apc[a] = "refuse"
  /\ chan[popped[a]] = None
  /\ chan' = [chan EXCEPT ![popped[a]] = Nil]
  /\ popped' = [popped EXCEPT ![a] = None]
  /\ apc' = [apc EXCEPT ![a] = Resume(a)]
  /\ UNCHANGED <<options, cacheVars, hold, taken, left, responder, pc, victim, answer,
                 signalVars, clientVars>>

-------------------------------------------------------------------------------
(* Broker.Unicast *)

\* The topic and its cache are looked up.
Lookup(m, t) ==
  /\ apc[m] = "idle"
  /\ entry[t] # None
  /\ hold' = [hold EXCEPT ![m] = <<t, entry[t]>>]
  /\ apc' = [apc EXCEPT ![m] = "append"]
  /\ UNCHANGED <<options, cacheVars, popped, taken, left, pollVars, signalVars,
                 clientVars>>

WithMessage(m) == content[hold[m][2]] \cup {m}

\* MessageCache.Append, whether or not the cache is still the topic's
Append(m) ==
  /\ apc[m] = "append"
  /\ content' = [content EXCEPT ![hold[m][2]] = WithMessage(m)]
  /\ hold' = [hold EXCEPT ![m] = None]
  /\ apc' = [apc EXCEPT ![m] = "pop"]
  /\ UNCHANGED <<options, entry, returned, popped, taken, left, pollVars, signalVars,
                 clientVars>>

-------------------------------------------------------------------------------
(* Broker.offline, for unsubscribe and for a heartbeat that is missed *)

\* topics.Load
Load(a, t) ==
  /\ \/ a = t /\ apc[a] = "load"
     \/ a \in Beats /\ apc[a] = "offline" /\ t \in left[a]
  /\ left' = [b \in Beats |-> IF b = a THEN left[b] \ {t} ELSE left[b]]
  /\ hold' = [hold EXCEPT ![a] = IF entry[t] = None THEN None ELSE <<t, entry[t]>>]
  /\ apc' = [apc EXCEPT ![a] = IF entry[t] = None THEN Resume(a) ELSE "delete"]
  /\ UNCHANGED <<options, cacheVars, popped, taken, pollVars, signalVars, clientVars>>

\* topics.Delete, whatever is there by now, and OnUnsubscribe with what is in
\* the cache that was loaded
Delete(a) ==
  /\ apc[a] = "delete"
  /\ LET t == hold[a][1]
         c == hold[a][2]
     IN  /\ entry' = [entry EXCEPT ![t] = None]
         /\ returned' = returned \cup {t} \X content[c]
         /\ content' = [content EXCEPT ![c] = {}]
  /\ hold' = [hold EXCEPT ![a] = None]
  /\ apc' = [apc EXCEPT ![a] = "pop"]
  /\ UNCHANGED <<options, popped, taken, left, pollVars, signalVars, clientVars>>

-------------------------------------------------------------------------------
(* Broker.doHeartBeat *)

\* The heartbeats whose signal is closed when a new one registers its own.
Nobody == {}
Replaced == {signal}

\* signals.Upsert
StartBeat(b) ==
  /\ apc[b] = "start"
  /\ closed' = [x \in Beats |-> closed[x] \/ x \in Replaced]
  /\ signal' = b
  /\ apc' = [apc EXCEPT ![b] = "wait"]
  /\ UNCHANGED <<options, cacheVars, hold, popped, taken, left, pollVars, clientVars>>

\* <-signal
BeatInTime(b) ==
  /\ apc[b] = "wait" /\ closed[b]
  /\ apc' = [apc EXCEPT ![b] = "done"]
  /\ UNCHANGED <<options, cacheVars, hold, popped, taken, left, pollVars, signalVars,
                 clientVars>>

\* ctx.Done: the timer, or the context of the call that started the heartbeat
BeatMissed(b) ==
  /\ apc[b] = "wait"
  /\ left' = [left EXCEPT ![b] = Subscribed]
  /\ apc' = [apc EXCEPT ![b] = "offline"]
  /\ UNCHANGED <<options, cacheVars, hold, popped, taken, pollVars, signalVars,
                 clientVars>>

\* The Range over the topics ends.
BeatEnds(b) ==
  /\ apc[b] = "offline" /\ left[b] = {}
  /\ apc' = [apc EXCEPT ![b] = "done"]
  /\ UNCHANGED <<options, cacheVars, hold, popped, taken, left, pollVars, signalVars,
                 clientVars>>

-------------------------------------------------------------------------------
(* Broker.message *)

\* The responder a poll replaces, which is answered with nil.
Unanswered == None
Replaces == responder

\* responders.Pop
StopPop(n) ==
  /\ pc[n] = "called"
  /\ victim' = [victim EXCEPT ![n] = Replaces]
  /\ responder' = AfterPop
  /\ pc' = [pc EXCEPT ![n] = IF Replaces = None THEN "signal" ELSE "stop"]
  /\ UNCHANGED <<options, cacheVars, actorVars, chan, answer, signalVars, clientVars>>

\* ... <- nil
StopSend(n) ==
  /\ pc[n] = "stop"
  /\ chan[victim[n]] = None
  /\ chan' = [chan EXCEPT ![victim[n]] = Nil]
  /\ victim' = [victim EXCEPT ![n] = None]
  /\ pc' = [pc EXCEPT ![n] = "signal"]
  /\ UNCHANGED <<options, cacheVars, actorVars, responder, answer, signalVars,
                 clientVars>>

\* signals.Pop, and close
Signal(n) ==
  /\ pc[n] = "signal"
  /\ closed' = [b \in Beats |-> closed[b] \/ b = signal]
  /\ signal' = None
  /\ pc' = [pc EXCEPT ![n] = "send"]
  /\ UNCHANGED <<options, cacheVars, actorVars, responder, chan, victim, answer,
                 clientVars>>

\* send.  Nobody else knows the responder yet.
Send(n) ==
  /\ pc[n] = "send"
  /\ content' = AfterTake
  /\ chan' = [chan EXCEPT ![n] = CASE Subscribed = {} -> Nil
                                   [] Pending # {} -> Pending
                                   [] OTHER -> None]
  /\ apc' = IF Pending = {} THEN apc ELSE Started(apc, <<n, "sent">>)
  /\ pc' = [pc EXCEPT ![n] =
              IF Subscribed # {} /\ Pending = {} THEN "park" ELSE "await"]
  /\ UNCHANGED <<options, entry, returned, hold, popped, taken, left, responder,
                 victim, answer,
                 signalVars, clientVars>>

\* responders.Upsert, which sends nil to a responder that is there.
Park(n) ==
  /\ pc[n] = "park"
  /\ responder # None => chan[responder] = None
  /\ chan' = [m \in Polls |-> IF m = Replaces THEN Nil ELSE chan[m]]
  /\ responder' = n
  /\ pc' = [pc EXCEPT ![n] = IF Timeout THEN "wait" ELSE "await"]
  /\ UNCHANGED <<options, cacheVars, actorVars, victim, answer, signalVars, clientVars>>

\* result := <-responder
Return(n) ==
  /\ pc[n] \in {"wait", "await"}
  /\ chan[n] # None
  /\ answer' = [answer EXCEPT ![n] = chan[n]]
  /\ chan' = [chan EXCEPT ![n] = None]
  /\ pc' = [pc EXCEPT ![n] = "done"]
  /\ UNCHANGED <<options, cacheVars, actorVars, responder, victim, signalVars,
                 clientVars>>

\* ctx.Done after Timeout: an empty answer.  The responder stays where it is.
TimeOut(n) ==
  /\ pc[n] = "wait"
  /\ answer' = [answer EXCEPT ![n] = {}]
  /\ apc' = Started(apc, <<n, "timeout">>)
  /\ pc' = [pc EXCEPT ![n] = "done"]
  /\ UNCHANGED <<options, cacheVars, hold, popped, taken, left, responder, chan, victim,
                 signalVars, clientVars>>

-------------------------------------------------------------------------------
(* Prosumer *)

\* A cache nobody refers to, for a new one.
FreeCaches == {c \in Caches : /\ \A t \in Topics : entry[t] # c
                              /\ \A a \in Actors : hold[a] # None => hold[a][2] # c}

\* Broker.subscribe: LoadOrStore with an empty cache
Enter(t) ==
  IF entry[t] # None
  THEN UNCHANGED <<entry, content>>
  ELSE \E c \in FreeCaches : /\ entry' = [entry EXCEPT ![t] = c]
                             /\ content' = [content EXCEPT ![c] = {}]

\* Subscribe: callbacks.Store, and subscribe is called.
Subscribe(t) ==
  /\ spc[t] = "idle"
  /\ callbacks' = callbacks \cup {t}
  /\ spc' = [spc EXCEPT ![t] = "called"]
  /\ UNCHANGED <<options, cacheVars, actorVars, pollVars, signalVars, loop, todo,
                 inbox, received>>

\* The call returns, handled, or not when it fails.
SubscribeReturns(t) ==
  /\ spc[t] = "called"
  /\ Enter(t) \/ (Unreliable /\ UNCHANGED <<entry, content>>)
  /\ spc' = [spc EXCEPT ![t] = "go"]
  /\ UNCHANGED <<options, returned, actorVars, pollVars, signalVars, callbacks, loop,
                 todo, inbox,
                 received>>

\* go p.message()
StartLoop(t, l) ==
  /\ spc[t] = "go" /\ loop[l] = "off"
  /\ spc' = [spc EXCEPT ![t] = "idle"]
  /\ loop' = [loop EXCEPT ![l] = "poll"]
  /\ UNCHANGED <<options, cacheVars, actorVars, pollVars, signalVars, callbacks, todo,
                 inbox,
                 received>>

\* Unsubscribe: unsubscribe is called, ...
Unsubscribe(t) ==
  /\ Unsubscribes /\ apc[t] = "idle"
  /\ apc' = [apc EXCEPT ![t] = "load"]
  /\ UNCHANGED <<options, cacheVars, hold, popped, taken, left, pollVars, signalVars,
                 clientVars>>

\* ... and returns; callbacks.Delete
Unsubscribed(t) ==
  /\ apc[t] = "done"
  /\ apc' = [apc EXCEPT ![t] = "idle"]
  /\ callbacks' = callbacks \ {t}
  /\ UNCHANGED <<options, cacheVars, hold, popped, taken, left, pollVars, signalVars,
                 spc, loop,
                 todo, inbox, received>>

\* A loop calls message.
Poll(l, n) ==
  /\ loop[l] = "poll" /\ pc[n] = "free"
  /\ loop' = [loop EXCEPT ![l] = n]
  /\ pc' = [pc EXCEPT ![n] = "called"]
  /\ UNCHANGED <<options, cacheVars, actorVars, responder, chan, victim, answer,
                 signalVars,
                 callbacks, spc, todo, inbox, received>>

\* message returned: nil ends the loop, else what it holds is dispatched.
Answered(l, n) ==
  /\ loop[l] = n /\ answer[n] # None
  /\ answer' = [answer EXCEPT ![n] = None]
  /\ IF answer[n] = Nil
     THEN loop' = [loop EXCEPT ![l] = "off"] /\ UNCHANGED inbox
     ELSE loop' = [loop EXCEPT ![l] = "poll"] /\ inbox' = inbox \cup answer[n]
  /\ UNCHANGED <<options, cacheVars, actorVars, responder, chan, pc, victim,
                 signalVars, callbacks,
                 spc, todo, received>>

\* message fails, by a timeout of the client or a broken link.  The request
\* may be served all the same.
PollFails(l) ==
  /\ Unreliable /\ loop[l] \in Polls
  /\ loop' = [loop EXCEPT ![l] = "resub"]
  /\ UNCHANGED <<options, cacheVars, actorVars, pollVars, signalVars, callbacks, spc,
                 todo, inbox,
                 received>>

\* callbacks.Range.  Without a callback the error stays and the loop spins.
Renew(l) ==
  /\ loop[l] = "resub" /\ todo[l] = {} /\ callbacks # {}
  /\ todo' = [todo EXCEPT ![l] = callbacks]
  /\ UNCHANGED <<options, cacheVars, actorVars, pollVars, signalVars, callbacks, spc,
                 loop, inbox,
                 received>>

\* subscribe of a topic succeeds; after the last the loop goes on polling.
Resubscribe(l, t) ==
  /\ t \in todo[l]
  /\ Enter(t)
  /\ todo' = [todo EXCEPT ![l] = @ \ {t}]
  /\ loop' = [loop EXCEPT ![l] = IF todo[l] = {t} THEN "poll" ELSE "resub"]
  /\ UNCHANGED <<options, returned, actorVars, pollVars, signalVars, callbacks, spc,
                 inbox, received>>

\* It fails, handled or not, and the Range starts again.
ResubscribeFails(l, t) ==
  /\ Unreliable
  /\ t \in todo[l]
  /\ Enter(t) \/ UNCHANGED <<entry, content>>
  /\ todo' = [todo EXCEPT ![l] = {}]
  /\ UNCHANGED <<options, returned, actorVars, pollVars, signalVars, callbacks, spc,
                 loop, inbox,
                 received>>

\* dispatch: the callback of the topic is called, if it is still there.
Dispatch(tm) ==
  /\ tm \in inbox
  /\ inbox' = inbox \ {tm}
  /\ received' = IF tm[1] \in callbacks THEN received \cup {tm} ELSE received
  /\ UNCHANGED <<options, cacheVars, actorVars, pollVars, signalVars, callbacks, spc,
                 loop, todo>>

\* Nothing refers to poll n any more: its name can be used for a later one.
Reclaim(n) ==
  /\ pc[n] = "done"
  /\ responder # n /\ \A l \in Loops : loop[l] # n
  /\ \A a \in Actors : popped[a] # n
  /\ \A m \in Polls : victim[m] # n
  /\ \A k \in {"sent", "timeout"} : apc[<<n, k>>] \in {"idle", "done"} /\ signal # <<n, k>>
  /\ pc' = [pc EXCEPT ![n] = "free"]
  /\ chan' = [chan EXCEPT ![n] = None]
  /\ answer' = [answer EXCEPT ![n] = None]
  /\ apc' = [a \in Actors |-> IF a \in {n} \X {"sent", "timeout"} THEN "idle" ELSE apc[a]]
  /\ closed' = [b \in Beats |-> IF b[1] = n THEN FALSE ELSE closed[b]]
  /\ UNCHANGED <<options, cacheVars, hold, popped, taken, left, responder, victim, signal,
                 clientVars>>

-------------------------------------------------------------------------------
Respond(a) ==
  Pop(a) \/ Take(a) \/ Deliver(a) \/ Restore(a) \/ Refuse(a)

Offline(a) == Delete(a) \/ \E t \in Topics : Load(a, t)

Beat(b) == StartBeat(b) \/ BeatInTime(b) \/ BeatMissed(b) \/ BeatEnds(b) \/ Offline(b)

Message(n) ==
  StopPop(n) \/ StopSend(n) \/ Signal(n) \/ Send(n) \/ Park(n) \/ Return(n) \/ TimeOut(n)

\* A Subscribe that was called, and an Unsubscribe
Finish(t) ==
  SubscribeReturns(t) \/ Offline(t) \/ Unsubscribed(t) \/ \E l \in Loops : StartLoop(t, l)

RunLoop(l) ==
  \/ Renew(l) \/ \E t \in Topics : Resubscribe(l, t)
  \/ \E n \in Polls : Poll(l, n) \/ Answered(l, n)

LinkFails(l) == PollFails(l) \/ \E t \in Topics : ResubscribeFails(l, t)

Next ==
  \/ \E m \in Messages : Append(m) \/ \E t \in Topics : Lookup(m, t)
  \/ \E a \in Actors : Respond(a)
  \/ \E b \in Beats : Beat(b)
  \/ \E n \in Polls : Message(n) \/ Reclaim(n)
  \/ \E t \in Topics : Subscribe(t) \/ Unsubscribe(t) \/ Finish(t)
  \/ \E l \in Loops : RunLoop(l) \/ LinkFails(l)
  \/ \E tm \in inbox : Dispatch(tm)

Spec == Init /\ [][Next]_vars

\* Goroutines run and timers fire; calls that were made return.  Nothing is
\* assumed of new pushes, subscriptions and failures.
Fairness ==
  /\ \A a \in Actors : WF_vars(Respond(a))
  /\ \A m \in Messages : WF_vars(Append(m))
  /\ \A b \in Beats : WF_vars(Beat(b))
  /\ \A n \in Polls : WF_vars(Message(n)) /\ WF_vars(Reclaim(n))
  /\ \A t \in Topics : WF_vars(Finish(t))
  /\ \A l \in Loops : WF_vars(RunLoop(l))
  /\ \A tm \in Mail : WF_vars(Dispatch(tm))

FairSpec == Spec /\ Fairness

-------------------------------------------------------------------------------
(* Safety *)

\* send and the stop of a poll never block on a responder: whoever has popped
\* it finds its channel empty, and so does the poll that replaces it in the map.
ResponderFree ==
  /\ \A a \in Actors : popped[a] # None => chan[popped[a]] = None
  /\ \A n \in Polls : victim[n] # None => chan[victim[n]] = None
  /\ responder # None => chan[responder] = None

\* A responder is in the map, or in the hands of one actor or of one poll, and
\* nobody has it before its poll parks.  With this, ResponderFree is inductive.
OneOwner ==
  /\ \A a \in Actors : popped[a] # None => popped[a] # responder
  /\ \A m \in Polls : victim[m] # None => victim[m] # responder
  /\ \A a \in Actors, m \in Polls : popped[a] # None => popped[a] # victim[m]
  /\ \A a, b \in Actors : a # b /\ popped[a] # None => popped[a] # popped[b]
  /\ \A m, n \in Polls : m # n /\ victim[m] # None => victim[m] # victim[n]

NotYetParked == {"free", "called", "stop", "signal", "send", "park"}

OwnedArePolling ==
  /\ responder # None => pc[responder] \notin NotYetParked
  /\ \A a \in Actors : popped[a] # None => pc[popped[a]] \notin NotYetParked
  /\ \A m \in Polls : victim[m] # None => pc[victim[m]] \notin NotYetParked
  /\ \A n \in Polls : pc[n] \in NotYetParked => chan[n] = None

\* Who is about to append or to delete has loaded a cache.
HoldsCache ==
  \A a \in Actors : apc[a] \in {"append", "delete"} => hold[a] # None

ResponderInv == TypeOK /\ HoldsCache /\ OneOwner /\ OwnedArePolling /\ ResponderFree

\* A message is in one place: in a cache, on its way to one poll, handed to the
\* consumer, or returned by OnUnsubscribe.  (What was received may be counted
\* once only.)
Places(tm) ==
  [cache    |-> {c \in Caches : entry[tm[1]] = c /\ tm[2] \in content[c]},
   taken    |-> {a \in Actors : taken[a] # Nil /\ tm \in taken[a]},
   chan     |-> {n \in Polls : chan[n] \notin {None, Nil} /\ tm \in chan[n]},
   answer   |-> {n \in Polls : answer[n] \notin {None, Nil} /\ tm \in answer[n]},
   inbox    |-> {tm} \cap inbox,
   received |-> {tm} \cap received,
   returned |-> {tm} \cap returned]

Copies(tm) == LET p == Places(tm)
                  sizes == [k \in DOMAIN p |-> Cardinality(p[k])]
              IN  sizes.cache + sizes.taken + sizes.chan + sizes.answer + sizes.inbox
                  + sizes.received + sizes.returned

NoDuplicates == \A tm \in Mail : Copies(tm) <= 1

\* Where mail can be once it was taken from a cache.
Stations ==
  ({"taken"} \X Actors) \cup ({"chan", "answer"} \X Polls)
    \cup ({"inbox", "received", "returned"} \X {None})

Letters(x) == IF x \in {None, Nil} THEN {} ELSE x

MailAt(s) ==
  CASE s[1] = "taken" -> IF taken[s[2]] = Nil THEN {} ELSE taken[s[2]]
    [] s[1] = "chan" -> Letters(chan[s[2]])
    [] s[1] = "answer" -> Letters(answer[s[2]])
    [] s[1] = "inbox" -> inbox
    [] s[1] = "received" -> received
    [] s[1] = "returned" -> returned

\* Mail is at one station.
MailIsSole ==
  \A r, s \in Stations : r # s => MailAt(r) \cap MailAt(s) = {}

\* What is in a cache is in no other cache and at no station, ...
CachedIsSole ==
  \A c \in Caches : \A m \in content[c] :
    /\ \A d \in Caches : m \in content[d] => d = c
    /\ \A s \in Stations, t \in Topics : <<t, m>> \notin MailAt(s)

\* ... and what was not pushed is nowhere.
UnpushedIsNowhere ==
  \A m \in Messages :
    apc[m] \in {"idle", "append"} =>
      /\ \A c \in Caches : m \notin content[c]
      /\ \A s \in Stations, t \in Topics : <<t, m>> \notin MailAt(s)

\* With this NoDuplicates is inductive: also what is in a cache that no topic
\* has any more must be nowhere else, because a late offline still returns it.
SoleInv == MailIsSole /\ CachedIsSole /\ UnpushedIsNowhere

\* A message that Unicast has appended is on its way to a poll that a loop
\* waits for, has been received, or was returned by OnUnsubscribe.
OnItsWay(tm) ==
  \/ entry[tm[1]] # None /\ tm[2] \in content[entry[tm[1]]]
  \/ tm \in inbox \cup received \cup returned
  \/ \E a \in Actors : taken[a] # Nil /\ tm \in taken[a] /\ pc[popped[a]] \in {"wait", "await"}
  \/ \E n \in Polls :
       \/ chan[n] \notin {None, Nil} /\ tm \in chan[n] /\ pc[n] \in {"wait", "await"}
       \/ answer[n] \notin {None, Nil} /\ tm \in answer[n] /\ \E l \in Loops : loop[l] = n

NoMessageLost ==
  \A m \in Messages :
    apc[m] \notin {"idle", "append"} => \E t \in Topics : OnItsWay(<<t, m>>)

\* A heartbeat that waits and has not been told to stop is the one in the map:
\* the next poll will tell it.
LatestBeatWaits ==
  \A b \in Beats : apc[b] = "wait" /\ ~closed[b] => signal = b

\* A consumer that is subscribed has a goroutine that polls.  This needs Timeout
\* off: the responder that a timed-out poll leaves in the map can take the place
\* of the one of a live poll, which is then answered with nil.
LoopAlive ==
  (\E t \in Subscribed : spc[t] = "idle") => \E l \in Loops : loop[l] # "off"

-------------------------------------------------------------------------------
(* Why LoopAlive and NoMessageLost hold *)

\* Polls neither time out nor fail.
Undisturbed == ~Timeout /\ ~Unreliable

\* message of the poll is running.
Live == {"called", "stop", "signal", "send", "park", "await"}

\* A loop waits for each poll that is running or has an answer to give.
PollsAttended ==
  /\ \A n \in Polls : pc[n] \in Live \cup {"free", "done"}
  /\ \A n \in Polls : pc[n] \in Live \/ answer[n] # None => \E l \in Loops : loop[l] = n
  /\ \A n \in Polls, l \in Loops : loop[l] = n => pc[n] # "free"
  /\ \A l \in Loops : loop[l] # "resub" /\ todo[l] = {}

\* Whose responder somebody has is waiting for it.
OwnedAreWaiting ==
  /\ responder # None => pc[responder] = "await"
  /\ \A a \in Actors : popped[a] # None => pc[popped[a]] = "await"
  /\ \A m \in Polls : victim[m] # None => pc[victim[m]] = "await"
  /\ \A n \in Polls : chan[n] # None => pc[n] = "await"

Owned(n) ==
  responder = n \/ (\E a \in Actors : popped[a] = n) \/ (\E m \in Polls : victim[m] = n)

\* The goroutine that send starts is new: its responder was never sent on.
BeatsAreNew ==
  \A n \in Polls : pc[n] \in NotYetParked \/ Owned(n) => apc[<<n, "sent">>] = "idle"

\* What is assigned to holds no message.
NothingOverwritten ==
  /\ \A a \in Actors : apc[a] \in {"take", "deliver", "restore", "refuse"} <=> popped[a] # None
  /\ \A a \in Actors : apc[a] # "deliver" => taken[a] = {}
  /\ \A n \in Polls : answer[n] # None => pc[n] = "done"

\* Nobody has decided to answer the loop with nil.
Sound(l) ==
  \/ loop[l] = "poll"
  \/ \E n \in Polls : /\ loop[l] = n /\ chan[n] # Nil /\ answer[n] # Nil
                      /\ \A m \in Polls : victim[m] # n
                      /\ \A a \in Actors : popped[a] = n => apc[a] # "refuse" /\ taken[a] # Nil

\* Of a consumer that is subscribed one goroutine will go on.
SoundLoop == (\E t \in Subscribed : spc[t] = "idle") => \E l \in Loops : Sound(l)

\* With this LoopAlive is inductive, heartbeats and unsubscribes or not.
AttendedInv ==
  Undisturbed =>
    PollsAttended /\ OwnedAreWaiting /\ BeatsAreNew /\ NothingOverwritten /\ SoundLoop

\* Nobody takes a topic from the consumer.
Kept == Undisturbed /\ ~HeartBeat /\ ~Unsubscribes

NobodyLeaves ==
  /\ \A b \in Beats : apc[b] \in {"idle", "done"}
  /\ \A t \in Topics : apc[t] = "idle"

\* A push that has loaded a cache has the one of the topic.
HoldsEntry ==
  \A m \in Messages : hold[m] # None => entry[hold[m][1]] = hold[m][2]

\* There is a callback for what is dispatched, and will be.
Welcome ==
  /\ \A t \in Topics : entry[t] # None \/ spc[t] # "idle" => t \in callbacks
  /\ \A a \in Actors : \A tm \in Letters(taken[a]) : tm[1] \in callbacks
  /\ \A n \in Polls : \A tm \in Letters(chan[n]) \cup Letters(answer[n]) : tm[1] \in callbacks
  /\ \A tm \in inbox : tm[1] \in callbacks

\* With this and AttendedInv NoMessageLost is inductive.
KeptInv == Kept => NobodyLeaves /\ HoldsEntry /\ Welcome /\ NoMessageLost

-------------------------------------------------------------------------------
(* Liveness *)

Running == {l \in Loops : loop[l] # "off"}

\* A poll that lost its place to another is answered.
ReplacedPollReturns ==
  \A n \in Polls : (pc[n] = "await" /\ responder # n) ~> (pc[n] # "await" \/ responder = n)

\* Every Subscribe starts a goroutine that polls, and they stop each other until
\* one is left: the polls that are replaced end, and so do their loops.
LoopsConverge ==
  /\ ReplacedPollReturns
  /\ Cardinality(Running) > 1 ~> Cardinality(Running) <= 1 \/ \E t \in Topics : spc[t] # "idle"
===============================================================================

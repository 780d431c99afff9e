----------------------------- MODULE MCEndpoints -----------------------------
(* One run for the parts whose goroutines have to end and whose calls have *)
(* to be answered: the circuit breaker, the concurrency limiter, forking   *)
(* and broadcast, the execution of a request, the connections of UDP and   *)
(* WebSocket clients, the connection handlers of the servers, and the mock *)
(* agent.  part says which of them moves; the others stand still.          *)
EXTENDS CircuitBreaker, Sequences

CONSTANTS Callers, Slots, Workers, Calls, Conns,
          Asked, PoolSize, QueueSize, MaxBatch, Nested, MaxWrites

ASSUME EndpointsAssumption ==
  /\ IsFiniteSet(Callers) /\ Slots \in Nat
  /\ IsFiniteSet(Workers) /\ Workers # {}
  /\ IsFiniteSet(Asked) /\ PoolSize \in Nat /\ QueueSize \in Nat /\ MaxBatch \in Nat \ {0}
  /\ IsFiniteSet(Calls) /\ Calls # {} /\ 0 \notin Conns
  /\ MaxWrites \in Nat

VARIABLES part,
          timed, tasks, parked, where,
          plan, worker, count, once, answer, returned,
          plugin, handler, method, over, answers, reply, crashed,
          medium, mask, current, open, done, counter, results, requests, doing, writing,
          calling, inbox, answered, asks, replies, lapped,
          kind, pooled, asked, receive, held, work, queue, send, batch, written, errChan, ctxDone, serve,
          registered, readers, writer, writes, caller, gor, result, outcome

lvars == <<timed, tasks, parked, where>>
fvars == <<plan, worker, count, once, answer, returned>>
evars == <<plugin, handler, method, over, answers, reply, crashed>>
mvars == <<medium, mask, current, open, done, counter, results, requests, doing, writing,
           calling, inbox, answered, asks, replies, lapped>>
hvars == <<kind, pooled, asked, receive, held, work, queue, send, batch, written, errChan, ctxDone, serve>>
avars == <<registered, readers, writer, writes, caller, gor, result, outcome>>
allvars == <<part, bvars, lvars, fvars, evars, mvars, hvars, avars>>

(* A call, one that its handler makes, and one beside them.                *)
NestedCall == [c \in {"a", "b", "c"} |-> IF c = "b" THEN "a" ELSE c]

Limiter   == INSTANCE ConcurrentLimiter WITH queue <- parked
Fork      == INSTANCE Forking
Execution == INSTANCE Execution WITH inbox <- answers
Conn      == INSTANCE MessageConn WITH queue <- requests
Server    == INSTANCE ConnHandler WITH Requests <- Asked
Mock      == INSTANCE MockAgent

Parts == {"breaker", "limiter", "fork", "execution", "conn", "server", "mock"}

(* What has a choice of options makes it only if it is the part that moves.*)
MCInit ==
  /\ part \in Parts
  /\ Init           /\ (part = "breaker" \/ up)
  /\ Limiter!Init   /\ (part = "limiter" \/ timed)
  /\ Fork!Init      /\ (part = "fork" \/ plan = "forking")
  /\ Execution!Init /\ (part = "execution" \/ plugin = "none")
  /\ Conn!Init      /\ (part = "conn" \/ (medium = "udp" /\ mask = 1))
  /\ Server!Init    /\ (part = "server" \/ (kind = "udp" /\ pooled))
  /\ Mock!Init

MCNext ==
  \/ part = "breaker"   /\ Next           /\ UNCHANGED <<part, lvars, fvars, evars, mvars, hvars, avars>>
  \/ part = "limiter"   /\ Limiter!Next   /\ UNCHANGED <<part, bvars, fvars, evars, mvars, hvars, avars>>
  \/ part = "fork"      /\ Fork!Next      /\ UNCHANGED <<part, bvars, lvars, evars, mvars, hvars, avars>>
  \/ part = "execution" /\ Execution!Next /\ UNCHANGED <<part, bvars, lvars, fvars, mvars, hvars, avars>>
  \/ part = "conn"      /\ Conn!Next      /\ UNCHANGED <<part, bvars, lvars, fvars, evars, hvars, avars>>
  \/ part = "server"    /\ Server!Next    /\ UNCHANGED <<part, bvars, lvars, fvars, evars, mvars, avars>>
  \/ part = "mock"      /\ Mock!Next      /\ UNCHANGED <<part, bvars, lvars, fvars, evars, mvars, hvars>>

(* The fairness of each part, for the one that moves.                      *)
MCFairness ==
  /\ WF_bvars(part = "breaker" /\ Tick)
  /\ \A r \in Requests : WF_bvars(part = "breaker" /\ Step(r))
  /\ \A c \in Callers : WF_lvars(part = "limiter" /\ Limiter!Finish(c)) /\ WF_lvars(part = "limiter" /\ Limiter!Release(c))
  /\ WF_fvars(part = "fork" /\ Fork!Return)
  /\ \A w \in Workers : WF_fvars(part = "fork" /\ Fork!Step(w))
  /\ WF_evars(part = "execution" /\ Execution!Start) /\ WF_evars(part = "execution" /\ Execution!Expire)
  /\ WF_evars(part = "execution" /\ Execution!Deliver) /\ WF_evars(part = "execution" /\ Execution!Select)
  /\ \A c \in Calls : WF_mvars(part = "conn" /\ Conn!Progress(c))
  /\ \A k \in Conns : /\ WF_mvars(part = "conn" /\ Conn!Sender(k))
                      /\ WF_mvars(part = "conn" /\ Conn!ReadFails(k))
                      /\ WF_mvars(part = "conn" /\ Conn!Closing(k))
  /\ WF_hvars(part = "server" /\ Server!ReadOrFail)
  /\ WF_hvars(part = "server" /\ Server!Sender) /\ WF_hvars(part = "server" /\ Server!Server)
  /\ \A r \in Asked : WF_hvars(part = "server" /\ Server!Worker(r))
  /\ WF_avars(part = "mock" /\ Mock!Write)
  /\ \A c \in DOMAIN Nested : WF_avars(part = "mock" /\ Mock!Step(c)) /\ WF_avars(part = "mock" /\ Mock!Return(c))

MCSpec == MCInit /\ [][MCNext]_allvars /\ MCFairness

-----------------------------------------------------------------------------
(* The properties of the parts, those that belong together as one.         *)

(* The type invariants of all seven, with the limits of pool and queue.    *)
Types == /\ TypeOK /\ Limiter!TypeOK /\ Fork!TypeOK /\ Execution!TypeOK
         /\ Conn!TypeOK /\ Server!TypeOK /\ Mock!TypeOK

(* CircuitBreaker: while open it admits no more than were on their way in, *)
(* and only failures open it.                                              *)
CountsFailures == CountBounded /\ OpensOnFailures

(* ConcurrentLimiter: a token for each running request, none lost.         *)
SlotsHeld == Limiter!SlotsHeld

(* Forking fails only if it failed everywhere; the result of Broadcast is  *)
(* complete when it is read.                                               *)
ForksAnswer == Fork!ForkAnswers /\ Fork!CastComplete

(* Forking and Broadcast return, once: late goroutines do not change what  *)
(* was returned.                                                           *)
ForksReturn == Fork!AnswerKept /\ []<>(part = "fork" => returned)

(* MessageConn: a call gets one result and nobody else's, and those that   *)
(* were given up leave nothing behind.                                     *)
RepliesKept == Conn!OwnReply /\ Conn!OneResult /\ Conn!NothingLeft

(* The servers: a request is answered once, an error is the last that is   *)
(* written on a connection, no handler of a cancelled server runs, and a   *)
(* panic of a method ends its request only.                                *)
ServersAnswer == Execution!PanicContained /\ Server!AnsweredOnce /\ Server!ErrorIsLast /\ Mock!ClosedIsQuiet

(* Who waits is served: for a token of the limiter, the timeout plugin,    *)
(* the answer of a server or the lock of the mock agent.                   *)
WaitersServed == Limiter!Served /\ Execution!InTime /\ Server!Answered /\ Mock!WriterServed

(* Goroutines end: those of a client's connection that is closed, of a     *)
(* server's connection once one has ended, of a mock call, and of a method *)
(* that ends after its timeout.                                            *)
GoroutinesEnd == Conn!GoroutinesExit /\ Server!AllGone /\ Mock!CallsEnd /\ Execution!NoGoroutineLeft
=============================================================================

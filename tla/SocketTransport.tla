--------------------------- MODULE SocketTransport ---------------------------
(***************************************************************************)
(* The client side of the socket transport (rpc/socket/transport.go) for   *)
(* one URL: many callers multiplexed over one connection at a time.        *)
(*                                                                         *)
(* A connection has two goroutines, Send and Receive.  A caller registers  *)
(* a result channel under a fresh index in conn.results, queues a frame    *)
(* and waits on its channel.  Receive claims the entry of the index it     *)
(* reads and delivers the body; Close claims whatever is registered and    *)
(* delivers an error.  Closers are Send, Receive (when their I/O fails)    *)
(* and Abort, all of which may run at once.                                *)
(*                                                                         *)
(* A step is what the code does between two points where another goroutine *)
(* can observe it: a critical section, a channel operation, an I/O call.   *)
(* The peer is external: it answers frames in any order, may answer with   *)
(* an error frame, and the link may break at any time.                     *)
(***************************************************************************)
EXTENDS Naturals, Sequences, FiniteSets

CONSTANTS
  Calls,       \* invocations of Transport, each made once
  Conns,       \* the connections the dialer can hand out
  QueueCap,    \* capacity of conn.requests (256)
  MaxBatch,    \* maxBatchFrames (32)
  IndexLimit,  \* largest index: 2^31 - 1, the mask of conn.counter
  MaxAborts,   \* bound on the calls of Abort that find a connection
  None         \* nil

Closers == {"send", "recv", "abort"}

ASSUME NoneAssumption == None \notin Calls /\ None \notin Conns
ASSUME CapAssumption == QueueCap \in Nat \ {0} /\ MaxBatch \in Nat \ {0}
ASSUME IndexAssumption == IndexLimit \in Nat \ {0} /\ MaxAborts \in Nat

VARIABLES
  \* callers
  pc,         \* pc[k]: where the call of Transport is
  conn,       \* conn[k]: the connection getConn returned
  index,      \* index[k]: the index of the request, 0 before it has one
  chan,       \* chan[k]: its result channel; a channel is named by the
              \*          call that made it
  reply,      \* reply[k]: the request whose response k returned
  \* channels
  buf,        \* buf[ch]: the data in the channel (capacity 1), or None
  \* Transport
  current,    \* trans.conns[key], or None
  dialed,     \* the connections made so far
  \* connections
  counter, results, requests, pool,
  batch,      \* the frames collected in c.bufs
  cancelled,  \* the context of the Send and Receive goroutines
  link,       \* "none", "up", "broken" (by the peer), "closed" (by Close)
  gs,         \* gs[c][p]: where the goroutine, as a closer, is: "fail" and
              \*           "quit" are before Exit, with and without an error
  hold,       \* hold[c][p]: entries claimed and not yet delivered
  \* the peer
  up,         \* requests written and not yet executed
  down,       \* responses not yet read
  executed    \* executed[k]: how often the peer executed request k

callerVars == <<pc, conn, index, chan, reply>>
transVars  == <<current, dialed>>
connVars   == <<counter, results, requests, pool, batch>>
goVars     == <<cancelled, link, gs, hold>>
peerVars   == <<up, down, executed>>
vars == <<callerVars, buf, transVars, connVars, goVars, peerVars>>

Indices  == 1..IndexLimit
Frame    == [index : Indices, body : Calls]
\* A response frame or the data in a channel; body = None is an error.
Data     == [index : Indices, body : Calls \cup {None}]
Claim    == [index : Indices, chan : Calls, body : Calls \cup {None}]
Returned == {"replied", "failed", "expired"}
Active   == {"send", "wait"}   \* Transport is in one of its two selects

TypeOK ==
  /\ pc \in [Calls -> {"idle", "dial", "ready"} \cup Active \cup Returned]
  /\ conn \in [Calls -> Conns \cup {None}]
  /\ index \in [Calls -> Indices \cup {0}]
  /\ chan \in [Calls -> Calls \cup {None}]
  /\ reply \in [Calls -> Calls \cup {None}]
  /\ buf \in [Calls -> Data \cup {None}]
  /\ current \in Conns \cup {None}
  /\ dialed \in SUBSET Conns
  /\ counter \in [Conns -> Indices \cup {0}]
  /\ results \in [Conns -> [Indices -> Calls \cup {None}]]
  /\ requests \in [Conns -> Seq(Frame)]
  /\ pool \in [Conns -> SUBSET Calls]
  /\ batch \in [Conns -> Seq(Frame)]
  /\ cancelled \in [Conns -> BOOLEAN]
  /\ link \in [Conns -> {"none", "up", "broken", "closed"}]
  /\ gs \in [Conns -> [Closers ->
               {"off", "run", "fail", "quit", "close", "clean", "done"}]]
  /\ hold \in [Conns -> [Closers -> SUBSET Claim]]
  /\ up \in [Conns -> SUBSET Frame]
  /\ down \in [Conns -> SUBSET Data]
  /\ executed \in [Calls -> Nat]

Init ==
  /\ pc = [k \in Calls |-> "idle"]
  /\ conn = [k \in Calls |-> None]
  /\ index = [k \in Calls |-> 0]
  /\ chan = [k \in Calls |-> None]
  /\ reply = [k \in Calls |-> None]
  /\ buf = [k \in Calls |-> None]
  /\ current = None
  /\ dialed = {}
  /\ counter = [c \in Conns |-> 0]
  /\ results = [c \in Conns |-> [i \in Indices |-> None]]
  /\ requests = [c \in Conns |-> <<>>]
  /\ pool = [c \in Conns |-> {}]
  /\ batch = [c \in Conns |-> <<>>]
  /\ cancelled = [c \in Conns |-> FALSE]
  /\ link = [c \in Conns |-> "none"]
  /\ gs = [c \in Conns |-> [p \in Closers |-> "off"]]
  /\ hold = [c \in Conns |-> [p \in Closers |-> {}]]
  /\ up = [c \in Conns |-> {}]
  /\ down = [c \in Conns |-> {}]
  /\ executed = [k \in Calls |-> 0]

-------------------------------------------------------------------------------
(* Transport.getConn *)

UseConn(k, c) ==
  /\ conn' = [conn EXCEPT ![k] = c]
  /\ pc' = [pc EXCEPT ![k] = "ready"]

\* The read-locked lookup: hit, or fall through to the write lock.
GetConn(k) ==
  /\ pc[k] = "idle"
  /\ \/ current # None /\ UseConn(k, current)
     \/ /\ current = None
        /\ pc' = [pc EXCEPT ![k] = "dial"]
        /\ UNCHANGED conn
  /\ UNCHANGED <<index, chan, reply, buf, transVars, connVars, goVars, peerVars>>

\* Under the write lock another caller's connection is found after all.
FindConn(k) ==
  /\ pc[k] = "dial"
  /\ current # None
  /\ UseConn(k, current)
  /\ UNCHANGED <<index, chan, reply, buf, transVars, connVars, goVars, peerVars>>

\* newConn succeeds; conns[key] is set and both goroutines start.
Dial(k, c) ==
  /\ pc[k] = "dial"
  /\ current = None
  /\ c \notin dialed
  /\ dialed' = dialed \cup {c}
  /\ current' = c
  /\ link' = [link EXCEPT ![c] = "up"]
  /\ gs' = [gs EXCEPT ![c]["send"] = "run", ![c]["recv"] = "run"]
  /\ UseConn(k, c)
  /\ UNCHANGED <<index, chan, reply, buf, connVars, cancelled, hold, peerVars>>

DialFails(k) ==
  /\ pc[k] = "dial"
  /\ current = None
  /\ pc' = [pc EXCEPT ![k] = "failed"]
  /\ UNCHANGED <<conn, index, chan, reply, buf, transVars, connVars, goVars,
                 peerVars>>

-------------------------------------------------------------------------------
(* conn.Transport *)

\* atomic.AddInt32(&c.counter, 1) & 0x7fffffff
RacyIndex(c) == IF counter[c] = 0 THEN 1 ELSE counter[c]
NextIndex(c) == counter[c] + 1

\* index := NextIndex(c); a result channel from the pool, or a new one (the
\* pool may be empty to this processor); c.store(index, resultChan).
\* IndexLimit bounds the calls of one connection: the mask is the identity.
Register(k) ==
  LET c == conn[k]
      i == NextIndex(c)
  IN /\ pc[k] = "ready"
     /\ i \in Indices
     /\ counter' = [counter EXCEPT ![c] = i]
     /\ \E ch \in pool[c] \cup {k} :
          /\ chan' = [chan EXCEPT ![k] = ch]
          /\ pool' = [pool EXCEPT ![c] = @ \ {ch}]
          /\ results' = [results EXCEPT ![c][i] = ch]
     /\ index' = [index EXCEPT ![k] = i]
     /\ pc' = [pc EXCEPT ![k] = "send"]
     /\ UNCHANGED <<conn, reply, buf, transVars, requests, batch, goVars,
                    peerVars>>

\* c.requests <- data{index, request}
Enqueue(k) ==
  LET c == conn[k]
  IN /\ pc[k] = "send"
     /\ Len(requests[c]) < QueueCap
     /\ requests' = [requests EXCEPT ![c] =
                       Append(@, [index |-> index[k], body |-> k])]
     /\ pc' = [pc EXCEPT ![k] = "wait"]
     /\ UNCHANGED <<conn, index, chan, reply, buf, transVars, counter, results,
                    pool, batch, goVars, peerVars>>

\* What a call that gives up leaves in the pool: its channel may still get a
\* late response, so it is left to the garbage collector.
PoolWithChannel(k) == pool[conn[k]] \cup {chan[k]}
PoolAfterExpiry(k) == pool[conn[k]]

\* <-ctx.Done() in either select: c.delete(index).
Expire(k) ==
  LET c == conn[k]
  IN /\ pc[k] \in Active
     /\ results' = [results EXCEPT ![c][index[k]] = None]
     /\ pool' = [pool EXCEPT ![c] = PoolAfterExpiry(k)]
     /\ pc' = [pc EXCEPT ![k] = "expired"]
     /\ UNCHANGED <<conn, index, chan, reply, buf, transVars, counter, requests,
                    batch, goVars, peerVars>>

\* res := <-resultChan.  With res.Index = index the channel is drained and
\* goes back to the pool, and Transport returns (res.Body, res.Error); any
\* other response is dropped and the caller keeps waiting.
Return(k) ==
  LET ch   == chan[k]
      mine == buf[ch].index = index[k]
  IN /\ pc[k] = "wait"
     /\ buf[ch] # None
     /\ pc' = [pc EXCEPT ![k] = IF ~mine THEN @
                                ELSE IF buf[ch].body = None THEN "failed"
                                ELSE "replied"]
     /\ reply' = [reply EXCEPT ![k] = IF mine THEN buf[ch].body ELSE @]
     /\ pool' = [pool EXCEPT ![conn[k]] = IF mine THEN @ \cup {ch} ELSE @]
     /\ buf' = [buf EXCEPT ![ch] = None]
     /\ UNCHANGED <<conn, index, chan, transVars, counter, results, requests,
                    batch, goVars, peerVars>>

-------------------------------------------------------------------------------
(* conn.Send *)

Frames(s) == {s[n] : n \in 1..Len(s)}

\* The outer receive for the first frame of a batch, the inner one for the
\* others.
Collect(c) ==
  /\ gs[c]["send"] = "run"
  /\ requests[c] # <<>>
  /\ Len(batch[c]) < MaxBatch
  /\ batch' = [batch EXCEPT ![c] = Append(@, Head(requests[c]))]
  /\ requests' = [requests EXCEPT ![c] = Tail(@)]
  /\ UNCHANGED <<callerVars, buf, transVars, counter, results, pool, goVars,
                 peerVars>>

\* The frames left to write after a write: count restarts at 0.
RewrittenBatch(c) == batch[c]
BatchAfterWrite(c) == <<>>

\* writeBatch succeeds.  A batch may be cut short by maxBatchBytes, so any
\* non-empty batch can be written.  Frames written to a broken link are lost.
Write(c) ==
  /\ gs[c]["send"] = "run"
  /\ batch[c] # <<>>
  /\ link[c] # "closed"
  /\ up' = [up EXCEPT ![c] = IF link[c] = "up" THEN @ \cup Frames(batch[c])
                                               ELSE @]
  /\ batch' = [batch EXCEPT ![c] = BatchAfterWrite(c)]
  /\ UNCHANGED <<callerVars, buf, transVars, counter, results, requests, pool,
                 goVars, down, executed>>

Leave(c, p, how) == gs' = [gs EXCEPT ![c][p] = how]

WriteFails(c) ==
  /\ gs[c]["send"] = "run"
  /\ batch[c] # <<>>
  /\ link[c] # "up"
  /\ batch' = [batch EXCEPT ![c] = <<>>]
  /\ Leave(c, "send", "fail")
  /\ UNCHANGED <<callerVars, buf, transVars, counter, results, requests, pool,
                 cancelled, link, hold, peerVars>>

\* <-ctx.Done() while waiting for the first frame of a batch.
SendCancelled(c) ==
  /\ gs[c]["send"] = "run"
  /\ batch[c] = <<>>
  /\ cancelled[c]
  /\ Leave(c, "send", "quit")
  /\ UNCHANGED <<callerVars, buf, transVars, connVars, cancelled, link, hold, peerVars>>

-------------------------------------------------------------------------------
(* conn.Receive *)

Reading(c) == gs[c]["recv"] = "run" /\ hold[c]["recv"] = {}

\* A response frame: loadAndDelete(index).  Bytes already buffered are read
\* even when the link is gone.
Read(c, d) ==
  /\ Reading(c)
  /\ d \in down[c]
  /\ d.body # None
  /\ down' = [down EXCEPT ![c] = @ \ {d}]
  /\ hold' = [hold EXCEPT ![c]["recv"] =
                IF results[c][d.index] = None THEN {}
                ELSE {[index |-> d.index, chan |-> results[c][d.index],
                       body |-> d.body]}]
  /\ results' = [results EXCEPT ![c][d.index] = None]
  /\ UNCHANGED <<callerVars, buf, transVars, counter, requests, pool, batch,
                 cancelled, link, gs, up, executed>>

\* An error frame fails the whole connection.
ReadError(c, d) ==
  /\ Reading(c)
  /\ d \in down[c]
  /\ d.body = None
  /\ down' = [down EXCEPT ![c] = @ \ {d}]
  /\ Leave(c, "recv", "fail")
  /\ UNCHANGED <<callerVars, buf, transVars, connVars, cancelled, link, hold, up,
                 executed>>

ReadFails(c) ==
  /\ Reading(c)
  /\ link[c] # "up"
  /\ Leave(c, "recv", "fail")
  /\ UNCHANGED <<callerVars, buf, transVars, connVars, cancelled, link, hold, peerVars>>

ReceiveCancelled(c) ==
  /\ Reading(c)
  /\ cancelled[c]
  /\ Leave(c, "recv", "quit")
  /\ UNCHANGED <<callerVars, buf, transVars, connVars, cancelled, link, hold, peerVars>>

\* resultChan <- data: blocks while the channel is full.  The response of
\* Receive, or one of the errors of Close.
Deliver(c, p, h) ==
  /\ h \in hold[c][p]
  /\ buf[h.chan] = None
  /\ buf' = [buf EXCEPT ![h.chan] = [index |-> h.index, body |-> h.body]]
  /\ hold' = [hold EXCEPT ![c][p] = @ \ {h}]
  /\ UNCHANGED <<callerVars, transVars, connVars, cancelled, link, gs,
                 peerVars>>

-------------------------------------------------------------------------------
(* conn.Exit, conn.Close and Transport.Abort *)

\* onExit unmaps the connection if it is still mapped, and cancels its context
\* whether it was or not.
StillMapped(c) == current
UnmappedAny(c) == None
Unmapped(c) == IF current = c THEN None ELSE current

CancelIfMapped(c) == cancelled[c] \/ current = c
CancelAlways(c) == TRUE

\* Exit: onExit, then Close if there was an error.
Exit(c, p) ==
  /\ gs[c][p] \in {"fail", "quit"}
  /\ current' = Unmapped(c)
  /\ cancelled' = [cancelled EXCEPT ![c] = CancelAlways(c)]
  /\ gs' = [gs EXCEPT ![c][p] = IF gs[c][p] = "fail" THEN "close" ELSE "done"]
  /\ UNCHANGED <<callerVars, buf, dialed, connVars, link, hold, peerVars>>

\* Abort replaces trans.conns and then closes what was mapped.
Abort(c) ==
  /\ current = c
  /\ Cardinality({d \in Conns : gs[d]["abort"] # "off"}) < MaxAborts
  /\ current' = None
  /\ gs' = [gs EXCEPT ![c]["abort"] = "close"]
  /\ UNCHANGED <<callerVars, buf, dialed, connVars, cancelled, link, hold, peerVars>>

\* once.Do: onClose and Conn.Close.
CloseLink(c, p) ==
  /\ gs[c][p] = "close"
  /\ link' = [link EXCEPT ![c] = "closed"]
  /\ gs' = [gs EXCEPT ![c][p] = "clean"]
  /\ UNCHANGED <<callerVars, buf, transVars, connVars, cancelled, hold, peerVars>>

Registered(c) == {i \in Indices : results[c][i] # None}

\* The table after the swap in rangeAndClean, and the loop's exit.
SharedTable(c) == results[c]
NilTable(c) == <<>>
EmptyTable(c) == [i \in Indices |-> None]

OneSweep(c) == TRUE
Swept(c) == Registered(c) = {}

\* One turn of the loop of rangeAndClean: claim all that is registered, or
\* leave when nothing is.
Clean(c, p) ==
  /\ gs[c][p] = "clean"
  /\ hold[c][p] = {}
  /\ hold' = [hold EXCEPT ![c][p] =
                {[index |-> i, chan |-> results[c][i], body |-> None] :
                   i \in Registered(c)}]
  /\ results' = [results EXCEPT ![c] = EmptyTable(c)]
  /\ gs' = [gs EXCEPT ![c][p] = IF Swept(c) THEN "done" ELSE @]
  /\ UNCHANGED <<callerVars, buf, transVars, counter, requests, pool, batch,
                 cancelled, link, peerVars>>

-------------------------------------------------------------------------------
(* The peer and the network *)

\* The server executes a request and answers it: with a response, with an
\* error frame, or not at all when the link is gone.
Serve(c, f) ==
  /\ f \in up[c]
  /\ up' = [up EXCEPT ![c] = @ \ {f}]
  /\ executed' = [executed EXCEPT ![f.body] = @ + 1]
  /\ \E b \in {f.body, None} :
       down' = [down EXCEPT ![c] = IF link[c] = "up"
                                   THEN @ \cup {[index |-> f.index, body |-> b]}
                                   ELSE @]
  /\ UNCHANGED <<callerVars, buf, transVars, connVars, goVars>>

Break(c) ==
  /\ link[c] = "up"
  /\ link' = [link EXCEPT ![c] = "broken"]
  /\ UNCHANGED <<callerVars, buf, transVars, connVars, cancelled, gs, hold, peerVars>>

-------------------------------------------------------------------------------
Caller(k) ==
  \/ GetConn(k) \/ FindConn(k) \/ (\E c \in Conns : Dial(k, c)) \/ DialFails(k)
  \/ Register(k) \/ Enqueue(k) \/ Expire(k) \/ Return(k)

Sender(c) == Collect(c) \/ Write(c) \/ WriteFails(c) \/ SendCancelled(c)

ReadFrame(c) == ReadFails(c) \/ \E d \in down[c] : Read(c, d) \/ ReadError(c, d)

Receiver(c) == ReadFrame(c) \/ ReceiveCancelled(c)

Closer(c, p) ==
  \/ Exit(c, p) \/ CloseLink(c, p) \/ Clean(c, p)
  \/ \E h \in hold[c][p] : Deliver(c, p, h)

Peer(c) == Break(c) \/ \E f \in up[c] : Serve(c, f)

Next ==
  \/ \E k \in Calls : Caller(k)
  \/ \E c \in Conns : Sender(c) \/ Receiver(c) \/ Abort(c) \/ Peer(c)
  \/ \E c \in Conns, p \in Closers : Closer(c, p)

Spec == Init /\ [][Next]_vars

\* The Go scheduler runs every goroutine that can run.  Nothing is assumed of
\* the peer, of Abort, of new calls or of deadlines.  Receive looks at its
\* context only between two reads, so it is not assumed to notice it.
Fairness ==
  /\ \A k \in Calls : WF_vars(Enqueue(k) \/ Return(k))
  /\ \A c \in Conns : WF_vars(Sender(c)) /\ WF_vars(ReadFrame(c))
  /\ \A c \in Conns, p \in Closers : WF_vars(Closer(c, p))

FairSpec == Spec /\ Fairness

-------------------------------------------------------------------------------
(* Safety *)

\* A call that returns a response returns the response to its own request,
\* whatever was late, abandoned or in flight on the shared connection.
OwnReply == \A k \in Calls : pc[k] = "replied" => reply[k] = k

\* A request reaches the server at most once: batching neither repeats a
\* frame nor carries one over to the next batch or connection.
AtMostOnce == \A k \in Calls : executed[k] <= 1

\* Reusing a result channel is safe: a channel in the pool is empty, no caller
\* waits on it, and nobody holds a reference through which a late response
\* could still be sent to it.
PooledChannelsIdle ==
  \A c \in Conns : \A ch \in pool[c] :
    /\ buf[ch] = None
    /\ \A k \in Calls : pc[k] \in Active => chan[k] # ch
    /\ \A d \in Conns, i \in Indices : results[d][i] # ch
    /\ \A d \in Conns, p \in Closers : \A h \in hold[d][p] : h.chan # ch

\* The sends of Receive and of Close on a result channel never block: the
\* channel is empty and no other goroutine is about to send to it.  A full
\* channel would stop the reader of every call on the connection.
DeliveryNeverBlocks ==
  \A c, d \in Conns, p, q \in Closers :
    \A h \in hold[c][p], g \in hold[d][q] :
      /\ buf[h.chan] = None
      /\ h.chan = g.chan => c = d /\ p = q /\ h = g

\* getConn never hands out a connection that was closed, or whose Send
\* goroutine was told to stop: it is unmapped before either happens.
MappedConnIsLive ==
  current # None => ~cancelled[current] /\ link[current] # "closed"

\* No connection is leaked: one that still runs is either mapped, so that a
\* later Abort reaches it, or is being closed by an Abort.  A connection that
\* exits must not unmap its successor.
RunningConnIsMapped ==
  \A c \in dialed :
    gs[c]["send"] = "run" /\ gs[c]["recv"] = "run" =>
      current = c \/ gs[c]["abort"] # "off"

-------------------------------------------------------------------------------
(* Why OwnReply holds: an inductive invariant *)

\* What a call knows at each of its steps.
Located ==
  \A k \in Calls :
    /\ pc[k] \in {"idle", "dial"} => conn[k] = None
    /\ pc[k] \in {"idle", "dial", "ready"} => index[k] = 0 /\ chan[k] = None
    /\ pc[k] \in {"ready"} \cup Active => conn[k] \in Conns
    /\ pc[k] \in Active => index[k] \in Indices /\ chan[k] \in Calls

\* An index is used once per connection.
IndexUnique ==
  /\ \A k \in Calls : conn[k] # None => index[k] <= counter[conn[k]]
  /\ \A j, k \in Calls :
       j # k /\ conn[j] = conn[k] /\ index[j] = index[k] => index[k] = 0

\* d carries, on connection c, the index under which its body was sent there.
Carries(c, d) == d.body # None => conn[d.body] = c /\ index[d.body] = d.index

\* Whatever is in flight on a connection was sent on it.
InFlight ==
  \A c \in Conns :
    /\ \A f \in Frames(requests[c]) \cup Frames(batch[c]) \cup up[c] \cup down[c] :
         Carries(c, f)
    /\ \A p \in Closers : \A h \in hold[c][p] :
         Carries(c, h) /\ conn[h.chan] = c

\* A result channel never leaves the connection of the call that made it.
ChannelsStay ==
  /\ \A c \in Conns :
       /\ \A ch \in pool[c] : conn[ch] = c
       /\ \A i \in Indices : results[c][i] # None => conn[results[c][i]] = c
  /\ \A k \in Calls :
       chan[k] # None => conn[k] # None /\ conn[chan[k]] = conn[k]
  /\ \A ch \in Calls :
       buf[ch] # None => conn[ch] # None /\ Carries(conn[ch], buf[ch])

OwnReplyInv ==
  /\ TypeOK
  /\ Located
  /\ IndexUnique
  /\ InFlight
  /\ ChannelsStay
  /\ OwnReply

-------------------------------------------------------------------------------
(* Why PooledChannelsIdle and DeliveryNeverBlocks hold *)

\* The call has not come as far as conn.Transport's first line.
Unused == {"idle", "dial", "ready"}

\* Two calls never wait on the same channel.
OneWaiter ==
  \A j, k \in Calls :
    pc[j] \in Active /\ pc[k] \in Active /\ chan[j] = chan[k] => j = k

\* An entry of the table is that of a call that still waits.
EntriesHaveWaiters ==
  \A c \in Conns, i \in Indices :
    results[c][i] # None =>
      \E k \in Calls : /\ pc[k] \in Active
                       /\ conn[k] = c /\ index[k] = i
                       /\ chan[k] = results[c][i]

\* A channel that is claimed or full is in no table: nobody else can claim it.
ClaimsAreSole ==
  /\ \A c, d \in Conns, i \in Indices, p \in Closers : \A h \in hold[d][p] :
       results[c][i] # h.chan
  /\ \A c \in Conns, i \in Indices, ch \in Calls :
       buf[ch] # None => results[c][i] # ch

\* The channel a call would make does not exist before the call makes it.
NotMadeYet ==
  \A k \in Calls :
    pc[k] \in Unused =>
      /\ buf[k] = None
      /\ \A j \in Calls : chan[j] # k
      /\ \A c \in Conns : k \notin pool[c] /\ \A i \in Indices : results[c][i] # k
      /\ \A c \in Conns, p \in Closers : \A h \in hold[c][p] : h.chan # k

\* A result channel is a token: it is in the pool, in a table, in the hands of
\* one goroutine or full, and in one of these at a time.
TokenInv ==
  /\ OneWaiter
  /\ EntriesHaveWaiters
  /\ ClaimsAreSole
  /\ NotMadeYet
  /\ PooledChannelsIdle
  /\ DeliveryNeverBlocks

-------------------------------------------------------------------------------
(* Why AtMostOnce holds, and the refinement of RpcChannel *)

\* No two frames of a queue have the same body.
Once(s) == \A m, n \in 1..Len(s) : s[m].body = s[n].body => m = n

\* The frames of c whose request the server has not executed.
Unexecuted(c) == Frames(requests[c]) \cup Frames(batch[c]) \cup up[c]

\* A frame of c is in one of the queue, the batch and the network, once, and it
\* is that of a call that has queued it and was not executed.
SoleAt(c) ==
  /\ Once(requests[c]) /\ Once(batch[c])
  /\ \A f \in Frames(requests[c]), g \in Frames(batch[c]) : f.body # g.body
  /\ \A f \in Frames(requests[c]) \cup Frames(batch[c]), g \in up[c] :
       f.body # g.body
  /\ \A f \in Unexecuted(c) :
       executed[f.body] = 0 /\ pc[f.body] \notin Unused \cup {"send"}

FramesAreSole == \A c \in Conns : SoleAt(c)

\* A request that was not queued was not executed.
UnsentNotExecuted ==
  \A k \in Calls : pc[k] \in Unused \cup {"send"} => executed[k] = 0

\* d carries a response only if its request was executed.
Answers(d) == d.body # None => executed[d.body] = 1

\* Every response on its way to a caller is that of an executed request.
AnswersAreExecuted ==
  /\ \A c \in Conns :
       /\ \A d \in down[c] : Answers(d)
       /\ \A p \in Closers : \A h \in hold[c][p] : Answers(h)
  /\ \A ch \in Calls : buf[ch] # None => Answers(buf[ch])

\* A call has a reply only once it has returned it.
ReplyIsReturned == \A k \in Calls : reply[k] # None => pc[k] = "replied"

ExecutedInv ==
  /\ AtMostOnce
  /\ UnsentNotExecuted
  /\ FramesAreSole
  /\ AnswersAreExecuted
  /\ ReplyIsReturned

-------------------------------------------------------------------------------
(* Why MappedConnIsLive and RunningConnIsMapped hold *)

MappedInv ==
  /\ \A c \in Conns :
       current = c =>
         /\ c \in dialed
         /\ gs[c]["send"] \in {"run", "fail", "quit"}
         /\ gs[c]["recv"] \in {"run", "fail", "quit"}
         /\ gs[c]["abort"] = "off"
  /\ \A c \in Conns \ dialed :
       /\ ~cancelled[c] /\ link[c] = "none"
       /\ \A p \in Closers : gs[c][p] = "off"
  /\ MappedConnIsLive
  /\ RunningConnIsMapped

-------------------------------------------------------------------------------
(* Liveness *)

\* When a link breaks or is closed, by whatever path, both goroutines of the
\* connection exit: Send does not stay blocked on the request queue.
GoroutinesExit ==
  \A c \in Conns :
    link[c] \in {"broken", "closed"} ~>
      gs[c]["send"] = "done" /\ gs[c]["recv"] = "done"

\* A waiting call whose entry Receive or Close took out of the table returns,
\* without the help of its deadline.
ClaimedCallReturns ==
  \A k \in Calls :
    (pc[k] = "wait" /\ results[conn[k]][index[k]] # chan[k]) ~>
      pc[k] \in Returned

\* Somebody is closing c: it will sweep the table, or is delivering errors.
Closing(c) ==
  \E p \in Closers : \/ gs[c][p] \in {"close", "clean"}
                     \/ \E h \in hold[c][p] : h.body = None

\* A call that waits while somebody is closing its connection returns without
\* the help of its deadline, also when it was registered while the closer was
\* delivering the errors of the calls before it.
ClosingFailsCalls ==
  \A k \in Calls : (pc[k] = "wait" /\ Closing(conn[k])) ~> pc[k] \in Returned

-------------------------------------------------------------------------------
(* The transport implements the at-most-once channel. *)

Phase(k) == CASE pc[k] = "idle" -> "idle"
              [] pc[k] = "replied" -> "replied"
              [] pc[k] \in {"failed", "expired"} -> "failed"
              [] OTHER -> "pending"

Channel == INSTANCE RpcChannel WITH phase <- [k \in Calls |-> Phase(k)]

ImplementsChannel == Channel!Spec
===============================================================================

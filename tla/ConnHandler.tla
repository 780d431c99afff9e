----------------------------- MODULE ConnHandler -----------------------------
(* socket/handler.go, websocket/handler.go and udp/handler.go, server side:*)
(* Serve starts a goroutine that reads requests, which hands each to a     *)
(* goroutine or a pool, and one that writes their responses.  An error     *)
(* response ends a socket or WebSocket connection; a UDP server goes on.   *)
(* A socket writes responses in batches; UDP has no queue between worker   *)
(* and writer.                                                             *)
EXTENDS Naturals, FiniteSets, SequencesExt

CONSTANTS Requests,      \* 1..n, in the order in which they are sent
          PoolSize, QueueSize, MaxBatch

VARIABLES kind,        \* "socket", "websocket" or "udp" (never changes)
          pooled,      \* is there a worker pool (never changes)
          asked,       \* requests that have not been read
          receive,     \* the goroutine of receive: "loop", "submit", "refuse", "gone"
          held,        \* the request it has read
          work,        \* the worker of each request
          queue,       \* responses: request and error
          send,        \* the goroutine of send
          batch,       \* what it has collected
          written,     \* responses on the wire, in order
          errChan,     \* is there an error in the channel
          ctxDone,     \* the context of the connection
          serve        \* Serve

hvars == <<kind, pooled, asked, receive, held, work, queue, send, batch, written, errChan, ctxDone, serve>>

Failing == {"error", "large", "big"}
Response(r, what) == [request |-> r, what |-> what]
Fatal(b) == kind /= "udp" /\ b /= <<>> /\ Last(b).what \in Failing

Init ==
  /\ kind \in {"socket", "websocket", "udp"} /\ pooled \in BOOLEAN
  /\ asked = Requests /\ held = {} /\ receive = "loop"
  /\ work = [r \in Requests |-> "none"]
  /\ queue = <<>> /\ send = "loop" /\ batch = <<>> /\ written = <<>>
  /\ errChan = FALSE /\ ctxDone = FALSE /\ serve = "serving"

Open == serve /= "gone"
Active == {r \in Requests : work[r] \notin {"none", "gone"}}
Report == errChan' = TRUE

-----------------------------------------------------------------------------
(* receive: a request that is too large is refused at once, and ends the   *)
(* loop of a connection; the others go to a worker.                        *)
Read(r) ==
  /\ receive = "loop" /\ Open /\ r \in asked /\ \A q \in asked : r <= q
  /\ asked' = asked \ {r}
  /\ \/ receive' = "refuse" /\ held' = {r} /\ UNCHANGED work
     \/ pooled /\ receive' = "submit" /\ held' = {r} /\ UNCHANGED work
     \/ ~pooled /\ work' = [work EXCEPT ![r] = "running"] /\ UNCHANGED <<receive, held>>
  /\ UNCHANGED <<kind, pooled, queue, send, batch, written, errChan, ctxDone, serve>>

(* mutant: a pool that takes everything.                                   *)
SubmitAtOnce(r) ==
  /\ receive = "submit" /\ r \in held
  /\ work' = [work EXCEPT ![r] = "running"]
  /\ receive' = "loop" /\ held' = {}
  /\ UNCHANGED <<kind, pooled, asked, queue, send, batch, written, errChan, ctxDone, serve>>

(* Pool.Submit blocks until a worker is free.                              *)
Submit(r) ==
  /\ receive = "submit" /\ r \in held /\ Cardinality(Active) < PoolSize
  /\ work' = [work EXCEPT ![r] = "running"]
  /\ receive' = "loop" /\ held' = {}
  /\ UNCHANGED <<kind, pooled, asked, queue, send, batch, written, errChan, ctxDone, serve>>

(* The connection ends or a header is bad (UDP only ends when closed).     *)
ReadFails ==
  /\ receive = "loop" /\ (kind = "udp" => ~Open)
  /\ receive' = "gone" /\ Report
  /\ UNCHANGED <<kind, pooled, asked, held, work, queue, send, batch, written, ctxDone, serve>>

ReceiveStops ==
  /\ receive = "loop" /\ ctxDone
  /\ receive' = "gone"
  /\ UNCHANGED <<kind, pooled, asked, held, work, queue, send, batch, written, errChan, ctxDone, serve>>

-----------------------------------------------------------------------------
(* run: Service.Handle returns or panics; a UDP response may be too long   *)
(* for the buffer of send.                                                 *)
Handle(r) ==
  /\ work[r] = "running"
  /\ \E what \in {"ok", "error"} \union (IF kind = "udp" THEN {"big"} ELSE {}) : work' = [work EXCEPT ![r] = what]
  /\ UNCHANGED <<kind, pooled, asked, receive, held, queue, send, batch, written, errChan, ctxDone, serve>>

(* sendResponse: the response goes to send when there is room, or nowhere  *)
(* once the context is done.                                               *)
Put(x) ==
  IF kind = "udp" THEN send = "loop" /\ batch = <<>> /\ batch' = <<x>> /\ UNCHANGED queue
  ELSE Len(queue) < QueueSize /\ queue' = Append(queue, x) /\ UNCHANGED batch

(* mutants: a full queue drops the response; the context is not looked at. *)
PutOrLose(x) == Put(x) \/ (Len(queue) = QueueSize /\ UNCHANGED <<queue, batch>>)
PutAlways(x) == Put(x)

PutOrDrop(x) == Put(x) \/ (ctxDone /\ UNCHANGED <<queue, batch>>)

Respond(r) ==
  /\ work[r] \in {"ok", "error", "big"}
  /\ PutOrDrop(Response(r, work[r]))
  /\ work' = [work EXCEPT ![r] = "gone"]
  /\ UNCHANGED <<kind, pooled, asked, receive, held, send, written, errChan, ctxDone, serve>>

Refuse(r) ==
  /\ receive = "refuse" /\ r \in held
  /\ PutOrDrop(Response(r, "large"))
  /\ receive' = IF kind = "udp" THEN "loop" ELSE "gone"
  /\ held' = {}
  /\ UNCHANGED <<kind, pooled, asked, work, send, written, errChan, ctxDone, serve>>

-----------------------------------------------------------------------------
(* mutant: collecting goes on behind an error.                             *)
MoreAnyway == batch = <<>> \/ (kind = "socket" /\ Len(batch) < MaxBatch)

(* send: a socket goes on collecting, up to an error or a full batch; the  *)
(* size in bytes may end a batch at any time.                              *)
More == batch = <<>> \/ (kind = "socket" /\ ~Fatal(batch) /\ Len(batch) < MaxBatch)

Collect ==
  /\ send = "loop" /\ More /\ queue /= <<>>
  /\ batch' = Append(batch, Head(queue)) /\ queue' = Tail(queue)
  /\ UNCHANGED <<kind, pooled, asked, receive, held, work, send, written, errChan, ctxDone, serve>>

(* mutant: the error is written and send leaves without a word.            *)
WroteSilently(x) ==
  /\ written' = written \o x
  /\ send' = (IF Fatal(batch) THEN "gone" ELSE send) /\ UNCHANGED errChan

Wrote(x) ==
  /\ written' = written \o x
  /\ IF Fatal(batch) THEN send' = "gone" /\ Report ELSE UNCHANGED <<send, errChan>>

(* A write fails when the peer or Serve has closed; UDP only gives up when *)
(* closed, or when the response does not fit (a panic, which is caught).   *)
Write ==
  /\ send = "loop" /\ batch /= <<>> /\ batch' = <<>>
  /\ \/ Open /\ (\A i \in DOMAIN batch : batch[i].what /= "big") /\ Wrote(batch)
     \/ (kind = "udp" => ~Open \/ batch[1].what = "big") /\ send' = "gone" /\ Report /\ UNCHANGED written
     \/ kind = "udp" /\ UNCHANGED <<send, written, errChan>> /\ batch[1].what /= "big"
  /\ UNCHANGED <<kind, pooled, asked, receive, held, work, queue, ctxDone, serve>>

SendStops ==
  /\ send = "loop" /\ batch = <<>> /\ ctxDone
  /\ send' = "gone"
  /\ UNCHANGED <<kind, pooled, asked, receive, held, work, queue, batch, written, errChan, ctxDone, serve>>

-----------------------------------------------------------------------------
(* Serve waits for an error or the end of the service, cancels and closes. *)
Shutdown ==
  /\ ~ctxDone /\ ctxDone' = TRUE
  /\ UNCHANGED <<kind, pooled, asked, receive, held, work, queue, send, batch, written, errChan, serve>>

Cancel ==
  /\ serve = "serving" /\ (errChan \/ ctxDone)
  /\ serve' = "closing" /\ ctxDone' = TRUE
  /\ UNCHANGED <<kind, pooled, asked, receive, held, work, queue, send, batch, written, errChan>>

CloseConn ==
  /\ serve = "closing" /\ serve' = "gone"
  /\ UNCHANGED <<kind, pooled, asked, receive, held, work, queue, send, batch, written, errChan, ctxDone>>

Receiver == ReceiveStops \/ \E r \in Requests : Read(r) \/ Submit(r) \/ Refuse(r)
ReadOrFail == Receiver \/ (~Open /\ ReadFails)
Worker(r) == Handle(r) \/ Respond(r)
Sender    == Collect \/ Write \/ SendStops
Server    == Cancel \/ CloseConn

Next == Receiver \/ ReadFails \/ Sender \/ Shutdown \/ Server \/ \E r \in Requests : Worker(r)

(* Goroutines run, methods end, and a read of a closed connection fails.   *)
Spec == Init /\ [][Next]_hvars /\ WF_hvars(ReadOrFail) /\ WF_hvars(Sender) /\ WF_hvars(Server)
             /\ \A r \in Requests : WF_hvars(Worker(r))

-----------------------------------------------------------------------------
(* Properties *)

TypeOK ==
  /\ receive \in {"loop", "submit", "refuse", "gone"} /\ send \in {"loop", "gone"}
  /\ Cardinality(held) <= 1 /\ Len(queue) <= QueueSize /\ Len(batch) <= MaxBatch
  /\ pooled => Cardinality(Active) <= PoolSize
  /\ serve \in {"serving", "closing", "gone"}

(* A request that was read is in one place at a time - with receive, with  *)
(* its worker, queued, collected or answered - and is answered once; it is *)
(* not lost while the context lives and send runs (but for a UDP write).   *)
Count(s, r) == Cardinality({i \in DOMAIN s : s[i].request = r})
Places(r) == Cardinality(held \intersect {r}) + Cardinality(Active \intersect {r})
             + Count(queue, r) + Count(batch, r) + Count(written, r)
AnsweredOnce ==
  \A r \in Requests :
    /\ Places(r) <= 1
    /\ r \notin asked /\ ~ctxDone /\ send = "loop" /\ kind /= "udp" => Places(r) = 1

(* Nothing is written behind an error: on a connection it ends, the peer's *)
(* other requests cannot be taken for answered.                            *)
ErrorIsLast ==
  kind /= "udp" => \A i \in DOMAIN written : written[i].what \in Failing => i = Len(written)

(* What keeps them: a request that has not been read is nowhere, an error  *)
(* is at the end of what send has collected, and while send runs there is  *)
(* none on the wire.                                                       *)
Responses == [request : Requests, what : {"ok"} \union Failing]
Shape ==
  /\ TypeOK
  /\ kind \in {"socket", "websocket", "udp"} /\ pooled \in BOOLEAN /\ ctxDone \in BOOLEAN
  /\ asked \subseteq Requests
  /\ held = {} \/ \E r \in Requests : held = {r}
  /\ receive \in {"loop", "gone"} => held = {}
  /\ work \in [Requests -> {"none", "running", "ok", "error", "big", "gone"}]
  /\ queue \in Seq(Responses) /\ batch \in Seq(Responses) /\ written \in Seq(Responses)

NothingBehind ==
  kind /= "udp" =>
    /\ \A i \in DOMAIN batch : batch[i].what \in Failing => i = Len(batch)
    /\ send = "loop" => \A i \in DOMAIN written : written[i].what \notin Failing

NotYetRead == \A r \in asked : Places(r) = 0

HandlerInv == Shape /\ NothingBehind /\ ErrorIsLast /\ NotYetRead /\ AnsweredOnce

(* A request that is read is answered, unless the server closes, or loses  *)
(* a datagram; with any pool, queue or batch.                              *)
Answered ==
  \A r \in Requests :
    []<>(r \notin asked /\ kind /= "udp" /\ Open => Count(written, r) = 1)

(* Once receive or send has ended, or the service has, Serve, both of them *)
(* and all workers end: nobody is left blocked on a queue, a pool or a     *)
(* read.                                                                   *)
AllGone ==
  []<>(receive = "gone" \/ send = "gone" \/ ctxDone =>
         ~Open /\ receive = "gone" /\ send = "gone" /\ Active = {})
=============================================================================

----------------------------- MODULE MessageConn -----------------------------
(* udp/transport.go and websocket/transport.go, client side: the same code *)
(* over datagrams, which may be lost, repeated and overtaken, and over the *)
(* messages of a WebSocket.  A connection has a goroutine that sends, one  *)
(* that receives, and a map from the index of a request to the caller.     *)
(* UDP hands a request to Send directly, the WebSocket has a queue.        *)
EXTENDS Integers, FiniteSets

CONSTANTS Calls,       \* 1..n, in the order in which they are made
          Conns

VARIABLES medium,      \* "udp" or "websocket" (never changes)
          mask,        \* indexes are taken modulo this (never changes)
          current,     \* trans.conns[key]: a connection or 0
          open,        \* the connections that are dialled and not closed
          done,        \* the connections whose context is cancelled
          counter,     \* of each connection
          results,     \* of each connection: index -> call
          queue,       \* requests (buffered: websocket)
          doing,       \* what Send, Receive and Abort do with each connection
          writing,     \* the request that Send has taken
          calling,     \* what each call is doing: at, conn, index
          inbox,       \* its resultChan: own, other's or error
          answered,    \* what Transport has returned
          asks, replies,      \* messages under way
          lapped       \* history: an index was given out again while in use

mvars == <<medium, mask, current, open, done, counter, results, queue, doing, writing,
           calling, inbox, answered, asks, replies, lapped>>

Loops  == {"send", "receive"}
Goroutines == Loops \union {"abort"}
NoCall == [at |-> "idle", conn |-> 0, index |-> 0]
Nobody == [i \in {} |-> 0]
Message(k, i, c) == [conn |-> k, index |-> i, call |-> c]

Init ==
  /\ medium \in {"udp", "websocket"} /\ mask \in {1, Cardinality(Calls)}
  /\ current = 0 /\ open = {} /\ done = {}
  /\ counter = [k \in Conns |-> 0] /\ results = [k \in Conns |-> Nobody]
  /\ queue = {} /\ asks = {} /\ replies = {}
  /\ doing = [g \in Goroutines |-> [k \in Conns |-> "none"]]
  /\ writing = [k \in Conns |-> {}]
  /\ calling = [c \in Calls |-> NoCall] /\ inbox = [c \in Calls |-> {}]
  /\ answered = [c \in Calls |-> "none"] /\ lapped = FALSE

-----------------------------------------------------------------------------
Goto(g, k, from, to) == doing[g][k] = from /\ doing' = [doing EXCEPT ![g][k] = to]

(* Transport: getConn, which dials if the map has no connection, ...       *)
GetConn(c, k) ==
  /\ calling[c] = NoCall /\ answered[c] = "none"
  /\ \A b \in Calls : b < c => calling[b] /= NoCall
  /\ calling' = [calling EXCEPT ![c] = [NoCall EXCEPT !.at = "store", !.conn = k]]
  /\ \/ current /= 0 /\ k = current /\ UNCHANGED <<current, open, doing>>
     \/ /\ current = 0 /\ doing.send[k] = "none" /\ current' = k /\ open' = open \union {k}
        /\ doing' = [doing EXCEPT !.send[k] = "loop", !.receive[k] = "loop"]
  /\ UNCHANGED <<medium, mask, done, counter, results, queue, writing, inbox, answered, asks, replies, lapped>>

(* ... an index and a channel in the map of the connection, ...            *)
InUse(k, i) ==
  \/ \E c \in Calls : calling[c].conn = k /\ calling[c].at \in {"offer", "wait"} /\ calling[c].index = i
  \/ \E m \in asks \union replies \union queue \union writing[k] : m.conn = k /\ m.index = i

(* mutant: the index is taken from the counter, which stays as it is.      *)
StoreUncounted(c) ==
  LET k == calling[c].conn  i == counter[k] % mask IN
  /\ calling[c].at = "store"
  /\ calling' = [calling EXCEPT ![c].at = "offer", ![c].index = i]
  /\ results' = [results EXCEPT ![k] = [j \in DOMAIN @ \union {i} |-> IF j = i THEN c ELSE @[j]]]
  /\ lapped' = (lapped \/ (counter[k] >= mask /\ InUse(k, i)))
  /\ UNCHANGED <<medium, mask, current, open, done, counter, queue, doing, writing, inbox, answered, asks, replies>>

Store(c) ==
  LET k == calling[c].conn  i == (counter[k] + 1) % mask IN
  /\ calling[c].at = "store"
  /\ counter' = [counter EXCEPT ![k] = @ + 1]
  /\ calling' = [calling EXCEPT ![c].at = "offer", ![c].index = i]
  /\ results' = [results EXCEPT ![k] = [j \in DOMAIN @ \union {i} |-> IF j = i THEN c ELSE @[j]]]
  /\ lapped' = (lapped \/ (counter[k] >= mask /\ InUse(k, i)))
  /\ UNCHANGED <<medium, mask, current, open, done, queue, doing, writing, inbox, answered, asks, replies>>

(* ... the request to Send (the queue does not fill up here), ...          *)
Hold(k, m) == doing' = [doing EXCEPT !.send[k] = "write"] /\ writing' = [writing EXCEPT ![k] = {m}]
Offer(c) ==
  LET k == calling[c].conn  m == Message(k, calling[c].index, c) IN
  /\ calling[c].at = "offer"
  /\ IF medium = "websocket" THEN queue' = queue \union {m} /\ UNCHANGED <<doing, writing>>
     ELSE doing.send[k] = "loop" /\ Hold(k, m) /\ UNCHANGED queue
  /\ calling' = [calling EXCEPT ![c].at = "wait"]
  /\ UNCHANGED <<medium, mask, current, open, done, counter, results, inbox, answered, asks, replies, lapped>>

Answer(c, what) ==
  /\ answered' = [answered EXCEPT ![c] = what]
  /\ calling' = [calling EXCEPT ![c].at = "idle"]

(* ... and the result, in either select, or the end of the call's context, *)
(* when the entry of its index is deleted, whosever it has become.         *)
GetResult(c) ==
  /\ calling[c].at \in {"offer", "wait"}
  /\ \E r \in inbox[c] : Answer(c, r) /\ inbox' = [inbox EXCEPT ![c] = @ \ {r}]
  /\ UNCHANGED <<medium, mask, current, open, done, counter, results, queue, doing, writing, asks, replies, lapped>>

Without(k, i) == [results EXCEPT ![k] = [j \in DOMAIN @ \ {i} |-> @[j]]]
(* mutant: the entry of a call that has given up stays.                    *)
ForgetsNothing(c) ==
  /\ calling[c].at \in {"offer", "wait"}
  /\ Answer(c, "timeout")
  /\ UNCHANGED <<medium, mask, current, open, done, counter, results, queue, doing, writing, inbox, asks, replies, lapped>>

TimeOut(c) ==
  /\ calling[c].at \in {"offer", "wait"}
  /\ Answer(c, "timeout")
  /\ results' = Without(calling[c].conn, calling[c].index)
  /\ UNCHANGED <<medium, mask, current, open, done, counter, queue, doing, writing, inbox, asks, replies, lapped>>

-----------------------------------------------------------------------------
(* Send: takes a request, writes it, and leaves when the write fails or    *)
(* when the context is done.  (A panic in it ends the process.)            *)
Take(k) ==
  /\ doing.send[k] = "loop"
  /\ \E m \in queue : m.conn = k /\ Hold(k, m) /\ queue' = queue \ {m}
  /\ UNCHANGED <<medium, mask, current, open, done, counter, results, calling, inbox, answered, asks, replies, lapped>>

Write(k) ==
  /\ doing.send[k] = "write"
  /\ writing' = [writing EXCEPT ![k] = {}]
  /\ \/ k \in open /\ asks' = asks \union writing[k] /\ doing' = [doing EXCEPT !.send[k] = "loop"]
     \/ doing' = [doing EXCEPT !.send[k] = "exit"] /\ UNCHANGED asks
  /\ UNCHANGED <<medium, mask, current, open, done, counter, results, queue, calling, inbox, answered, replies, lapped>>

SendStops(k) ==
  /\ k \in done /\ Goto("send", k, "loop", "quit")
  /\ UNCHANGED <<medium, mask, current, open, done, counter, results, queue, writing, calling, inbox, answered, asks, replies, lapped>>

(* mutant: the reply is delivered but its entry stays.                     *)
ReceiveKeeps(k) ==
  /\ doing.receive[k] = "loop" /\ k \in open
  /\ \E m \in replies :
       /\ m.conn = k
       /\ replies' \in {replies \ {m}} \union (IF medium = "udp" THEN {replies} ELSE {})
       /\ m.index \in DOMAIN results[k]
       /\ LET c == results[k][m.index] IN
            inbox' = [inbox EXCEPT ![c] = @ \union {IF m.call = c THEN "own" ELSE "other"}]
  /\ UNCHANGED <<medium, mask, current, open, done, counter, results, queue, doing, writing, calling, answered, asks, lapped>>

(* Receive: a reply to the caller of its index, if it still has one; an    *)
(* error message, a bad one or a read error ends the connection.           *)
Receive(k) ==
  /\ doing.receive[k] = "loop" /\ k \in open
  /\ \E m \in replies :
       /\ m.conn = k
       /\ replies' \in {replies \ {m}} \union (IF medium = "udp" THEN {replies} ELSE {})
       /\ \/ /\ m.index \in DOMAIN results[k]
             /\ LET c == results[k][m.index] IN
                  inbox' = [inbox EXCEPT ![c] = @ \union {IF m.call = c THEN "own" ELSE "other"}]
             /\ results' = Without(k, m.index)
          \/ m.index \notin DOMAIN results[k] /\ UNCHANGED <<inbox, results>>
  /\ UNCHANGED <<medium, mask, current, open, done, counter, queue, doing, writing, calling, answered, asks, lapped>>

ReceiveFails(k) ==
  /\ Goto("receive", k, "loop", "exit") \/ (k \in done /\ Goto("receive", k, "loop", "quit"))
  /\ UNCHANGED <<medium, mask, current, open, done, counter, results, queue, writing, calling, inbox, answered, asks, replies, lapped>>

(* Exit: onExit takes the connection out of the map, if it is still there, *)
(* and cancels its context; after an error Close follows.                  *)
OnExit(k) ==
  /\ current' = IF current = k THEN 0 ELSE current
  /\ done' = done \union {k}

(* mutant: onExit cancels only a connection that is still in the map.      *)
ExitOfMap(k) ==
  /\ \E g \in Loops : Goto(g, k, "exit", "close") \/ Goto(g, k, "quit", "gone")
  /\ current' = IF current = k THEN 0 ELSE current
  /\ done' = IF current = k THEN done \union {k} ELSE done
  /\ UNCHANGED <<medium, mask, open, counter, results, queue, writing, calling, inbox, answered, asks, replies, lapped>>

Exit(k) ==
  /\ \E g \in Loops : Goto(g, k, "exit", "close") \/ Goto(g, k, "quit", "gone")
  /\ OnExit(k)
  /\ UNCHANGED <<medium, mask, open, counter, results, queue, writing, calling, inbox, answered, asks, replies, lapped>>

(* Close: the connection (and what is under way on it), then every caller  *)
(* in the map, again and again until it is empty.                          *)
Sweep(k) ==
  LET left == {results[k][i] : i \in DOMAIN results[k]} IN
  /\ inbox' = [c \in Calls |-> IF c \in left THEN inbox[c] \union {"error"} ELSE inbox[c]]
  /\ results' = [results EXCEPT ![k] = Nobody]

Close(k) ==
  /\ \E g \in Goroutines : Goto(g, k, "close", "sweep")
  /\ open' = open \ {k}
  /\ asks' = {m \in asks : m.conn /= k} /\ replies' = {m \in replies : m.conn /= k}
  /\ UNCHANGED <<medium, mask, current, done, counter, results, queue, writing, calling, inbox, answered, lapped>>

RangeAndClean(k) ==
  /\ IF results[k] /= Nobody THEN Sweep(k) /\ UNCHANGED doing /\ \E g \in Goroutines : doing[g][k] = "sweep"
     ELSE UNCHANGED <<inbox, results>> /\ \E g \in Goroutines : Goto(g, k, "sweep", "gone")
  /\ UNCHANGED <<medium, mask, current, open, done, counter, queue, writing, calling, answered, asks, replies, lapped>>

Abort(k) ==
  /\ current = k /\ Goto("abort", k, "none", "close")
  /\ current' = 0
  /\ UNCHANGED <<medium, mask, open, done, counter, results, queue, writing, calling, inbox, answered, asks, replies, lapped>>

-----------------------------------------------------------------------------
(* The other side answers a request; a datagram may be lost, and answered  *)
(* more than once.                                                         *)
Serve(m) ==
  /\ replies' = replies \union {m}
  /\ asks' \in {asks \ {m}} \union (IF medium = "udp" THEN {asks} ELSE {})
  /\ UNCHANGED <<medium, mask, current, open, done, counter, results, queue, doing, writing, calling, inbox, answered, lapped>>

Lose(m) ==
  /\ medium = "udp"
  /\ asks' = asks \ {m} /\ replies' = replies \ {m}
  /\ UNCHANGED <<medium, mask, current, open, done, counter, results, queue, doing, writing, calling, inbox, answered, lapped>>

Client(c) == Store(c) \/ Offer(c) \/ GetResult(c) \/ TimeOut(c)
Sender(k) == Take(k) \/ Write(k) \/ SendStops(k)
Closing(k) == Exit(k) \/ Close(k) \/ RangeAndClean(k)

Next ==
  \/ \E c \in Calls : Client(c) \/ \E k \in Conns : GetConn(c, k)
  \/ \E k \in Conns : Sender(k) \/ Receive(k) \/ ReceiveFails(k) \/ Closing(k) \/ Abort(k)
  \/ \E m \in asks : Serve(m)
  \/ \E m \in asks \union replies : Lose(m)

(* Every context ends; goroutines run; a read of a closed connection fails.*)
Progress(c) == Client(c)
ReadFails(k) == k \notin open /\ ReceiveFails(k)

Spec == Init /\ [][Next]_mvars /\ \A c \in Calls : WF_mvars(Progress(c))
             /\ \A k \in Conns : WF_mvars(Sender(k)) /\ WF_mvars(ReadFails(k)) /\ WF_mvars(Closing(k))

-----------------------------------------------------------------------------
(* Properties *)

TypeOK ==
  /\ current \in Conns \union {0} /\ open \subseteq Conns /\ done \subseteq Conns
  /\ answered \in [Calls -> {"none", "own", "other", "error", "timeout"}]
  /\ \A c \in Calls : inbox[c] \subseteq {"own", "other", "error"}

(* Nobody gets the reply to another's request, whatever is lost, repeated  *)
(* or late, unless an index has been given out again while a call or a     *)
(* message with it was still under way.                                    *)
OwnReply == ~lapped => \A c \in Calls : answered[c] /= "other"

(* The channel of a call has room for one result and never gets a second,  *)
(* so that neither Receive nor Close is ever blocked by a caller.          *)
OneResult == \A c \in Calls : Cardinality(inbox[c]) <= 1 /\ (answered[c] \in {"own", "other", "error"} => inbox[c] = {})

(* Once nobody is in Transport, the map of every connection is empty:      *)
(* calls that were given up leave nothing behind.                          *)
NothingLeft ==
  (\A c \in Calls : calling[c].at = "idle") => \A k \in Conns : results[k] = Nobody

(* Why they hold.  A call is in the map in one place at most, that of its  *)
(* index on its connection, only while it waits and has got nothing yet.   *)
Messages == [conn : Conns, index : Nat, call : Calls]
UnderWay == asks \union replies \union queue \union UNION {writing[k] : k \in Conns}
Asking(c) == calling[c].at \in {"offer", "wait"}

Forms ==
  /\ TypeOK
  /\ mask \in Nat \ {0} /\ counter \in [Conns -> Nat] /\ lapped \in BOOLEAN
  /\ calling \in [Calls -> [at : {"idle", "store", "offer", "wait"}, conn : Conns \union {0}, index : Nat]]
  /\ \A c \in Calls : calling[c].at /= "idle" => calling[c].conn \in Conns
  /\ inbox \in [Calls -> SUBSET {"own", "other", "error"}]
  /\ results \in [Conns -> UNION {[D -> Calls] : D \in SUBSET Nat}]
  /\ UnderWay \subseteq Messages
  /\ writing \in [Conns -> SUBSET Messages] /\ \A k \in Conns : \A m \in writing[k] : m.conn = k

Mapped ==
  \A k \in Conns : \A i \in DOMAIN results[k] :
    LET c == results[k][i] IN
    Asking(c) /\ calling[c].conn = k /\ calling[c].index = i /\ inbox[c] = {}

NothingYet ==
  \A c \in Calls :
    /\ calling[c].at /= "idle" => answered[c] = "none"
    /\ answered[c] = "none" /\ ~Asking(c) => inbox[c] = {}

(* Until the counter comes round every index is new; after that it is the  *)
(* history that tells whether one was still in use.                        *)
NewIndexes ==
  \A k \in Conns : counter[k] < mask =>
    /\ \A c \in Calls : Asking(c) /\ calling[c].conn = k => calling[c].index \in 1..counter[k]
    /\ \A m \in UnderWay : m.conn = k => m.index \in 1..counter[k]

OwnIndexes ==
  ~lapped =>
    /\ \A m \in UnderWay : m.index \in DOMAIN results[m.conn] => results[m.conn][m.index] = m.call
    /\ \A c \in Calls : Asking(c) /\ calling[c].index \in DOMAIN results[calling[c].conn]
                          => results[calling[c].conn][calling[c].index] = c
    /\ \A c \in Calls : "other" \notin inbox[c]

RepliesInv == Forms /\ Mapped /\ NothingYet /\ NewIndexes /\ OwnIndexes /\ OwnReply /\ OneResult

(* Both goroutines of a connection that is closed, aborted or replaced     *)
(* end (which no dialled connection ever becomes current again).           *)
GoroutinesExit ==
  \A k \in Conns :
    []<>(doing.send[k] /= "none" /\ current /= k => \A g \in Loops : doing[g][k] = "gone")
=============================================================================

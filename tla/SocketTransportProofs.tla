----------------------- MODULE SocketTransportProofs -----------------------
(***************************************************************************)
(* What holds of SocketTransport for any number of calls and connections:  *)
(* frames, indexes and connections, result channels and executions.  A     *)
(* result channel is in one place at a time, a request is executed at most *)
(* once, and the transport implements RpcChannel.                          *)
(***************************************************************************)
EXTENDS SocketTransport, SequenceTheorems, TLAPS

-----------------------------------------------------------------------------
(* Facts about the queues of frames *)

\* A sequence that grows by one frame holds one more frame.
LEMMA FramesAppend ==
  ASSUME NEW S, NEW s \in Seq(S), NEW f \in S
  PROVE  Frames(Append(s, f)) = Frames(s) \cup {f}
<1>1. Append(s, f) \in Seq(S) /\ Len(Append(s, f)) = Len(s) + 1
  OBVIOUS
<1>2. \A n \in 1..Len(s) : Append(s, f)[n] = s[n]
  OBVIOUS
<1>3. Append(s, f)[Len(s) + 1] = f
  OBVIOUS
<1>4. 1..(Len(s) + 1) = (1..Len(s)) \cup {Len(s) + 1}
  OBVIOUS
<1> QED
  BY <1>1, <1>2, <1>3, <1>4 DEF Frames

\* The head of a queue and what remains of it are frames of the queue.
LEMMA FramesHeadTail ==
  ASSUME NEW S, NEW s \in Seq(S), s # <<>>
  PROVE  /\ Head(s) \in S /\ Tail(s) \in Seq(S)
         /\ Head(s) \in Frames(s)
         /\ Frames(Tail(s)) \subseteq Frames(s)
<1>1. Len(s) \in Nat \ {0} /\ Head(s) = s[1]
  OBVIOUS
<1>2. Tail(s) \in Seq(S) /\ Len(Tail(s)) = Len(s) - 1
  OBVIOUS
<1>3. \A n \in 1..Len(Tail(s)) : Tail(s)[n] = s[n + 1] /\ n + 1 \in 1..Len(s)
  BY <1>1, <1>2
<1> QED
  BY <1>1, <1>2, <1>3 DEF Frames

\* The frames of a sequence over S are elements of S.
LEMMA FramesType ==
  ASSUME NEW S, NEW s \in Seq(S)
  PROVE  Frames(s) \subseteq S
BY DEF Frames

\* An empty queue holds no frames.
LEMMA FramesEmpty == Frames(<<>>) = {}
BY DEF Frames

-----------------------------------------------------------------------------
(* Type correctness *)

\* The transport starts with no connection, no call and empty tables, all of
\* their types.
LEMMA TypeInit == Init => TypeOK
BY NoneAssumption DEF Init, TypeOK, Indices

\* A step of a caller, a connection, a closer or the peer keeps the types; a
\* caller's own entry is where Located says it is.
LEMMA TypeStep == TypeOK /\ Located /\ [Next]_vars => TypeOK'
<1> SUFFICES ASSUME TypeOK, Located, [Next]_vars PROVE TypeOK'
  OBVIOUS
<1> USE NoneAssumption
<1> USE DEF TypeOK, Active, Returned, Closers, callerVars, transVars, connVars,
            goVars, peerVars
<1>1. ASSUME NEW k \in Calls, GetConn(k) PROVE TypeOK'
  <2>1. CASE current # None /\ UseConn(k, current)
    BY <1>1, <2>1 DEF GetConn, UseConn
  <2>2. CASE current = None /\ pc' = [pc EXCEPT ![k] = "dial"] /\ UNCHANGED conn
    BY <1>1, <2>2 DEF GetConn
  <2> QED
    BY <1>1, <2>1, <2>2 DEF GetConn
<1>2. ASSUME NEW k \in Calls, FindConn(k) PROVE TypeOK'
  BY <1>2 DEF FindConn, UseConn
<1>3. ASSUME NEW k \in Calls, NEW c \in Conns, Dial(k, c) PROVE TypeOK'
  BY <1>3 DEF Dial, UseConn
<1>4. ASSUME NEW k \in Calls, DialFails(k) PROVE TypeOK'
  BY <1>4 DEF DialFails
<1>5. ASSUME NEW k \in Calls, Register(k) PROVE TypeOK'
  <2>1. PICK ch \in pool[conn[k]] \cup {k} :
          /\ chan' = [chan EXCEPT ![k] = ch]
          /\ pool' = [pool EXCEPT ![conn[k]] = @ \ {ch}]
          /\ results' = [results EXCEPT ![conn[k]][NextIndex(conn[k])] = ch]
    BY <1>5 DEF Register
  <2>2. conn[k] \in Conns /\ NextIndex(conn[k]) \in Indices /\ ch \in Calls
    BY <1>5 DEF Register, Located
  <2>3. results' \in [Conns -> [Indices -> Calls \cup {None}]]
    BY <2>1, <2>2
  <2>4. counter' \in [Conns -> Indices \cup {0}]
    BY <1>5, <2>2 DEF Register
  <2>5. pool' \in [Conns -> SUBSET Calls] /\ chan' \in [Calls -> Calls \cup {None}]
    BY <2>1, <2>2
  <2> QED
    BY <1>5, <2>2, <2>3, <2>4, <2>5 DEF Register
<1>6. ASSUME NEW k \in Calls, Enqueue(k) PROVE TypeOK'
  <2> DEFINE f == [index |-> index[k], body |-> k]
  <2>1. conn[k] \in Conns /\ f \in Frame
    BY <1>6 DEF Enqueue, Located, Frame
  <2>2. Append(requests[conn[k]], f) \in Seq(Frame)
    BY <2>1
  <2>3. requests' \in [Conns -> Seq(Frame)]
    BY <1>6, <2>1, <2>2 DEF Enqueue
  <2> QED
    BY <1>6, <2>3 DEF Enqueue
<1>7. ASSUME NEW k \in Calls, Expire(k) PROVE TypeOK'
  BY <1>7 DEF Expire, PoolAfterExpiry
<1>8. ASSUME NEW k \in Calls, Return(k) PROVE TypeOK'
  <2>1. chan[k] \in Calls /\ conn[k] \in Conns
    BY <1>8 DEF Return, Located
  <2>2. buf[chan[k]].body \in Calls \cup {None}
    BY <1>8, <2>1 DEF Return, Data
  <2>3. reply' \in [Calls -> Calls \cup {None}]
    BY <1>8, <2>2 DEF Return
  <2>4. pool' \in [Conns -> SUBSET Calls]
    BY <1>8, <2>1 DEF Return
  <2>5. pc' \in [Calls -> {"idle", "dial", "ready"} \cup Active \cup Returned]
    BY <1>8 DEF Return
  <2>6. buf' \in [Calls -> Data \cup {None}]
    BY <1>8 DEF Return
  <2> QED
    BY <1>8, <2>3, <2>4, <2>5, <2>6 DEF Return
<1>9. ASSUME NEW c \in Conns, Collect(c) PROVE TypeOK'
  BY <1>9 DEF Collect
<1>10. ASSUME NEW c \in Conns, Write(c) PROVE TypeOK'
  <2>1. Frames(batch[c]) \subseteq Frame
    BY FramesType
  <2>2. up' \in [Conns -> SUBSET Frame]
    BY <1>10, <2>1 DEF Write
  <2> QED
    BY <1>10, <2>2 DEF Write, BatchAfterWrite
<1>11. ASSUME NEW c \in Conns, WriteFails(c) PROVE TypeOK'
  BY <1>11 DEF WriteFails, Leave
<1>12. ASSUME NEW c \in Conns, SendCancelled(c) PROVE TypeOK'
  BY <1>12 DEF SendCancelled, Leave
<1>13. ASSUME NEW c \in Conns, NEW d \in down[c], Read(c, d) PROVE TypeOK'
  BY <1>13 DEF Read, Data, Claim
<1>14. ASSUME NEW c \in Conns, NEW d \in down[c], ReadError(c, d) PROVE TypeOK'
  BY <1>14 DEF ReadError, Leave
<1>15. ASSUME NEW c \in Conns, ReadFails(c) PROVE TypeOK'
  BY <1>15 DEF ReadFails, Leave
<1>16. ASSUME NEW c \in Conns, ReceiveCancelled(c) PROVE TypeOK'
  BY <1>16 DEF ReceiveCancelled, Leave
<1>17. ASSUME NEW c \in Conns, NEW p \in Closers, NEW h \in hold[c][p],
              Deliver(c, p, h)
       PROVE  TypeOK'
  BY <1>17 DEF Deliver, Claim, Data
<1>18. ASSUME NEW c \in Conns, NEW p \in Closers, Exit(c, p) PROVE TypeOK'
  BY <1>18 DEF Exit, Unmapped, CancelAlways
<1>19. ASSUME NEW c \in Conns, Abort(c) PROVE TypeOK'
  BY <1>19 DEF Abort
<1>20. ASSUME NEW c \in Conns, NEW p \in Closers, CloseLink(c, p) PROVE TypeOK'
  BY <1>20 DEF CloseLink
<1>21. ASSUME NEW c \in Conns, NEW p \in Closers, Clean(c, p) PROVE TypeOK'
  BY <1>21 DEF Clean, EmptyTable, Registered, Claim
<1>22. ASSUME NEW c \in Conns, NEW f \in up[c], Serve(c, f) PROVE TypeOK'
  <2>1. f.index \in Indices /\ f.body \in Calls
    BY DEF Frame
  <2>2. down' \in [Conns -> SUBSET Data]
    BY <1>22, <2>1 DEF Serve, Data
  <2>3. executed' \in [Calls -> Nat]
    BY <1>22, <2>1 DEF Serve
  <2>4. up' \in [Conns -> SUBSET Frame]
    BY <1>22 DEF Serve
  <2> QED
    BY <1>22, <2>2, <2>3, <2>4 DEF Serve
<1>23. ASSUME NEW c \in Conns, Break(c) PROVE TypeOK'
  BY <1>23 DEF Break
<1>24. CASE UNCHANGED vars
  BY <1>24 DEF vars
<1> HIDE DEF TypeOK, Active, Returned, Closers
<1>25. ASSUME NEW k \in Calls, Caller(k) PROVE TypeOK'
  BY <1>25, <1>1, <1>2, <1>3, <1>4, <1>5, <1>6, <1>7, <1>8, Zenon DEF Caller
<1>26. ASSUME NEW c \in Conns, Sender(c) \/ Receiver(c) PROVE TypeOK'
  BY <1>26, <1>9, <1>10, <1>11, <1>12, <1>13, <1>14, <1>15, <1>16, Zenon
     DEF Sender, Receiver, ReadFrame
<1>27. ASSUME NEW c \in Conns, NEW p \in Closers, Closer(c, p) PROVE TypeOK'
  BY <1>27, <1>17, <1>18, <1>20, <1>21, Zenon DEF Closer
<1>28. ASSUME NEW c \in Conns, Peer(c) PROVE TypeOK'
  BY <1>28, <1>22, <1>23, Zenon DEF Peer
<1> QED
  BY <1>19, <1>24, <1>25, <1>26, <1>27, <1>28, Zenon DEF Next

\* Nobody but a caller changes what a caller knows, or draws an index.
LEMMA OthersKeepCallers ==
  ASSUME \/ \E c \in Conns : Sender(c) \/ Receiver(c) \/ Abort(c) \/ Peer(c)
         \/ \E c \in Conns, p \in Closers : Closer(c, p)
         \/ UNCHANGED vars
  PROVE  UNCHANGED <<pc, conn, index, chan, reply, counter>>
<1> USE DEF callerVars, transVars, connVars, goVars, peerVars
<1>1. ASSUME NEW c \in Conns, Sender(c)
      PROVE  UNCHANGED <<pc, conn, index, chan, reply, counter>>
  BY <1>1 DEF Sender, Collect, Write, WriteFails, SendCancelled
<1>2. ASSUME NEW c \in Conns, Receiver(c)
      PROVE  UNCHANGED <<pc, conn, index, chan, reply, counter>>
  BY <1>2 DEF Receiver, ReadFrame, Read, ReadError, ReadFails, ReceiveCancelled
<1>3. ASSUME NEW c \in Conns, Abort(c) \/ Peer(c)
      PROVE  UNCHANGED <<pc, conn, index, chan, reply, counter>>
  BY <1>3 DEF Abort, Peer, Serve, Break
<1>4. ASSUME NEW c \in Conns, NEW p \in Closers, Closer(c, p)
      PROVE  UNCHANGED <<pc, conn, index, chan, reply, counter>>
  BY <1>4 DEF Closer, Deliver, Exit, CloseLink, Clean
<1>5. CASE UNCHANGED vars
  BY <1>5 DEF vars
<1> QED
  BY <1>1, <1>2, <1>3, <1>4, <1>5

\* The connection, the index and the channel of a call are set once.
Kept ==
  \A j \in Calls :
    /\ conn[j] # None => conn'[j] = conn[j]
    /\ index[j] # 0 => index'[j] = index[j]
    /\ chan[j] # None => chan'[j] = chan[j]

\* A step keeps the connection, the index and the channel of every call that
\* has one.
LEMMA KeptStep == TypeOK /\ Located /\ [Next]_vars => Kept
<1> SUFFICES ASSUME TypeOK, Located, [Next]_vars PROVE Kept
  OBVIOUS
<1>1. ASSUME NEW k \in Calls, GetConn(k) PROVE Kept
  BY <1>1 DEF GetConn, UseConn, Kept, Located, TypeOK
<1>2. ASSUME NEW k \in Calls, FindConn(k) PROVE Kept
  BY <1>2 DEF FindConn, UseConn, Kept, Located, TypeOK
<1>3. ASSUME NEW k \in Calls, NEW c \in Conns, Dial(k, c) PROVE Kept
  BY <1>3 DEF Dial, UseConn, Kept, Located, TypeOK
<1>4. ASSUME NEW k \in Calls, DialFails(k) PROVE Kept
  BY <1>4 DEF DialFails, Kept, Located, TypeOK
<1>5. ASSUME NEW k \in Calls, Register(k) PROVE Kept
  BY <1>5 DEF Register, NextIndex, Kept, Located, TypeOK
<1>6. ASSUME NEW k \in Calls, Enqueue(k) PROVE Kept
  BY <1>6 DEF Enqueue, Kept, Located, TypeOK
<1>7. ASSUME NEW k \in Calls, Expire(k) PROVE Kept
  BY <1>7 DEF Expire, Kept, Located, TypeOK
<1>8. ASSUME NEW k \in Calls, Return(k) PROVE Kept
  BY <1>8 DEF Return, Kept, Located, TypeOK
<1>9. ASSUME NEW k \in Calls, Caller(k) PROVE Kept
  BY <1>9, <1>1, <1>2, <1>3, <1>4, <1>5, <1>6, <1>7, <1>8, Zenon DEF Caller
<1>10. CASE \/ \E c \in Conns : Sender(c) \/ Receiver(c) \/ Abort(c) \/ Peer(c)
            \/ \E c \in Conns, p \in Closers : Closer(c, p)
            \/ UNCHANGED vars
  <2>1. UNCHANGED <<pc, conn, index, chan, reply, counter>>
    BY <1>10, OthersKeepCallers
  <2> QED
    BY <2>1 DEF Kept
<1> QED
  BY <1>9, <1>10, Zenon DEF Next

\* A call has a connection, an index and a channel from the step that gives
\* them to it on.
LEMMA LocatedStep == TypeOK /\ Located /\ [Next]_vars => Located'
<1> SUFFICES ASSUME TypeOK, Located, [Next]_vars PROVE Located'
  OBVIOUS
<1> USE NoneAssumption, IndexAssumption DEF Active, Returned, Indices
<1>1. ASSUME NEW k \in Calls, GetConn(k) PROVE Located'
  BY <1>1 DEF GetConn, UseConn, Located, TypeOK
<1>2. ASSUME NEW k \in Calls, FindConn(k) PROVE Located'
  BY <1>2 DEF FindConn, UseConn, Located, TypeOK
<1>3. ASSUME NEW k \in Calls, NEW c \in Conns, Dial(k, c) PROVE Located'
  BY <1>3 DEF Dial, UseConn, Located, TypeOK
<1>4. ASSUME NEW k \in Calls, DialFails(k) PROVE Located'
  BY <1>4 DEF DialFails, Located, TypeOK
<1>5. ASSUME NEW k \in Calls, Register(k) PROVE Located'
  BY <1>5 DEF Register, NextIndex, Located, TypeOK
<1>6. ASSUME NEW k \in Calls, Enqueue(k) PROVE Located'
  BY <1>6 DEF Enqueue, Located, TypeOK
<1>7. ASSUME NEW k \in Calls, Expire(k) PROVE Located'
  BY <1>7 DEF Expire, Located, TypeOK
<1>8. ASSUME NEW k \in Calls, Return(k) PROVE Located'
  BY <1>8 DEF Return, Located, TypeOK
<1>9. ASSUME NEW k \in Calls, Caller(k) PROVE Located'
  BY <1>9, <1>1, <1>2, <1>3, <1>4, <1>5, <1>6, <1>7, <1>8, Zenon DEF Caller
<1>10. CASE \/ \E c \in Conns : Sender(c) \/ Receiver(c) \/ Abort(c) \/ Peer(c)
            \/ \E c \in Conns, p \in Closers : Closer(c, p)
            \/ UNCHANGED vars
  <2>1. UNCHANGED <<pc, conn, index, chan, reply, counter>>
    BY <1>10, OthersKeepCallers
  <2> QED
    BY <2>1 DEF Located
<1> QED
  BY <1>9, <1>10, Zenon DEF Next

\* A call without an index can join any connection.
LEMMA JoinKeepsIndexUnique ==
  ASSUME TypeOK, IndexUnique, NEW k \in Calls, NEW x \in Conns,
         index[k] = 0, conn' = [conn EXCEPT ![k] = x], UNCHANGED <<index,
            counter>>
  PROVE  IndexUnique'
<1>1. ASSUME NEW j \in Calls, conn'[j] # None PROVE index[j] <= counter[conn'[j]]
  <2>1. CASE j = k
    <3>1. conn'[j] = x /\ counter[x] \in Nat
      BY <2>1, IndexAssumption DEF TypeOK, Indices
    <3> QED
      BY <2>1, <3>1
  <2>2. CASE j # k
    BY <1>1, <2>2 DEF TypeOK, IndexUnique
  <2> QED
    BY <2>1, <2>2
<1>2. ASSUME NEW i \in Calls, NEW j \in Calls, i # j, conn'[i] = conn'[j],
             index[i] = index[j]
      PROVE  index[j] = 0
  <2>1. CASE i # k /\ j # k
    BY <1>2, <2>1 DEF TypeOK, IndexUnique
  <2> QED
    BY <1>2, <2>1
<1> QED
  BY <1>1, <1>2 DEF IndexUnique

\* No two calls of a connection draw the same index: the counter is stepped
\* atomically, and it is never behind an index in use.
LEMMA IndexUniqueStep ==
  TypeOK /\ Located /\ IndexUnique /\ [Next]_vars
    => IndexUnique'
<1> SUFFICES ASSUME TypeOK, Located, IndexUnique, [Next]_vars PROVE IndexUnique'
  OBVIOUS
<1> USE NoneAssumption, IndexAssumption DEF Active, Returned, Indices
<1>1. ASSUME NEW k \in Calls, GetConn(k) PROVE IndexUnique'
  <2>1. CASE current # None /\ UseConn(k, current)
    <3>1. current \in Conns /\ index[k] = 0
      BY <1>1, <2>1 DEF GetConn, TypeOK, Located
    <3> QED
      BY <1>1, <2>1, <3>1, JoinKeepsIndexUnique DEF GetConn, UseConn, connVars
  <2>2. CASE UNCHANGED conn
    BY <1>1, <2>2 DEF GetConn, IndexUnique, connVars
  <2> QED
    BY <1>1, <2>1, <2>2 DEF GetConn
<1>2. ASSUME NEW k \in Calls, FindConn(k) PROVE IndexUnique'
  <2>1. current \in Conns /\ index[k] = 0
    BY <1>2 DEF FindConn, TypeOK, Located
  <2> QED
    BY <1>2, <2>1, JoinKeepsIndexUnique DEF FindConn, UseConn, connVars
<1>3. ASSUME NEW k \in Calls, NEW c \in Conns, Dial(k, c) PROVE IndexUnique'
  <2>1. index[k] = 0
    BY <1>3 DEF Dial, Located
  <2> QED
    BY <1>3, <2>1, JoinKeepsIndexUnique DEF Dial, UseConn, connVars
<1>4. ASSUME NEW k \in Calls, DialFails(k) PROVE IndexUnique'
  BY <1>4 DEF DialFails, IndexUnique, Located, TypeOK, transVars, connVars
<1>5. ASSUME NEW k \in Calls, Register(k) PROVE IndexUnique'
  <2>1. conn[k] \in Conns /\ counter[conn[k]] \in Nat
    BY <1>5 DEF Register, Located, TypeOK
  <2>2. /\ index' = [index EXCEPT ![k] = counter[conn[k]] + 1]
        /\ counter' = [counter EXCEPT ![conn[k]] = counter[conn[k]] + 1]
        /\ conn' = conn
    BY <1>5 DEF Register, NextIndex
  <2>3. ASSUME NEW j \in Calls, conn[j] # None
        PROVE  index'[j] <= counter'[conn[j]]
    <3>1. conn[j] \in Conns /\ index[j] \in Nat /\ counter[conn[j]] \in Nat
          /\ index[j] <= counter[conn[j]]
      BY <2>3 DEF TypeOK, IndexUnique
    <3> QED
      BY <2>1, <2>2, <3>1 DEF TypeOK
  <2>4. ASSUME NEW i \in Calls, NEW j \in Calls, i # j, conn[i] = conn[j],
               index'[i] = index'[j]
        PROVE  index'[j] = 0
    <3>1. \A m \in Calls : conn[m] = conn[k] =>
            index[m] \in Nat /\ index[m] < counter[conn[k]] + 1
      BY <2>1 DEF TypeOK, IndexUnique
    <3>2. CASE i = k \/ j = k
      BY <2>1, <2>2, <2>4, <3>1, <3>2 DEF TypeOK
    <3>3. CASE i # k /\ j # k
      BY <2>2, <2>4, <3>3 DEF TypeOK, IndexUnique
    <3> QED
      BY <3>2, <3>3
  <2> QED
    BY <2>2, <2>3, <2>4 DEF IndexUnique
<1>6. ASSUME NEW k \in Calls, Enqueue(k) PROVE IndexUnique'
  BY <1>6 DEF Enqueue, IndexUnique, Located, TypeOK, transVars, connVars
<1>7. ASSUME NEW k \in Calls, Expire(k) PROVE IndexUnique'
  BY <1>7 DEF Expire, IndexUnique, Located, TypeOK, transVars, connVars
<1>8. ASSUME NEW k \in Calls, Return(k) PROVE IndexUnique'
  BY <1>8 DEF Return, IndexUnique, Located, TypeOK, transVars, connVars
<1>9. ASSUME NEW k \in Calls, Caller(k) PROVE IndexUnique'
  BY <1>9, <1>1, <1>2, <1>3, <1>4, <1>5, <1>6, <1>7, <1>8, Zenon DEF Caller
<1>10. CASE \/ \E c \in Conns : Sender(c) \/ Receiver(c) \/ Abort(c) \/ Peer(c)
            \/ \E c \in Conns, p \in Closers : Closer(c, p)
            \/ UNCHANGED vars
  <2>1. UNCHANGED <<pc, conn, index, chan, reply, counter>>
    BY <1>10, OthersKeepCallers
  <2> QED
    BY <2>1 DEF IndexUnique
<1> QED
  BY <1>9, <1>10, Zenon DEF Next

\* What was sent on a connection stays what was sent on it.
LEMMA CarriesKept ==
  ASSUME TypeOK, Kept, NEW c \in Conns, NEW d,
         d.index \in Indices, d.body \in Calls \cup {None}, Carries(c, d)
  PROVE  Carries(c, d)'
<1>1. CASE d.body = None
  BY <1>1 DEF Carries
<1>2. CASE d.body # None
  <2>1. d.body \in Calls /\ conn[d.body] = c /\ index[d.body] = d.index
    BY <1>2 DEF Carries
  <2>2. c # None /\ d.index # 0
    BY NoneAssumption, IndexAssumption DEF Indices
  <2> QED
    BY <2>1, <2>2 DEF Carries, Kept
<1> QED
  BY <1>1, <1>2

\* The frames in flight on a connection.
FlightOf(c) ==
  Frames(requests[c]) \cup Frames(batch[c]) \cup up[c] \cup down[c]

\* What is in flight before a step still carries what it should after it.
LEMMA FlightKept ==
  ASSUME TypeOK, Kept, InFlight
  PROVE  /\ \A c \in Conns : \A f \in FlightOf(c) : Carries(c, f)'
         /\ \A c \in Conns, p \in Closers : \A h \in hold[c][p] :
              Carries(c, h)' /\ conn'[h.chan] = c
<1>1. ASSUME NEW c \in Conns, NEW f \in FlightOf(c) PROVE Carries(c, f)'
  <2>1. f \in Frame \cup Data
    <3>1. f \in up[c] \cup down[c] => f \in Frame \cup Data
      BY DEF TypeOK
    <3>2. Frames(requests[c]) \subseteq Frame /\ Frames(batch[c]) \subseteq Frame
      BY FramesType DEF TypeOK
    <3> QED
      BY <3>1, <3>2 DEF FlightOf
  <2>2. f.index \in Indices /\ f.body \in Calls \cup {None}
    BY <2>1 DEF Frame, Data
  <2>3. Carries(c, f)
    BY DEF InFlight, FlightOf
  <2> QED
    BY <2>2, <2>3, CarriesKept
<1>2. ASSUME NEW c \in Conns, NEW p \in Closers, NEW h \in hold[c][p]
      PROVE  Carries(c, h)' /\ conn'[h.chan] = c
  <2>1. h \in Claim
    BY DEF TypeOK
  <2>2. h.index \in Indices /\ h.body \in Calls \cup {None} /\ h.chan \in Calls
    BY <2>1 DEF Claim
  <2>3. Carries(c, h) /\ conn[h.chan] = c /\ c # None
    BY NoneAssumption DEF InFlight
  <2>4. Carries(c, h)'
    BY <2>2, <2>3, CarriesKept
  <2> QED
    BY <2>2, <2>3, <2>4 DEF Kept
<1> QED
  BY <1>1, <1>2

\* InFlight is kept by a step that adds no frame and no claim, ...
LEMMA InFlightShrinks ==
  ASSUME TypeOK, Kept, InFlight,
         \A c \in Conns : FlightOf(c)' \subseteq FlightOf(c),
         \A c \in Conns, p \in Closers : hold'[c][p] \subseteq hold[c][p]
  PROVE  InFlight'
BY FlightKept DEF InFlight, FlightOf

\* ... by one that adds a frame which carries what it should, ...
LEMMA InFlightNewFrame ==
  ASSUME TypeOK, Kept, InFlight, NEW x \in Conns, NEW g, Carries(x, g)',
         \A c \in Conns :
           FlightOf(c)' \subseteq FlightOf(c) \cup (IF c = x THEN {g} ELSE {}),
         UNCHANGED hold
  PROVE  InFlight'
<1>1. ASSUME NEW c \in Conns, NEW f \in FlightOf(c)' PROVE Carries(c, f)'
  BY <1>1, FlightKept
<1> QED
  BY <1>1, FlightKept DEF InFlight, FlightOf

\* ... and by one that claims entries of the table.
LEMMA InFlightNewClaims ==
  ASSUME TypeOK, Kept, InFlight, NEW x \in Conns, NEW q \in Closers, NEW New,
         \A h \in New : Carries(x, h)' /\ conn'[h.chan] = x,
         \A c \in Conns : FlightOf(c)' \subseteq FlightOf(c),
         hold' = [hold EXCEPT ![x][q] = New]
  PROVE  InFlight'
<1>1. ASSUME NEW c \in Conns, NEW p \in Closers, NEW h \in hold'[c][p]
      PROVE  Carries(c, h)' /\ conn'[h.chan] = c
  <2>1. h \in hold[c][p] \/ (c = x /\ h \in New)
    BY <1>1 DEF TypeOK
  <2> QED
    BY <2>1, FlightKept
<1> QED
  BY <1>1, FlightKept DEF InFlight, FlightOf

\* Whatever a step puts on a connection carries the index of the call it
\* belongs to: frames, requests, responses and claimed entries of the table.
LEMMA InFlightStep ==
  TypeOK /\ Located /\ InFlight /\ ChannelsStay /\ Kept /\ [Next]_vars => InFlight'
<1> SUFFICES ASSUME TypeOK, Located, InFlight, ChannelsStay, Kept, [Next]_vars
             PROVE  InFlight'
  OBVIOUS
<1>1. ASSUME NEW k \in Calls, GetConn(k) PROVE InFlight'
  BY <1>1, InFlightShrinks DEF GetConn, UseConn, FlightOf, callerVars, transVars,
     connVars, goVars, peerVars
<1>2. ASSUME NEW k \in Calls, FindConn(k) PROVE InFlight'
  BY <1>2, InFlightShrinks DEF FindConn, UseConn, FlightOf, callerVars,
     transVars, connVars, goVars, peerVars
<1>3. ASSUME NEW k \in Calls, NEW c \in Conns, Dial(k, c) PROVE InFlight'
  BY <1>3, InFlightShrinks DEF Dial, UseConn, FlightOf, callerVars, transVars,
     connVars, goVars, peerVars
<1>4. ASSUME NEW k \in Calls, DialFails(k) PROVE InFlight'
  BY <1>4, InFlightShrinks DEF DialFails, FlightOf, callerVars, transVars,
     connVars, goVars, peerVars
<1>5. ASSUME NEW k \in Calls, Register(k) PROVE InFlight'
  BY <1>5, InFlightShrinks DEF Register, NextIndex, FlightOf, callerVars,
     transVars, connVars, goVars, peerVars
<1>6. ASSUME NEW k \in Calls, Enqueue(k) PROVE InFlight'
  <2> DEFINE c == conn[k]
             f == [index |-> index[k], body |-> k]
  <2>1. c \in Conns /\ f \in Frame /\ UNCHANGED <<conn, index>>
    BY <1>6 DEF Enqueue, Located, Frame, Active
  <2>2. Carries(c, f)'
    BY <2>1 DEF Carries
  <2>3. requests' = [requests EXCEPT ![c] = Append(@, f)]
    BY <1>6 DEF Enqueue
  <2>4. Frames(requests'[c]) = Frames(requests[c]) \cup {f}
    BY <2>1, <2>3, FramesAppend DEF TypeOK
  <2>5. \A x \in Conns : FlightOf(x)' \subseteq
                           FlightOf(x) \cup (IF x = c THEN {f} ELSE {})
    BY <1>6, <2>1, <2>3, <2>4 DEF Enqueue, FlightOf, TypeOK, goVars, peerVars
  <2>6. UNCHANGED hold
    BY <1>6 DEF Enqueue, goVars
  <2> QED
    BY <2>1, <2>2, <2>5, <2>6, InFlightNewFrame
<1>7. ASSUME NEW k \in Calls, Expire(k) PROVE InFlight'
  BY <1>7, InFlightShrinks DEF Expire, FlightOf, callerVars, transVars, connVars,
     goVars, peerVars
<1>8. ASSUME NEW k \in Calls, Return(k) PROVE InFlight'
  BY <1>8, InFlightShrinks DEF Return, FlightOf, callerVars, transVars, connVars,
     goVars, peerVars
<1>9. ASSUME NEW c \in Conns, Collect(c) PROVE InFlight'
  <2>1. /\ requests' = [requests EXCEPT ![c] = Tail(@)]
        /\ batch' = [batch EXCEPT ![c] = Append(@, Head(requests[c]))]
        /\ UNCHANGED <<up, down, hold>>
    BY <1>9 DEF Collect, goVars, peerVars
  <2>2. requests[c] \in Seq(Frame) /\ requests[c] # <<>> /\ batch[c] \in Seq(Frame)
    BY <1>9 DEF Collect, TypeOK
  <2>3. /\ Head(requests[c]) \in Frame /\ Head(requests[c]) \in Frames(requests[c])
        /\ Frames(Tail(requests[c])) \subseteq Frames(requests[c])
    BY <2>2, FramesHeadTail
  <2>4. Frames(Append(batch[c], Head(requests[c])))
          = Frames(batch[c]) \cup {Head(requests[c])}
    BY <2>2, <2>3, FramesAppend
  <2>5. \A x \in Conns : FlightOf(x)' \subseteq FlightOf(x)
    BY <2>1, <2>3, <2>4 DEF FlightOf, TypeOK
  <2> QED
    BY <2>1, <2>5, InFlightShrinks
<1>10. ASSUME NEW c \in Conns, Write(c) PROVE InFlight'
  <2>1. \A x \in Conns : FlightOf(x)' \subseteq FlightOf(x)
    BY <1>10, FramesEmpty DEF Write, BatchAfterWrite, FlightOf, TypeOK
  <2> QED
    BY <1>10, <2>1, InFlightShrinks DEF Write, goVars
<1>11. ASSUME NEW c \in Conns, WriteFails(c) PROVE InFlight'
  <2>1. \A x \in Conns : FlightOf(x)' \subseteq FlightOf(x)
    BY <1>11, FramesEmpty DEF WriteFails, Leave, FlightOf, TypeOK, peerVars
  <2> QED
    BY <1>11, <2>1, InFlightShrinks DEF WriteFails, Leave
<1>12. ASSUME NEW c \in Conns, SendCancelled(c) PROVE InFlight'
  BY <1>12, InFlightShrinks DEF SendCancelled, FlightOf, callerVars, transVars,
     connVars, goVars, peerVars
<1>13. ASSUME NEW c \in Conns, NEW d \in down[c], Read(c, d) PROVE InFlight'
  <2> DEFINE i == d.index
             New == IF results[c][i] = None THEN {}
                    ELSE {[index |-> i, chan |-> results[c][i], body |-> d.body]}
  <2>1. d.index \in Indices /\ d.body \in Calls \cup {None}
    BY DEF TypeOK, Data
  <2>2. Carries(c, d) /\ UNCHANGED <<conn, index>>
    BY <1>13 DEF Read, InFlight, callerVars
  <2>3. \A h \in New : Carries(c, h)' /\ conn'[h.chan] = c
    BY <2>1, <2>2 DEF Carries, ChannelsStay
  <2>4. hold' = [hold EXCEPT ![c]["recv"] = New]
    BY <1>13 DEF Read
  <2>5. \A x \in Conns : FlightOf(x)' \subseteq FlightOf(x)
    BY <1>13 DEF Read, FlightOf, TypeOK
  <2>6. "recv" \in Closers
    BY DEF Closers
  <2> HIDE DEF New
  <2> QED
    BY <2>3, <2>4, <2>5, <2>6, InFlightNewClaims
<1>14. ASSUME NEW c \in Conns, NEW d \in down[c], ReadError(c, d) PROVE InFlight'
  <2>1. \A x \in Conns : FlightOf(x)' \subseteq FlightOf(x)
    BY <1>14 DEF ReadError, Leave, FlightOf, TypeOK, connVars
  <2> QED
    BY <1>14, <2>1, InFlightShrinks DEF ReadError, Leave
<1>15. ASSUME NEW c \in Conns, ReadFails(c) PROVE InFlight'
  BY <1>15, InFlightShrinks DEF ReadFails, FlightOf, callerVars, transVars,
     connVars, goVars, peerVars
<1>16. ASSUME NEW c \in Conns, ReceiveCancelled(c) PROVE InFlight'
  BY <1>16, InFlightShrinks DEF ReceiveCancelled, FlightOf, callerVars,
     transVars, connVars, goVars, peerVars
<1>17. ASSUME NEW c \in Conns, NEW p \in Closers, NEW h \in hold[c][p],
              Deliver(c, p, h)
       PROVE  InFlight'
  <2>1. \A x \in Conns, q \in Closers : hold'[x][q] \subseteq hold[x][q]
    BY <1>17 DEF Deliver, TypeOK
  <2> QED
    BY <1>17, <2>1, InFlightShrinks DEF Deliver, FlightOf, connVars, peerVars
<1>18. ASSUME NEW c \in Conns, NEW p \in Closers, Exit(c, p) PROVE InFlight'
  BY <1>18, InFlightShrinks DEF Exit, FlightOf, callerVars, transVars, connVars,
     goVars, peerVars
<1>19. ASSUME NEW c \in Conns, Abort(c) PROVE InFlight'
  BY <1>19, InFlightShrinks DEF Abort, FlightOf, callerVars, transVars, connVars,
     goVars, peerVars
<1>20. ASSUME NEW c \in Conns, NEW p \in Closers, CloseLink(c, p) PROVE InFlight'
  BY <1>20, InFlightShrinks DEF CloseLink, FlightOf, callerVars, transVars,
     connVars, goVars, peerVars
<1>21. ASSUME NEW c \in Conns, NEW p \in Closers, Clean(c, p) PROVE InFlight'
  <2> DEFINE New == {[index |-> i, chan |-> results[c][i], body |-> None] :
                         i \in Registered(c)}
  <2>1. UNCHANGED <<conn, index, requests, batch, up, down>>
    BY <1>21 DEF Clean, callerVars, peerVars
  <2>2. \A h \in New : Carries(c, h)' /\ conn'[h.chan] = c
    BY <2>1 DEF Carries, ChannelsStay, Registered
  <2>3. hold' = [hold EXCEPT ![c][p] = New]
    BY <1>21 DEF Clean
  <2>4. \A x \in Conns : FlightOf(x)' \subseteq FlightOf(x)
    BY <2>1 DEF FlightOf
  <2> HIDE DEF New
  <2> QED
    BY <2>2, <2>3, <2>4, InFlightNewClaims
<1>22. ASSUME NEW c \in Conns, NEW f \in up[c], Serve(c, f) PROVE InFlight'
  <2>1. PICK b \in {f.body, None} :
          down' = [down EXCEPT ![c] = IF link[c] = "up"
                     THEN @ \cup {[index |-> f.index, body |-> b]} ELSE @]
    BY <1>22 DEF Serve
  <2> DEFINE g == [index |-> f.index, body |-> b]
  <2>2. Carries(c, f) /\ UNCHANGED <<conn, index, requests, batch, hold>>
    BY <1>22 DEF Serve, InFlight, callerVars, connVars, goVars
  <2>3. Carries(c, g)'
    BY <2>2 DEF Carries
  <2>4. up' = [up EXCEPT ![c] = @ \ {f}]
    BY <1>22 DEF Serve
  <2>5. \A x \in Conns : up'[x] \subseteq up[x]
    BY <2>4 DEF TypeOK
  <2>6. \A x \in Conns : down'[x] \subseteq down[x] \cup (IF x = c THEN {g} ELSE {})
    BY <2>1 DEF TypeOK
  <2>7. \A x \in Conns : FlightOf(x)' \subseteq
                           FlightOf(x) \cup (IF x = c THEN {g} ELSE {})
    BY <2>2, <2>5, <2>6 DEF FlightOf
  <2> QED
    BY <2>2, <2>3, <2>7, InFlightNewFrame
<1>23. ASSUME NEW c \in Conns, Break(c) PROVE InFlight'
  BY <1>23, InFlightShrinks DEF Break, FlightOf, callerVars, transVars, connVars,
     goVars, peerVars
<1>24. CASE UNCHANGED vars
  BY <1>24, InFlightShrinks DEF vars, FlightOf, callerVars, transVars, connVars,
     goVars, peerVars
<1>25. ASSUME NEW k \in Calls, Caller(k) PROVE InFlight'
  BY <1>25, <1>1, <1>2, <1>3, <1>4, <1>5, <1>6, <1>7, <1>8, Zenon DEF Caller
<1>26. ASSUME NEW c \in Conns, Sender(c) \/ Receiver(c) PROVE InFlight'
  BY <1>26, <1>9, <1>10, <1>11, <1>12, <1>13, <1>14, <1>15, <1>16, Zenon
     DEF Sender, Receiver, ReadFrame
<1>27. ASSUME NEW c \in Conns, NEW p \in Closers, Closer(c, p) PROVE InFlight'
  BY <1>27, <1>17, <1>18, <1>20, <1>21, Zenon DEF Closer
<1>28. ASSUME NEW c \in Conns, Peer(c) PROVE InFlight'
  BY <1>28, <1>22, <1>23, Zenon DEF Peer
<1> QED
  BY <1>19, <1>24, <1>25, <1>26, <1>27, <1>28, Zenon DEF Next

\* ChannelsStay is kept by a step that neither pools, registers or makes a
\* channel nor puts data in one.
LEMMA ChannelsStayKept ==
  ASSUME TypeOK, TypeOK', Kept, ChannelsStay,
         \A c \in Conns : pool'[c] \subseteq pool[c],
         \A c \in Conns, i \in Indices : results'[c][i] \in {results[c][i], None},
         \A ch \in Calls : buf'[ch] \in {buf[ch], None},
         \A k \in Calls : chan'[k] = chan[k]
  PROVE  ChannelsStay'
<1>1. ASSUME NEW c \in Conns, NEW ch \in pool'[c] PROVE conn'[ch] = c
  <2>1. ch \in Calls /\ conn[ch] = c /\ c # None
    BY <1>1, NoneAssumption DEF TypeOK, ChannelsStay
  <2> QED
    BY <2>1 DEF Kept
<1>2. ASSUME NEW c \in Conns, NEW i \in Indices, results'[c][i] # None
      PROVE  conn'[results'[c][i]] = c
  <2>1. results'[c][i] = results[c][i] /\ results[c][i] \in Calls
    BY <1>2 DEF TypeOK
  <2>2. conn[results[c][i]] = c /\ c # None
    BY <1>2, <2>1, NoneAssumption DEF ChannelsStay
  <2> QED
    BY <2>1, <2>2 DEF Kept
<1>3. ASSUME NEW k \in Calls, chan'[k] # None
      PROVE  conn'[k] # None /\ conn'[chan'[k]] = conn'[k]
  BY <1>3 DEF Kept, ChannelsStay, TypeOK
<1>4. ASSUME NEW ch \in Calls, buf'[ch] # None
      PROVE  conn'[ch] # None /\ Carries(conn[ch], buf[ch])'
  <2>1. /\ buf'[ch] = buf[ch] /\ buf[ch] \in Data /\ conn[ch] # None
        /\ Carries(conn[ch], buf[ch])
    BY <1>4 DEF ChannelsStay, TypeOK
  <2>2. conn[ch] \in Conns /\ conn'[ch] = conn[ch]
    BY <2>1 DEF TypeOK, Kept
  <2>3. buf[ch].index \in Indices /\ buf[ch].body \in Calls \cup {None}
    BY <2>1 DEF Data
  <2>4. buf[ch].body # None =>
          conn'[buf[ch].body] = conn[ch] /\ index'[buf[ch].body] = buf[ch].index
    BY <2>1, <2>2, <2>3, CarriesKept DEF Carries
  <2> QED
    BY <2>1, <2>2, <2>4 DEF Carries
<1> QED
  BY <1>1, <1>2, <1>3, <1>4 DEF ChannelsStay

\* A result channel never leaves the connection of the call that made it: it is
\* pooled, registered and taken again on that connection only.
LEMMA ChannelsStayStep ==
  TypeOK /\ TypeOK' /\ Located /\ InFlight /\ ChannelsStay /\ Kept /\ [Next]_vars
    => ChannelsStay'
<1> SUFFICES ASSUME TypeOK, TypeOK', Located, InFlight, ChannelsStay, Kept,
   [Next]_vars
             PROVE  ChannelsStay'
  OBVIOUS
<1>1. ASSUME NEW k \in Calls, GetConn(k) PROVE ChannelsStay'
  BY <1>1, ChannelsStayKept DEF GetConn, UseConn, callerVars, transVars,
     connVars, goVars, peerVars, TypeOK
<1>2. ASSUME NEW k \in Calls, FindConn(k) PROVE ChannelsStay'
  BY <1>2, ChannelsStayKept DEF FindConn, UseConn, callerVars, transVars,
     connVars, goVars, peerVars, TypeOK
<1>3. ASSUME NEW k \in Calls, NEW c \in Conns, Dial(k, c) PROVE ChannelsStay'
  BY <1>3, ChannelsStayKept DEF Dial, UseConn, callerVars, transVars, connVars,
     goVars, peerVars, TypeOK
<1>4. ASSUME NEW k \in Calls, DialFails(k) PROVE ChannelsStay'
  BY <1>4, ChannelsStayKept DEF DialFails, callerVars, transVars, connVars,
     goVars, peerVars, TypeOK
<1>5. ASSUME NEW k \in Calls, Register(k) PROVE ChannelsStay'
  <2> DEFINE c == conn[k]
             i == NextIndex(c)
  <2>1. PICK ch \in pool[c] \cup {k} :
          /\ chan' = [chan EXCEPT ![k] = ch]
          /\ pool' = [pool EXCEPT ![c] = @ \ {ch}]
          /\ results' = [results EXCEPT ![c][i] = ch]
    BY <1>5 DEF Register
  <2>2. c \in Conns /\ ch \in Calls /\ conn[ch] = c /\ UNCHANGED <<conn, buf>>
    BY <1>5 DEF Register, Located, ChannelsStay, TypeOK
  <2>3. index' = [index EXCEPT ![k] = i] /\ index[k] = 0
    BY <1>5 DEF Register, Located
  <2>4. ASSUME NEW x \in Conns, NEW y \in pool'[x] PROVE conn'[y] = x
    BY <2>1, <2>2, <2>4 DEF ChannelsStay, TypeOK
  <2>5. ASSUME NEW x \in Conns, NEW n \in Indices, results'[x][n] # None
        PROVE  conn'[results'[x][n]] = x
    BY <2>1, <2>2, <2>5, SMTT(20) DEF ChannelsStay, TypeOK
  <2>6. ASSUME NEW j \in Calls, chan'[j] # None
        PROVE  conn'[j] # None /\ conn'[chan'[j]] = conn'[j]
    BY <2>1, <2>2, <2>6, NoneAssumption, SMTT(20) DEF ChannelsStay, TypeOK
  <2>7. ASSUME NEW y \in Calls, buf'[y] # None
        PROVE  conn'[y] # None /\ Carries(conn[y], buf[y])'
    <3>1. buf[y] \in Data /\ conn[y] # None /\ Carries(conn[y], buf[y])
      BY <2>2, <2>7 DEF ChannelsStay, TypeOK
    <3>2. buf[y].body # k
      BY <2>3, <3>1, IndexAssumption, NoneAssumption DEF Carries, Data, Indices
    <3> QED
      BY <2>2, <2>3, <3>1, <3>2 DEF Carries, Data, TypeOK
  <2> QED
    BY <2>4, <2>5, <2>6, <2>7 DEF ChannelsStay
<1>6. ASSUME NEW k \in Calls, Enqueue(k) PROVE ChannelsStay'
  BY <1>6, ChannelsStayKept DEF Enqueue, callerVars, transVars, connVars, goVars,
     peerVars, TypeOK
<1>7. ASSUME NEW k \in Calls, Expire(k) PROVE ChannelsStay'
  <2>1. conn[k] \in Conns /\ index[k] \in Indices
    BY <1>7 DEF Expire, Located
  <2>2. \A c \in Conns, i \in Indices : results'[c][i] \in {results[c][i], None}
    BY <1>7, <2>1 DEF Expire, TypeOK
  <2>3. \A c \in Conns : pool'[c] \subseteq pool[c]
    BY <1>7, <2>1 DEF Expire, PoolAfterExpiry, TypeOK
  <2> QED
    BY <1>7, <2>2, <2>3, ChannelsStayKept DEF Expire
<1>8. ASSUME NEW k \in Calls, Return(k) PROVE ChannelsStay'
  <2>1. conn[k] \in Conns /\ chan[k] \in Calls /\ conn[chan[k]] = conn[k]
    BY <1>8, NoneAssumption DEF Return, Located, Active, ChannelsStay
  <2>2. UNCHANGED <<conn, index, chan, results>>
    BY <1>8 DEF Return
  <2>3. ASSUME NEW c \in Conns, NEW ch \in pool'[c] PROVE conn[ch] = c
    <3>1. ch \in pool[c] \/ (c = conn[k] /\ ch = chan[k])
      BY <1>8, <2>1, <2>3 DEF Return, TypeOK
    <3> QED
      BY <2>1, <3>1 DEF ChannelsStay
  <2>4. ASSUME NEW ch \in Calls, buf'[ch] # None PROVE buf'[ch] = buf[ch]
    BY <1>8, <2>4 DEF Return, TypeOK
  <2>5. ASSUME NEW ch \in Calls, buf'[ch] # None
        PROVE  conn'[ch] # None /\ Carries(conn[ch], buf[ch])'
    BY <2>2, <2>4, <2>5 DEF ChannelsStay, Carries
  <2> QED
    BY <2>2, <2>3, <2>5 DEF ChannelsStay
<1>9. ASSUME NEW c \in Conns, Collect(c) PROVE ChannelsStay'
  BY <1>9, ChannelsStayKept DEF Collect, callerVars, transVars, connVars, goVars,
     peerVars, TypeOK
<1>10. ASSUME NEW c \in Conns, Write(c) PROVE ChannelsStay'
  BY <1>10, ChannelsStayKept DEF Write, callerVars, transVars, connVars, goVars,
     peerVars, TypeOK
<1>11. ASSUME NEW c \in Conns, WriteFails(c) PROVE ChannelsStay'
  BY <1>11, ChannelsStayKept DEF WriteFails, callerVars, transVars, connVars,
     goVars, peerVars, TypeOK
<1>12. ASSUME NEW c \in Conns, SendCancelled(c) PROVE ChannelsStay'
  BY <1>12, ChannelsStayKept DEF SendCancelled, callerVars, transVars, connVars,
     goVars, peerVars, TypeOK
<1>13. ASSUME NEW c \in Conns, NEW d \in down[c], Read(c, d) PROVE ChannelsStay'
  BY <1>13, ChannelsStayKept DEF Read, callerVars, transVars, connVars, goVars,
     peerVars, TypeOK
<1>14. ASSUME NEW c \in Conns, NEW d \in down[c], ReadError(c, d)
       PROVE  ChannelsStay'
  BY <1>14, ChannelsStayKept DEF ReadError, callerVars, transVars, connVars,
     goVars, peerVars, TypeOK
<1>15. ASSUME NEW c \in Conns, ReadFails(c) PROVE ChannelsStay'
  BY <1>15, ChannelsStayKept DEF ReadFails, callerVars, transVars, connVars,
     goVars, peerVars, TypeOK
<1>16. ASSUME NEW c \in Conns, ReceiveCancelled(c) PROVE ChannelsStay'
  BY <1>16, ChannelsStayKept DEF ReceiveCancelled, callerVars, transVars,
     connVars, goVars, peerVars, TypeOK
<1>17. ASSUME NEW c \in Conns, NEW p \in Closers, NEW h \in hold[c][p],
              Deliver(c, p, h)
       PROVE  ChannelsStay'
  <2>1. h \in Claim /\ Carries(c, h) /\ conn[h.chan] = c /\ c # None
    BY NoneAssumption DEF InFlight, TypeOK
  <2>2. h.chan \in Calls /\ UNCHANGED <<conn, index, chan, results, pool>>
    BY <1>17, <2>1 DEF Deliver, Claim, callerVars, connVars
  <2>3. ASSUME NEW ch \in Calls, buf'[ch] # None
        PROVE  conn'[ch] # None /\ Carries(conn[ch], buf[ch])'
    <3>1. CASE ch = h.chan
      <4>1. buf'[ch] = [index |-> h.index, body |-> h.body]
        BY <1>17, <2>2, <3>1 DEF Deliver, TypeOK
      <4> QED
        BY <2>1, <2>2, <3>1, <4>1 DEF Carries
    <3>2. CASE ch # h.chan
      <4>1. buf'[ch] = buf[ch]
        BY <1>17, <3>2 DEF Deliver, TypeOK
      <4> QED
        BY <2>2, <2>3, <4>1 DEF ChannelsStay, Carries
    <3> QED
      BY <3>1, <3>2
  <2> QED
    BY <2>2, <2>3 DEF ChannelsStay
<1>18. ASSUME NEW c \in Conns, NEW p \in Closers, Exit(c, p) PROVE ChannelsStay'
  BY <1>18, ChannelsStayKept DEF Exit, callerVars, transVars, connVars, goVars,
     peerVars, TypeOK
<1>19. ASSUME NEW c \in Conns, Abort(c) PROVE ChannelsStay'
  BY <1>19, ChannelsStayKept DEF Abort, callerVars, transVars, connVars, goVars,
     peerVars, TypeOK
<1>20. ASSUME NEW c \in Conns, NEW p \in Closers, CloseLink(c, p)
       PROVE  ChannelsStay'
  BY <1>20, ChannelsStayKept DEF CloseLink, callerVars, transVars, connVars,
     goVars, peerVars, TypeOK
<1>21. ASSUME NEW c \in Conns, NEW p \in Closers, Clean(c, p) PROVE ChannelsStay'
  <2>1. \A x \in Conns, i \in Indices : results'[x][i] \in {results[x][i], None}
    BY <1>21 DEF Clean, EmptyTable, TypeOK
  <2> QED
    BY <1>21, <2>1, ChannelsStayKept DEF Clean, callerVars
<1>22. ASSUME NEW c \in Conns, NEW f \in up[c], Serve(c, f) PROVE ChannelsStay'
  BY <1>22, ChannelsStayKept DEF Serve, callerVars, transVars, connVars, goVars,
     peerVars, TypeOK
<1>23. ASSUME NEW c \in Conns, Break(c) PROVE ChannelsStay'
  BY <1>23, ChannelsStayKept DEF Break, callerVars, transVars, connVars, goVars,
     peerVars, TypeOK
<1>24. CASE UNCHANGED vars
  BY <1>24, ChannelsStayKept DEF vars, callerVars, transVars, connVars, goVars,
     peerVars
<1>25. ASSUME NEW k \in Calls, Caller(k) PROVE ChannelsStay'
  BY <1>25, <1>1, <1>2, <1>3, <1>4, <1>5, <1>6, <1>7, <1>8, Zenon DEF Caller
<1>26. ASSUME NEW c \in Conns, Sender(c) \/ Receiver(c) PROVE ChannelsStay'
  BY <1>26, <1>9, <1>10, <1>11, <1>12, <1>13, <1>14, <1>15, <1>16, Zenon
     DEF Sender, Receiver, ReadFrame
<1>27. ASSUME NEW c \in Conns, NEW p \in Closers, Closer(c, p) PROVE ChannelsStay'
  BY <1>27, <1>17, <1>18, <1>20, <1>21, Zenon DEF Closer
<1>28. ASSUME NEW c \in Conns, Peer(c) PROVE ChannelsStay'
  BY <1>28, <1>22, <1>23, Zenon DEF Peer
<1> QED
  BY <1>19, <1>24, <1>25, <1>26, <1>27, <1>28, Zenon DEF Next

\* A call that returns a response has taken it under its own index on its own
\* connection, where no other request has that index.
LEMMA OwnReplyStep ==
  TypeOK /\ Located /\ IndexUnique /\ ChannelsStay /\ OwnReply /\ [Next]_vars
    => OwnReply'
<1> SUFFICES ASSUME TypeOK, Located, IndexUnique, ChannelsStay, OwnReply,
   [Next]_vars
             PROVE  OwnReply'
  OBVIOUS
<1>1. ASSUME NEW k \in Calls, GetConn(k) PROVE OwnReply'
  BY <1>1 DEF GetConn, UseConn, OwnReply, TypeOK
<1>2. ASSUME NEW k \in Calls, FindConn(k) PROVE OwnReply'
  BY <1>2 DEF FindConn, UseConn, OwnReply, TypeOK
<1>3. ASSUME NEW k \in Calls, NEW c \in Conns, Dial(k, c) PROVE OwnReply'
  BY <1>3 DEF Dial, UseConn, OwnReply, TypeOK
<1>4. ASSUME NEW k \in Calls, DialFails(k) PROVE OwnReply'
  BY <1>4 DEF DialFails, OwnReply, TypeOK
<1>5. ASSUME NEW k \in Calls, Register(k) PROVE OwnReply'
  BY <1>5 DEF Register, NextIndex, OwnReply, TypeOK
<1>6. ASSUME NEW k \in Calls, Enqueue(k) PROVE OwnReply'
  BY <1>6 DEF Enqueue, OwnReply, TypeOK
<1>7. ASSUME NEW k \in Calls, Expire(k) PROVE OwnReply'
  BY <1>7 DEF Expire, OwnReply, TypeOK
<1>8. ASSUME NEW k \in Calls, Return(k) PROVE OwnReply'
  <2> DEFINE b == buf[chan[k]].body
  <2>1. ASSUME pc'[k] = "replied" PROVE reply'[k] = k
    <3>1. /\ chan[k] \in Calls /\ conn[k] \in Conns /\ index[k] # 0
          /\ buf[chan[k]] \in Data /\ buf[chan[k]] # None
      BY <1>8, IndexAssumption DEF Return, Located, Active, TypeOK, Indices
    <3>2. buf[chan[k]].index = index[k] /\ b # None /\ reply'[k] = b
      BY <1>8, <2>1 DEF Return, TypeOK
    <3>3. b \in Calls /\ conn[b] = conn[chan[k]] /\ index[b] = index[k]
      BY <3>1, <3>2 DEF ChannelsStay, Carries, Data
    <3>4. conn[chan[k]] = conn[k]
      BY <3>1, NoneAssumption DEF ChannelsStay
    <3> QED
      BY <3>1, <3>2, <3>3, <3>4 DEF IndexUnique
  <2>2. \A j \in Calls \ {k} : pc'[j] = pc[j] /\ reply'[j] = reply[j]
    BY <1>8 DEF Return, TypeOK
  <2> QED
    BY <2>1, <2>2 DEF OwnReply
<1>9. ASSUME NEW k \in Calls, Caller(k) PROVE OwnReply'
  BY <1>9, <1>1, <1>2, <1>3, <1>4, <1>5, <1>6, <1>7, <1>8, Zenon DEF Caller
<1>10. CASE \/ \E c \in Conns : Sender(c) \/ Receiver(c) \/ Abort(c) \/ Peer(c)
            \/ \E c \in Conns, p \in Closers : Closer(c, p)
            \/ UNCHANGED vars
  <2>1. UNCHANGED <<pc, conn, index, chan, reply, counter>>
    BY <1>10, OthersKeepCallers
  <2> QED
    BY <2>1 DEF OwnReply
<1> QED
  BY <1>9, <1>10, Zenon DEF Next

-----------------------------------------------------------------------------
(* The inductive invariant of OwnReply *)

\* The inductive invariant holds before the first call.
LEMMA OwnReplyInit == Init => OwnReplyInv
<1> SUFFICES ASSUME Init PROVE OwnReplyInv
  OBVIOUS
<1>1. TypeOK
  BY TypeInit
<1>2. Located /\ IndexUnique /\ ChannelsStay /\ OwnReply
  BY NoneAssumption DEF Init, Located, IndexUnique, ChannelsStay, OwnReply, Active
<1>3. InFlight
  BY FramesEmpty DEF Init, InFlight
<1> QED
  BY <1>1, <1>2, <1>3 DEF OwnReplyInv

\* The inductive invariant is kept by every step: its parts only need each
\* other before the step.
LEMMA OwnReplyInvStep == OwnReplyInv /\ [Next]_vars => OwnReplyInv'
<1> SUFFICES ASSUME OwnReplyInv, [Next]_vars PROVE OwnReplyInv'
  OBVIOUS
<1> USE DEF OwnReplyInv
<1>1. TypeOK'
  BY TypeStep
<1>2. Kept /\ Located' /\ IndexUnique' /\ OwnReply'
  BY KeptStep, LocatedStep, IndexUniqueStep, OwnReplyStep
<1>3. InFlight' /\ ChannelsStay'
  BY <1>1, <1>2, InFlightStep, ChannelsStayStep
<1> QED
  BY <1>1, <1>2, <1>3

\* OwnReplyInv is an invariant of the transport: the types are right, and what
\* is in flight on a connection was sent on it under the index it carries.
THEOREM TransportInvariant == Spec => []OwnReplyInv
<1>1. Init => OwnReplyInv
  BY OwnReplyInit
<1>2. OwnReplyInv /\ [Next]_vars => OwnReplyInv'
  BY OwnReplyInvStep
<1> QED
  BY <1>1, <1>2, PTL DEF Spec

\* Every variable of the transport keeps its type.
THEOREM TypeCorrect == Spec => []TypeOK
<1>1. OwnReplyInv => TypeOK
  BY DEF OwnReplyInv
<1> QED
  BY <1>1, TransportInvariant, PTL

\* Transport returns the response to its own request, for any number of calls,
\* connections, abandoned requests, broken links and concurrent closers.
THEOREM RepliesAreOwn == Spec => []OwnReply
<1>1. OwnReplyInv => OwnReply
  BY DEF OwnReplyInv
<1> QED
  BY <1>1, TransportInvariant, PTL

-----------------------------------------------------------------------------
(* The map of connections *)

\* No connection is mapped or running at the start.
LEMMA MappedInit == Init => MappedInv
BY NoneAssumption DEF Init, MappedInv, MappedConnIsLive, RunningConnIsMapped

\* Only Dial maps a connection, and only onExit and Abort unmap one: each of
\* them unmaps what it cancels.
LEMMA MappedStep == TypeOK /\ MappedInv /\ [Next]_vars => MappedInv'
<1> SUFFICES ASSUME TypeOK, MappedInv, [Next]_vars PROVE MappedInv'
  OBVIOUS
<1> USE NoneAssumption
<1> USE DEF MappedInv, MappedConnIsLive, RunningConnIsMapped, TypeOK, Closers,
            transVars, goVars
<1>1. ASSUME NEW k \in Calls, GetConn(k) PROVE MappedInv'
  BY <1>1 DEF GetConn, UseConn
<1>2. ASSUME NEW k \in Calls, FindConn(k) PROVE MappedInv'
  BY <1>2 DEF FindConn, UseConn
<1>3. ASSUME NEW k \in Calls, NEW c \in Conns, Dial(k, c) PROVE MappedInv'
  BY <1>3 DEF Dial
<1>4. ASSUME NEW k \in Calls, DialFails(k) PROVE MappedInv'
  BY <1>4 DEF DialFails
<1>5. ASSUME NEW k \in Calls, Register(k) PROVE MappedInv'
  BY <1>5 DEF Register
<1>6. ASSUME NEW k \in Calls, Enqueue(k) PROVE MappedInv'
  BY <1>6 DEF Enqueue
<1>7. ASSUME NEW k \in Calls, Expire(k) PROVE MappedInv'
  BY <1>7 DEF Expire
<1>8. ASSUME NEW k \in Calls, Return(k) PROVE MappedInv'
  BY <1>8 DEF Return
<1>9. ASSUME NEW c \in Conns, Collect(c) PROVE MappedInv'
  BY <1>9 DEF Collect
<1>10. ASSUME NEW c \in Conns, Write(c) PROVE MappedInv'
  BY <1>10 DEF Write
<1>11. ASSUME NEW c \in Conns, WriteFails(c) PROVE MappedInv'
  BY <1>11 DEF WriteFails, Leave
<1>12. ASSUME NEW c \in Conns, SendCancelled(c) PROVE MappedInv'
  BY <1>12 DEF SendCancelled, Leave
<1>13. ASSUME NEW c \in Conns, NEW d \in down[c], Read(c, d) PROVE MappedInv'
  BY <1>13 DEF Read
<1>14. ASSUME NEW c \in Conns, NEW d \in down[c], ReadError(c, d) PROVE MappedInv'
  BY <1>14 DEF ReadError, Leave, Reading
<1>15. ASSUME NEW c \in Conns, ReadFails(c) PROVE MappedInv'
  BY <1>15 DEF ReadFails, Leave, Reading
<1>16. ASSUME NEW c \in Conns, ReceiveCancelled(c) PROVE MappedInv'
  BY <1>16 DEF ReceiveCancelled, Leave, Reading
<1>17. ASSUME NEW c \in Conns, NEW p \in Closers, NEW h \in hold[c][p],
              Deliver(c, p, h)
       PROVE  MappedInv'
  BY <1>17 DEF Deliver
<1>18. ASSUME NEW c \in Conns, NEW p \in Closers, Exit(c, p) PROVE MappedInv'
  BY <1>18 DEF Exit, Unmapped, CancelAlways
<1>19. ASSUME NEW c \in Conns, Abort(c) PROVE MappedInv'
  BY <1>19 DEF Abort
<1>20. ASSUME NEW c \in Conns, NEW p \in Closers, CloseLink(c, p) PROVE MappedInv'
  BY <1>20 DEF CloseLink
<1>21. ASSUME NEW c \in Conns, NEW p \in Closers, Clean(c, p) PROVE MappedInv'
  BY <1>21 DEF Clean
<1>22. ASSUME NEW c \in Conns, NEW f \in up[c], Serve(c, f) PROVE MappedInv'
  BY <1>22 DEF Serve
<1>23. ASSUME NEW c \in Conns, Break(c) PROVE MappedInv'
  BY <1>23 DEF Break
<1>24. CASE UNCHANGED vars
  BY <1>24 DEF vars
<1> HIDE DEF MappedInv, TypeOK, Closers
<1>25. ASSUME NEW k \in Calls, Caller(k) PROVE MappedInv'
  BY <1>25, <1>1, <1>2, <1>3, <1>4, <1>5, <1>6, <1>7, <1>8, Zenon DEF Caller
<1>26. ASSUME NEW c \in Conns, Sender(c) \/ Receiver(c) PROVE MappedInv'
  BY <1>26, <1>9, <1>10, <1>11, <1>12, <1>13, <1>14, <1>15, <1>16, Zenon
     DEF Sender, Receiver, ReadFrame
<1>27. ASSUME NEW c \in Conns, NEW p \in Closers, Closer(c, p) PROVE MappedInv'
  BY <1>27, <1>17, <1>18, <1>20, <1>21, Zenon DEF Closer
<1>28. ASSUME NEW c \in Conns, Peer(c) PROVE MappedInv'
  BY <1>28, <1>22, <1>23, Zenon DEF Peer
<1> QED
  BY <1>19, <1>24, <1>25, <1>26, <1>27, <1>28, Zenon DEF Next

\* What getConn, Exit and Abort keep up together: see MappedInv.
THEOREM MappedInvariant == Spec => []MappedInv
<1>1. Init => MappedInv
  BY MappedInit
<1>2. TypeOK /\ MappedInv /\ [Next]_vars => MappedInv'
  BY MappedStep
<1> QED
  BY <1>1, <1>2, TypeCorrect, PTL DEF Spec

\* The connection getConn hands out was not closed and its goroutines were not
\* told to stop.
THEOREM MappedIsLive == Spec => []MappedConnIsLive
<1>1. MappedInv => MappedConnIsLive
  BY DEF MappedInv
<1> QED
  BY <1>1, MappedInvariant, PTL

\* No running connection is forgotten by the transport, however the exits of
\* one connection and the dial of the next interleave.
THEOREM RunningIsMapped == Spec => []RunningConnIsMapped
<1>1. MappedInv => RunningConnIsMapped
  BY DEF MappedInv
<1> QED
  BY <1>1, MappedInvariant, PTL

-----------------------------------------------------------------------------
(* Steps that leave the result channels alone *)

\* No channel is pooled, registered, claimed, filled or drained, and no call
\* starts or stops waiting.
QuietStep ==
  /\ UNCHANGED <<chan, index, buf, pool, results, hold>>
  /\ \A k \in Calls :
       /\ pc'[k] \in Active <=> pc[k] \in Active
       /\ pc'[k] \in Unused => pc[k] \in Unused
       /\ pc[k] \in Active => conn'[k] = conn[k]

\* A step that leaves the channels alone keeps them in their places.
LEMMA QuietKeepsTokens == TokenInv /\ QuietStep => TokenInv'
<1> SUFFICES ASSUME TokenInv, QuietStep PROVE TokenInv'
  OBVIOUS
<1>1. OneWaiter'
  BY DEF TokenInv, OneWaiter, QuietStep
<1>2. EntriesHaveWaiters'
  BY DEF TokenInv, EntriesHaveWaiters, QuietStep
<1>3. ClaimsAreSole' /\ DeliveryNeverBlocks'
  BY DEF TokenInv, ClaimsAreSole, DeliveryNeverBlocks, QuietStep
<1>4. NotMadeYet'
  BY DEF TokenInv, NotMadeYet, QuietStep
<1>5. PooledChannelsIdle'
  BY DEF TokenInv, PooledChannelsIdle, QuietStep
<1> QED
  BY <1>1, <1>2, <1>3, <1>4, <1>5 DEF TokenInv

\* Everything but Register, Expire, Return, Read, Deliver and Clean leaves the
\* channels alone.
LEMMA QuietSteps ==
  ASSUME TypeOK, [Next]_vars,
         ~ \E k \in Calls : Register(k) \/ Expire(k) \/ Return(k),
         ~ \E c \in Conns : \E d \in down[c] : Read(c, d),
         ~ \E c \in Conns, p \in Closers : Clean(c, p),
         ~ \E c \in Conns, p \in Closers : \E h \in hold[c][p] : Deliver(c, p, h)
  PROVE  QuietStep
<1> USE DEF QuietStep, Active, Unused, callerVars, transVars, connVars, goVars,
            peerVars
<1>1. ASSUME NEW k \in Calls, GetConn(k) PROVE QuietStep
  BY <1>1 DEF GetConn, UseConn, TypeOK
<1>2. ASSUME NEW k \in Calls, FindConn(k) PROVE QuietStep
  BY <1>2 DEF FindConn, UseConn, TypeOK
<1>3. ASSUME NEW k \in Calls, NEW c \in Conns, Dial(k, c) PROVE QuietStep
  BY <1>3 DEF Dial, UseConn, TypeOK
<1>4. ASSUME NEW k \in Calls, DialFails(k) PROVE QuietStep
  BY <1>4 DEF DialFails, TypeOK
<1>5. ASSUME NEW k \in Calls, Enqueue(k) PROVE QuietStep
  BY <1>5 DEF Enqueue, TypeOK
<1>6. ASSUME NEW c \in Conns, Sender(c) PROVE QuietStep
  BY <1>6 DEF Sender, Collect, Write, WriteFails, SendCancelled
<1>7. ASSUME NEW c \in Conns, NEW d \in down[c], ReadError(c, d) PROVE QuietStep
  BY <1>7 DEF ReadError
<1>8. ASSUME NEW c \in Conns, ReadFails(c) \/ ReceiveCancelled(c) PROVE QuietStep
  BY <1>8 DEF ReadFails, ReceiveCancelled
<1>9. ASSUME NEW c \in Conns, Abort(c) \/ Peer(c) PROVE QuietStep
  BY <1>9 DEF Abort, Peer, Serve, Break
<1>10. ASSUME NEW c \in Conns, NEW p \in Closers, Exit(c, p) \/ CloseLink(c, p)
       PROVE  QuietStep
  BY <1>10 DEF Exit, CloseLink
<1>11. CASE UNCHANGED vars
  BY <1>11 DEF vars
<1> HIDE DEF QuietStep
<1>12. ASSUME NEW k \in Calls, Caller(k) PROVE QuietStep
  BY <1>12, <1>1, <1>2, <1>3, <1>4, <1>5, Zenon DEF Caller
<1>13. ASSUME NEW c \in Conns, Receiver(c) PROVE QuietStep
  BY <1>13, <1>7, <1>8, Zenon DEF Receiver, ReadFrame
<1>14. ASSUME NEW c \in Conns, NEW p \in Closers, Closer(c, p) PROVE QuietStep
  BY <1>14, <1>10, Zenon DEF Closer
<1> QED
  BY <1>6, <1>9, <1>11, <1>12, <1>13, <1>14, Zenon DEF Next

-----------------------------------------------------------------------------
(* Steps that move a result channel *)

\* Register takes a channel nobody has: one of the pool, or one it makes.
LEMMA RegisterKeepsTokens ==
  ASSUME TypeOK, Located, ChannelsStay, TokenInv, NEW k \in Calls, Register(k)
  PROVE  TokenInv'
<1> USE DEF Active, Unused
<1> DEFINE c == conn[k]
           i == NextIndex(c)
<1>1. PICK ch \in pool[c] \cup {k} :
        /\ chan' = [chan EXCEPT ![k] = ch]
        /\ pool' = [pool EXCEPT ![c] = @ \ {ch}]
        /\ results' = [results EXCEPT ![c][i] = ch]
  BY DEF Register
<1>2. /\ c \in Conns /\ i \in Indices /\ ch \in Calls /\ pc[k] = "ready"
      /\ pc' = [pc EXCEPT ![k] = "send"]
      /\ index' = [index EXCEPT ![k] = i]
      /\ UNCHANGED <<conn, buf, hold>>
  BY DEF Register, Located, goVars, TypeOK
<1>3. /\ \A x \in Calls : chan'[x] = IF x = k THEN ch ELSE chan[x]
      /\ \A x \in Calls : index'[x] = IF x = k THEN i ELSE index[x]
      /\ \A x \in Calls : pc'[x] = IF x = k THEN "send" ELSE pc[x]
      /\ \A d \in Conns : pool'[d] = IF d = c THEN pool[d] \ {ch} ELSE pool[d]
      /\ \A d \in Conns, n \in Indices :
           results'[d][n] = IF d = c /\ n = i THEN ch ELSE results[d][n]
  BY <1>1, <1>2 DEF TypeOK
<1>4. /\ buf[ch] = None
      /\ \A x \in Calls : pc[x] \in Active => chan[x] # ch
      /\ \A d \in Conns, n \in Indices : results[d][n] # ch
      /\ \A d \in Conns, p \in Closers : \A h \in hold[d][p] : h.chan # ch
  <2>1. CASE ch = k
    BY <1>2, <2>1 DEF TokenInv, NotMadeYet
  <2>2. CASE ch \in pool[c]
    BY <1>2, <2>2 DEF TokenInv, PooledChannelsIdle
  <2> QED
    BY <1>1, <2>1, <2>2
<1>5. \A d \in Conns \ {c} : ch \notin pool[d]
  BY <1>2, NoneAssumption DEF TokenInv, NotMadeYet, ChannelsStay, TypeOK
<1>6. \A x \in Calls : pc[x] \in Unused /\ x # k => x # ch
  BY <1>1, <1>2 DEF TokenInv, NotMadeYet
<1> HIDE DEF c, i
<1>7. OneWaiter'
  BY <1>3, <1>4 DEF TokenInv, OneWaiter
<1>8. EntriesHaveWaiters'
  <2> SUFFICES ASSUME NEW d \in Conns, NEW n \in Indices, results'[d][n] # None
               PROVE  \E x \in Calls : /\ pc'[x] \in Active
                                       /\ conn[x] = d /\ index'[x] = n
                                       /\ chan'[x] = results'[d][n]
    BY <1>2 DEF EntriesHaveWaiters
  <2>1. CASE d = c /\ n = i
    BY <1>2, <1>3, <2>1 DEF c
  <2>2. CASE ~(d = c /\ n = i)
    <3>1. results'[d][n] = results[d][n]
      BY <1>3, <2>2
    <3>2. PICK x \in Calls : /\ pc[x] \in Active /\ conn[x] = d /\ index[x] = n
                             /\ chan[x] = results[d][n]
      BY <3>1 DEF TokenInv, EntriesHaveWaiters
    <3>3. x # k
      BY <1>2, <3>2
    <3> QED
      BY <1>3, <3>1, <3>2, <3>3
  <2> QED
    BY <2>1, <2>2
<1>9. ClaimsAreSole'
  BY <1>2, <1>3, <1>4 DEF TokenInv, ClaimsAreSole
<1>10. NotMadeYet'
  <2> SUFFICES ASSUME NEW x \in Calls, pc'[x] \in Unused
               PROVE  /\ buf[x] = None
                      /\ \A y \in Calls : chan'[y] # x
                      /\ \A d \in Conns : /\ x \notin pool'[d]
                                         /\ \A n \in Indices : results'[d][n] # x
                      /\ \A d \in Conns, p \in Closers :
                           \A h \in hold[d][p] : h.chan # x
    BY <1>2 DEF NotMadeYet
  <2>1. pc[x] \in Unused /\ x # ch
    BY <1>2, <1>3, <1>6
  <2>2. /\ buf[x] = None
        /\ \A y \in Calls : chan[y] # x
        /\ \A d \in Conns : x \notin pool[d] /\ \A n \in Indices : results[d][n] # x
        /\ \A d \in Conns, p \in Closers : \A h \in hold[d][p] : h.chan # x
    BY <2>1 DEF TokenInv, NotMadeYet
  <2>3. ASSUME NEW y \in Calls PROVE chan'[y] # x
    <3>1. chan'[y] = IF y = k THEN ch ELSE chan[y]
      BY <1>3
    <3> QED
      BY <2>1, <2>2, <3>1
  <2>4. ASSUME NEW d \in Conns
        PROVE  x \notin pool'[d] /\ \A n \in Indices : results'[d][n] # x
    <3>1. pool'[d] \subseteq pool[d]
      BY <1>3
    <3>2. \A n \in Indices : results'[d][n] \in {results[d][n], ch}
      BY <1>3
    <3> QED
      BY <2>1, <2>2, <3>1, <3>2
  <2> QED
    BY <2>2, <2>3, <2>4
<1>11. PooledChannelsIdle'
  <2> SUFFICES ASSUME NEW d \in Conns, NEW y \in pool'[d]
               PROVE  /\ buf[y] = None
                      /\ \A x \in Calls : pc'[x] \in Active => chan'[x] # y
                      /\ \A e \in Conns, n \in Indices : results'[e][n] # y
                      /\ \A e \in Conns, p \in Closers :
                           \A h \in hold[e][p] : h.chan # y
    BY <1>2 DEF PooledChannelsIdle
  <2>1. y \in pool[d] /\ y # ch
    <3>1. pool'[d] = IF d = c THEN pool[d] \ {ch} ELSE pool[d]
      BY <1>3
    <3>2. CASE d = c
      BY <3>1, <3>2
    <3>3. CASE d # c
      <4>1. y \in pool[d] /\ ch \notin pool[d]
        BY <1>5, <3>1, <3>3
      <4> QED
        BY <4>1
    <3> QED
      BY <3>2, <3>3
  <2>2. /\ buf[y] = None
        /\ \A x \in Calls : pc[x] \in Active => chan[x] # y
        /\ \A e \in Conns, n \in Indices : results[e][n] # y
        /\ \A e \in Conns, p \in Closers : \A h \in hold[e][p] : h.chan # y
    BY <2>1 DEF TokenInv, PooledChannelsIdle
  <2> QED
    BY <1>3, <2>1, <2>2
<1>12. DeliveryNeverBlocks'
  BY <1>2 DEF TokenInv, DeliveryNeverBlocks
<1> QED
  BY <1>7, <1>8, <1>9, <1>10, <1>11, <1>12 DEF TokenInv

\* Expire deletes the entry of the call, and leaves its channel to nobody.
LEMMA ExpireKeepsTokens ==
  ASSUME TypeOK, Located, TokenInv, NEW k \in Calls, Expire(k)
  PROVE  TokenInv'
<1> USE DEF Active, Unused
<1>1. /\ conn[k] \in Conns /\ index[k] \in Indices /\ pc[k] \in Active
      /\ pc' = [pc EXCEPT ![k] = "expired"]
      /\ results' = [results EXCEPT ![conn[k]][index[k]] = None]
      /\ UNCHANGED <<conn, index, chan, buf, hold>>
  BY DEF Expire, Located, goVars
<1>2. /\ \A x \in Calls : pc'[x] = IF x = k THEN "expired" ELSE pc[x]
      /\ \A d \in Conns, n \in Indices :
           results'[d][n] = IF d = conn[k] /\ n = index[k] THEN None
                                                           ELSE results[d][n]
      /\ \A d \in Conns : pool'[d] = pool[d]
  BY <1>1 DEF Expire, PoolAfterExpiry, TypeOK
<1>3. \A y \in Calls : y # None
  BY NoneAssumption
<1>4. \A d \in Conns, n \in Indices : results'[d][n] \in {results[d][n], None}
  BY <1>2
<1>5. OneWaiter'
  BY <1>1, <1>2 DEF TokenInv, OneWaiter
<1>6. EntriesHaveWaiters'
  BY <1>1, <1>2 DEF TokenInv, EntriesHaveWaiters
<1>7. ClaimsAreSole'
  <2>1. \A d \in Conns, p \in Closers : \A h \in hold[d][p] : h.chan # None
    BY <1>3 DEF TypeOK, Claim
  <2> QED
    BY <1>1, <1>3, <1>4, <2>1 DEF TokenInv, ClaimsAreSole
<1>8. NotMadeYet'
  BY <1>1, <1>2, <1>3, <1>4 DEF TokenInv, NotMadeYet
<1>9. PooledChannelsIdle'
  BY <1>1, <1>2, <1>3, <1>4 DEF TokenInv, PooledChannelsIdle, TypeOK
<1>10. DeliveryNeverBlocks'
  BY <1>1 DEF TokenInv, DeliveryNeverBlocks
<1> QED
  BY <1>5, <1>6, <1>7, <1>8, <1>9, <1>10 DEF TokenInv

\* Return empties the channel before it pools it; a full channel is in no
\* table and nobody is about to fill it again.
LEMMA ReturnKeepsTokens ==
  ASSUME TypeOK, Located, ChannelsStay, TokenInv, NEW k \in Calls, Return(k)
  PROVE  TokenInv'
<1> USE DEF Active, Unused
<1> DEFINE ch == chan[k]
           mine == buf[ch].index = index[k]
<1>1. /\ conn[k] \in Conns /\ index[k] \in Indices /\ ch \in Calls /\ buf[ch] # None
      /\ pc[k] = "wait"
      /\ buf' = [buf EXCEPT ![ch] = None]
      /\ UNCHANGED <<conn, index, chan, results, hold>>
  BY DEF Return, Located, goVars
<1>2. /\ pc'[k] \in {"wait", "failed", "replied"}
      /\ \A x \in Calls \ {k} : pc'[x] = pc[x]
      /\ \A x \in Calls : buf'[x] = IF x = ch THEN None ELSE buf[x]
      /\ pool' = [pool EXCEPT ![conn[k]] = IF mine THEN @ \cup {ch} ELSE @]
      /\ ~mine => pc'[k] = "wait"
      /\ mine => pc'[k] \in {"failed", "replied"}
  BY <1>1 DEF Return, TypeOK
<1>3. /\ \A d \in Conns, n \in Indices : results[d][n] # ch
      /\ \A d \in Conns, p \in Closers : \A h \in hold[d][p] : h.chan # ch
      /\ \A x \in Calls \ {k} : pc[x] \in Active => chan[x] # ch
  <2>1. \A d \in Conns, n \in Indices : results[d][n] # ch
    BY <1>1 DEF TokenInv, ClaimsAreSole
  <2>2. \A d \in Conns, p \in Closers : \A h \in hold[d][p] : h.chan # ch
    BY <1>1 DEF TokenInv, DeliveryNeverBlocks
  <2>3. \A x \in Calls \ {k} : pc[x] \in Active => chan[x] # ch
    BY <1>1 DEF TokenInv, OneWaiter
  <2> QED
    BY <2>1, <2>2, <2>3
<1>4. \A x \in Calls : pc'[x] \in Active => pc[x] \in Active
  BY <1>1, <1>2
<1>5. \A x \in Calls : pc'[x] \in Unused => pc[x] \in Unused /\ x # ch
  BY <1>1, <1>2 DEF TokenInv, NotMadeYet
<1>6. \A d \in Conns : \A y \in pool'[d] : y \in pool[d] \/ (y = ch /\ mine)
  BY <1>1, <1>2 DEF TypeOK
<1> HIDE DEF ch, mine
<1>7. OneWaiter'
  BY <1>1, <1>4 DEF TokenInv, OneWaiter
<1>8. EntriesHaveWaiters'
  <2> SUFFICES ASSUME NEW d \in Conns, NEW n \in Indices, results[d][n] # None
               PROVE  \E x \in Calls : /\ pc'[x] \in Active
                                       /\ conn[x] = d /\ index[x] = n
                                       /\ chan[x] = results[d][n]
    BY <1>1 DEF EntriesHaveWaiters
  <2>1. PICK x \in Calls : /\ pc[x] \in Active /\ conn[x] = d /\ index[x] = n
                           /\ chan[x] = results[d][n]
    BY DEF TokenInv, EntriesHaveWaiters
  <2>2. x # k
    BY <1>3, <2>1 DEF ch
  <2> QED
    BY <1>2, <2>1, <2>2
<1>9. ClaimsAreSole'
  BY <1>1, <1>2 DEF TokenInv, ClaimsAreSole
<1>10. NotMadeYet'
  <2> SUFFICES ASSUME NEW x \in Calls, pc'[x] \in Unused
               PROVE  /\ buf'[x] = None
                      /\ \A y \in Calls : chan[y] # x
                      /\ \A d \in Conns : /\ x \notin pool'[d]
                                         /\ \A n \in Indices : results[d][n] # x
                      /\ \A d \in Conns, p \in Closers :
                           \A h \in hold[d][p] : h.chan # x
    BY <1>1 DEF NotMadeYet
  <2>1. pc[x] \in Unused /\ x # ch
    BY <1>5
  <2>2. /\ buf[x] = None
        /\ \A y \in Calls : chan[y] # x
        /\ \A d \in Conns : x \notin pool[d] /\ \A n \in Indices : results[d][n] # x
        /\ \A d \in Conns, p \in Closers : \A h \in hold[d][p] : h.chan # x
    BY <2>1 DEF TokenInv, NotMadeYet
  <2> QED
    BY <1>2, <1>6, <2>1, <2>2
<1>11. PooledChannelsIdle'
  <2> SUFFICES ASSUME NEW d \in Conns, NEW y \in pool'[d]
               PROVE  /\ buf'[y] = None
                      /\ \A x \in Calls : pc'[x] \in Active => chan[x] # y
                      /\ \A e \in Conns, n \in Indices : results[e][n] # y
                      /\ \A e \in Conns, p \in Closers :
                           \A h \in hold[e][p] : h.chan # y
    BY <1>1 DEF PooledChannelsIdle
  <2>1. CASE y \in pool[d]
    <3>1. /\ buf[y] = None
          /\ \A x \in Calls : pc[x] \in Active => chan[x] # y
          /\ \A e \in Conns, n \in Indices : results[e][n] # y
          /\ \A e \in Conns, p \in Closers : \A h \in hold[e][p] : h.chan # y
      BY <2>1 DEF TokenInv, PooledChannelsIdle
    <3>2. y \in Calls
      BY <2>1 DEF TypeOK
    <3> QED
      BY <1>2, <1>4, <3>1, <3>2
  <2>2. CASE y = ch /\ mine
    <3>1. \A x \in Calls : pc'[x] \in Active => chan[x] # y
      BY <1>2, <1>3, <2>2
    <3> QED
      BY <1>1, <1>2, <1>3, <2>2, <3>1
  <2> QED
    BY <1>6, <2>1, <2>2
<1>12. DeliveryNeverBlocks'
  BY <1>1, <1>2 DEF TokenInv, DeliveryNeverBlocks, TypeOK, Claim
<1> QED
  BY <1>7, <1>8, <1>9, <1>10, <1>11, <1>12 DEF TokenInv

\* Closer q of connection x takes the entries New out of the table.
TakesEntries(x, q, New) ==
  /\ hold' = [hold EXCEPT ![x][q] = New]
  /\ \A d \in Conns, n \in Indices : results'[d][n] \in {results[d][n], None}
  /\ \A h \in New : /\ h.index \in Indices /\ h.chan # None
                    /\ results[x][h.index] = h.chan
                    /\ results'[x][h.index] = None
  /\ \A g, h \in New : g.index = h.index => g = h
  /\ UNCHANGED <<pc, conn, index, chan, pool, buf>>

\* To claim entries of the table takes them out of it; no two entries have the
\* same channel, because no two waiting calls have.
LEMMA ClaimKeepsTokens ==
  ASSUME TypeOK, TypeOK', TokenInv, NEW x \in Conns, NEW q \in Closers, NEW New,
         TakesEntries(x, q, New)
  PROVE  TokenInv'
<1> USE DEF TakesEntries
<1>1. \A d \in Conns, p \in Closers :
        hold'[d][p] = IF d = x /\ p = q THEN New ELSE hold[d][p]
  BY DEF TypeOK
<1>2. \A d \in Conns, p \in Closers : \A h \in hold'[d][p] : h.chan \in Calls
  BY DEF TypeOK, Claim
<1>3. OneWaiter'
  BY DEF TokenInv, OneWaiter
<1>4. EntriesHaveWaiters'
  BY DEF TokenInv, EntriesHaveWaiters
\* two entries with the same channel are the same entry
<1>5. ASSUME NEW c \in Conns, NEW d \in Conns, NEW m \in Indices, NEW n \in Indices,
             results[c][m] # None, results[c][m] = results[d][n]
      PROVE  c = d /\ m = n
  <2>1. PICK j \in Calls : /\ pc[j] \in Active /\ conn[j] = c /\ index[j] = m
                           /\ chan[j] = results[c][m]
    BY <1>5 DEF TokenInv, EntriesHaveWaiters
  <2>2. PICK k \in Calls : /\ pc[k] \in Active /\ conn[k] = d /\ index[k] = n
                           /\ chan[k] = results[d][n]
    BY <1>5 DEF TokenInv, EntriesHaveWaiters
  <2>3. j = k
    BY <1>5, <2>1, <2>2 DEF TokenInv, OneWaiter
  <2> QED
    BY <2>1, <2>2, <2>3
<1>6. ASSUME NEW d \in Conns, NEW p \in Closers, NEW h \in hold'[d][p]
      PROVE  buf[h.chan] = None /\ \A c \in Conns, n \in Indices :
               results'[c][n] # h.chan
  <2>1. CASE h \in hold[d][p]
    <3>1. buf[h.chan] = None
      BY <2>1 DEF TokenInv, DeliveryNeverBlocks
    <3>2. \A c \in Conns, n \in Indices : results[c][n] # h.chan
      BY <2>1 DEF TokenInv, ClaimsAreSole
    <3>3. h.chan # None
      BY <1>2, NoneAssumption
    <3> QED
      BY <3>1, <3>2, <3>3
  <2>2. CASE d = x /\ h \in New
    <3>1. h.chan # None /\ h.index \in Indices /\ results[x][h.index] = h.chan
          /\ results'[x][h.index] = None /\ h.chan \in Calls
      BY <1>2, <2>2
    <3>2. buf[h.chan] = None
      BY <3>1 DEF TokenInv, ClaimsAreSole
    <3>3. ASSUME NEW c \in Conns, NEW n \in Indices, results'[c][n] = h.chan
          PROVE  FALSE
      <4>1. results[c][n] = h.chan
        BY <3>1, <3>3
      <4>2. c = x /\ n = h.index
        BY <1>5, <3>1, <4>1
      <4> QED
        BY <3>1, <3>3, <4>2
    <3> QED
      BY <3>2, <3>3
  <2> QED
    BY <1>1, <2>1, <2>2
<1>7. ClaimsAreSole'
  <2>1. \A c \in Conns, n \in Indices, ch \in Calls :
          buf[ch] # None => results'[c][n] # ch
    BY NoneAssumption DEF TokenInv, ClaimsAreSole
  <2> QED
    BY <1>6, <2>1 DEF ClaimsAreSole
<1>8. DeliveryNeverBlocks'
  <2> SUFFICES ASSUME NEW c \in Conns, NEW d \in Conns, NEW p \in Closers,
                      NEW r \in Closers, NEW h \in hold'[c][p],
                      NEW g \in hold'[d][r], h.chan = g.chan
               PROVE  c = d /\ p = r /\ h = g
    BY <1>6 DEF DeliveryNeverBlocks
  <2>1. CASE h \in hold[c][p] /\ g \in hold[d][r]
    BY <2>1 DEF TokenInv, DeliveryNeverBlocks
  <2>2. CASE h \in hold[c][p] /\ d = x /\ r = q /\ g \in New
    BY <2>2 DEF TokenInv, ClaimsAreSole
  <2>3. CASE c = x /\ p = q /\ h \in New /\ g \in hold[d][r]
    BY <2>3 DEF TokenInv, ClaimsAreSole
  <2>4. CASE c = x /\ p = q /\ h \in New /\ d = x /\ r = q /\ g \in New
    BY <1>5, <2>4
  <2> QED
    BY <1>1, <2>1, <2>2, <2>3, <2>4
\* a channel that is in no table before the step is not claimed by it
<1>9. ASSUME NEW y \in Calls, \A c \in Conns, n \in Indices : results[c][n] # y,
             \A d \in Conns, p \in Closers : \A h \in hold[d][p] : h.chan # y
      PROVE  /\ \A c \in Conns, n \in Indices : results'[c][n] # y
             /\ \A d \in Conns, p \in Closers : \A h \in hold'[d][p] : h.chan # y
  <2>1. \A c \in Conns, n \in Indices : results'[c][n] # y
    BY <1>9, NoneAssumption
  <2>2. \A h \in New : h.chan # y
    BY <1>9
  <2>3. \A d \in Conns, p \in Closers : \A h \in hold'[d][p] : h.chan # y
    BY <1>1, <1>9, <2>2
  <2> QED
    BY <2>1, <2>3
<1>10. NotMadeYet'
  BY <1>9 DEF TokenInv, NotMadeYet
<1>11. PooledChannelsIdle'
  <2> SUFFICES ASSUME NEW c \in Conns, NEW y \in pool[c]
               PROVE  /\ buf[y] = None
                      /\ \A k \in Calls : pc[k] \in Active => chan[k] # y
                      /\ \A d \in Conns, n \in Indices : results'[d][n] # y
                      /\ \A d \in Conns, p \in Closers :
                           \A h \in hold'[d][p] : h.chan # y
    BY DEF PooledChannelsIdle
  <2>1. y \in Calls
    BY DEF TypeOK
  <2>2. /\ buf[y] = None
        /\ \A k \in Calls : pc[k] \in Active => chan[k] # y
        /\ \A d \in Conns, n \in Indices : results[d][n] # y
        /\ \A d \in Conns, p \in Closers : \A h \in hold[d][p] : h.chan # y
    BY DEF TokenInv, PooledChannelsIdle
  <2> QED
    BY <1>9, <2>1, <2>2
<1> QED
  BY <1>3, <1>4, <1>7, <1>8, <1>10, <1>11 DEF TokenInv

\* Delivery fills the one channel it claimed.
LEMMA DeliverKeepsTokens ==
  ASSUME TypeOK, TokenInv, NEW c \in Conns, NEW p \in Closers, NEW g \in hold[c][p],
         Deliver(c, p, g)
  PROVE  TokenInv'
<1>1. /\ g.chan \in Calls
      /\ \A x \in Calls : x # g.chan => buf'[x] = buf[x]
      /\ UNCHANGED <<pc, conn, index, chan, pool, results>>
  BY DEF Deliver, TypeOK, Claim, callerVars, connVars
<1>2. \A d \in Conns, q \in Closers :
        hold'[d][q] = IF d = c /\ q = p THEN hold[d][q] \ {g} ELSE hold[d][q]
  BY DEF Deliver, TypeOK
<1>3. \A d \in Conns, q \in Closers :
        /\ hold'[d][q] \subseteq hold[d][q]
        /\ \A h \in hold'[d][q] : h.chan # g.chan
  <2>1. \A d \in Conns, q \in Closers : \A h \in hold[d][q] :
          h.chan = g.chan => d = c /\ q = p /\ h = g
    BY DEF TokenInv, DeliveryNeverBlocks
  <2>2. ASSUME NEW d \in Conns, NEW q \in Closers
        PROVE  /\ hold'[d][q] \subseteq hold[d][q]
               /\ \A h \in hold'[d][q] : h.chan # g.chan
    <3>1. CASE d = c /\ q = p
      <4>1. hold'[d][q] = hold[d][q] \ {g}
        BY <1>2, <3>1
      <4> QED
        BY <2>1, <4>1
    <3>2. CASE ~(d = c /\ q = p)
      <4>1. hold'[d][q] = hold[d][q]
        BY <1>2, <3>2
      <4> QED
        BY <2>1, <3>2, <4>1
    <3> QED
      BY <3>1, <3>2
  <2> QED
    BY <2>2
<1>4. \A d \in Conns, n \in Indices : results[d][n] # g.chan
  BY DEF TokenInv, ClaimsAreSole
<1>5. OneWaiter' /\ EntriesHaveWaiters'
  BY <1>1 DEF TokenInv, OneWaiter, EntriesHaveWaiters
<1>6. ClaimsAreSole'
  BY <1>1, <1>3, <1>4 DEF TokenInv, ClaimsAreSole
<1>7. DeliveryNeverBlocks'
  <2>1. ASSUME NEW d \in Conns, NEW q \in Closers, NEW h \in hold'[d][q]
        PROVE  buf'[h.chan] = None
    <3>1. h \in hold[d][q] /\ h.chan # g.chan
      BY <1>3
    <3>2. h.chan \in Calls
      BY <3>1 DEF TypeOK, Claim
    <3>3. buf[h.chan] = None
      BY <3>1 DEF TokenInv, DeliveryNeverBlocks
    <3> QED
      BY <1>1, <3>1, <3>2, <3>3
  <2>2. \A d, e \in Conns, q, r \in Closers : \A h \in hold[d][q], j \in hold[e][r] :
          h.chan = j.chan => d = e /\ q = r /\ h = j
    BY DEF TokenInv, DeliveryNeverBlocks
  <2> QED
    BY <1>3, <2>1, <2>2 DEF DeliveryNeverBlocks
<1>8. NotMadeYet'
  <2>1. \A x \in Calls : pc[x] \in Unused => x # g.chan
    BY DEF TokenInv, NotMadeYet
  <2> QED
    BY <1>1, <1>3, <2>1 DEF TokenInv, NotMadeYet
<1>9. PooledChannelsIdle'
  <2>1. \A d \in Conns : \A y \in pool[d] : y # g.chan /\ y \in Calls
    BY DEF TokenInv, PooledChannelsIdle, TypeOK
  <2> QED
    BY <1>1, <1>3, <2>1 DEF TokenInv, PooledChannelsIdle
<1> QED
  BY <1>5, <1>6, <1>7, <1>8, <1>9 DEF TokenInv

\* The places of a result channel are kept by every step.
LEMMA TokenStep ==
  TypeOK /\ TypeOK' /\ Located /\ ChannelsStay /\ TokenInv /\ [Next]_vars
    => TokenInv'
<1> SUFFICES ASSUME TypeOK, TypeOK', Located, ChannelsStay, TokenInv, [Next]_vars
             PROVE  TokenInv'
  OBVIOUS
<1>1. ASSUME NEW k \in Calls, Register(k) PROVE TokenInv'
  BY <1>1, RegisterKeepsTokens
<1>2. ASSUME NEW k \in Calls, Expire(k) PROVE TokenInv'
  BY <1>2, ExpireKeepsTokens
<1>3. ASSUME NEW k \in Calls, Return(k) PROVE TokenInv'
  BY <1>3, ReturnKeepsTokens
<1>4. ASSUME NEW c \in Conns, NEW d \in down[c], Read(c, d) PROVE TokenInv'
  <2> DEFINE i == d.index
             New == IF results[c][i] = None THEN {}
                    ELSE {[index |-> i, chan |-> results[c][i], body |-> d.body]}
  <2>1. i \in Indices /\ "recv" \in Closers
    BY DEF TypeOK, Data, Closers
  <2>2. /\ hold[c]["recv"] = {} /\ hold' = [hold EXCEPT ![c]["recv"] = New]
        /\ results' = [results EXCEPT ![c][i] = None]
        /\ UNCHANGED <<pc, conn, index, chan, pool, buf>>
    BY <1>4 DEF Read, Reading, callerVars
  <2>3. \A x \in Conns, n \in Indices : results'[x][n] \in {results[x][n], None}
    BY <2>2 DEF TypeOK
  <2>4. results'[c][i] = None
    BY <2>1, <2>2 DEF TypeOK
  <2>5. \A h \in New : /\ h.index \in Indices /\ h.chan # None
                       /\ results[c][h.index] = h.chan /\ results'[c][h.index] = None
    BY <2>1, <2>4
  <2>6. \A g, h \in New : g.index = h.index => g = h
    OBVIOUS
  <2>7. TakesEntries(c, "recv", New)
    BY <2>2, <2>3, <2>5, <2>6, Zenon DEF TakesEntries
  <2> HIDE DEF New
  <2> QED
    BY <2>1, <2>7, ClaimKeepsTokens
<1>5. ASSUME NEW c \in Conns, NEW p \in Closers, Clean(c, p) PROVE TokenInv'
  <2> DEFINE New == {[index |-> i, chan |-> results[c][i], body |-> None] :
                         i \in Registered(c)}
  <2>1. /\ hold[c][p] = {} /\ hold' = [hold EXCEPT ![c][p] = New]
        /\ results' = [results EXCEPT ![c] = EmptyTable(c)]
        /\ UNCHANGED <<pc, conn, index, chan, pool, buf>>
    BY <1>5 DEF Clean, callerVars
  <2>2. \A x \in Conns, n \in Indices : results'[x][n] \in {results[x][n], None}
    BY <2>1 DEF EmptyTable, TypeOK
  <2>3. \A n \in Indices : results'[c][n] = None
    BY <2>1 DEF EmptyTable, TypeOK
  <2>4. \A h \in New : /\ h.index \in Indices /\ h.chan # None
                       /\ results[c][h.index] = h.chan /\ results'[c][h.index] = None
    BY <2>3 DEF Registered
  <2>5. \A g, h \in New : g.index = h.index => g = h
    OBVIOUS
  <2>6. TakesEntries(c, p, New)
    BY <2>1, <2>2, <2>4, <2>5, Zenon DEF TakesEntries
  <2> HIDE DEF New
  <2> QED
    BY <2>6, ClaimKeepsTokens
<1>6. ASSUME NEW c \in Conns, NEW p \in Closers, NEW h \in hold[c][p],
             Deliver(c, p, h)
      PROVE  TokenInv'
  BY <1>6, DeliverKeepsTokens
<1>7. CASE QuietStep
  BY <1>7, QuietKeepsTokens
<1> QED
  BY <1>1, <1>2, <1>3, <1>4, <1>5, <1>6, <1>7, QuietSteps

\* TokenInv is an invariant of the transport: a result channel is pooled,
\* registered, claimed or full, never two of these.
THEOREM TokenInvariant == Spec => []TokenInv
<1>1. Init => TokenInv
  BY NoneAssumption DEF Init, TokenInv, OneWaiter, EntriesHaveWaiters,
     ClaimsAreSole, NotMadeYet, PooledChannelsIdle, DeliveryNeverBlocks, Active
<1>2. OwnReplyInv /\ OwnReplyInv' /\ TokenInv /\ [Next]_vars => TokenInv'
  BY TokenStep DEF OwnReplyInv
<1> QED
  BY <1>1, <1>2, TransportInvariant, PTL DEF Spec

\* A channel that conn.Transport takes from the pool is empty and nobody can
\* still send to it, whatever was late or abandoned on the connection.
THEOREM PooledAreIdle == Spec => []PooledChannelsIdle
<1>1. TokenInv => PooledChannelsIdle
  BY DEF TokenInv
<1> QED
  BY <1>1, TokenInvariant, PTL

\* Receive and Close never block on a result channel.
THEOREM DeliveriesNeverBlock == Spec => []DeliveryNeverBlocks
<1>1. TokenInv => DeliveryNeverBlocks
  BY DEF TokenInv
<1> QED
  BY <1>1, TokenInvariant, PTL

-----------------------------------------------------------------------------
(* Queues in which a request occurs once *)

\* A queue that grows by the frame of another request has each request once.
LEMMA OnceAppend ==
  ASSUME NEW S, NEW s \in Seq(S), NEW f \in S, Once(s),
         \A g \in Frames(s) : g.body # f.body
  PROVE  Once(Append(s, f))
<1>1. Append(s, f) \in Seq(S) /\ Len(Append(s, f)) = Len(s) + 1 /\ Len(s) \in Nat
  OBVIOUS
<1>2. \A n \in 1..Len(s) : Append(s, f)[n] = s[n] /\ s[n] \in Frames(s)
  BY DEF Frames
<1>3. Append(s, f)[Len(s) + 1] = f
  OBVIOUS
<1>4. \A n \in 1..(Len(s) + 1) : n \in 1..Len(s) \/ n = Len(s) + 1
  BY <1>1
<1> QED
  BY <1>1, <1>2, <1>3, <1>4 DEF Once

\* The head of a queue in which each request occurs once is not in its tail.
LEMMA OnceTail ==
  ASSUME NEW S, NEW s \in Seq(S), s # <<>>, Once(s)
  PROVE  Once(Tail(s)) /\ \A g \in Frames(Tail(s)) : g.body # Head(s).body
<1>1. Len(s) \in Nat \ {0} /\ Head(s) = s[1] /\ Len(Tail(s)) = Len(s) - 1
  OBVIOUS
<1>2. \A n \in 1..Len(Tail(s)) : /\ Tail(s)[n] = s[n + 1]
                                 /\ n + 1 \in 1..Len(s) /\ n + 1 # 1
  BY <1>1
<1>3. 1 \in 1..Len(s)
  BY <1>1
<1>4. Once(Tail(s))
  <2> SUFFICES ASSUME NEW m \in 1..Len(Tail(s)), NEW n \in 1..Len(Tail(s)),
                      Tail(s)[m].body = Tail(s)[n].body
               PROVE  m = n
    BY DEF Once
  <2>1. m + 1 = n + 1
    BY <1>2 DEF Once
  <2> QED
    BY <1>1, <2>1
<1>5. ASSUME NEW g \in Frames(Tail(s)) PROVE g.body # Head(s).body
  <2>1. PICK n \in 1..Len(Tail(s)) : g = Tail(s)[n]
    BY DEF Frames
  <2> QED
    BY <1>1, <1>2, <1>3, <2>1 DEF Once
<1> QED
  BY <1>4, <1>5

\* An empty queue has each request once.
LEMMA OnceEmpty == Once(<<>>)
BY DEF Once

\* The requests in flight on a connection are frames of it.
LEMMA UnexecutedType ==
  ASSUME TypeOK, NEW c \in Conns
  PROVE  Unexecuted(c) \subseteq Frame
BY FramesType DEF TypeOK, Unexecuted

\* A connection whose queues a step leaves alone keeps its requests sole, if
\* the step executes none of them.
LEMMA SoleKept ==
  ASSUME NEW c \in Conns, SoleAt(c), requests'[c] = requests[c],
         batch'[c] = batch[c], up'[c] = up[c],
         \A f \in Unexecuted(c) :
           /\ executed'[f.body] = executed[f.body]
           /\ pc'[f.body] \in Unused \cup {"send"}
                => pc[f.body] \in Unused \cup {"send"}
  PROVE  SoleAt(c)'
BY DEF SoleAt, Unexecuted

-----------------------------------------------------------------------------
(* Requests are executed once *)

\* No call forgets that it has queued its request.
SentStays ==
  \A k \in Calls : pc'[k] \in Unused \cup {"send"} => pc[k] \in Unused \cup {"send"}

\* No step takes a call back to before it queued its request.
LEMMA SentStaysSent ==
  ASSUME TypeOK, [Next]_vars
  PROVE  SentStays
<1> USE DEF Unused, TypeOK, SentStays
<1>1. ASSUME NEW k \in Calls, GetConn(k) \/ FindConn(k) \/ DialFails(k) PROVE SentStays
  BY <1>1 DEF GetConn, FindConn, DialFails, UseConn
<1>2. ASSUME NEW k \in Calls, NEW c \in Conns, Dial(k, c) PROVE SentStays
  BY <1>2 DEF Dial, UseConn
<1>3. ASSUME NEW k \in Calls, Register(k) PROVE SentStays
  BY <1>3 DEF Register
<1>4. ASSUME NEW k \in Calls, Enqueue(k) \/ Expire(k) PROVE SentStays
  BY <1>4 DEF Enqueue, Expire
<1>5. ASSUME NEW k \in Calls, Return(k) PROVE SentStays
  BY <1>5 DEF Return
<1> HIDE DEF Unused, TypeOK, SentStays
<1>6. ASSUME NEW k \in Calls, Caller(k) PROVE SentStays
  BY <1>6, <1>1, <1>2, <1>3, <1>4, <1>5, Zenon DEF Caller
<1>7. CASE \/ \E c \in Conns : Sender(c) \/ Receiver(c) \/ Abort(c) \/ Peer(c)
           \/ \E c \in Conns, p \in Closers : Closer(c, p)
           \/ UNCHANGED vars
  <2>1. UNCHANGED pc
    BY <1>7, OthersKeepCallers
  <2> QED
    BY <2>1 DEF SentStays
<1> QED
  BY <1>6, <1>7, Zenon DEF Next

\* No request is queued, moved, lost or executed.
FlightStays == UNCHANGED <<requests, batch, up, executed>>

\* Everything but Enqueue, Collect, Write, WriteFails and Serve leaves the
\* requests in flight alone.
LEMMA OthersKeepFlight ==
  ASSUME [Next]_vars, ~ \E k \in Calls : Enqueue(k),
         ~ \E c \in Conns : Collect(c) \/ Write(c) \/ WriteFails(c),
         ~ \E c \in Conns : \E f \in up[c] : Serve(c, f)
  PROVE  FlightStays
<1> USE DEF FlightStays, callerVars, transVars, connVars, goVars, peerVars
<1>1. ASSUME NEW k \in Calls, GetConn(k) \/ FindConn(k) \/ DialFails(k) PROVE FlightStays
  BY <1>1 DEF GetConn, FindConn, DialFails
<1>2. ASSUME NEW k \in Calls, NEW c \in Conns, Dial(k, c) PROVE FlightStays
  BY <1>2 DEF Dial
<1>3. ASSUME NEW k \in Calls, Register(k) \/ Expire(k) \/ Return(k) PROVE FlightStays
  BY <1>3 DEF Register, Expire, Return
<1>4. ASSUME NEW c \in Conns, SendCancelled(c) PROVE FlightStays
  BY <1>4 DEF SendCancelled
<1>5. ASSUME NEW c \in Conns, Receiver(c) PROVE FlightStays
  BY <1>5 DEF Receiver, ReadFrame, Read, ReadError, ReadFails, ReceiveCancelled
<1>6. ASSUME NEW c \in Conns, Abort(c) \/ Break(c) PROVE FlightStays
  BY <1>6 DEF Abort, Break
<1>7. ASSUME NEW c \in Conns, NEW p \in Closers, Closer(c, p) PROVE FlightStays
  BY <1>7 DEF Closer, Exit, CloseLink, Clean, Deliver
<1>8. CASE UNCHANGED vars
  BY <1>8 DEF vars
<1> HIDE DEF FlightStays
<1>9. ASSUME NEW k \in Calls, Caller(k) PROVE FlightStays
  BY <1>9, <1>1, <1>2, <1>3, Zenon DEF Caller
<1>10. ASSUME NEW c \in Conns, Sender(c) PROVE FlightStays
  BY <1>10, <1>4, Zenon DEF Sender
<1>11. ASSUME NEW c \in Conns, Peer(c) PROVE FlightStays
  BY <1>11, <1>6, Zenon DEF Peer
<1> QED
  BY <1>5, <1>6, <1>7, <1>8, <1>9, <1>10, <1>11, Zenon DEF Next

\* A call that queues its request has not queued it before.
LEMMA EnqueueKeepsSole ==
  ASSUME TypeOK, Located, UnsentNotExecuted, FramesAreSole, SentStays,
         NEW k \in Calls, Enqueue(k)
  PROVE  FramesAreSole'
<1> PICK c \in Conns, f \in Frame : c = conn[k] /\ f = [index |-> index[k], body |-> k]
  BY DEF Enqueue, Located, Frame, Active
<1>1. f.body = k /\ executed[k] = 0 /\ pc'[k] = "wait"
  BY DEF Enqueue, UnsentNotExecuted, TypeOK
<1>2. /\ requests' = [requests EXCEPT ![c] = Append(@, f)]
      /\ UNCHANGED <<batch, up, executed>>
  BY DEF Enqueue, peerVars
<1>3. requests'[c] = Append(requests[c], f) /\ requests[c] \in Seq(Frame)
  BY <1>1, <1>2 DEF TypeOK
<1>4. \A g \in Unexecuted(c) : g.body # k
  BY <1>1 DEF Enqueue, FramesAreSole, SoleAt
<1>5. Frames(requests'[c]) = Frames(requests[c]) \cup {f}
  BY <1>1, <1>3, FramesAppend
<1>6. Once(requests'[c])
  <2>1. \A g \in Frames(requests[c]) : g.body # f.body
    BY <1>4 DEF Unexecuted
  <2>2. Once(requests[c])
    BY <1>1 DEF FramesAreSole, SoleAt
  <2> QED
    BY <1>1, <1>3, <2>1, <2>2, OnceAppend
<1>7. SoleAt(c)'
  <2>1. SoleAt(c)
    BY <1>1 DEF FramesAreSole
  <2>2. \A g \in Unexecuted(c)' : g \in Unexecuted(c) \/ g = f
    BY <1>2, <1>5 DEF Unexecuted
  <2>3. \A g \in Unexecuted(c)' :
          executed'[g.body] = 0 /\ pc'[g.body] \notin Unused \cup {"send"}
    <3>1. \A g \in Unexecuted(c) : g.body \in Calls
      BY <1>1, UnexecutedType DEF Frame
    <3> QED
      BY <1>1, <1>2, <2>1, <2>2, <3>1 DEF SoleAt, SentStays, Unused
  <2>4. \A g \in Frames(requests'[c]), h \in Frames(batch[c]) \cup up[c] :
          g.body # h.body
    BY <1>4, <1>5, <2>1 DEF SoleAt, Unexecuted
  <2> QED
    BY <1>2, <1>6, <2>1, <2>3, <2>4 DEF SoleAt
<1>8. ASSUME NEW d \in Conns, d # c PROVE SoleAt(d)'
  <2>1. requests'[d] = requests[d] /\ SoleAt(d)
    BY <1>1, <1>2, <1>8 DEF TypeOK, FramesAreSole
  <2>2. \A g \in Unexecuted(d) : g.body \in Calls
    BY UnexecutedType DEF Frame
  <2> QED
    BY <1>2, <2>1, <2>2, SoleKept DEF SentStays
<1> QED
  BY <1>7, <1>8 DEF FramesAreSole

\* A frame that moves from the queue to the batch is in neither twice.
LEMMA CollectKeepsSole ==
  ASSUME TypeOK, FramesAreSole, SentStays, NEW c \in Conns, Collect(c)
  PROVE  FramesAreSole'
<1> DEFINE f == Head(requests[c])
<1>1. /\ requests' = [requests EXCEPT ![c] = Tail(@)]
      /\ batch' = [batch EXCEPT ![c] = Append(@, f)]
      /\ UNCHANGED <<up, executed>>
  BY DEF Collect, peerVars
<1>2. requests[c] \in Seq(Frame) /\ requests[c] # <<>> /\ batch[c] \in Seq(Frame)
  BY DEF Collect, TypeOK
<1>3. requests'[c] = Tail(requests[c]) /\ batch'[c] = Append(batch[c], f)
  BY <1>1 DEF TypeOK
<1>4. /\ f \in Frame /\ f \in Frames(requests[c])
      /\ Frames(requests'[c]) \subseteq Frames(requests[c])
  BY <1>2, <1>3, FramesHeadTail
<1>5. Frames(batch'[c]) = Frames(batch[c]) \cup {f}
  BY <1>2, <1>3, <1>4, FramesAppend
<1>6. SoleAt(c)
  BY DEF FramesAreSole
<1>7. Once(requests'[c]) /\ \A g \in Frames(requests'[c]) : g.body # f.body
  BY <1>2, <1>3, <1>6, OnceTail DEF SoleAt
<1>8. Once(batch'[c])
  <2>1. \A g \in Frames(batch[c]) : g.body # f.body
    BY <1>4, <1>6 DEF SoleAt
  <2>2. Once(batch[c])
    BY <1>6 DEF SoleAt
  <2> QED
    BY <1>2, <1>3, <1>4, <2>1, <2>2, OnceAppend
<1> HIDE DEF f
<1>9. SoleAt(c)'
  <2>1. \A g \in Unexecuted(c)' : g \in Unexecuted(c)
    BY <1>1, <1>4, <1>5 DEF Unexecuted
  <2>2. \A g \in Unexecuted(c) : g.body \in Calls
    BY UnexecutedType DEF Frame
  <2>3. \A g \in Unexecuted(c)' :
          executed'[g.body] = 0 /\ pc'[g.body] \notin Unused \cup {"send"}
    BY <1>1, <1>6, <2>1, <2>2 DEF SoleAt, SentStays
  <2>4. \A g \in Frames(requests'[c]), h \in Frames(batch'[c]) : g.body # h.body
    BY <1>4, <1>5, <1>6, <1>7 DEF SoleAt
  <2>5. \A g \in Frames(requests'[c]) \cup Frames(batch'[c]), h \in up[c] :
          g.body # h.body
    BY <1>4, <1>5, <1>6 DEF SoleAt
  <2> QED
    BY <1>1, <1>7, <1>8, <2>3, <2>4, <2>5 DEF SoleAt
<1>10. ASSUME NEW d \in Conns, d # c PROVE SoleAt(d)'
  <2>1. requests'[d] = requests[d] /\ batch'[d] = batch[d] /\ SoleAt(d)
    BY <1>1, <1>10 DEF TypeOK, FramesAreSole
  <2>2. \A g \in Unexecuted(d) : g.body \in Calls
    BY UnexecutedType DEF Frame
  <2> QED
    BY <1>1, <2>1, <2>2, SoleKept DEF SentStays
<1> QED
  BY <1>9, <1>10 DEF FramesAreSole

\* A batch that was written, or failed to be, is not written again.
LEMMA WriteKeepsSole ==
  ASSUME TypeOK, FramesAreSole, SentStays, NEW c \in Conns, Write(c) \/ WriteFails(c)
  PROVE  FramesAreSole'
<1>1. /\ batch'[c] = <<>> /\ \A d \in Conns \ {c} : batch'[d] = batch[d]
      /\ up'[c] \subseteq up[c] \cup Frames(batch[c])
      /\ \A d \in Conns \ {c} : up'[d] = up[d]
      /\ UNCHANGED <<requests, executed>>
  BY DEF Write, WriteFails, BatchAfterWrite, peerVars, TypeOK
<1>2. SoleAt(c)
  BY DEF FramesAreSole
<1>3. Frames(batch'[c]) = {} /\ Once(batch'[c])
  BY <1>1, FramesEmpty, OnceEmpty
<1>4. SoleAt(c)'
  <2>1. \A g \in Unexecuted(c)' : g \in Unexecuted(c)
    BY <1>1, <1>3 DEF Unexecuted
  <2>2. \A g \in Unexecuted(c) : g.body \in Calls
    BY UnexecutedType DEF Frame
  <2>3. \A g \in Unexecuted(c)' :
          executed'[g.body] = 0 /\ pc'[g.body] \notin Unused \cup {"send"}
    BY <1>1, <1>2, <2>1, <2>2 DEF SoleAt, SentStays
  <2>4. \A g \in Frames(requests[c]), h \in up'[c] : g.body # h.body
    BY <1>1, <1>2 DEF SoleAt
  <2> QED
    BY <1>1, <1>2, <1>3, <2>3, <2>4 DEF SoleAt
<1>5. ASSUME NEW d \in Conns, d # c PROVE SoleAt(d)'
  <2>1. batch'[d] = batch[d] /\ up'[d] = up[d] /\ SoleAt(d)
    BY <1>1, <1>5 DEF FramesAreSole
  <2>2. \A g \in Unexecuted(d) : g.body \in Calls
    BY UnexecutedType DEF Frame
  <2> QED
    BY <1>1, <2>1, <2>2, SoleKept DEF SentStays
<1> QED
  BY <1>4, <1>5 DEF FramesAreSole

\* The request the server executes is in flight nowhere else: on its own
\* connection it was there once, on others it was never sent.
LEMMA ServeKeepsSole ==
  ASSUME TypeOK, InFlight, FramesAreSole, SentStays, NEW c \in Conns,
         NEW f \in up[c], Serve(c, f)
  PROVE  FramesAreSole'
<1>1. /\ up' = [up EXCEPT ![c] = @ \ {f}]
      /\ executed' = [executed EXCEPT ![f.body] = @ + 1]
      /\ UNCHANGED <<requests, batch>>
  BY DEF Serve, connVars
<1>2. f \in Frame /\ f.body \in Calls
  BY DEF TypeOK, Frame
<1>3. ASSUME NEW d \in Conns, NEW g \in Unexecuted(d)
      PROVE  /\ g \in Frame /\ g.body \in Calls
             /\ conn[g.body] = d /\ index[g.body] = g.index
  <2>1. g \in Frame
    BY UnexecutedType
  <2>2. g.body \in Calls /\ g.body # None
    BY <2>1, NoneAssumption DEF Frame
  <2>3. Carries(d, g)
    BY DEF InFlight, Unexecuted
  <2> QED
    BY <2>1, <2>2, <2>3 DEF Carries
<1>4. \A d \in Conns : \A g \in Unexecuted(d) : g.body = f.body => d = c /\ g = f
  <2>1. f \in Unexecuted(c)
    BY DEF Unexecuted
  <2> QED
    BY <1>2, <1>3, <2>1 DEF Frame
<1>5. SoleAt(c)
  BY DEF FramesAreSole
<1>6. SoleAt(c)'
  <2>1. up'[c] = up[c] \ {f}
    BY <1>1 DEF TypeOK
  <2>2. \A g \in Unexecuted(c)' : g \in Unexecuted(c) /\ g.body # f.body
    <3>1. \A g \in Unexecuted(c)' : g \in Unexecuted(c)
      BY <1>1, <2>1 DEF Unexecuted
    <3>2. \A g \in Frames(requests[c]) \cup Frames(batch[c]) : g.body # f.body
      BY <1>5 DEF SoleAt
    <3> QED
      BY <1>1, <1>4, <2>1, <3>1, <3>2 DEF Unexecuted
  <2>3. \A g \in Unexecuted(c)' :
          executed'[g.body] = 0 /\ pc'[g.body] \notin Unused \cup {"send"}
    BY <1>1, <1>3, <1>5, <2>2 DEF SoleAt, SentStays, TypeOK
  <2> QED
    BY <1>1, <1>5, <2>1, <2>3 DEF SoleAt
<1>7. ASSUME NEW d \in Conns, d # c PROVE SoleAt(d)'
  <2>1. up'[d] = up[d] /\ SoleAt(d)
    BY <1>1, <1>7 DEF TypeOK, FramesAreSole
  <2>2. \A g \in Unexecuted(d) : g.body \in Calls /\ g.body # f.body
    BY <1>3, <1>4, <1>7
  <2>3. \A g \in Unexecuted(d) : executed'[g.body] = executed[g.body]
    BY <1>1, <1>2, <2>2 DEF TypeOK
  <2> QED
    BY <1>1, <2>1, <2>2, <2>3, SoleKept DEF SentStays
<1> QED
  BY <1>6, <1>7 DEF FramesAreSole

\* What a caller has in flight stays there once, whatever step is taken.
LEMMA FramesAreSoleStep ==
  ASSUME TypeOK, Located, InFlight, UnsentNotExecuted, FramesAreSole, [Next]_vars
  PROVE  FramesAreSole'
<1> SentStays
  BY SentStaysSent
<1>1. ASSUME NEW k \in Calls, Enqueue(k) PROVE FramesAreSole'
  BY <1>1, EnqueueKeepsSole
<1>2. ASSUME NEW c \in Conns, Collect(c) PROVE FramesAreSole'
  BY <1>2, CollectKeepsSole
<1>3. ASSUME NEW c \in Conns, Write(c) \/ WriteFails(c) PROVE FramesAreSole'
  BY <1>3, WriteKeepsSole
<1>4. ASSUME NEW c \in Conns, NEW f \in up[c], Serve(c, f) PROVE FramesAreSole'
  BY <1>4, ServeKeepsSole
<1>5. CASE FlightStays
  <2> SUFFICES ASSUME NEW c \in Conns PROVE SoleAt(c)'
    BY DEF FramesAreSole
  <2>1. SoleAt(c) /\ \A g \in Unexecuted(c) : g.body \in Calls
    BY UnexecutedType DEF FramesAreSole, Frame
  <2> QED
    BY <1>5, <2>1, SoleKept DEF FlightStays, SentStays
<1> QED
  BY <1>1, <1>2, <1>3, <1>4, <1>5, OthersKeepFlight

\* An execution is counted by Serve, for the request it takes off the network.
LEMMA ExecutedChanges ==
  ASSUME TypeOK, [Next]_vars
  PROVE  \/ UNCHANGED executed
         \/ \E c \in Conns : \E f \in up[c] :
              /\ Serve(c, f) /\ f.body \in Calls
              /\ executed' = [executed EXCEPT ![f.body] = @ + 1]
<1>1. ASSUME NEW c \in Conns, NEW f \in up[c], Serve(c, f)
      PROVE  f.body \in Calls /\ executed' = [executed EXCEPT ![f.body] = @ + 1]
  BY <1>1 DEF Serve, TypeOK, Frame
<1>2. ASSUME NEW k \in Calls, Enqueue(k) PROVE UNCHANGED executed
  BY <1>2 DEF Enqueue, peerVars
<1>3. ASSUME NEW c \in Conns, Collect(c) \/ Write(c) \/ WriteFails(c)
      PROVE  UNCHANGED executed
  BY <1>3 DEF Collect, Write, WriteFails, peerVars
<1> QED
  BY <1>1, <1>2, <1>3, OthersKeepFlight DEF FlightStays

\* A request is executed when it was not before, and after its call queued it.
LEMMA ExecutedStep ==
  ASSUME TypeOK, UnsentNotExecuted, FramesAreSole, AtMostOnce, [Next]_vars
  PROVE  /\ AtMostOnce' /\ UnsentNotExecuted'
         /\ \A k \in Calls : executed[k] = 1 => executed'[k] = 1
<1> SentStays
  BY SentStaysSent
<1>1. CASE UNCHANGED executed
  BY <1>1 DEF AtMostOnce, UnsentNotExecuted, SentStays
<1>2. ASSUME NEW c \in Conns, NEW f \in up[c], Serve(c, f), f.body \in Calls,
             executed' = [executed EXCEPT ![f.body] = @ + 1]
      PROVE  /\ AtMostOnce' /\ UnsentNotExecuted'
             /\ \A k \in Calls : executed[k] = 1 => executed'[k] = 1
  <2>1. executed[f.body] = 0 /\ pc[f.body] \notin Unused \cup {"send"}
    BY DEF FramesAreSole, SoleAt, Unexecuted
  <2>2. \A k \in Calls : executed'[k] = IF k = f.body THEN 1 ELSE executed[k]
    BY <1>2, <2>1 DEF TypeOK
  <2> QED
    BY <2>1, <2>2 DEF AtMostOnce, UnsentNotExecuted, SentStays
<1> QED
  BY <1>1, <1>2, ExecutedChanges

\* AnswersAreExecuted is kept by a step that makes no new response: what is in
\* the network, in hands or in channels after it was in one of these before.
LEMMA AnswersMove ==
  ASSUME TypeOK, AnswersAreExecuted,
         \A k \in Calls : executed[k] = 1 => executed'[k] = 1,
         \A c \in Conns : down'[c] \subseteq down[c],
         \A c \in Conns, p \in Closers : \A h \in hold'[c][p] :
           h \in hold[c][p] \/ h.body = None \/ \E d \in down[c] : h.body = d.body,
         \A ch \in Calls : buf'[ch] # None =>
           \/ buf'[ch] = buf[ch]
           \/ \E c \in Conns, p \in Closers : \E h \in hold[c][p] :
                buf'[ch].body = h.body
  PROVE  AnswersAreExecuted'
<1>1. ASSUME NEW c \in Conns, NEW d \in down'[c] PROVE Answers(d)'
  <2>1. d \in Data /\ Answers(d)
    BY <1>1 DEF TypeOK, AnswersAreExecuted
  <2> QED
    BY <2>1 DEF Answers, Data
<1>2. ASSUME NEW c \in Conns, NEW p \in Closers, NEW h \in hold'[c][p]
      PROVE  Answers(h)'
  <2>1. CASE h \in hold[c][p]
    <3>1. h.body \in Calls \cup {None} /\ Answers(h)
      BY <2>1 DEF TypeOK, Claim, AnswersAreExecuted
    <3> QED
      BY <3>1 DEF Answers
  <2>2. CASE h.body = None
    BY <2>2 DEF Answers
  <2>3. ASSUME NEW d \in down[c], h.body = d.body PROVE Answers(h)'
    <3>1. d.body \in Calls \cup {None} /\ Answers(d)
      BY DEF TypeOK, Data, AnswersAreExecuted
    <3> QED
      BY <2>3, <3>1 DEF Answers
  <2> QED
    BY <1>2, <2>1, <2>2, <2>3
<1>3. ASSUME NEW ch \in Calls, buf'[ch] # None PROVE Answers(buf[ch])'
  <2>1. CASE buf'[ch] = buf[ch]
    <3>1. buf[ch].body \in Calls \cup {None} /\ Answers(buf[ch])
      BY <1>3, <2>1 DEF TypeOK, Data, AnswersAreExecuted
    <3> QED
      BY <2>1, <3>1 DEF Answers
  <2>2. ASSUME NEW c \in Conns, NEW p \in Closers, NEW h \in hold[c][p],
               buf'[ch].body = h.body
        PROVE  Answers(buf[ch])'
    <3>1. h.body \in Calls \cup {None} /\ Answers(h)
      BY DEF TypeOK, Claim, AnswersAreExecuted
    <3> QED
      BY <2>2, <3>1 DEF Answers
  <2> QED
    BY <1>3, <2>1, <2>2
<1> QED
  BY <1>1, <1>2, <1>3 DEF AnswersAreExecuted

\* Responses are made by Serve, of the request it executes, and then move.
LEMMA AnswersStep ==
  ASSUME TypeOK, FramesAreSole, AnswersAreExecuted, [Next]_vars,
         \A k \in Calls : executed[k] = 1 => executed'[k] = 1
  PROVE  AnswersAreExecuted'
<1>1. ASSUME NEW c \in Conns, NEW f \in up[c], Serve(c, f)
      PROVE  AnswersAreExecuted'
  <2>1. PICK b \in {f.body, None} :
          down' = [down EXCEPT ![c] = IF link[c] = "up"
                     THEN @ \cup {[index |-> f.index, body |-> b]} ELSE @]
    BY <1>1 DEF Serve
  <2>2. f.body \in Calls /\ executed[f.body] = 0
    BY DEF TypeOK, Frame, FramesAreSole, SoleAt, Unexecuted
  <2>3. executed'[f.body] = 1 /\ UNCHANGED <<hold, buf>>
    BY <1>1, <2>2 DEF Serve, TypeOK, goVars
  <2>4. \A x \in Conns : \A d \in down'[x] : d \in down[x] \/ d.body = b
    BY <2>1 DEF TypeOK
  <2>5. ASSUME NEW x \in Conns, NEW d \in down'[x] PROVE Answers(d)'
    <3>1. CASE d \in down[x]
      <4>1. d \in Data /\ Answers(d)
        BY <3>1 DEF TypeOK, AnswersAreExecuted
      <4> QED
        BY <4>1 DEF Answers, Data
    <3>2. CASE d.body = b
      BY <2>1, <2>3, <3>2 DEF Answers
    <3> QED
      BY <2>4, <3>1, <3>2
  <2>6. ASSUME NEW x \in Conns, NEW p \in Closers, NEW h \in hold[x][p]
        PROVE  Answers(h)'
    <3>1. h.body \in Calls \cup {None} /\ Answers(h)
      BY DEF TypeOK, Claim, AnswersAreExecuted
    <3> QED
      BY <3>1 DEF Answers
  <2>7. ASSUME NEW ch \in Calls, buf[ch] # None
        PROVE  Answers(buf[ch])'
    <3>1. buf[ch].body \in Calls \cup {None} /\ Answers(buf[ch])
      BY <2>7 DEF TypeOK, Data, AnswersAreExecuted
    <3> QED
      BY <2>3, <3>1 DEF Answers
  <2> QED
    BY <2>3, <2>5, <2>6, <2>7 DEF AnswersAreExecuted
<1>2. ASSUME NEW c \in Conns, NEW d \in down[c], Read(c, d) \/ ReadError(c, d)
      PROVE  AnswersAreExecuted'
  <2>1. \A x \in Conns : down'[x] \subseteq down[x]
    <3>1. down' = [down EXCEPT ![c] = @ \ {d}]
      BY <1>2 DEF Read, ReadError
    <3> QED
      BY <3>1 DEF TypeOK
  <2>2. \A x \in Conns, p \in Closers : \A h \in hold'[x][p] :
          h \in hold[x][p] \/ (x = c /\ h.body = d.body)
    <3>1. CASE Read(c, d)
      BY <3>1 DEF Read, TypeOK, Closers
    <3>2. CASE ReadError(c, d)
      BY <3>2 DEF ReadError
    <3> QED
      BY <1>2, <3>1, <3>2
  <2>3. UNCHANGED buf
    BY <1>2 DEF Read, ReadError
  <2> QED
    BY <2>1, <2>2, <2>3, AnswersMove
<1>3. ASSUME NEW c \in Conns, NEW p \in Closers, Clean(c, p)
      PROVE  AnswersAreExecuted'
  <2>1. \A x \in Conns, q \in Closers : \A h \in hold'[x][q] :
          h \in hold[x][q] \/ h.body = None
    BY <1>3 DEF Clean, TypeOK
  <2>2. UNCHANGED <<down, buf>>
    BY <1>3 DEF Clean, peerVars
  <2> QED
    BY <2>1, <2>2, AnswersMove
<1>4. ASSUME NEW c \in Conns, NEW p \in Closers, NEW h \in hold[c][p],
             Deliver(c, p, h)
      PROVE  AnswersAreExecuted'
  <2>1. \A ch \in Calls : buf'[ch] = buf[ch] \/ buf'[ch].body = h.body
    BY <1>4 DEF Deliver, TypeOK
  <2>2. \A x \in Conns, q \in Closers : hold'[x][q] \subseteq hold[x][q]
    BY <1>4 DEF Deliver, TypeOK
  <2>3. UNCHANGED down
    BY <1>4 DEF Deliver, peerVars
  <2> QED
    BY <2>1, <2>2, <2>3, AnswersMove
<1>5. ASSUME NEW k \in Calls, Return(k) PROVE AnswersAreExecuted'
  <2>1. \A ch \in Calls : buf'[ch] \in {buf[ch], None}
    BY <1>5 DEF Return, TypeOK
  <2>2. UNCHANGED <<down, hold>>
    BY <1>5 DEF Return, goVars, peerVars
  <2> QED
    BY <2>1, <2>2, AnswersMove
<1>6. ASSUME UNCHANGED <<down, hold, buf>> PROVE AnswersAreExecuted'
  BY <1>6, AnswersMove
<1>7. \/ \E c \in Conns : \E f \in up[c] : Serve(c, f)
      \/ \E c \in Conns : \E d \in down[c] : Read(c, d) \/ ReadError(c, d)
      \/ \E c \in Conns, p \in Closers : Clean(c, p)
      \/ \E c \in Conns, p \in Closers : \E h \in hold[c][p] : Deliver(c, p, h)
      \/ \E k \in Calls : Return(k)
      \/ UNCHANGED <<down, hold, buf>>
  <2> USE DEF callerVars, transVars, connVars, goVars, peerVars
  <2>1. ASSUME NEW k \in Calls, Caller(k), ~Return(k)
        PROVE  UNCHANGED <<down, hold, buf>>
    BY <2>1 DEF Caller, GetConn, FindConn, Dial, DialFails, Register, Enqueue,
       Expire
  <2>2. ASSUME NEW c \in Conns, Sender(c) PROVE UNCHANGED <<down, hold, buf>>
    BY <2>2 DEF Sender, Collect, Write, WriteFails, SendCancelled
  <2>3. ASSUME NEW c \in Conns, ReadFails(c) \/ ReceiveCancelled(c)
        PROVE  UNCHANGED <<down, hold, buf>>
    BY <2>3 DEF ReadFails, ReceiveCancelled
  <2>4. ASSUME NEW c \in Conns, Abort(c) \/ Break(c)
        PROVE  UNCHANGED <<down, hold, buf>>
    BY <2>4 DEF Abort, Break
  <2>5. ASSUME NEW c \in Conns, NEW p \in Closers, Exit(c, p) \/ CloseLink(c, p)
        PROVE  UNCHANGED <<down, hold, buf>>
    BY <2>5 DEF Exit, CloseLink
  <2>6. CASE UNCHANGED vars
    BY <2>6 DEF vars
  <2> QED
    BY <2>1, <2>2, <2>3, <2>4, <2>5, <2>6, Zenon
       DEF Next, Receiver, ReadFrame, Closer, Peer
<1> QED
  BY <1>1, <1>2, <1>3, <1>4, <1>5, <1>6, <1>7

\* A call has a reply when it returns it, and not before.
LEMMA ReplyIsReturnedStep ==
  ASSUME TypeOK, Located, ReplyIsReturned, [Next]_vars
  PROVE  ReplyIsReturned'
<1> USE DEF TypeOK, ReplyIsReturned
<1>1. ASSUME NEW k \in Calls, GetConn(k) \/ FindConn(k) \/ DialFails(k)
      PROVE  ReplyIsReturned'
  BY <1>1 DEF GetConn, FindConn, DialFails, UseConn
<1>2. ASSUME NEW k \in Calls, NEW c \in Conns, Dial(k, c) PROVE ReplyIsReturned'
  BY <1>2 DEF Dial, UseConn
<1>3. ASSUME NEW k \in Calls, Register(k) PROVE ReplyIsReturned'
  BY <1>3 DEF Register
<1>4. ASSUME NEW k \in Calls, Enqueue(k) \/ Expire(k) PROVE ReplyIsReturned'
  BY <1>4 DEF Enqueue, Expire, Active
<1>5. ASSUME NEW k \in Calls, Return(k) PROVE ReplyIsReturned'
  <2>1. \A j \in Calls \ {k} : pc'[j] = pc[j] /\ reply'[j] = reply[j]
    BY <1>5 DEF Return
  <2>2. reply[k] = None
    BY <1>5 DEF Return
  <2>3. reply'[k] # None => pc'[k] = "replied"
    BY <1>5, <2>2 DEF Return
  <2> QED
    BY <2>1, <2>3
<1> HIDE DEF TypeOK, ReplyIsReturned
<1>6. ASSUME NEW k \in Calls, Caller(k) PROVE ReplyIsReturned'
  BY <1>6, <1>1, <1>2, <1>3, <1>4, <1>5, Zenon DEF Caller
<1>7. CASE \/ \E c \in Conns : Sender(c) \/ Receiver(c) \/ Abort(c) \/ Peer(c)
           \/ \E c \in Conns, p \in Closers : Closer(c, p)
           \/ UNCHANGED vars
  <2>1. UNCHANGED <<pc, reply>>
    BY <1>7, OthersKeepCallers
  <2> QED
    BY <2>1 DEF ReplyIsReturned
<1> QED
  BY <1>6, <1>7, Zenon DEF Next

\* ExecutedInv is an invariant of the transport: a request is in flight in one
\* place, once, and only until the server executes it.
THEOREM ExecutedInvariant == Spec => []ExecutedInv
<1>1. Init => ExecutedInv
  <2> SUFFICES ASSUME Init PROVE ExecutedInv
    OBVIOUS
  <2>1. AtMostOnce /\ UnsentNotExecuted /\ AnswersAreExecuted /\ ReplyIsReturned
    BY DEF Init, AtMostOnce, UnsentNotExecuted, AnswersAreExecuted, ReplyIsReturned
  <2>2. FramesAreSole
    BY FramesEmpty, OnceEmpty DEF Init, FramesAreSole, SoleAt, Unexecuted
  <2> QED
    BY <2>1, <2>2 DEF ExecutedInv
<1>2. OwnReplyInv /\ ExecutedInv /\ [Next]_vars => ExecutedInv'
  <2> SUFFICES ASSUME OwnReplyInv, ExecutedInv, [Next]_vars PROVE ExecutedInv'
    OBVIOUS
  <2> USE DEF OwnReplyInv, ExecutedInv
  <2>1. FramesAreSole' /\ ReplyIsReturned'
    BY FramesAreSoleStep, ReplyIsReturnedStep
  <2>2. /\ AtMostOnce' /\ UnsentNotExecuted'
        /\ \A k \in Calls : executed[k] = 1 => executed'[k] = 1
    BY ExecutedStep
  <2>3. AnswersAreExecuted'
    BY <2>2, AnswersStep
  <2> QED
    BY <2>1, <2>2, <2>3
<1> QED
  BY <1>1, <1>2, TransportInvariant, PTL DEF Spec

\* The server executes a request at most once: a frame is written once, on one
\* connection, whatever batches, errors and expiries come in between.
THEOREM ExecutedAtMostOnce == Spec => []AtMostOnce
<1>1. ExecutedInv => AtMostOnce
  BY DEF ExecutedInv
<1> QED
  BY <1>1, ExecutedInvariant, PTL

-----------------------------------------------------------------------------
(* The transport implements the at-most-once channel *)

\* A step that moves one call changes the phase of that call alone.
LEMMA PhaseOfOne ==
  ASSUME TypeOK, NEW k \in Calls, \A j \in Calls \ {k} : pc'[j] = pc[j]
  PROVE  [j \in Calls |-> Phase(j)]'
           = [[j \in Calls |-> Phase(j)] EXCEPT ![k] = Phase(k)']
<1>1. \A j \in Calls \ {k} : Phase(j)' = Phase(j)
  BY DEF Phase
<1> QED
  BY <1>1

\* A step of a caller is a step of the channel: the lookup that starts the
\* call, each way to return, or a stutter.
LEMMA CallerRefines ==
  ASSUME TypeOK, Located, ChannelsStay, IndexUnique, OwnReply', AnswersAreExecuted,
         ReplyIsReturned, NEW k \in Calls, Caller(k)
  PROVE  Channel!Next \/ UNCHANGED Channel!vars
<1> USE DEF Active, peerVars
<1> DEFINE phase == [j \in Calls |-> Phase(j)]
<1>1. CASE GetConn(k)
  <2>1. Phase(k) = "idle" /\ Phase(k)' = "pending" /\ UNCHANGED <<executed, reply>>
    BY <1>1 DEF GetConn, UseConn, Phase, TypeOK
  <2>2. \A j \in Calls \ {k} : pc'[j] = pc[j]
    BY <1>1 DEF GetConn, UseConn, TypeOK
  <2>3. phase' = [phase EXCEPT ![k] = "pending"]
    BY <2>1, <2>2, PhaseOfOne
  <2>4. Channel!Invoke(k)
    BY <2>1, <2>3 DEF Channel!Invoke
  <2> QED
    BY <2>4 DEF Channel!Next
<1>2. CASE DialFails(k) \/ Expire(k)
  <2>1. Phase(k) = "pending" /\ Phase(k)' = "failed" /\ UNCHANGED <<executed, reply>>
    BY <1>2 DEF DialFails, Expire, Phase, callerVars, TypeOK
  <2>2. \A j \in Calls \ {k} : pc'[j] = pc[j]
    BY <1>2 DEF DialFails, Expire, TypeOK
  <2>3. phase' = [phase EXCEPT ![k] = "failed"]
    BY <2>1, <2>2, PhaseOfOne
  <2>4. Channel!Fail(k)
    BY <2>1, <2>3 DEF Channel!Fail
  <2> QED
    BY <2>4 DEF Channel!Next
<1>3. CASE FindConn(k) \/ (\E c \in Conns : Dial(k, c)) \/ Register(k) \/ Enqueue(k)
  <2>1. Phase(k) = "pending" /\ Phase(k)' = "pending" /\ UNCHANGED <<executed, reply>>
    BY <1>3 DEF FindConn, Dial, UseConn, Register, Enqueue, Phase, TypeOK
  <2>2. \A j \in Calls \ {k} : pc'[j] = pc[j]
    BY <1>3 DEF FindConn, Dial, UseConn, Register, Enqueue, TypeOK
  <2>3. phase' = phase
    BY <2>1, <2>2, PhaseOfOne
  <2> QED
    BY <2>1, <2>3 DEF Channel!vars
<1>4. CASE Return(k)
  <2> DEFINE b == buf[chan[k]]
  <2>1. /\ pc[k] = "wait" /\ Phase(k) = "pending"
        /\ chan[k] \in Calls /\ b # None /\ b \in Data /\ UNCHANGED executed
    BY <1>4 DEF Return, Located, Phase, TypeOK
  <2>2. \A j \in Calls \ {k} : pc'[j] = pc[j]
    BY <1>4 DEF Return, TypeOK
  <2>3. reply[k] = None
    BY <2>1 DEF ReplyIsReturned
  <2>4. CASE b.index # index[k]
    <3>1. Phase(k)' = "pending" /\ UNCHANGED reply
      BY <1>4, <2>1, <2>4 DEF Return, Phase, TypeOK
    <3>2. phase' = phase
      BY <2>1, <2>2, <3>1, PhaseOfOne
    <3> QED
      BY <2>1, <3>1, <3>2 DEF Channel!vars
  <2>5. CASE b.index = index[k] /\ b.body = None
    <3>1. Phase(k)' = "failed" /\ UNCHANGED reply
      BY <1>4, <2>1, <2>3, <2>5 DEF Return, Phase, TypeOK
    <3>2. phase' = [phase EXCEPT ![k] = "failed"]
      BY <2>2, <3>1, PhaseOfOne
    <3>3. Channel!Fail(k)
      BY <2>1, <3>1, <3>2 DEF Channel!Fail
    <3> QED
      BY <3>3 DEF Channel!Next
  <2>6. CASE b.index = index[k] /\ b.body # None
    <3>1. pc'[k] = "replied" /\ reply' = [reply EXCEPT ![k] = b.body]
      BY <1>4, <2>1, <2>6 DEF Return, TypeOK
    <3>2. b.body = k
      BY <3>1 DEF OwnReply, TypeOK
    <3>3. executed[k] = 1
      BY <2>1, <2>6, <3>2 DEF AnswersAreExecuted, Answers
    <3>4. Phase(k)' = "replied"
      BY <3>1 DEF Phase
    <3>5. phase' = [phase EXCEPT ![k] = "replied"]
      BY <2>2, <3>4, PhaseOfOne
    <3>6. Channel!Return(k)
      BY <2>1, <3>1, <3>2, <3>3, <3>5 DEF Channel!Return
    <3> QED
      BY <3>6 DEF Channel!Next
  <2> QED
    BY <2>4, <2>5, <2>6
<1> QED
  BY <1>1, <1>2, <1>3, <1>4 DEF Caller

\* Every step of the transport is a step of the channel or a stutter.
LEMMA StepRefines ==
  ASSUME OwnReplyInv, OwnReplyInv', ExecutedInv, [Next]_vars
  PROVE  [Channel!Next]_(Channel!vars)
<1> USE DEF OwnReplyInv, ExecutedInv
<1>1. ASSUME NEW k \in Calls, Caller(k) PROVE [Channel!Next]_(Channel!vars)
  BY <1>1, CallerRefines
<1>2. CASE \/ \E c \in Conns : Sender(c) \/ Receiver(c) \/ Abort(c) \/ Peer(c)
           \/ \E c \in Conns, p \in Closers : Closer(c, p)
           \/ UNCHANGED vars
  <2>1. UNCHANGED <<pc, reply>>
    BY <1>2, OthersKeepCallers
  <2>2. [j \in Calls |-> Phase(j)]' = [j \in Calls |-> Phase(j)]
    BY <2>1 DEF Phase
  <2>3. CASE UNCHANGED executed
    BY <2>1, <2>2, <2>3 DEF Channel!vars
  <2>4. ASSUME NEW c \in Conns, NEW f \in up[c], f.body \in Calls,
               executed' = [executed EXCEPT ![f.body] = @ + 1]
        PROVE  [Channel!Next]_(Channel!vars)
    <3>1. executed[f.body] = 0 /\ pc[f.body] # "idle"
      BY DEF FramesAreSole, SoleAt, Unexecuted, Unused
    <3>2. Phase(f.body) # "idle"
      BY <3>1 DEF Phase
    <3>3. executed' = [executed EXCEPT ![f.body] = 1]
      BY <2>4, <3>1 DEF TypeOK
    <3>4. Channel!Execute(f.body)
      BY <2>1, <2>2, <2>4, <3>1, <3>2, <3>3 DEF Channel!Execute
    <3> QED
      BY <2>4, <3>4 DEF Channel!Next
  <2> QED
    BY <2>3, <2>4, ExecutedChanges
<1> QED
  BY <1>1, <1>2, Zenon DEF Next

\* The transport implements the at-most-once channel: hidden behind indices,
\* tables, batches, closers and a pool of result channels is a call that is
\* executed at most once and returns at most once, its own response or an error.
THEOREM TransportImplementsChannel == Spec => ImplementsChannel
<1>1. Init => Channel!Init
  <2> SUFFICES ASSUME Init PROVE Channel!Init
    OBVIOUS
  <2>1. [j \in Calls |-> Phase(j)] = [j \in Calls |-> "idle"]
    BY DEF Init, Phase
  <2> QED
    BY <2>1 DEF Init, Channel!Init
<1>2. OwnReplyInv /\ OwnReplyInv' /\ ExecutedInv /\ [Next]_vars
        => [Channel!Next]_(Channel!vars)
  BY StepRefines
<1> QED
  BY <1>1, <1>2, TransportInvariant, ExecutedInvariant, PTL
     DEF Spec, ImplementsChannel, Channel!Spec
=============================================================================

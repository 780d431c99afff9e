-------------------------- MODULE PushBrokerProofs --------------------------
(***************************************************************************)
(* Proofs about PushBroker: its types, that nobody who sends on the        *)
(* responder of a poll is ever blocked, that a heartbeat which waits can   *)
(* be stopped by the next poll, that a message is in one place, and, with  *)
(* polls that neither time out nor fail, that a consumer keeps a goroutine *)
(* that polls and, when nobody takes its topics away, loses no message.    *)
(***************************************************************************)
EXTENDS PushBroker, FiniteSetTheorems, TLAPS

\* The broker starts with empty maps, and the prosumer with no loop.
LEMMA TypeInit == Init => TypeOK /\ HoldsCache
BY NoneAssumption DEF Init, TypeOK, HoldsCache, Mail

\* subscribe keeps the types of the maps and of the caches.
LEMMA EnterType ==
  ASSUME TypeOK, NEW t \in Topics, Enter(t) \/ UNCHANGED <<entry, content>>
  PROVE  entry' \in [Topics -> Caches \cup {None}] /\ content' \in [Caches -> SUBSET Messages]
<1>1. CASE entry[t] # None
  BY <1>1 DEF Enter, TypeOK
<1>2. CASE entry[t] = None /\ Enter(t)
  <2>1. PICK c \in FreeCaches : /\ entry' = [entry EXCEPT ![t] = c]
                                /\ content' = [content EXCEPT ![c] = {}]
    BY <1>2 DEF Enter
  <2> QED
    BY <2>1 DEF TypeOK, FreeCaches
<1>3. CASE UNCHANGED <<entry, content>>
  BY <1>3 DEF TypeOK
<1> QED
  BY <1>1, <1>2, <1>3

\* A step of an actor, a poll or the prosumer keeps the types, and who is about
\* to append or to delete has loaded a cache.
LEMMA TypeStep == TypeOK /\ HoldsCache /\ [Next]_vars => TypeOK' /\ HoldsCache'
<1> SUFFICES ASSUME TypeOK, HoldsCache, [Next]_vars PROVE TypeOK' /\ HoldsCache'
  OBVIOUS
<1> USE NoneAssumption, OptionAssumption
<1> USE DEF TypeOK, HoldsCache, Actors, Beats, Mail, cacheVars, actorVars,
            pollVars, signalVars, clientVars
<1>1. ASSUME NEW a \in Actors, Pop(a) PROVE TypeOK' /\ HoldsCache'
  BY <1>1 DEF Pop, AfterPop, Resume
<1>2. ASSUME NEW a \in Actors, Take(a) PROVE TypeOK' /\ HoldsCache'
  BY <1>2 DEF Take, AfterTake, Pending, Subscribed
<1>3. ASSUME NEW a \in Actors, Deliver(a) PROVE TypeOK' /\ HoldsCache'
  BY <1>3, Zenon DEF Deliver, Resume, Started
<1>4. ASSUME NEW a \in Actors, Restore(a) PROVE TypeOK' /\ HoldsCache'
  BY <1>4, SMTT(20) DEF Restore, Absent, Resume
<1>5. ASSUME NEW a \in Actors, Refuse(a) PROVE TypeOK' /\ HoldsCache'
  BY <1>5 DEF Refuse, Resume
<1>6. ASSUME NEW m \in Messages, NEW t \in Topics, Lookup(m, t)
      PROVE  TypeOK' /\ HoldsCache'
  BY <1>6 DEF Lookup
<1>7. ASSUME NEW m \in Messages, Append(m) PROVE TypeOK' /\ HoldsCache'
  BY <1>7 DEF Append, WithMessage
<1>8. ASSUME NEW a \in Actors, NEW t \in Topics, Load(a, t)
      PROVE  TypeOK' /\ HoldsCache'
  BY <1>8 DEF Load, Resume
<1>9. ASSUME NEW a \in Actors, Delete(a) PROVE TypeOK' /\ HoldsCache'
  BY <1>9 DEF Delete
<1>10. ASSUME NEW b \in Beats, StartBeat(b) PROVE TypeOK' /\ HoldsCache'
  BY <1>10 DEF StartBeat, Replaced
<1>11. ASSUME NEW b \in Beats, BeatInTime(b) PROVE TypeOK' /\ HoldsCache'
  BY <1>11 DEF BeatInTime
<1>12. ASSUME NEW b \in Beats, BeatMissed(b) PROVE TypeOK' /\ HoldsCache'
  BY <1>12 DEF BeatMissed, Subscribed
<1>13. ASSUME NEW b \in Beats, BeatEnds(b) PROVE TypeOK' /\ HoldsCache'
  BY <1>13 DEF BeatEnds
<1>14. ASSUME NEW n \in Polls, StopPop(n) PROVE TypeOK' /\ HoldsCache'
  BY <1>14 DEF StopPop, AfterPop, Replaces
<1>15. ASSUME NEW n \in Polls, StopSend(n) PROVE TypeOK' /\ HoldsCache'
  BY <1>15 DEF StopSend
<1>16. ASSUME NEW n \in Polls, Signal(n) PROVE TypeOK' /\ HoldsCache'
  BY <1>16 DEF Signal
<1>17. ASSUME NEW n \in Polls, Send(n) PROVE TypeOK' /\ HoldsCache'
  BY <1>17 DEF Send, AfterTake, Pending, Subscribed, Started
<1>18. ASSUME NEW n \in Polls, Park(n) PROVE TypeOK' /\ HoldsCache'
  BY <1>18 DEF Park, Replaces
<1>19. ASSUME NEW n \in Polls, Return(n) PROVE TypeOK' /\ HoldsCache'
  BY <1>19 DEF Return
<1>20. ASSUME NEW n \in Polls, TimeOut(n) PROVE TypeOK' /\ HoldsCache'
  BY <1>20 DEF TimeOut, Started
<1>21. ASSUME NEW n \in Polls, Reclaim(n) PROVE TypeOK' /\ HoldsCache'
  BY <1>21 DEF Reclaim
<1>22. ASSUME NEW t \in Topics, Subscribe(t) PROVE TypeOK' /\ HoldsCache'
  BY <1>22 DEF Subscribe
<1>23. ASSUME NEW t \in Topics, SubscribeReturns(t) PROVE TypeOK' /\ HoldsCache'
  <2>1. entry' \in [Topics -> Caches \cup {None}] /\ content' \in [Caches -> SUBSET Messages]
    BY <1>23, EnterType DEF SubscribeReturns
  <2> QED
    BY <1>23, <2>1 DEF SubscribeReturns
<1>24. ASSUME NEW t \in Topics, Unsubscribe(t) PROVE TypeOK' /\ HoldsCache'
  BY <1>24 DEF Unsubscribe
<1>25. ASSUME NEW t \in Topics, Unsubscribed(t) PROVE TypeOK' /\ HoldsCache'
  BY <1>25 DEF Unsubscribed
<1>26. ASSUME NEW t \in Topics, NEW l \in Loops, StartLoop(t, l)
       PROVE  TypeOK' /\ HoldsCache'
  BY <1>26 DEF StartLoop
<1>27. ASSUME NEW l \in Loops, NEW n \in Polls, Poll(l, n)
       PROVE  TypeOK' /\ HoldsCache'
  BY <1>27 DEF Poll
<1>28. ASSUME NEW l \in Loops, NEW n \in Polls, Answered(l, n)
       PROVE  TypeOK' /\ HoldsCache'
  BY <1>28 DEF Answered
<1>29. ASSUME NEW l \in Loops, PollFails(l) PROVE TypeOK' /\ HoldsCache'
  BY <1>29 DEF PollFails
<1>30. ASSUME NEW l \in Loops, Renew(l) PROVE TypeOK' /\ HoldsCache'
  BY <1>30 DEF Renew
<1>31. ASSUME NEW l \in Loops, NEW t \in Topics, Resubscribe(l, t)
       PROVE  TypeOK' /\ HoldsCache'
  <2>1. entry' \in [Topics -> Caches \cup {None}] /\ content' \in [Caches -> SUBSET Messages]
    BY <1>31, EnterType DEF Resubscribe
  <2> QED
    BY <1>31, <2>1 DEF Resubscribe
<1>32. ASSUME NEW l \in Loops, NEW t \in Topics, ResubscribeFails(l, t)
       PROVE  TypeOK' /\ HoldsCache'
  <2>1. entry' \in [Topics -> Caches \cup {None}] /\ content' \in [Caches -> SUBSET Messages]
    BY <1>32, EnterType DEF ResubscribeFails
  <2> QED
    BY <1>32, <2>1 DEF ResubscribeFails
<1>33. ASSUME NEW tm \in inbox, Dispatch(tm) PROVE TypeOK' /\ HoldsCache'
  BY <1>33 DEF Dispatch
<1>34. ASSUME UNCHANGED vars PROVE TypeOK' /\ HoldsCache'
  BY <1>34 DEF vars
<1>35. ASSUME NEW a \in Actors, Respond(a) PROVE TypeOK' /\ HoldsCache'
  BY <1>35, <1>1, <1>2, <1>3, <1>4, <1>5, Zenon DEF Respond
<1>36. ASSUME NEW b \in Beats, Beat(b) PROVE TypeOK' /\ HoldsCache'
  BY <1>36, <1>10, <1>11, <1>12, <1>13, <1>8, <1>9, Zenon DEF Beat, Offline,
     Actors
<1>37. ASSUME NEW n \in Polls, Message(n) PROVE TypeOK' /\ HoldsCache'
  BY <1>37, <1>14, <1>15, <1>16, <1>17, <1>18, <1>19, <1>20, Zenon DEF Message
<1>38. ASSUME NEW t \in Topics, Finish(t) PROVE TypeOK' /\ HoldsCache'
  BY <1>38, <1>23, <1>8, <1>9, <1>25, <1>26, Zenon DEF Finish, Offline, Actors
<1>39. ASSUME NEW l \in Loops, RunLoop(l) \/ LinkFails(l)
       PROVE  TypeOK' /\ HoldsCache'
  BY <1>39, <1>27, <1>28, <1>29, <1>30, <1>31, <1>32, Zenon DEF RunLoop, LinkFails
<1> QED
  BY <1>6, <1>7, <1>35, <1>36, <1>37, <1>21, <1>22, <1>24, <1>38, <1>39, <1>33,
     <1>34, Zenon DEF Next

\* A responder is put in one place when it is taken from another, and the one
\* that Park puts in the map is nobody's yet: each is sent to at most once.
LEMMA ResponderStep ==
  TypeOK /\ OneOwner /\ OwnedArePolling /\ ResponderFree /\ [Next]_vars
    => OneOwner' /\ OwnedArePolling' /\ ResponderFree'
<1> SUFFICES ASSUME TypeOK, OneOwner, OwnedArePolling, ResponderFree, [Next]_vars
             PROVE  OneOwner' /\ OwnedArePolling' /\ ResponderFree'
  OBVIOUS
<1> USE NoneAssumption, OptionAssumption
<1> USE DEF TypeOK, OneOwner, OwnedArePolling, ResponderFree, NotYetParked,
            cacheVars, actorVars, pollVars, signalVars, clientVars
<1>1. ASSUME NEW a \in Actors, Pop(a)
      PROVE  OneOwner' /\ OwnedArePolling' /\ ResponderFree'
  BY <1>1 DEF Pop, AfterPop, Resume
<1>2. ASSUME NEW a \in Actors, Take(a)
      PROVE  OneOwner' /\ OwnedArePolling' /\ ResponderFree'
  BY <1>2 DEF Take, AfterTake, Pending, Subscribed
<1>3. ASSUME NEW a \in Actors, Deliver(a)
      PROVE  OneOwner' /\ OwnedArePolling' /\ ResponderFree'
  BY <1>3 DEF Deliver, Resume, Started
<1>4. ASSUME NEW a \in Actors, Restore(a)
      PROVE  OneOwner' /\ OwnedArePolling' /\ ResponderFree'
  <2>1. CASE Absent
    <3>1. /\ responder = None /\ responder' = popped[a]
          /\ popped' = [popped EXCEPT ![a] = None]
          /\ UNCHANGED <<pc, victim, chan>>
      BY <1>4, <2>1 DEF Restore, Absent
    <3>2. popped[a] # None => \A b \in Actors : b # a => popped[b] # popped[a]
      OBVIOUS
    <3>3. OneOwner'
      BY <3>1, <3>2
    <3>4. OwnedArePolling' /\ ResponderFree'
      BY <3>1
    <3> QED
      BY <3>3, <3>4
  <2>2. CASE ~Absent
    BY <1>4, <2>2 DEF Restore
  <2> QED
    BY <2>1, <2>2
<1>5. ASSUME NEW a \in Actors, Refuse(a)
      PROVE  OneOwner' /\ OwnedArePolling' /\ ResponderFree'
  BY <1>5 DEF Refuse, Resume
<1>6. ASSUME NEW m \in Messages, NEW t \in Topics, Lookup(m, t)
      PROVE  OneOwner' /\ OwnedArePolling' /\ ResponderFree'
  BY <1>6 DEF Lookup
<1>7. ASSUME NEW m \in Messages, Append(m)
      PROVE  OneOwner' /\ OwnedArePolling' /\ ResponderFree'
  BY <1>7 DEF Append, WithMessage
<1>8. ASSUME NEW a \in Actors, NEW t \in Topics, Load(a, t)
      PROVE  OneOwner' /\ OwnedArePolling' /\ ResponderFree'
  BY <1>8 DEF Load, Resume
<1>9. ASSUME NEW a \in Actors, Delete(a)
      PROVE  OneOwner' /\ OwnedArePolling' /\ ResponderFree'
  BY <1>9 DEF Delete
<1>10. ASSUME NEW b \in Beats, StartBeat(b)
       PROVE  OneOwner' /\ OwnedArePolling' /\ ResponderFree'
  BY <1>10 DEF StartBeat, Replaced
<1>11. ASSUME NEW b \in Beats, BeatInTime(b)
       PROVE  OneOwner' /\ OwnedArePolling' /\ ResponderFree'
  BY <1>11 DEF BeatInTime
<1>12. ASSUME NEW b \in Beats, BeatMissed(b)
       PROVE  OneOwner' /\ OwnedArePolling' /\ ResponderFree'
  BY <1>12 DEF BeatMissed, Subscribed
<1>13. ASSUME NEW b \in Beats, BeatEnds(b)
       PROVE  OneOwner' /\ OwnedArePolling' /\ ResponderFree'
  BY <1>13 DEF BeatEnds
<1>14. ASSUME NEW n \in Polls, StopPop(n)
       PROVE  OneOwner' /\ OwnedArePolling' /\ ResponderFree'
  BY <1>14 DEF StopPop, AfterPop, Replaces
<1>15. ASSUME NEW n \in Polls, StopSend(n)
       PROVE  OneOwner' /\ OwnedArePolling' /\ ResponderFree'
  BY <1>15 DEF StopSend
<1>16. ASSUME NEW n \in Polls, Signal(n)
       PROVE  OneOwner' /\ OwnedArePolling' /\ ResponderFree'
  BY <1>16 DEF Signal
<1>17. ASSUME NEW n \in Polls, Send(n)
       PROVE  OneOwner' /\ OwnedArePolling' /\ ResponderFree'
  BY <1>17 DEF Send, AfterTake, Pending, Subscribed, Started
<1>18. ASSUME NEW n \in Polls, Park(n)
       PROVE  OneOwner' /\ OwnedArePolling' /\ ResponderFree'
  BY <1>18 DEF Park, Replaces
<1>19. ASSUME NEW n \in Polls, Return(n)
       PROVE  OneOwner' /\ OwnedArePolling' /\ ResponderFree'
  BY <1>19 DEF Return
<1>20. ASSUME NEW n \in Polls, TimeOut(n)
       PROVE  OneOwner' /\ OwnedArePolling' /\ ResponderFree'
  BY <1>20 DEF TimeOut, Started
<1>21. ASSUME NEW n \in Polls, Reclaim(n)
       PROVE  OneOwner' /\ OwnedArePolling' /\ ResponderFree'
  BY <1>21 DEF Reclaim
<1>22. ASSUME NEW t \in Topics, Subscribe(t)
       PROVE  OneOwner' /\ OwnedArePolling' /\ ResponderFree'
  BY <1>22 DEF Subscribe
<1>23. ASSUME NEW t \in Topics, SubscribeReturns(t)
       PROVE  OneOwner' /\ OwnedArePolling' /\ ResponderFree'
  BY <1>23 DEF SubscribeReturns, Enter, FreeCaches
<1>24. ASSUME NEW t \in Topics, Unsubscribe(t)
       PROVE  OneOwner' /\ OwnedArePolling' /\ ResponderFree'
  BY <1>24 DEF Unsubscribe
<1>25. ASSUME NEW t \in Topics, Unsubscribed(t)
       PROVE  OneOwner' /\ OwnedArePolling' /\ ResponderFree'
  BY <1>25 DEF Unsubscribed
<1>26. ASSUME NEW t \in Topics, NEW l \in Loops, StartLoop(t, l)
       PROVE  OneOwner' /\ OwnedArePolling' /\ ResponderFree'
  BY <1>26 DEF StartLoop
<1>27. ASSUME NEW l \in Loops, NEW n \in Polls, Poll(l, n)
       PROVE  OneOwner' /\ OwnedArePolling' /\ ResponderFree'
  BY <1>27 DEF Poll
<1>28. ASSUME NEW l \in Loops, NEW n \in Polls, Answered(l, n)
       PROVE  OneOwner' /\ OwnedArePolling' /\ ResponderFree'
  BY <1>28 DEF Answered
<1>29. ASSUME NEW l \in Loops, PollFails(l)
       PROVE  OneOwner' /\ OwnedArePolling' /\ ResponderFree'
  BY <1>29 DEF PollFails
<1>30. ASSUME NEW l \in Loops, Renew(l)
       PROVE  OneOwner' /\ OwnedArePolling' /\ ResponderFree'
  BY <1>30 DEF Renew
<1>31. ASSUME NEW l \in Loops, NEW t \in Topics, Resubscribe(l, t)
       PROVE  OneOwner' /\ OwnedArePolling' /\ ResponderFree'
  BY <1>31 DEF Resubscribe, Enter, FreeCaches
<1>32. ASSUME NEW l \in Loops, NEW t \in Topics, ResubscribeFails(l, t)
       PROVE  OneOwner' /\ OwnedArePolling' /\ ResponderFree'
  BY <1>32 DEF ResubscribeFails, Enter, FreeCaches
<1>33. ASSUME NEW tm \in inbox, Dispatch(tm)
       PROVE  OneOwner' /\ OwnedArePolling' /\ ResponderFree'
  BY <1>33 DEF Dispatch
<1>34. ASSUME UNCHANGED vars PROVE OneOwner' /\ OwnedArePolling' /\ ResponderFree'
  BY <1>34 DEF vars
<1>35. ASSUME NEW a \in Actors, Respond(a)
       PROVE  OneOwner' /\ OwnedArePolling' /\ ResponderFree'
  BY <1>35, <1>1, <1>2, <1>3, <1>4, <1>5, Zenon DEF Respond
<1>36. ASSUME NEW b \in Beats, Beat(b)
       PROVE  OneOwner' /\ OwnedArePolling' /\ ResponderFree'
  BY <1>36, <1>10, <1>11, <1>12, <1>13, <1>8, <1>9, Zenon DEF Beat, Offline,
     Actors
<1>37. ASSUME NEW n \in Polls, Message(n)
       PROVE  OneOwner' /\ OwnedArePolling' /\ ResponderFree'
  BY <1>37, <1>14, <1>15, <1>16, <1>17, <1>18, <1>19, <1>20, Zenon DEF Message
<1>38. ASSUME NEW t \in Topics, Finish(t)
       PROVE  OneOwner' /\ OwnedArePolling' /\ ResponderFree'
  BY <1>38, <1>23, <1>8, <1>9, <1>25, <1>26, Zenon DEF Finish, Offline, Actors
<1>39. ASSUME NEW l \in Loops, RunLoop(l) \/ LinkFails(l)
       PROVE  OneOwner' /\ OwnedArePolling' /\ ResponderFree'
  BY <1>39, <1>27, <1>28, <1>29, <1>30, <1>31, <1>32, Zenon DEF RunLoop, LinkFails
<1> QED
  BY <1>6, <1>7, <1>35, <1>36, <1>37, <1>21, <1>22, <1>24, <1>38, <1>39, <1>33,
     <1>34, Zenon DEF Next

\* ResponderInv is an invariant of the broker.
THEOREM ResponderInvariant == Spec => []ResponderInv
<1>1. Init => ResponderInv
  <2>1. Init => OneOwner /\ OwnedArePolling /\ ResponderFree
    BY NoneAssumption DEF Init, OneOwner, OwnedArePolling, ResponderFree
  <2> QED
    BY <2>1, TypeInit DEF ResponderInv
<1>2. ResponderInv /\ [Next]_vars => ResponderInv'
  BY TypeStep, ResponderStep DEF ResponderInv
<1> QED
  BY <1>1, <1>2, PTL DEF Spec

\* Every variable of the broker and its prosumer keeps its type.
THEOREM TypeCorrect == Spec => []TypeOK
<1>1. ResponderInv => TypeOK
  BY DEF ResponderInv
<1> QED
  BY <1>1, ResponderInvariant, PTL

\* Neither send nor the stop of a poll ever blocks on a responder, whose channel
\* has room for one answer, for any number of topics, messages, polls and loops.
THEOREM SendersNeverBlock == Spec => []ResponderFree
<1>1. ResponderInv => ResponderFree
  BY DEF ResponderInv
<1> QED
  BY <1>1, ResponderInvariant, PTL

-----------------------------------------------------------------------------
(* Heartbeats *)

\* A heartbeat that replaces another in the map has closed its signal.
LEMMA LatestBeatStep ==
  TypeOK /\ LatestBeatWaits /\ [Next]_vars => LatestBeatWaits'
<1> SUFFICES ASSUME TypeOK, LatestBeatWaits, [Next]_vars PROVE LatestBeatWaits'
  OBVIOUS
<1> USE DEF cacheVars, actorVars, pollVars, signalVars, clientVars
<1> DEFINE NoNewWait == \A b \in Beats : apc'[b] = "wait" => apc[b] = "wait"
<1>a. NoNewWait /\ UNCHANGED <<signal, closed>> => LatestBeatWaits'
  BY DEF LatestBeatWaits
<1>1. ASSUME NEW a \in Actors, Respond(a) PROVE LatestBeatWaits'
  <2>1. CASE Pop(a) \/ Take(a) \/ Restore(a) \/ Refuse(a)
    BY <1>a, <2>1 DEF Pop, Take, Restore, Refuse, Resume, TypeOK, Actors
  <2>2. CASE Deliver(a)
    BY <1>a, <2>2 DEF Deliver, Resume, Started, TypeOK, Actors
  <2> QED
    BY <1>1, <2>1, <2>2 DEF Respond
<1>2. ASSUME NEW m \in Messages, Append(m) PROVE LatestBeatWaits'
  BY <1>2, <1>a DEF Append, TypeOK, Actors
<1>3. ASSUME NEW m \in Messages, NEW t \in Topics, Lookup(m, t)
      PROVE  LatestBeatWaits'
  BY <1>3, <1>a DEF Lookup, TypeOK, Actors
<1>4. ASSUME NEW a \in Actors, Offline(a) PROVE LatestBeatWaits'
  <2>1. CASE Delete(a)
    BY <1>a, <2>1 DEF Delete, TypeOK, Actors
  <2>2. ASSUME NEW t \in Topics, Load(a, t) PROVE LatestBeatWaits'
    <3>1. apc' = [apc EXCEPT ![a] = IF entry[t] = None THEN Resume(a) ELSE "delete"]
          /\ UNCHANGED <<signal, closed>>
      BY <2>2 DEF Load
    <3> QED
      BY <1>a, <3>1 DEF Resume, TypeOK, Actors
  <2> QED
    BY <1>4, <2>1, <2>2 DEF Offline
<1>5. ASSUME NEW b \in Beats, StartBeat(b) PROVE LatestBeatWaits'
  <2>1. \A x \in Beats : x # b => apc'[x] = apc[x]
    BY <1>5 DEF StartBeat, TypeOK, Actors
  <2>2. \A x \in Beats : closed'[x] = (closed[x] \/ x = signal)
    BY <1>5 DEF StartBeat, Replaced
  <2>3. signal' = b
    BY <1>5 DEF StartBeat
  <2> QED
    BY <2>1, <2>2, <2>3 DEF LatestBeatWaits
<1>6. ASSUME NEW b \in Beats, BeatInTime(b) \/ BeatMissed(b) \/ BeatEnds(b)
      PROVE  LatestBeatWaits'
  BY <1>6, <1>a DEF BeatInTime, BeatMissed, BeatEnds, TypeOK, Actors
<1>7. ASSUME NEW n \in Polls, Signal(n) PROVE LatestBeatWaits'
  <2>1. \A x \in Beats : closed'[x] = (closed[x] \/ x = signal)
    BY <1>7 DEF Signal
  <2> QED
    BY <1>7, <2>1 DEF Signal, LatestBeatWaits
<1>8. ASSUME NEW n \in Polls, Send(n) \/ TimeOut(n) PROVE LatestBeatWaits'
  <2>1. NoNewWait
    BY <1>8 DEF Send, TimeOut, Started, TypeOK, Actors
  <2> QED
    BY <1>8, <1>a, <2>1 DEF Send, TimeOut
<1>9. ASSUME NEW n \in Polls, StopPop(n) \/ StopSend(n) \/ Park(n) \/ Return(n)
      PROVE  LatestBeatWaits'
  BY <1>9, <1>a DEF StopPop, StopSend, Park, Return
<1>10. ASSUME NEW n \in Polls, Reclaim(n) PROVE LatestBeatWaits'
  <2>1. \A b \in Beats : apc'[b] = "wait" => apc[b] = "wait" /\ b[1] # n
    BY <1>10 DEF Reclaim, Actors, Beats
  <2>2. \A b \in Beats : b[1] # n => closed'[b] = closed[b]
    BY <1>10 DEF Reclaim
  <2>3. UNCHANGED signal
    BY <1>10 DEF Reclaim
  <2> QED
    BY <2>1, <2>2, <2>3 DEF LatestBeatWaits
<1>11. ASSUME NEW t \in Topics, Subscribe(t) \/ SubscribeReturns(t)
       PROVE  LatestBeatWaits'
  BY <1>11, <1>a DEF Subscribe, SubscribeReturns
<1>12. ASSUME NEW t \in Topics, Unsubscribe(t) \/ Unsubscribed(t)
       PROVE  LatestBeatWaits'
  BY <1>12, <1>a DEF Unsubscribe, Unsubscribed, TypeOK, Actors
<1>13. ASSUME NEW t \in Topics, NEW l \in Loops, StartLoop(t, l)
       PROVE  LatestBeatWaits'
  BY <1>13, <1>a DEF StartLoop
<1>14. ASSUME NEW l \in Loops, RunLoop(l) \/ LinkFails(l) PROVE LatestBeatWaits'
  <2>1. UNCHANGED <<apc, signal, closed>>
    BY <1>14 DEF RunLoop, LinkFails, Renew, Resubscribe, Poll, Answered, PollFails,
       ResubscribeFails
  <2> QED
    BY <1>a, <2>1
<1>15. ASSUME NEW tm \in inbox, Dispatch(tm) PROVE LatestBeatWaits'
  BY <1>15, <1>a DEF Dispatch
<1>16. ASSUME UNCHANGED vars PROVE LatestBeatWaits'
  BY <1>16, <1>a DEF vars
<1>17. ASSUME NEW b \in Beats, Beat(b) PROVE LatestBeatWaits'
  BY <1>17, <1>4, <1>5, <1>6, Zenon DEF Beat, Actors
<1>18. ASSUME NEW n \in Polls, Message(n) PROVE LatestBeatWaits'
  BY <1>18, <1>7, <1>8, <1>9, Zenon DEF Message
<1>19. ASSUME NEW t \in Topics, Finish(t) PROVE LatestBeatWaits'
  BY <1>19, <1>4, <1>11, <1>12, <1>13, Zenon DEF Finish, Actors
<1> QED
  BY <1>1, <1>2, <1>3, <1>10, <1>11, <1>12, <1>14, <1>15, <1>16, <1>17, <1>18,
     <1>19, Zenon DEF Next

\* The next poll always stops the heartbeat that waits: there is no heartbeat
\* that waits on a channel which nobody can close any more.
THEOREM BeatsAreReachable == Spec => []LatestBeatWaits
<1>1. Init => LatestBeatWaits
  BY DEF Init, LatestBeatWaits, Actors
<1>2. TypeOK /\ LatestBeatWaits /\ [Next]_vars => LatestBeatWaits'
  BY LatestBeatStep
<1> QED
  BY <1>1, <1>2, TypeCorrect, PTL DEF Spec

-----------------------------------------------------------------------------
(* Each message is in one place *)

\* What a step leaves at the stations that are not in X: at most what is there.
StationsKept(X) ==
  /\ \A a \in Actors : <<"taken", a>> \notin X => taken'[a] \in {taken[a], Nil, {}}
  /\ \A n \in Polls : <<"chan", n>> \notin X => chan'[n] \in {chan[n], None, Nil, {}}
  /\ \A n \in Polls : <<"answer", n>> \notin X => answer'[n] \in {answer[n], None, Nil, {}}
  /\ <<"inbox", None>> \notin X => inbox' \subseteq inbox
  /\ <<"received", None>> \notin X => received' \subseteq received
  /\ <<"returned", None>> \notin X => returned' \subseteq returned

\* A step brings nothing new to the caches, and unpushes nothing.
CachesKept ==
  /\ \A c \in Caches : content'[c] \subseteq content[c]
  /\ \A m \in Messages : apc'[m] \in {"idle", "append"} => apc[m] \in {"idle", "append"}

\* The mail at each station, by the variable that holds it.
LEMMA MailAtEach ==
  /\ \A a \in Actors :
       /\ <<"taken", a>> \in Stations
       /\ MailAt(<<"taken", a>>) = IF taken[a] = Nil THEN {} ELSE taken[a]
       /\ MailAt(<<"taken", a>>)' = IF taken'[a] = Nil THEN {} ELSE taken'[a]
  /\ \A n \in Polls :
       /\ <<"chan", n>> \in Stations
       /\ MailAt(<<"chan", n>>) = Letters(chan[n])
       /\ MailAt(<<"chan", n>>)' = Letters(chan'[n])
  /\ \A n \in Polls :
       /\ <<"answer", n>> \in Stations
       /\ MailAt(<<"answer", n>>) = Letters(answer[n])
       /\ MailAt(<<"answer", n>>)' = Letters(answer'[n])
  /\ <<"inbox", None>> \in Stations
       /\ MailAt(<<"inbox", None>>) = inbox /\ MailAt(<<"inbox", None>>)' = inbox'
  /\ <<"received", None>> \in Stations
       /\ MailAt(<<"received", None>>) = received
       /\ MailAt(<<"received", None>>)' = received'
  /\ <<"returned", None>> \in Stations
       /\ MailAt(<<"returned", None>>) = returned
       /\ MailAt(<<"returned", None>>)' = returned'
<1>1. ASSUME NEW a \in Actors
      PROVE  /\ <<"taken", a>> \in Stations
             /\ MailAt(<<"taken", a>>) = IF taken[a] = Nil THEN {} ELSE taken[a]
             /\ MailAt(<<"taken", a>>)' = IF taken'[a] = Nil THEN {} ELSE taken'[a]
  BY DEF Stations, MailAt
<1>2. ASSUME NEW n \in Polls
      PROVE  /\ <<"chan", n>> \in Stations
             /\ MailAt(<<"chan", n>>) = Letters(chan[n])
             /\ MailAt(<<"chan", n>>)' = Letters(chan'[n])
  BY DEF Stations, MailAt
<1>3. ASSUME NEW n \in Polls
      PROVE  /\ <<"answer", n>> \in Stations
             /\ MailAt(<<"answer", n>>) = Letters(answer[n])
             /\ MailAt(<<"answer", n>>)' = Letters(answer'[n])
  BY DEF Stations, MailAt
<1>4. /\ <<"inbox", None>> \in Stations
      /\ MailAt(<<"inbox", None>>) = inbox /\ MailAt(<<"inbox", None>>)' = inbox'
  BY DEF Stations, MailAt
<1>5. /\ <<"received", None>> \in Stations
      /\ MailAt(<<"received", None>>) = received
      /\ MailAt(<<"received", None>>)' = received'
  BY DEF Stations, MailAt
<1>6. /\ <<"returned", None>> \in Stations
      /\ MailAt(<<"returned", None>>) = returned
      /\ MailAt(<<"returned", None>>)' = returned'
  BY DEF Stations, MailAt
<1> QED
  BY <1>1, <1>2, <1>3, <1>4, <1>5, <1>6

\* There are no other stations.
LEMMA StationCases ==
  \A s \in Stations :
    \/ \E a \in Actors : s = <<"taken", a>>
    \/ \E n \in Polls : s = <<"chan", n>> \/ s = <<"answer", n>>
    \/ s \in {<<"inbox", None>>, <<"received", None>>, <<"returned", None>>}
BY DEF Stations

\* StationsKept says of the variables what is meant of the stations.
LEMMA KeptAtStations ==
  ASSUME NEW X, StationsKept(X)
  PROVE  \A s \in Stations : s \notin X => MailAt(s)' \subseteq MailAt(s)
<1> SUFFICES ASSUME NEW s \in Stations, s \notin X PROVE MailAt(s)' \subseteq MailAt(s)
  OBVIOUS
<1>1. ASSUME NEW a \in Actors, s = <<"taken", a>> PROVE MailAt(s)' \subseteq MailAt(s)
  <2>1. taken'[a] \in {taken[a], Nil, {}}
    BY <1>1 DEF StationsKept
  <2> QED
    BY <1>1, <2>1 DEF MailAt
<1>2. ASSUME NEW n \in Polls, s = <<"chan", n>> PROVE MailAt(s)' \subseteq MailAt(s)
  <2>1. chan'[n] \in {chan[n], None, Nil, {}}
    BY <1>2 DEF StationsKept
  <2> QED
    BY <1>2, <2>1 DEF MailAt, Letters
<1>3. ASSUME NEW n \in Polls, s = <<"answer", n>> PROVE MailAt(s)' \subseteq MailAt(s)
  <2>1. answer'[n] \in {answer[n], None, Nil, {}}
    BY <1>3 DEF StationsKept
  <2> QED
    BY <1>3, <2>1 DEF MailAt, Letters
<1>4. CASE s \in {<<"inbox", None>>, <<"received", None>>, <<"returned", None>>}
  BY <1>4 DEF StationsKept, MailAt
<1> QED
  BY <1>1, <1>2, <1>3, <1>4, StationCases

\* Mail that leaves one station for another stays sole.
LEMMA MailMoves ==
  ASSUME SoleInv, NEW r \in Stations, NEW s \in Stations, r # s, NEW New,
         New \subseteq MailAt(r), MailAt(r)' \subseteq MailAt(r) \ New,
         MailAt(s)' \subseteq MailAt(s) \cup New, StationsKept({r, s}), CachesKept
  PROVE  SoleInv'
<1>1. \A x \in Stations : x # s => MailAt(x)' \subseteq MailAt(x)
  BY KeptAtStations
<1>2. \A x \in Stations : x # s => MailAt(x)' \cap New = {}
  <2> SUFFICES ASSUME NEW x \in Stations, x # s PROVE MailAt(x)' \cap New = {}
    OBVIOUS
  <2>1. CASE x = r
    BY <2>1
  <2>2. CASE x # r
    <3>1. MailAt(x) \cap MailAt(r) = {}
      BY <2>2 DEF SoleInv, MailIsSole
    <3> QED
      BY <3>1, <1>1
  <2> QED
    BY <2>1, <2>2
<1>3. MailIsSole'
  <2> SUFFICES ASSUME NEW x \in Stations, NEW y \in Stations, x # y
               PROVE  MailAt(x)' \cap MailAt(y)' = {}
    BY DEF MailIsSole, Stations
  <2>1. MailAt(x) \cap MailAt(y) = {}
    BY DEF SoleInv, MailIsSole
  <2>2. CASE x # s /\ y # s
    BY <2>1, <2>2, <1>1
  <2>3. CASE x = s
    BY <2>1, <2>3, <1>1, <1>2
  <2>4. CASE y = s
    BY <2>1, <2>4, <1>1, <1>2
  <2> QED
    BY <2>2, <2>3, <2>4
<1>4. ASSUME NEW tm, NEW x \in Stations, tm \in MailAt(x)'
      PROVE  \E y \in Stations : tm \in MailAt(y)
  BY <1>4, <1>1
<1>5. CachedIsSole'
  BY <1>4 DEF SoleInv, CachedIsSole, CachesKept, Stations
<1>6. UnpushedIsNowhere'
  BY <1>4 DEF SoleInv, UnpushedIsNowhere, CachesKept, Stations
<1> QED
  BY <1>3, <1>5, <1>6 DEF SoleInv

\* Mail that is collected from caches, and gone from them, stays sole.
LEMMA MailIsCollected ==
  ASSUME SoleInv, NEW s \in Stations, NEW New \in SUBSET Mail,
         \A tm \in New : \E c \in Caches : tm[2] \in content[c] /\ tm[2] \notin content'[c],
         MailAt(s)' \subseteq MailAt(s) \cup New, StationsKept({s}), CachesKept
  PROVE  SoleInv'
<1>1. \A x \in Stations : x # s => MailAt(x)' \subseteq MailAt(x)
  BY KeptAtStations
<1>2. ASSUME NEW tm \in New
      PROVE  /\ \A x \in Stations : tm \notin MailAt(x)
             /\ \A c \in Caches : tm[2] \notin content'[c]
             /\ apc[tm[2]] \notin {"idle", "append"} /\ tm[2] \in Messages
             /\ tm = <<tm[1], tm[2]>> /\ tm[1] \in Topics
  <2>1. tm[1] \in Topics /\ tm[2] \in Messages /\ tm = <<tm[1], tm[2]>>
    BY DEF Mail
  <2>2. PICK c \in Caches : tm[2] \in content[c] /\ tm[2] \notin content'[c]
    OBVIOUS
  <2>3. \A x \in Stations : tm \notin MailAt(x)
    BY <2>1, <2>2 DEF SoleInv, CachedIsSole
  <2>4. \A d \in Caches : tm[2] \in content[d] => d = c
    BY <2>2 DEF SoleInv, CachedIsSole
  <2>5. \A d \in Caches : tm[2] \notin content'[d]
    BY <2>2, <2>4 DEF CachesKept
  <2>6. apc[tm[2]] \notin {"idle", "append"}
    BY <2>1, <2>2 DEF SoleInv, UnpushedIsNowhere
  <2> QED
    BY <2>1, <2>3, <2>5, <2>6
<1>3. MailIsSole'
  <2> SUFFICES ASSUME NEW x \in Stations, NEW y \in Stations, x # y
               PROVE  MailAt(x)' \cap MailAt(y)' = {}
    BY DEF MailIsSole, Stations
  <2>1. MailAt(x) \cap MailAt(y) = {}
    BY DEF SoleInv, MailIsSole
  <2>2. CASE x # s /\ y # s
    BY <2>1, <2>2, <1>1
  <2>3. CASE x = s
    BY <2>1, <2>3, <1>1, <1>2
  <2>4. CASE y = s
    BY <2>1, <2>4, <1>1, <1>2
  <2> QED
    BY <2>2, <2>3, <2>4
<1>4. ASSUME NEW tm, NEW x \in Stations, tm \in MailAt(x)'
      PROVE  tm \in New \/ \E y \in Stations : tm \in MailAt(y)
  BY <1>4, <1>1
<1>5. CachedIsSole'
  <2> SUFFICES ASSUME NEW c \in Caches, NEW m \in content'[c]
               PROVE  /\ \A d \in Caches : m \in content'[d] => d = c
                      /\ \A x \in Stations, t \in Topics : <<t, m>> \notin MailAt(x)'
    BY DEF CachedIsSole, Stations
  <2>1. m \in content[c]
    BY DEF CachesKept
  <2>2. \A d \in Caches : m \in content'[d] => d = c
    BY <2>1 DEF CachesKept, SoleInv, CachedIsSole
  <2>3. \A x \in Stations, t \in Topics : <<t, m>> \notin MailAt(x)
    BY <2>1 DEF SoleInv, CachedIsSole
  <2>4. \A t \in Topics : <<t, m>> \notin New
    BY <1>2
  <2> QED
    BY <2>2, <2>3, <2>4, <1>4
<1>6. UnpushedIsNowhere'
  <2> SUFFICES ASSUME NEW m \in Messages, apc'[m] \in {"idle", "append"}
               PROVE  /\ \A c \in Caches : m \notin content'[c]
                      /\ \A x \in Stations, t \in Topics : <<t, m>> \notin MailAt(x)'
    BY DEF UnpushedIsNowhere, Stations
  <2>1. apc[m] \in {"idle", "append"}
    BY DEF CachesKept
  <2>2. \A c \in Caches : m \notin content[c]
    BY <2>1 DEF SoleInv, UnpushedIsNowhere
  <2>3. \A x \in Stations, t \in Topics : <<t, m>> \notin MailAt(x)
    BY <2>1 DEF SoleInv, UnpushedIsNowhere
  <2>4. \A t \in Topics : <<t, m>> \notin New
    BY <1>2, <2>1
  <2> QED
    BY <2>2, <2>3, <2>4, <1>4 DEF CachesKept
<1> QED
  BY <1>3, <1>5, <1>6 DEF SoleInv

\* A step that moves no mail keeps each message in its place.
LEMMA NoMailMoves ==
  ASSUME SoleInv, StationsKept({}), CachesKept
  PROVE  SoleInv'
<1>1. <<"inbox", None>> \in Stations
  BY MailAtEach
<1>2. MailAt(<<"inbox", None>>)' \subseteq MailAt(<<"inbox", None>>) \cup {}
  BY <1>1, KeptAtStations
<1>3. StationsKept({<<"inbox", None>>})
  BY DEF StationsKept
<1> QED
  BY <1>1, <1>2, <1>3, MailIsCollected

\* What send and response do to the mail: a responder carries all that was in
\* the caches, and only its poll has it.
LEMMA RespondKeepsSole ==
  ASSUME TypeOK, SoleInv, NEW a \in Actors, Respond(a)
  PROVE  SoleInv'
<1> USE DEF cacheVars, actorVars, pollVars, signalVars, clientVars
<1>1. CASE Pop(a) \/ Restore(a) \/ Refuse(a)
  <2>1. StationsKept({})
    BY <1>1, NoneAssumption DEF Pop, Restore, Refuse, StationsKept, TypeOK
  <2>2. CachesKept
    BY <1>1 DEF Pop, Restore, Refuse, CachesKept, TypeOK, Resume, Actors
  <2> QED
    BY <2>1, <2>2, NoMailMoves
<1>2. CASE Take(a)
  <2>1. taken'[a] = IF Subscribed = {} THEN Nil ELSE Pending
    BY <1>2 DEF Take, TypeOK
  <2>2. MailAt(<<"taken", a>>)' \subseteq MailAt(<<"taken", a>>) \cup Pending
    BY <2>1, MailAtEach
  <2>3. StationsKept({<<"taken", a>>})
    BY <1>2 DEF Take, StationsKept, TypeOK
  <2>4. content' = AfterTake
    BY <1>2 DEF Take
  <2>5. CachesKept
    BY <1>2, <2>4 DEF Take, AfterTake, CachesKept, TypeOK, Actors
  <2>6. \A tm \in Pending : \E c \in Caches : tm[2] \in content[c] /\ tm[2] \notin content'[c]
    BY <2>4 DEF AfterTake, Pending, Subscribed, TypeOK, Mail
  <2>7. Pending \in SUBSET Mail
    BY DEF Pending
  <2> QED
    BY <2>2, <2>3, <2>5, <2>6, <2>7, MailIsCollected, MailAtEach
<1>3. CASE Deliver(a) /\ popped[a] \in Polls
  <2> PICK n \in Polls : n = popped[a]
    BY <1>3
  <2>1. /\ taken'[a] = {} /\ chan'[n] = taken[a] /\ chan[n] = None
    BY <1>3 DEF Deliver, TypeOK
  <2>2. /\ MailAt(<<"taken", a>>)' = {}
        /\ MailAt(<<"chan", n>>)' \subseteq MailAt(<<"taken", a>>)
    BY <2>1, <1>3, MailAtEach DEF Letters
  <2>3. StationsKept({<<"taken", a>>, <<"chan", n>>})
    BY <1>3 DEF Deliver, StationsKept, TypeOK
  <2>4. CachesKept
    <3>1. UNCHANGED content
      BY <1>3 DEF Deliver
    <3>2. \A m \in Messages : apc'[m] \in {"idle", "append"} => apc[m] \in {"idle", "append"}
      BY <1>3, ActorAssumption DEF Deliver, Resume, Started, TypeOK, Actors
    <3> QED
      BY <3>1, <3>2 DEF CachesKept
  <2>5. <<"taken", a>> # <<"chan", n>>
    OBVIOUS
  <2> QED
    BY <1>3, <2>2, <2>3, <2>4, <2>5, MailMoves, MailAtEach
<1>4. CASE Deliver(a) /\ popped[a] = None
  <2>1. StationsKept({})
    BY <1>4, NoneAssumption DEF Deliver, StationsKept, TypeOK
  <2>2. CachesKept
    <3>1. UNCHANGED content
      BY <1>4 DEF Deliver
    <3>2. \A m \in Messages : apc'[m] \in {"idle", "append"} => apc[m] \in {"idle", "append"}
      BY <1>4, ActorAssumption DEF Deliver, Resume, Started, TypeOK, Actors
    <3> QED
      BY <3>1, <3>2 DEF CachesKept
  <2> QED
    BY <2>1, <2>2, NoMailMoves
<1> QED
  BY <1>1, <1>2, <1>3, <1>4 DEF Respond, TypeOK

\* What a poll does to the mail: its own send collects it, and the answer takes
\* it from the responder.
LEMMA MessageKeepsSole ==
  ASSUME TypeOK, SoleInv, NEW n \in Polls, Message(n)
  PROVE  SoleInv'
<1> USE DEF cacheVars, actorVars, pollVars, signalVars, clientVars
<1>1. CASE StopPop(n) \/ StopSend(n) \/ Signal(n) \/ Park(n) \/ TimeOut(n)
  <2>1. StationsKept({})
    BY <1>1 DEF StopPop, StopSend, Signal, Park, TimeOut, StationsKept, TypeOK
  <2>2. CachesKept
    BY <1>1, ActorAssumption DEF StopPop, StopSend, Signal, Park, TimeOut, CachesKept,
       TypeOK, Started, Actors, Beats
  <2> QED
    BY <2>1, <2>2, NoMailMoves
<1>2. CASE Send(n)
  <2>1. chan'[n] \in {Nil, None, Pending}
    BY <1>2 DEF Send, TypeOK
  <2>2. MailAt(<<"chan", n>>)' \subseteq MailAt(<<"chan", n>>) \cup Pending
    BY <2>1, MailAtEach DEF Letters
  <2>3. StationsKept({<<"chan", n>>})
    BY <1>2 DEF Send, StationsKept, TypeOK
  <2>4. content' = AfterTake
    BY <1>2 DEF Send
  <2>5. CachesKept
    BY <1>2, <2>4, ActorAssumption DEF Send, AfterTake, CachesKept, Started, TypeOK,
       Actors, Beats
  <2>6. \A tm \in Pending : \E c \in Caches : tm[2] \in content[c] /\ tm[2] \notin content'[c]
    BY <2>4 DEF AfterTake, Pending, Subscribed, TypeOK, Mail
  <2>7. Pending \in SUBSET Mail
    BY DEF Pending
  <2> QED
    BY <2>2, <2>3, <2>5, <2>6, <2>7, MailIsCollected, MailAtEach
<1>3. CASE Return(n)
  <2>1. chan'[n] = None /\ answer'[n] = chan[n]
    BY <1>3 DEF Return, TypeOK
  <2>2. /\ MailAt(<<"chan", n>>)' = {}
        /\ MailAt(<<"answer", n>>)' \subseteq MailAt(<<"chan", n>>)
    BY <2>1, MailAtEach DEF Letters
  <2>3. StationsKept({<<"chan", n>>, <<"answer", n>>})
    BY <1>3 DEF Return, StationsKept, TypeOK
  <2>4. CachesKept
    BY <1>3 DEF Return, CachesKept
  <2>5. <<"chan", n>> # <<"answer", n>>
    OBVIOUS
  <2> QED
    BY <2>2, <2>3, <2>4, <2>5, MailMoves, MailAtEach
<1> QED
  BY <1>1, <1>2, <1>3 DEF Message

\* offline returns what is in the cache it has loaded, whether or not the topic
\* has it still.
LEMMA OfflineKeepsSole ==
  ASSUME TypeOK, HoldsCache, SoleInv, NEW a \in Actors, Offline(a)
  PROVE  SoleInv'
<1> USE DEF cacheVars, actorVars, pollVars, signalVars, clientVars
<1>1. ASSUME NEW t \in Topics, Load(a, t) PROVE SoleInv'
  <2>1. StationsKept({})
    BY <1>1 DEF Load, StationsKept
  <2>2. CachesKept
    <3>1. apc' = [apc EXCEPT ![a] = IF entry[t] = None THEN Resume(a) ELSE "delete"]
          /\ UNCHANGED content
      BY <1>1 DEF Load
    <3> QED
      BY <3>1 DEF Resume, TypeOK, Actors, CachesKept
  <2> QED
    BY <2>1, <2>2, NoMailMoves
<1>2. CASE Delete(a)
  <2>1. PICK t \in Topics, c \in Caches : hold[a] = <<t, c>>
    BY <1>2 DEF Delete, TypeOK, HoldsCache
  <2> DEFINE New == {t} \X content[c]
  <2>2. /\ returned' = returned \cup New
        /\ content' = [content EXCEPT ![c] = {}]
    BY <1>2, <2>1 DEF Delete
  <2>3. MailAt(<<"returned", None>>)' \subseteq MailAt(<<"returned", None>>) \cup New
    BY <2>2, MailAtEach
  <2>4. StationsKept({<<"returned", None>>})
    BY <1>2 DEF Delete, StationsKept
  <2>5. CachesKept
    BY <1>2, <2>2 DEF Delete, CachesKept, TypeOK, Actors
  <2>6. New \in SUBSET Mail
    BY DEF Mail, TypeOK
  <2>7. \A tm \in New : tm[2] \in content[c] /\ tm[2] \notin content'[c]
    BY <2>2 DEF TypeOK
  <2>8. \A tm \in New : \E d \in Caches : tm[2] \in content[d] /\ tm[2] \notin content'[d]
    BY <2>7
  <2> HIDE DEF New
  <2> QED
    BY <2>3, <2>4, <2>5, <2>6, <2>8, MailIsCollected, MailAtEach
<1> QED
  BY <1>1, <1>2 DEF Offline

\* A message that Unicast appends was nowhere before.
LEMMA AppendKeepsSole ==
  ASSUME TypeOK, HoldsCache, SoleInv, NEW m \in Messages, Append(m)
  PROVE  SoleInv'
<1> USE DEF cacheVars, actorVars, pollVars, signalVars, clientVars
<1> m \in Actors
  BY DEF Actors
<1>1. PICK t \in Topics, c \in Caches : hold[m] = <<t, c>>
  BY DEF Append, TypeOK, HoldsCache
<1>2. content' = [content EXCEPT ![c] = content[c] \cup {m}]
  BY <1>1 DEF Append, WithMessage
<1>3. \A d \in Caches : content'[d] = IF d = c THEN content[c] \cup {m} ELSE content[d]
  BY <1>2 DEF TypeOK
<1>4. /\ \A d \in Caches : m \notin content[d]
      /\ \A s \in Stations, u \in Topics : <<u, m>> \notin MailAt(s)
  BY DEF Append, SoleInv, UnpushedIsNowhere
<1>5. \A s \in Stations : MailAt(s)' \subseteq MailAt(s)
  <2>1. StationsKept({})
    BY DEF Append, StationsKept
  <2> QED
    BY <2>1, KeptAtStations
<1>6. apc' = [apc EXCEPT ![m] = "pop"]
  BY DEF Append
<1>7. MailIsSole'
  BY <1>5 DEF SoleInv, MailIsSole, Stations
<1>8. CachedIsSole'
  <2> SUFFICES ASSUME NEW d \in Caches, NEW x \in content'[d]
               PROVE  /\ \A e \in Caches : x \in content'[e] => e = d
                      /\ \A s \in Stations, u \in Topics : <<u, x>> \notin MailAt(s)'
    BY DEF CachedIsSole, Stations
  <2>1. CASE x = m
    BY <2>1, <1>3, <1>4, <1>5
  <2>2. CASE x # m
    <3>1. x \in content[d] /\ \A e \in Caches : x \in content'[e] => x \in content[e]
      BY <2>2, <1>3
    <3> QED
      BY <3>1, <1>5 DEF SoleInv, CachedIsSole
  <2> QED
    BY <2>1, <2>2
<1>9. UnpushedIsNowhere'
  <2> SUFFICES ASSUME NEW x \in Messages, apc'[x] \in {"idle", "append"}
               PROVE  /\ \A d \in Caches : x \notin content'[d]
                      /\ \A s \in Stations, u \in Topics : <<u, x>> \notin MailAt(s)'
    BY DEF UnpushedIsNowhere, Stations
  <2>1. x # m /\ apc[x] \in {"idle", "append"}
    BY <1>6 DEF TypeOK, Actors
  <2> QED
    BY <2>1, <1>3, <1>5 DEF SoleInv, UnpushedIsNowhere
<1> QED
  BY <1>7, <1>8, <1>9 DEF SoleInv

\* A loop reads its answer, which is then to be dispatched.
LEMMA AnsweredKeepsSole ==
  ASSUME TypeOK, SoleInv, NEW l \in Loops, NEW n \in Polls, Answered(l, n)
  PROVE  SoleInv'
<1>1. answer'[n] = None /\ inbox' \subseteq inbox \cup Letters(answer[n])
  BY DEF Answered, TypeOK, Letters
<1>2. /\ MailAt(<<"answer", n>>)' = {}
      /\ MailAt(<<"inbox", None>>)'
           \subseteq MailAt(<<"inbox", None>>) \cup MailAt(<<"answer", n>>)
  BY <1>1, MailAtEach DEF Letters
<1>3. StationsKept({<<"answer", n>>, <<"inbox", None>>})
  BY DEF Answered, StationsKept, TypeOK, actorVars, cacheVars
<1>4. CachesKept
  BY DEF Answered, CachesKept, cacheVars, actorVars
<1>5. <<"answer", n>> # <<"inbox", None>>
  OBVIOUS
<1> QED
  BY <1>2, <1>3, <1>4, <1>5, MailMoves, MailAtEach

\* What is dispatched is received or dropped.
LEMMA DispatchKeepsSole ==
  ASSUME TypeOK, SoleInv, NEW tm, Dispatch(tm)
  PROVE  SoleInv'
<1>1. tm \in inbox /\ inbox' = inbox \ {tm} /\ received' \subseteq received \cup {tm}
  BY DEF Dispatch
<1>2. /\ {tm} \subseteq MailAt(<<"inbox", None>>)
      /\ MailAt(<<"inbox", None>>)' \subseteq MailAt(<<"inbox", None>>) \ {tm}
      /\ MailAt(<<"received", None>>)' \subseteq MailAt(<<"received", None>>) \cup {tm}
  BY <1>1, MailAtEach
<1>3. StationsKept({<<"inbox", None>>, <<"received", None>>})
  BY DEF Dispatch, StationsKept, actorVars, cacheVars, pollVars
<1>4. CachesKept
  BY DEF Dispatch, CachesKept, cacheVars, actorVars
<1>5. <<"inbox", None>> # <<"received", None>>
  OBVIOUS
<1> QED
  BY <1>2, <1>3, <1>4, <1>5, MailMoves, MailAtEach

\* subscribe makes an empty cache, or none.
LEMMA EnterKeepsCaches ==
  ASSUME TypeOK, NEW t \in Topics, Enter(t) \/ UNCHANGED <<entry, content>>
  PROVE  \A c \in Caches : content'[c] \subseteq content[c]
<1>1. CASE entry[t] # None \/ UNCHANGED <<entry, content>>
  BY <1>1 DEF Enter
<1>2. CASE entry[t] = None /\ Enter(t)
  <2>1. PICK c \in FreeCaches : content' = [content EXCEPT ![c] = {}]
    BY <1>2 DEF Enter
  <2> QED
    BY <2>1 DEF TypeOK, FreeCaches
<1> QED
  BY <1>1, <1>2

\* No step puts a message in a second place.
LEMMA SoleStep == TypeOK /\ HoldsCache /\ SoleInv /\ [Next]_vars => SoleInv'
<1> SUFFICES ASSUME TypeOK, HoldsCache, SoleInv, [Next]_vars PROVE SoleInv'
  OBVIOUS
<1> USE DEF cacheVars, actorVars, pollVars, signalVars, clientVars
<1> DEFINE MailUntouched == UNCHANGED <<taken, chan, answer, inbox, received, returned>>
<1> DEFINE NoneUnpushed ==
      \A m \in Messages : apc'[m] \in {"idle", "append"} => apc[m] \in {"idle", "append"}
<1>a. MailUntouched /\ NoneUnpushed /\ (\A c \in Caches : content'[c] \subseteq content[c])
        => SoleInv'
  BY NoMailMoves DEF StationsKept, CachesKept
<1>1. ASSUME NEW m \in Messages, NEW t \in Topics, Lookup(m, t) PROVE SoleInv'
  BY <1>1, <1>a DEF Lookup, TypeOK, Actors
<1>2. ASSUME NEW b \in Beats, StartBeat(b) \/ BeatInTime(b) \/ BeatMissed(b) \/ BeatEnds(b)
      PROVE  SoleInv'
  BY <1>2, <1>a DEF StartBeat, BeatInTime, BeatMissed, BeatEnds, TypeOK, Actors
<1>3. ASSUME NEW n \in Polls, Reclaim(n) PROVE SoleInv'
  <2>1. StationsKept({})
    BY <1>3 DEF Reclaim, StationsKept, TypeOK
  <2>2. NoneUnpushed
    BY <1>3, ActorAssumption DEF Reclaim, Actors, Beats
  <2>3. UNCHANGED content
    BY <1>3 DEF Reclaim
  <2> QED
    BY <2>1, <2>2, <2>3, NoMailMoves DEF CachesKept
<1>4. ASSUME NEW t \in Topics, Subscribe(t) \/ Unsubscribe(t) \/ Unsubscribed(t)
      PROVE  SoleInv'
  BY <1>4, <1>a, ActorAssumption DEF Subscribe, Unsubscribe, Unsubscribed, TypeOK, Actors
<1>5. ASSUME NEW t \in Topics, SubscribeReturns(t) PROVE SoleInv'
  <2>1. \A c \in Caches : content'[c] \subseteq content[c]
    BY <1>5, EnterKeepsCaches DEF SubscribeReturns
  <2> QED
    BY <1>5, <2>1, <1>a DEF SubscribeReturns
<1>6. ASSUME NEW t \in Topics, NEW l \in Loops, StartLoop(t, l) PROVE SoleInv'
  BY <1>6, <1>a DEF StartLoop
<1>7. ASSUME NEW l \in Loops, NEW n \in Polls, Poll(l, n) PROVE SoleInv'
  BY <1>7, <1>a DEF Poll
<1>8. ASSUME NEW l \in Loops, PollFails(l) \/ Renew(l) PROVE SoleInv'
  BY <1>8, <1>a DEF PollFails, Renew
<1>9. ASSUME NEW l \in Loops, NEW t \in Topics, Resubscribe(l, t) \/ ResubscribeFails(l, t)
      PROVE  SoleInv'
  <2>1. \A c \in Caches : content'[c] \subseteq content[c]
    BY <1>9, EnterKeepsCaches DEF Resubscribe, ResubscribeFails
  <2> QED
    BY <1>9, <2>1, <1>a DEF Resubscribe, ResubscribeFails
<1>10. ASSUME NEW l \in Loops, RunLoop(l) \/ LinkFails(l) PROVE SoleInv'
  BY <1>10, <1>7, <1>8, <1>9, AnsweredKeepsSole, Zenon DEF RunLoop, LinkFails
<1>11. ASSUME NEW b \in Beats, Beat(b) PROVE SoleInv'
  BY <1>11, <1>2, OfflineKeepsSole, Zenon DEF Beat, Actors
<1>12. ASSUME UNCHANGED vars PROVE SoleInv'
  BY <1>12, <1>a DEF vars
<1>13. ASSUME NEW t \in Topics, Finish(t) PROVE SoleInv'
  BY <1>13, <1>5, <1>4, <1>6, OfflineKeepsSole, Zenon DEF Finish, Actors
<1> QED
  BY <1>1, <1>3, <1>4, <1>10, <1>11, <1>12, <1>13, AppendKeepsSole, RespondKeepsSole,
     MessageKeepsSole, DispatchKeepsSole, Zenon DEF Next

\* A message that was pushed once is never in two places at once: not in two
\* caches, not with two polls, and not with a poll when it was returned.
THEOREM SoleInvariant == Spec => []SoleInv
<1>1. Init => SoleInv
  <2> SUFFICES ASSUME Init PROVE SoleInv
    OBVIOUS
  <2>1. \A s \in Stations : MailAt(s) = {}
    BY StationCases, MailAtEach DEF Init, Letters
  <2>2. \A c \in Caches : content[c] = {}
    BY DEF Init
  <2> QED
    BY <2>1, <2>2 DEF SoleInv, MailIsSole, CachedIsSole, UnpushedIsNowhere
<1>2. TypeOK /\ HoldsCache /\ SoleInv /\ [Next]_vars => SoleInv'
  BY SoleStep
<1>3. ResponderInv => TypeOK /\ HoldsCache
  BY DEF ResponderInv
<1> QED
  BY <1>1, <1>2, <1>3, ResponderInvariant, PTL DEF Spec

\* A set with no two elements has at most one.
LEMMA AtMostOne ==
  ASSUME NEW S, \A x, y \in S : x = y
  PROVE  /\ Cardinality(S) \in {0, 1}
         /\ S = {} => Cardinality(S) = 0
<1>1. CASE S = {}
  BY <1>1, FS_EmptySet
<1>2. CASE S # {}
  <2>1. PICK x : x \in S
    BY <1>2
  <2>2. S = {x}
    BY <2>1
  <2> QED
    BY <2>2, <1>2, FS_Singleton
<1> QED
  BY <1>1, <1>2

\* The consumer gets no message twice, and none that was also returned to the
\* service: counted over all the places a message can be in, there is one copy.
THEOREM MailIsNotDuplicated == Spec => []NoDuplicates
<1>1. SoleInv => NoDuplicates
  <2> SUFFICES ASSUME SoleInv, NEW tm \in Mail PROVE Copies(tm) <= 1
    BY DEF NoDuplicates
  <2> DEFINE InCache == {c \in Caches : entry[tm[1]] = c /\ tm[2] \in content[c]}
  <2> DEFINE InTaken == {a \in Actors : taken[a] # Nil /\ tm \in taken[a]}
  <2> DEFINE InChan == {n \in Polls : chan[n] \notin {None, Nil} /\ tm \in chan[n]}
  <2> DEFINE InAnswer == {n \in Polls : answer[n] \notin {None, Nil} /\ tm \in answer[n]}
  <2> DEFINE InInbox == {tm} \cap inbox
  <2> DEFINE Received == {tm} \cap received
  <2> DEFINE Returned == {tm} \cap returned
  <2>1. Copies(tm) = Cardinality(InCache) + Cardinality(InTaken) + Cardinality(InChan)
                       + Cardinality(InAnswer) + Cardinality(InInbox)
                       + Cardinality(Received) + Cardinality(Returned)
    BY DEF Copies, Places
  <2>2. \A r, s \in Stations : tm \in MailAt(r) /\ tm \in MailAt(s) => r = s
    BY DEF SoleInv, MailIsSole
  <2>3. \A s \in Stations : tm \in MailAt(s) => InCache = {}
    BY DEF SoleInv, CachedIsSole, Mail
  <2>4. \A a \in InTaken : <<"taken", a>> \in Stations /\ tm \in MailAt(<<"taken", a>>)
    BY MailAtEach
  <2>5. \A n \in InChan : <<"chan", n>> \in Stations /\ tm \in MailAt(<<"chan", n>>)
    BY MailAtEach DEF Letters
  <2>6. \A n \in InAnswer : <<"answer", n>> \in Stations /\ tm \in MailAt(<<"answer", n>>)
    BY MailAtEach DEF Letters
  <2>7. /\ InInbox # {} => <<"inbox", None>> \in Stations /\ tm \in MailAt(<<"inbox", None>>)
        /\ Received # {} =>
             <<"received", None>> \in Stations /\ tm \in MailAt(<<"received", None>>)
        /\ Returned # {} =>
             <<"returned", None>> \in Stations /\ tm \in MailAt(<<"returned", None>>)
    BY MailAtEach
  <2>8. /\ \A x, y \in InCache : x = y
        /\ \A x, y \in InInbox : x = y
        /\ \A x, y \in Received : x = y
        /\ \A x, y \in Returned : x = y
    OBVIOUS
  <2>9. ASSUME NEW x \in InTaken, NEW y \in InTaken PROVE x = y
    <3>1. <<"taken", x>> = <<"taken", y>>
      BY <2>2, <2>4
    <3> QED
      BY <3>1
  <2>10. ASSUME NEW x \in InChan, NEW y \in InChan PROVE x = y
    <3>1. <<"chan", x>> = <<"chan", y>>
      BY <2>2, <2>5
    <3> QED
      BY <3>1
  <2>11. ASSUME NEW x \in InAnswer, NEW y \in InAnswer PROVE x = y
    <3>1. <<"answer", x>> = <<"answer", y>>
      BY <2>2, <2>6
    <3> QED
      BY <3>1
  <2> HIDE DEF InCache, InTaken, InChan, InAnswer, InInbox, Received, Returned
  <2>12. InTaken # {} => /\ InCache = {} /\ InChan = {} /\ InAnswer = {}
                         /\ InInbox = {} /\ Received = {} /\ Returned = {}
    BY <2>2, <2>3, <2>4, <2>5, <2>6, <2>7
  <2>13. InChan # {} => /\ InCache = {} /\ InAnswer = {}
                        /\ InInbox = {} /\ Received = {} /\ Returned = {}
    BY <2>2, <2>3, <2>5, <2>6, <2>7
  <2>14. InAnswer # {} => /\ InCache = {} /\ InInbox = {} /\ Received = {} /\ Returned = {}
    BY <2>2, <2>3, <2>6, <2>7
  <2>15. /\ InInbox # {} => InCache = {} /\ Received = {} /\ Returned = {}
         /\ Received # {} => InCache = {} /\ Returned = {}
         /\ Returned # {} => InCache = {}
    BY <2>2, <2>3, <2>7
  <2>16. \A S \in {InCache, InTaken, InChan, InAnswer, InInbox, Received, Returned} :
           Cardinality(S) \in {0, 1} /\ (S = {} => Cardinality(S) = 0)
    BY <2>8, <2>9, <2>10, <2>11, AtMostOne
  <2> QED
    BY <2>1, <2>12, <2>13, <2>14, <2>15, <2>16
<1> QED
  BY <1>1, SoleInvariant, PTL

-----------------------------------------------------------------------------
(* Delivery, with polls that neither time out nor fail                     *)

\* The steps that touch no poll and no loop, ...
NoPollStep ==
  \/ \E m \in Messages : Append(m) \/ \E t \in Topics : Lookup(m, t)
  \/ \E b \in Beats : Beat(b)
  \/ \E t \in Topics : \/ Subscribe(t) \/ Unsubscribe(t) \/ SubscribeReturns(t)
                       \/ Offline(t) \/ Unsubscribed(t)
  \/ \E tm \in inbox : Dispatch(tm)
  \/ UNCHANGED vars

\* ... and the others, of polls that neither time out nor fail.
PollStep ==
  \/ \E a \in Actors : Respond(a)
  \/ \E n \in Polls : \/ StopPop(n) \/ StopSend(n) \/ Signal(n) \/ Send(n) \/ Park(n)
                      \/ Return(n) \/ Reclaim(n)
  \/ \E l \in Loops, n \in Polls : Poll(l, n) \/ Answered(l, n)
  \/ \E t \in Topics, l \in Loops : StartLoop(t, l)

\* Then a step is one of these: no poll waits for its timeout, and no loop has
\* topics to subscribe again.
LEMMA UndisturbedSteps ==
  ASSUME Undisturbed, PollsAttended, [Next]_vars
  PROVE  NoPollStep \/ PollStep
<1>1. \A n \in Polls : ~TimeOut(n)
  BY DEF TimeOut, PollsAttended, Live
<1>2. \A l \in Loops : ~PollFails(l) /\ ~Renew(l)
  BY DEF PollFails, Renew, Undisturbed, PollsAttended
<1>3. \A l \in Loops, t \in Topics : ~Resubscribe(l, t) /\ ~ResubscribeFails(l, t)
  BY DEF Resubscribe, ResubscribeFails, Undisturbed, PollsAttended
<1>4. ASSUME NEW n \in Polls, Message(n) PROVE PollStep
  BY <1>4, <1>1, Zenon DEF Message, PollStep
<1>5. ASSUME NEW l \in Loops, RunLoop(l) \/ LinkFails(l) PROVE PollStep
  BY <1>5, <1>2, <1>3, Zenon DEF RunLoop, LinkFails, PollStep
<1>6. ASSUME NEW t \in Topics, Finish(t) PROVE NoPollStep \/ PollStep
  BY <1>6, Zenon DEF Finish, NoPollStep, PollStep
<1>7. ASSUME NEW n \in Polls, Reclaim(n) PROVE PollStep
  BY <1>7, Zenon DEF PollStep
<1>8. ASSUME NEW a \in Actors, Respond(a) PROVE PollStep
  BY <1>8, Zenon DEF PollStep
<1>9. CASE Next
  BY <1>4, <1>5, <1>6, <1>7, <1>8, <1>9, Zenon DEF Next, NoPollStep
<1>10. CASE UNCHANGED vars
  BY <1>10, Zenon DEF NoPollStep
<1> QED
  BY <1>9, <1>10

\* subscribe enters the one topic.
LEMMA EnterOne ==
  ASSUME TypeOK, NEW t \in Topics, Enter(t) \/ UNCHANGED <<entry, content>>
  PROVE  \A u \in Topics : u # t \/ entry[u] # None => entry'[u] = entry[u]
<1>1. CASE entry[t] # None \/ UNCHANGED <<entry, content>>
  BY <1>1 DEF Enter
<1>2. CASE entry[t] = None /\ Enter(t)
  <2>1. PICK c \in FreeCaches : entry' = [entry EXCEPT ![t] = c]
    BY <1>2 DEF Enter
  <2> QED
    BY <2>1, <1>2 DEF TypeOK
<1> QED
  BY <1>1, <1>2

\* What an actor can be at while it has a responder.
Responding == {"take", "deliver", "restore", "refuse"}

\* What such a step leaves alone: the polls, whom actors respond to, which
\* heartbeats are new, and the topics that are not subscribed.
PollsUntouched ==
  /\ UNCHANGED <<options, responder, chan, pc, victim, answer, popped, taken, loop, todo>>
  /\ \A a \in Actors : apc'[a] # apc[a] => {apc[a], apc'[a]} \cap Responding = {}
  /\ \A b \in Beats : apc[b] = "idle" => apc'[b] = "idle"
  /\ \A t \in Topics : entry'[t] # None /\ spc'[t] = "idle"
                         => entry[t] # None /\ spc[t] = "idle"

\* A step that touches no poll leaves all of that alone.
LEMMA NoPollTouched ==
  ASSUME TypeOK, NoPollStep
  PROVE  PollsUntouched
<1> USE DEF cacheVars, actorVars, pollVars, signalVars, clientVars
<1>1. ASSUME NEW m \in Messages, Append(m) \/ \E t \in Topics : Lookup(m, t)
      PROVE  PollsUntouched
  BY <1>1, ActorAssumption DEF PollsUntouched, Append, Lookup, Responding, TypeOK, Actors
<1>2. ASSUME NEW a \in Actors, Offline(a) PROVE PollsUntouched
  <2>1. ASSUME NEW t \in Topics, Load(a, t) PROVE PollsUntouched
    BY <2>1 DEF PollsUntouched, Load, Responding, Resume, TypeOK, Actors
  <2>2. CASE Delete(a)
    BY <2>2 DEF PollsUntouched, Delete, Responding, TypeOK, Actors
  <2> QED
    BY <1>2, <2>1, <2>2 DEF Offline
<1>3. ASSUME NEW b \in Beats, StartBeat(b) \/ BeatInTime(b) \/ BeatMissed(b) \/ BeatEnds(b)
      PROVE  PollsUntouched
  BY <1>3 DEF PollsUntouched, StartBeat, BeatInTime, BeatMissed, BeatEnds, Responding,
     TypeOK, Actors
<1>4. ASSUME NEW t \in Topics, Subscribe(t) \/ Unsubscribe(t) \/ Unsubscribed(t)
      PROVE  PollsUntouched
  BY <1>4, ActorAssumption DEF PollsUntouched, Subscribe, Unsubscribe, Unsubscribed,
     Responding, TypeOK, Actors
<1>5. ASSUME NEW t \in Topics, SubscribeReturns(t) PROVE PollsUntouched
  <2>1. \A u \in Topics : u # t \/ entry[u] # None => entry'[u] = entry[u]
    BY <1>5, EnterOne DEF SubscribeReturns
  <2> QED
    BY <1>5, <2>1 DEF PollsUntouched, SubscribeReturns, TypeOK
<1>6. ASSUME NEW tm \in inbox, Dispatch(tm) PROVE PollsUntouched
  BY <1>6 DEF PollsUntouched, Dispatch
<1>7. CASE UNCHANGED vars
  BY <1>7 DEF PollsUntouched, vars
<1>8. ASSUME NEW b \in Beats, Beat(b) PROVE PollsUntouched
  BY <1>2, <1>3, <1>8, Zenon DEF Beat, Actors
<1>9. ASSUME NEW t \in Topics, Offline(t) PROVE PollsUntouched
  BY <1>2, <1>9, Zenon DEF Actors
<1> QED
  BY <1>1, <1>4, <1>5, <1>6, <1>7, <1>8, <1>9, Zenon DEF NoPollStep

\* What AttendedInv says of the polls, with ResponderInv.
PollsInOrder ==
  /\ TypeOK /\ OneOwner /\ OwnedArePolling /\ ResponderFree /\ Undisturbed
  /\ PollsAttended /\ OwnedAreWaiting /\ BeatsAreNew /\ NothingOverwritten

\* A loop starts to wait when it polls, and stops when it is answered.
LEMMA StayAttended ==
  ASSUME PollsInOrder, NoPollStep \/ PollStep
  PROVE  PollsAttended'
<1> USE NoneAssumption, PollsAssumption
<1> USE DEF TypeOK, PollsAttended, Live, cacheVars, actorVars, pollVars, signalVars, clientVars
<1>0. TypeOK /\ Undisturbed /\ PollsAttended /\ OwnedAreWaiting /\ NothingOverwritten
  BY DEF PollsInOrder
<1>1. CASE NoPollStep
  BY <1>1, <1>0, NoPollTouched DEF PollsUntouched
<1>2. ASSUME NEW a \in Actors, Respond(a) PROVE PollsAttended'
  BY <1>2, <1>0 DEF Respond, Pop, Take, Deliver, Restore, Refuse
<1>3. ASSUME NEW n \in Polls, StopPop(n) \/ StopSend(n) \/ Signal(n) \/ Send(n)
      PROVE  PollsAttended'
  BY <1>3, <1>0 DEF StopPop, StopSend, Signal, Send
<1>4. ASSUME NEW n \in Polls, Park(n) PROVE PollsAttended'
  BY <1>4, <1>0 DEF Park, Undisturbed
<1>5. ASSUME NEW n \in Polls, Return(n) PROVE PollsAttended'
  BY <1>5, <1>0 DEF Return
<1>6. ASSUME NEW n \in Polls, Reclaim(n) PROVE PollsAttended'
  BY <1>6, <1>0 DEF Reclaim
<1>7. ASSUME NEW l \in Loops, NEW n \in Polls, Poll(l, n) PROVE PollsAttended'
  BY <1>7, <1>0 DEF Poll
<1>8. ASSUME NEW l \in Loops, NEW n \in Polls, Answered(l, n) PROVE PollsAttended'
  BY <1>8, <1>0 DEF Answered, NothingOverwritten
<1>9. ASSUME NEW t \in Topics, NEW l \in Loops, StartLoop(t, l) PROVE PollsAttended'
  BY <1>9, <1>0 DEF StartLoop
<1> QED
  BY <1>1, <1>2, <1>3, <1>4, <1>5, <1>6, <1>7, <1>8, <1>9, Zenon DEF PollStep

\* Whose responder is put anywhere has just parked, or is put back.
LEMMA OwnedStayWaiting ==
  ASSUME PollsInOrder, NoPollStep \/ PollStep
  PROVE  OwnedAreWaiting'
<1> USE NoneAssumption
<1> USE DEF TypeOK, OwnedAreWaiting, cacheVars, actorVars, pollVars, signalVars, clientVars
<1>0. /\ TypeOK /\ OneOwner /\ ResponderFree /\ Undisturbed
      /\ OwnedAreWaiting /\ NothingOverwritten
  BY DEF PollsInOrder
<1>1. CASE NoPollStep
  BY <1>1, <1>0, NoPollTouched DEF PollsUntouched
<1>2. ASSUME NEW a \in Actors, Respond(a) PROVE OwnedAreWaiting'
  BY <1>2, <1>0 DEF Respond, Pop, AfterPop, Take, Deliver, Restore, Absent, Refuse,
     NothingOverwritten
<1>3. ASSUME NEW n \in Polls, StopPop(n) \/ StopSend(n) \/ Signal(n) \/ Send(n)
      PROVE  OwnedAreWaiting'
  BY <1>3, <1>0 DEF StopPop, AfterPop, Replaces, StopSend, Signal, Send
<1>4. ASSUME NEW n \in Polls, Park(n) PROVE OwnedAreWaiting'
  BY <1>4, <1>0 DEF Park, Replaces, Undisturbed
<1>5. ASSUME NEW n \in Polls, Return(n) PROVE OwnedAreWaiting'
  BY <1>5, <1>0 DEF Return, ResponderFree
<1>6. ASSUME NEW n \in Polls, Reclaim(n) PROVE OwnedAreWaiting'
  BY <1>6, <1>0 DEF Reclaim
<1>7. ASSUME NEW l \in Loops, NEW n \in Polls, Poll(l, n) \/ Answered(l, n)
      PROVE  OwnedAreWaiting'
  BY <1>7, <1>0 DEF Poll, Answered
<1>8. ASSUME NEW t \in Topics, NEW l \in Loops, StartLoop(t, l) PROVE OwnedAreWaiting'
  BY <1>8, <1>0 DEF StartLoop
<1> QED
  BY <1>1, <1>2, <1>3, <1>4, <1>5, <1>6, <1>7, <1>8, Zenon DEF PollStep

\* A heartbeat starts for a poll whose responder is sent on, and nobody has it
\* any more.
LEMMA BeatsStayNew ==
  ASSUME PollsInOrder, NoPollStep \/ PollStep
  PROVE  BeatsAreNew'
<1> USE NoneAssumption, ActorAssumption
<1> USE DEF TypeOK, BeatsAreNew, Owned, NotYetParked, Beats, Actors,
            cacheVars, actorVars, pollVars, signalVars, clientVars
<1>0. /\ TypeOK /\ OneOwner /\ OwnedArePolling
      /\ BeatsAreNew /\ NothingOverwritten
  BY DEF PollsInOrder
<1>1. CASE NoPollStep
  <2>1. PollsUntouched
    BY <1>1, <1>0, NoPollTouched
  <2> QED
    BY <2>1, <1>0 DEF PollsUntouched
<1>2. ASSUME NEW a \in Actors, Pop(a) \/ Take(a) \/ Restore(a) \/ Refuse(a)
      PROVE  BeatsAreNew'
  <2>1. /\ apc[a] # "idle" /\ \A b \in Actors : b # a => apc'[b] = apc[b]
        /\ \A n \in Polls : Owned(n)' => Owned(n)
        /\ UNCHANGED pc
    BY <1>2, <1>0 DEF Pop, AfterPop, Take, Restore, Absent, Refuse
  <2> QED
    BY <2>1, <1>0, SMTT(20)
<1>3. ASSUME NEW a \in Actors, Deliver(a) PROVE BeatsAreNew'
  <2>1. PICK n \in Polls : n = popped[a]
    BY <1>3, <1>0 DEF Deliver, NothingOverwritten
  <2>2. /\ \A m \in Polls : Owned(m)' => Owned(m) /\ m # n
        /\ pc[n] \notin NotYetParked
        /\ UNCHANGED pc
    BY <1>3, <2>1, <1>0 DEF Deliver, OneOwner, OwnedArePolling
  <2>3. /\ apc[a] # "idle"
        /\ \A b \in Actors : b # a /\ b # <<n, "sent">> => apc'[b] = apc[b]
    BY <1>3, <2>1, <1>0 DEF Deliver, Started
  <2>4. ASSUME NEW m \in Polls, pc'[m] \in NotYetParked \/ Owned(m)'
        PROVE  apc'[<<m, "sent">>] = "idle"
    <3>1. m # n /\ (pc[m] \in NotYetParked \/ Owned(m))
      BY <2>2, <2>4
    <3>2. apc[<<m, "sent">>] = "idle" /\ <<m, "sent">> \in Actors
      BY <3>1, <1>0
    <3>3. <<m, "sent">> # <<n, "sent">> /\ <<m, "sent">> # a
      BY <3>1, <3>2, <2>3
    <3> QED
      BY <3>2, <3>3, <2>3
  <2> QED
    BY <2>4
<1>4. ASSUME NEW n \in Polls, StopPop(n) \/ StopSend(n) \/ Signal(n) \/ Park(n)
      PROVE  BeatsAreNew'
  <2>1. /\ UNCHANGED apc
        /\ \A m \in Polls : Owned(m)' => Owned(m) \/ pc[m] \in NotYetParked
        /\ \A m \in Polls : pc'[m] \in NotYetParked => pc[m] \in NotYetParked
    BY <1>4, <1>0 DEF StopPop, AfterPop, Replaces, StopSend, Signal, Park
  <2> QED
    BY <2>1, <1>0
<1>5. ASSUME NEW n \in Polls, Send(n) PROVE BeatsAreNew'
  <2>1. /\ pc[n] = "send" /\ ~Owned(n)' /\ \A m \in Polls : Owned(m)' => Owned(m)
        /\ \A m \in Polls : m # n => pc'[m] = pc[m]
    BY <1>5, <1>0 DEF Send, OwnedArePolling
  <2>2. /\ \A b \in Actors : b # <<n, "sent">> => apc'[b] = apc[b]
        /\ pc'[n] = "park" => apc' = apc
        /\ pc'[n] \in {"park", "await"}
    BY <1>5, <1>0 DEF Send, Started
  <2>3. ASSUME NEW m \in Polls, m # n, pc'[m] \in NotYetParked \/ Owned(m)'
        PROVE  apc'[<<m, "sent">>] = "idle"
    <3>1. apc[<<m, "sent">>] = "idle" /\ <<m, "sent">> \in Actors
      BY <2>1, <2>3, <1>0
    <3>2. <<m, "sent">> # <<n, "sent">>
      BY <2>3
    <3> QED
      BY <3>1, <3>2, <2>2
  <2>4. pc'[n] \in NotYetParked => apc'[<<n, "sent">>] = "idle"
    BY <2>1, <2>2, <1>0
  <2> QED
    BY <2>1, <2>3, <2>4
<1>6. ASSUME NEW n \in Polls, Return(n) PROVE BeatsAreNew'
  BY <1>6, <1>0 DEF Return
<1>7. ASSUME NEW n \in Polls, Reclaim(n) PROVE BeatsAreNew'
  BY <1>7, <1>0 DEF Reclaim
<1>8. ASSUME NEW l \in Loops, NEW n \in Polls, Poll(l, n) \/ Answered(l, n)
      PROVE  BeatsAreNew'
  BY <1>8, <1>0 DEF Poll, Answered
<1>9. ASSUME NEW t \in Topics, NEW l \in Loops, StartLoop(t, l) PROVE BeatsAreNew'
  BY <1>9, <1>0 DEF StartLoop
<1>10. ASSUME NEW a \in Actors, Respond(a) PROVE BeatsAreNew'
  BY <1>10, <1>2, <1>3, Zenon DEF Respond
<1> QED
  BY <1>1, <1>4, <1>5, <1>6, <1>7, <1>8, <1>9, <1>10, Zenon DEF PollStep

\* An actor has a responder while it responds, and mail only when it delivers.
LEMMA NothingStaysOverwritten ==
  ASSUME PollsInOrder, NoPollStep \/ PollStep
  PROVE  NothingOverwritten'
<1> USE NoneAssumption, ActorAssumption
<1> USE DEF TypeOK, NothingOverwritten, Beats, Actors,
            cacheVars, actorVars, pollVars, signalVars, clientVars
<1>0. /\ TypeOK /\ OwnedAreWaiting /\ BeatsAreNew /\ NothingOverwritten
  BY DEF PollsInOrder
<1>1. CASE NoPollStep
  <2>1. PollsUntouched
    BY <1>1, <1>0, NoPollTouched
  <2>2. /\ \A a \in Actors : apc'[a] \in Responding <=> apc[a] \in Responding
        /\ \A a \in Actors : apc[a] = "deliver" => apc'[a] = "deliver"
        /\ popped' = popped /\ taken' = taken /\ answer' = answer /\ pc' = pc
    BY <2>1, Zenon DEF PollsUntouched, Responding
  <2> HIDE DEF TypeOK
  <2> QED
    BY <2>2, <1>0 DEF Responding
<1>2. ASSUME NEW a \in Actors, Pop(a) \/ Take(a) \/ Restore(a) \/ Refuse(a)
      PROVE  NothingOverwritten'
  BY <1>2, <1>0, SMTT(20) DEF Pop, AfterPop, Take, Restore, Absent, Refuse, Resume
<1>3. ASSUME NEW a \in Actors, Deliver(a) PROVE NothingOverwritten'
  <2>1. PICK n \in Polls : n = popped[a]
    BY <1>3, <1>0 DEF Deliver
  <2>2. apc[<<n, "sent">>] = "idle" /\ <<n, "sent">> # a
    BY <1>3, <2>1, <1>0 DEF BeatsAreNew, Owned, Deliver
  <2>3. /\ popped' = [popped EXCEPT ![a] = None] /\ taken' = [taken EXCEPT ![a] = {}]
        /\ apc'[a] = Resume(a)
        /\ apc'[<<n, "sent">>] \in {"idle", "start", "done"}
        /\ \A b \in Actors : b # a /\ b # <<n, "sent">> => apc'[b] = apc[b]
        /\ UNCHANGED <<answer, pc>>
    BY <1>3, <2>1, <2>2, <1>0 DEF Deliver, Started
  <2>4. /\ \A b \in Actors : b # a => popped'[b] = popped[b] /\ taken'[b] = taken[b]
        /\ popped'[a] = None /\ taken'[a] = {}
    BY <2>3, <1>0
  <2>5. \A b \in Actors : b # a => (apc'[b] \in Responding <=> apc[b] \in Responding)
                                 /\ (apc[b] = "deliver" => apc'[b] = "deliver")
    BY <2>2, <2>3 DEF Responding
  <2>6. apc'[a] \notin Responding
    BY <2>3 DEF Resume, Responding
  <2> HIDE DEF TypeOK
  <2> QED
    BY <2>3, <2>4, <2>5, <2>6, <1>0 DEF Responding
<1>4. ASSUME NEW n \in Polls, StopPop(n) \/ StopSend(n) \/ Signal(n) \/ Park(n)
      PROVE  NothingOverwritten'
  BY <1>4, <1>0 DEF StopPop, StopSend, Signal, Park
<1>5. ASSUME NEW n \in Polls, Send(n) PROVE NothingOverwritten'
  <2>1. apc[<<n, "sent">>] = "idle"
    BY <1>5, <1>0 DEF BeatsAreNew, NotYetParked, Send
  <2>2. /\ pc[n] = "send" /\ UNCHANGED <<popped, taken, answer>>
        /\ apc'[<<n, "sent">>] \in {"idle", "start", "done"}
        /\ \A b \in Actors : b # <<n, "sent">> => apc'[b] = apc[b]
        /\ \A m \in Polls : m # n => pc'[m] = pc[m]
    BY <1>5, <2>1, <1>0 DEF Send, Started
  <2>3. ASSUME NEW a \in Actors
        PROVE  /\ apc'[a] \in {"take", "deliver", "restore", "refuse"} <=> popped'[a] # None
               /\ apc'[a] # "deliver" => taken'[a] = {}
    <3>1. CASE a = <<n, "sent">>
      BY <2>1, <2>2, <3>1, <1>0
    <3>2. CASE a # <<n, "sent">>
      BY <2>2, <3>2, <1>0
    <3> QED
      BY <3>1, <3>2
  <2>4. \A m \in Polls : answer'[m] # None => pc'[m] = "done"
    BY <2>2, <1>0
  <2> QED
    BY <2>3, <2>4
<1>6. ASSUME NEW n \in Polls, Return(n) PROVE NothingOverwritten'
  BY <1>6, <1>0 DEF Return
<1>7. ASSUME NEW n \in Polls, Reclaim(n) PROVE NothingOverwritten'
  <2>1. ASSUME NEW a \in Actors
        PROVE  apc'[a] = apc[a] \/ (apc[a] \in {"idle", "done"} /\ apc'[a] = "idle")
    <3>1. apc'[a] = IF a \in {n} \X {"sent", "timeout"} THEN "idle" ELSE apc[a]
      BY <1>7 DEF Reclaim
    <3>2. ASSUME a \in {n} \X {"sent", "timeout"} PROVE apc[a] \in {"idle", "done"}
      <4>1. PICK k \in {"sent", "timeout"} : a = <<n, k>>
        BY <3>2
      <4> QED
        BY <4>1, <1>7 DEF Reclaim
    <3> QED
      BY <3>1, <3>2
  <2>2. /\ UNCHANGED <<popped, taken>>
        /\ \A m \in Polls : answer'[m] # None => answer[m] # None /\ pc'[m] = pc[m]
    BY <1>7, <1>0 DEF Reclaim
  <2>3. ASSUME NEW a \in Actors
        PROVE  /\ apc'[a] \in {"take", "deliver", "restore", "refuse"} <=> popped'[a] # None
               /\ apc'[a] # "deliver" => taken'[a] = {}
    <3>1. apc'[a] = apc[a] \/ (apc[a] \in {"idle", "done"} /\ apc'[a] = "idle")
      BY <2>1
    <3>2. /\ apc[a] \in {"take", "deliver", "restore", "refuse"} <=> popped[a] # None
          /\ apc[a] # "deliver" => taken[a] = {}
      BY <1>0
    <3> QED
      BY <2>2, <3>1, <3>2
  <2>4. \A m \in Polls : answer'[m] # None => pc'[m] = "done"
    BY <2>2, <1>0
  <2> QED
    BY <2>3, <2>4
<1>8. ASSUME NEW l \in Loops, NEW n \in Polls, Poll(l, n) \/ Answered(l, n)
      PROVE  NothingOverwritten'
  BY <1>8, <1>0 DEF Poll, Answered
<1>9. ASSUME NEW t \in Topics, NEW l \in Loops, StartLoop(t, l) PROVE NothingOverwritten'
  BY <1>9, <1>0 DEF StartLoop
<1>10. ASSUME NEW a \in Actors, Respond(a) PROVE NothingOverwritten'
  BY <1>10, <1>2, <1>3, Zenon DEF Respond
<1> QED
  BY <1>1, <1>4, <1>5, <1>6, <1>7, <1>8, <1>9, <1>10, Zenon DEF PollStep

\* The options are those of the behaviour.
LEMMA OptionsStay == [Next]_vars => UNCHANGED options
<1> SUFFICES ASSUME [Next]_vars PROVE UNCHANGED options
  OBVIOUS
<1>1. ASSUME NEW a \in Actors, Respond(a) \/ Offline(a) PROVE UNCHANGED options
  BY <1>1 DEF Respond, Pop, Take, Deliver, Restore, Refuse, Offline, Load, Delete
<1>2. ASSUME NEW b \in Beats, Beat(b) PROVE UNCHANGED options
  BY <1>1, <1>2 DEF Beat, StartBeat, BeatInTime, BeatMissed, BeatEnds, Actors
<1>3. ASSUME NEW n \in Polls, Message(n) \/ Reclaim(n) PROVE UNCHANGED options
  BY <1>3 DEF Message, StopPop, StopSend, Signal, Send, Park, Return, TimeOut, Reclaim
<1>4. ASSUME NEW t \in Topics, Finish(t) PROVE UNCHANGED options
  BY <1>1, <1>4 DEF Finish, SubscribeReturns, Unsubscribed, StartLoop, Actors
<1>5. ASSUME NEW l \in Loops, RunLoop(l) \/ LinkFails(l) PROVE UNCHANGED options
  BY <1>5 DEF RunLoop, Renew, Resubscribe, Poll, Answered, LinkFails, PollFails,
     ResubscribeFails
<1>6. ASSUME NEW m \in Messages, Append(m) \/ \E t \in Topics : Lookup(m, t)
      PROVE  UNCHANGED options
  BY <1>6 DEF Append, Lookup
<1>7. ASSUME NEW t \in Topics, Subscribe(t) \/ Unsubscribe(t) PROVE UNCHANGED options
  BY <1>7 DEF Subscribe, Unsubscribe
<1>8. ASSUME NEW tm \in inbox, Dispatch(tm) PROVE UNCHANGED options
  BY <1>8 DEF Dispatch
<1>9. CASE UNCHANGED vars
  BY <1>9 DEF vars
<1> QED
  BY <1>1, <1>2, <1>3, <1>4, <1>5, <1>6, <1>7, <1>8, <1>9, Zenon DEF Next

\* The loop of a poll that nobody has yet, and of one that has just parked, will
\* go on: so a poll that ends another, or makes an actor end another, is sound.
LEMMA SoundLoopStays ==
  ASSUME PollsInOrder, SoundLoop, NoPollStep \/ PollStep
  PROVE  SoundLoop'
<1> USE NoneAssumption, PollsAssumption
<1> USE DEF cacheVars, actorVars, pollVars, signalVars, clientVars
<1>0. /\ TypeOK /\ OneOwner /\ ResponderFree /\ Undisturbed
      /\ PollsAttended /\ OwnedAreWaiting /\ NothingOverwritten
  BY DEF PollsInOrder
<1> DEFINE Active == \E t \in Topics : entry[t] # None /\ spc[t] = "idle"
<1>a. SoundLoop <=> (Active => \E l \in Loops : Sound(l))
  BY DEF SoundLoop, Subscribed
<1>b. SoundLoop' <=> (Active' => \E l \in Loops : Sound(l)')
  BY DEF SoundLoop, Subscribed
<1> HIDE DEF Active
<1>c. \A S \in SUBSET Mail : S # Nil
  BY NilAssumption DEF Mail
<1>d. {} # Nil /\ Pending # Nil
  BY <1>c DEF Pending
<1>e. \A l \in Loops : (\A n \in Polls : loop[l] # n) /\ Sound(l) => loop[l] = "poll"
  BY DEF Sound
<1>1. CASE NoPollStep
  <2>1. PollsUntouched
    BY <1>1, <1>0, NoPollTouched
  <2>2. Active' => Active
    BY <2>1 DEF PollsUntouched, Active
  <2>3. /\ \A b \in Actors : apc'[b] = "refuse" => apc[b] = "refuse"
        /\ UNCHANGED <<loop, chan, answer, victim, popped, taken>>
    BY <2>1 DEF PollsUntouched, Responding
  <2>4. \A l \in Loops : Sound(l) => Sound(l)'
    BY <2>3 DEF Sound
  <2> QED
    BY <1>a, <1>b, <2>2, <2>4
<1>2. ASSUME NEW a \in Actors, Pop(a) PROVE SoundLoop'
  <2>1. /\ popped' = [popped EXCEPT ![a] = responder] /\ apc'[a] # "refuse"
        /\ taken[a] = {} /\ \A b \in Actors : b # a => apc'[b] = apc[b]
        /\ UNCHANGED <<loop, chan, answer, victim, taken, entry, spc>>
    BY <1>2, <1>0 DEF Pop, Resume, TypeOK, NothingOverwritten
  <2>2. \A l \in Loops : Sound(l) => Sound(l)'
    BY <2>1, <1>0, <1>d DEF Sound, TypeOK
  <2> QED
    BY <1>a, <1>b, <2>1, <2>2 DEF Active
<1>3. ASSUME NEW a \in Actors, Take(a) PROVE SoundLoop'
  <2>1. /\ taken' = [taken EXCEPT ![a] = IF Subscribed = {} THEN Nil ELSE Pending]
        /\ apc'[a] # "refuse" /\ \A b \in Actors : b # a => apc'[b] = apc[b]
        /\ UNCHANGED <<loop, chan, answer, victim, popped, entry, spc>>
    BY <1>3, <1>0 DEF Take, TypeOK
  <2>2. Active => Subscribed # {}
    BY DEF Active, Subscribed
  <2>3. \A l \in Loops : Sound(l) /\ Subscribed # {} => Sound(l)'
    BY <2>1, <1>0, <1>d DEF Sound, TypeOK
  <2> QED
    BY <1>a, <1>b, <2>1, <2>2, <2>3 DEF Active
<1>4. ASSUME NEW a \in Actors, Deliver(a) PROVE SoundLoop'
  <2>1. PICK n \in Polls : n = popped[a]
    BY <1>4, <1>0 DEF Deliver, NothingOverwritten, TypeOK
  <2>2. /\ chan' = [chan EXCEPT ![n] = taken[a]]
        /\ popped' = [popped EXCEPT ![a] = None] /\ taken' = [taken EXCEPT ![a] = {}]
        /\ \A b \in Actors : apc'[b] = "refuse" => apc[b] = "refuse"
        /\ UNCHANGED <<loop, answer, victim, entry, spc>>
    BY <1>4, <2>1, <1>0 DEF Deliver, Resume, Started, TypeOK
  <2>3. ASSUME NEW l \in Loops, Sound(l) PROVE Sound(l)'
    <3>1. CASE loop[l] = "poll"
      BY <2>2, <3>1 DEF Sound
    <3>2. CASE loop[l] # "poll"
      <4>1. PICK m \in Polls :
              /\ loop[l] = m /\ chan[m] # Nil /\ answer[m] # Nil
              /\ \A k \in Polls : victim[k] # m
              /\ \A b \in Actors : popped[b] = m => apc[b] # "refuse" /\ taken[b] # Nil
        BY <2>3, <3>2 DEF Sound
      <4>2. chan'[m] # Nil
        BY <2>1, <2>2, <4>1, <1>0 DEF TypeOK
      <4>3. \A b \in Actors : popped'[b] = m => apc'[b] # "refuse" /\ taken'[b] # Nil
        BY <2>2, <4>1, <1>0, <1>d DEF TypeOK
      <4> QED
        BY <2>2, <4>1, <4>2, <4>3 DEF Sound
    <3> QED
      BY <3>1, <3>2
  <2> QED
    BY <1>a, <1>b, <2>2, <2>3 DEF Active
<1>5. ASSUME NEW a \in Actors, Restore(a) PROVE SoundLoop'
  <2>1. CASE responder = None
    <3>1. /\ popped' = [popped EXCEPT ![a] = None]
          /\ \A b \in Actors : apc'[b] = "refuse" => apc[b] = "refuse"
          /\ UNCHANGED <<loop, chan, answer, victim, taken, entry, spc>>
      BY <1>5, <2>1, <1>0 DEF Restore, Absent, Resume, TypeOK
    <3>2. \A l \in Loops : Sound(l) => Sound(l)'
      BY <3>1, <1>0 DEF Sound, TypeOK
    <3> QED
      BY <1>a, <1>b, <3>1, <3>2 DEF Active
  <2>2. CASE responder # None
    <3>1. /\ responder \in Polls /\ chan[responder] = None /\ pc[responder] = "await"
          /\ answer[responder] = None
          /\ \A m \in Polls : victim[m] # responder
          /\ \A b \in Actors : popped[b] # responder
      BY <2>2, <1>0 DEF OneOwner, ResponderFree, OwnedAreWaiting, NothingOverwritten, TypeOK
    <3>2. PICK l \in Loops : loop[l] = responder
      BY <3>1, <1>0 DEF PollsAttended, Live
    <3>3. UNCHANGED <<loop, chan, answer, victim, popped>>
      BY <1>5, <2>2 DEF Restore, Absent
    <3>4. Sound(l)'
      BY <3>1, <3>2, <3>3 DEF Sound
    <3> QED
      BY <1>b, <3>4
  <2> QED
    BY <2>1, <2>2
<1>6. ASSUME NEW a \in Actors, Refuse(a) PROVE SoundLoop'
  <2>1. PICK n \in Polls : n = popped[a]
    BY <1>6, <1>0 DEF Refuse, NothingOverwritten, TypeOK
  <2>2. /\ chan' = [chan EXCEPT ![n] = Nil] /\ apc[a] = "refuse"
        /\ popped' = [popped EXCEPT ![a] = None]
        /\ \A b \in Actors : apc'[b] = "refuse" => apc[b] = "refuse"
        /\ UNCHANGED <<loop, answer, victim, taken, entry, spc>>
    BY <1>6, <2>1, <1>0 DEF Refuse, Resume, TypeOK
  <2>3. \A l \in Loops : Sound(l) => Sound(l)'
    BY <2>1, <2>2, <1>0 DEF Sound, TypeOK
  <2> QED
    BY <1>a, <1>b, <2>2, <2>3 DEF Active
<1>7. ASSUME NEW n \in Polls, StopPop(n) \/ Park(n) PROVE SoundLoop'
  <2>1. /\ pc[n] \in {"called", "park"} /\ chan[n] = None /\ answer[n] = None
        /\ responder # n /\ \A m \in Polls : victim[m] # n
        /\ \A a \in Actors : popped[a] # n
    BY <1>7, <1>0 DEF StopPop, Park, OwnedAreWaiting, NothingOverwritten
  <2>2. PICK l \in Loops : loop[l] = n
    BY <2>1, <1>0 DEF PollsAttended, Live
  <2>3. /\ chan'[n] = None /\ \A m \in Polls : victim'[m] # n
        /\ UNCHANGED <<loop, answer, popped>>
    BY <1>7, <2>1, <1>0 DEF StopPop, Replaces, Park, TypeOK
  <2>4. Sound(l)'
    BY <2>1, <2>2, <2>3 DEF Sound
  <2> QED
    BY <1>b, <2>4
<1>8. ASSUME NEW n \in Polls, StopSend(n) PROVE SoundLoop'
  <2>1. /\ chan' = [chan EXCEPT ![victim[n]] = Nil] /\ victim' = [victim EXCEPT ![n] = None]
        /\ UNCHANGED <<loop, answer, popped, apc, taken, entry, spc>>
    BY <1>8 DEF StopSend
  <2>2. \A l \in Loops : Sound(l) => Sound(l)'
    BY <2>1, <1>0 DEF Sound, TypeOK
  <2> QED
    BY <1>a, <1>b, <2>1, <2>2 DEF Active
<1>9. ASSUME NEW n \in Polls, Signal(n) PROVE SoundLoop'
  <2>1. UNCHANGED <<loop, chan, answer, victim, popped, apc, taken, entry, spc>>
    BY <1>9 DEF Signal
  <2>2. \A l \in Loops : Sound(l) => Sound(l)'
    BY <2>1 DEF Sound
  <2> QED
    BY <1>a, <1>b, <2>1, <2>2 DEF Active
<1>10. ASSUME NEW n \in Polls, Send(n) PROVE SoundLoop'
  <2>1. /\ \A m \in Polls : m # n => chan'[m] = chan[m]
        /\ Subscribed # {} => chan'[n] \in {Pending, None}
        /\ \A b \in Actors : apc'[b] = "refuse" => apc[b] = "refuse"
        /\ UNCHANGED <<loop, answer, victim, popped, taken, entry, spc>>
    BY <1>10, <1>0 DEF Send, Started, TypeOK
  <2>2. Active => Subscribed # {}
    BY DEF Active, Subscribed
  <2>3. \A l \in Loops : Sound(l) /\ Subscribed # {} => Sound(l)'
    BY <2>1, <1>0, <1>d DEF Sound, TypeOK
  <2> QED
    BY <1>a, <1>b, <2>1, <2>2, <2>3 DEF Active
<1>11. ASSUME NEW n \in Polls, Return(n) PROVE SoundLoop'
  <2>1. /\ chan' = [chan EXCEPT ![n] = None] /\ answer' = [answer EXCEPT ![n] = chan[n]]
        /\ UNCHANGED <<loop, victim, popped, apc, taken, entry, spc>>
    BY <1>11 DEF Return
  <2>2. \A l \in Loops : Sound(l) => Sound(l)'
    BY <2>1, <1>0 DEF Sound, TypeOK
  <2> QED
    BY <1>a, <1>b, <2>1, <2>2 DEF Active
<1>12. ASSUME NEW n \in Polls, Reclaim(n) PROVE SoundLoop'
  <2>1. /\ chan' = [chan EXCEPT ![n] = None] /\ answer' = [answer EXCEPT ![n] = None]
        /\ \A b \in Actors : apc'[b] = "refuse" => apc[b] = "refuse"
        /\ UNCHANGED <<loop, victim, popped, taken, entry, spc>>
    BY <1>12 DEF Reclaim
  <2>2. \A l \in Loops : Sound(l) => Sound(l)'
    BY <2>1, <1>0 DEF Sound, TypeOK
  <2> QED
    BY <1>a, <1>b, <2>1, <2>2 DEF Active
<1>13. ASSUME NEW l \in Loops, NEW n \in Polls, Poll(l, n) PROVE SoundLoop'
  <2>1. /\ pc[n] = "free" /\ loop' = [loop EXCEPT ![l] = n]
        /\ UNCHANGED <<chan, answer, victim, popped, apc, taken, entry, spc>>
    BY <1>13 DEF Poll
  <2>2. /\ chan[n] = None /\ answer[n] = None /\ \A m \in Polls : victim[m] # n
        /\ \A a \in Actors : popped[a] # n
    BY <2>1, <1>0 DEF OwnedAreWaiting, NothingOverwritten
  <2>3. Sound(l)'
    BY <2>1, <2>2, <1>0 DEF Sound, TypeOK
  <2> QED
    BY <1>b, <2>3
<1>14. ASSUME NEW l \in Loops, NEW n \in Polls, Answered(l, n) PROVE SoundLoop'
  <2>1. /\ answer' = [answer EXCEPT ![n] = None] /\ loop[l] = n
        /\ loop' = [loop EXCEPT ![l] = IF answer[n] = Nil THEN "off" ELSE "poll"]
        /\ UNCHANGED <<chan, victim, popped, apc, taken, entry, spc>>
    BY <1>14 DEF Answered
  <2>2. \A k \in Loops : Sound(k) => Sound(k)'
    BY <2>1, <1>0 DEF Sound, TypeOK
  <2> QED
    BY <1>a, <1>b, <2>1, <2>2 DEF Active
<1>15. ASSUME NEW t \in Topics, NEW l \in Loops, StartLoop(t, l) PROVE SoundLoop'
  <2>1. Sound(l)'
    BY <1>15, <1>0 DEF StartLoop, Sound, TypeOK
  <2> QED
    BY <1>b, <2>1
<1>16. ASSUME NEW a \in Actors, Respond(a) PROVE SoundLoop'
  BY <1>16, <1>2, <1>3, <1>4, <1>5, <1>6, Zenon DEF Respond
<1> QED
  BY <1>1, <1>7, <1>8, <1>9, <1>10, <1>11, <1>12, <1>13, <1>14, <1>15, <1>16, Zenon
     DEF PollStep

\* AttendedInv is an invariant of the broker.
THEOREM AttendedInvariant == Spec => []AttendedInv
<1>1. Init => AttendedInv
  <2> SUFFICES ASSUME Init
               PROVE  PollsAttended /\ OwnedAreWaiting /\ BeatsAreNew /\ NothingOverwritten
                      /\ SoundLoop
    BY DEF AttendedInv
  <2> USE NoneAssumption, PollsAssumption
  <2>1. PollsAttended /\ OwnedAreWaiting /\ NothingOverwritten
    BY DEF Init, PollsAttended, Live, OwnedAreWaiting, NothingOverwritten
  <2>2. BeatsAreNew
    BY DEF Init, BeatsAreNew, Actors, Beats
  <2>3. SoundLoop
    BY DEF Init, SoundLoop, Subscribed
  <2> QED
    BY <2>1, <2>2, <2>3
<1>2. ResponderInv /\ AttendedInv /\ [Next]_vars => AttendedInv'
  <2> SUFFICES ASSUME ResponderInv, AttendedInv, [Next]_vars, Undisturbed'
               PROVE  (PollsAttended /\ OwnedAreWaiting /\ BeatsAreNew /\ NothingOverwritten
                       /\ SoundLoop)'
    BY DEF AttendedInv
  <2>1. Undisturbed
    BY OptionsStay DEF Undisturbed, Timeout, Unreliable
  <2>2. PollsInOrder /\ SoundLoop
    BY <2>1 DEF AttendedInv, ResponderInv, PollsInOrder
  <2>3. NoPollStep \/ PollStep
    BY <2>2, UndisturbedSteps DEF PollsInOrder
  <2> QED
    BY <2>2, <2>3, StayAttended, OwnedStayWaiting, BeatsStayNew, NothingStaysOverwritten,
       SoundLoopStays
<1> QED
  BY <1>1, <1>2, ResponderInvariant, PTL DEF Spec

\* With polls that neither time out nor fail, a consumer that is subscribed has a
\* goroutine that polls, whatever it subscribes and unsubscribes, and whatever
\* heartbeats and other polls do to its responders.
THEOREM SubscribedStaysAlive == Spec => [](Undisturbed => LoopAlive)
<1>1. AttendedInv => (Undisturbed => LoopAlive)
  BY NoneAssumption, PollsAssumption DEF AttendedInv, SoundLoop, Sound, LoopAlive
<1> QED
  BY <1>1, AttendedInvariant, PTL

-------------------------------------------------------------------------------
(* No message is lost *)

\* The steps while nobody takes a topic away: no heartbeat has anything to do,
\* no topic is unsubscribed, and only pushes respond.
KeptStep ==
  \/ \E m \in Messages : Append(m) \/ Respond(m) \/ \E t \in Topics : Lookup(m, t)
  \/ \E t \in Topics : Subscribe(t) \/ SubscribeReturns(t)
  \/ \E tm \in inbox : Dispatch(tm)
  \/ \E n \in Polls : \/ StopPop(n) \/ StopSend(n) \/ Signal(n) \/ Send(n) \/ Park(n)
                      \/ Return(n) \/ Reclaim(n)
  \/ \E l \in Loops, n \in Polls : Poll(l, n) \/ Answered(l, n)
  \/ \E t \in Topics, l \in Loops : StartLoop(t, l)
  \/ UNCHANGED vars

\* While nobody leaves, every step is one of these.
LEMMA KeptSteps ==
  ASSUME TypeOK, Kept, NobodyLeaves, NoPollStep \/ PollStep
  PROVE  KeptStep
<1>1. ASSUME NEW a \in Actors, apc[a] \notin {"idle", "done"} PROVE a \in Messages
  BY <1>1 DEF NobodyLeaves, Actors
<1>2. \A a \in Actors : Respond(a) => a \in Messages
  BY <1>1 DEF Respond, Pop, Take, Deliver, Restore, Refuse
<1>3. \A b \in Beats : ~Beat(b)
  BY DEF NobodyLeaves, Beat, StartBeat, BeatInTime, BeatMissed, BeatEnds, Offline, Load, Delete
<1>4. \A t \in Topics : ~Offline(t) /\ ~Unsubscribe(t) /\ ~Unsubscribed(t)
  BY ActorAssumption DEF Kept, NobodyLeaves, Offline, Load, Delete, Unsubscribe, Unsubscribed
<1>5. CASE NoPollStep
  BY <1>3, <1>4, <1>5, Zenon DEF NoPollStep, KeptStep
<1>6. CASE PollStep
  BY <1>2, <1>6, Zenon DEF PollStep, KeptStep
<1> QED
  BY <1>5, <1>6

\* Heartbeats that are started are done at once, and no topic moves.
LEMMA NobodyStillLeaves ==
  ASSUME TypeOK, NothingOverwritten, Kept, NobodyLeaves, KeptStep
  PROVE  NobodyLeaves'
<1> USE ActorAssumption
<1> USE DEF NobodyLeaves, Actors, cacheVars, actorVars, pollVars, signalVars, clientVars
<1>1. ASSUME NEW m \in Messages, Append(m) \/ \E t \in Topics : Lookup(m, t)
      PROVE  NobodyLeaves'
  BY <1>1 DEF Append, Lookup, TypeOK
<1>2. ASSUME NEW m \in Messages, Respond(m) PROVE NobodyLeaves'
  <2>1. m \notin Beats /\ m \notin Topics
    OBVIOUS
  <2>2. CASE Deliver(m)
    <3> DEFINE returns == [apc EXCEPT ![m] = Resume(m)]
    <3>0. apc' = returns \/ apc' = [returns EXCEPT ![<<popped[m], "sent">>] = "done"]
      BY <2>2 DEF Deliver, Started, Kept
    <3>1. \A b \in Beats : apc'[b] \in {apc[b], "done"}
      BY <3>0, <2>1 DEF TypeOK
    <3>2. \A t \in Topics : apc'[t] = apc[t]
      <4>1. \A t \in Topics : t # m /\ t # <<popped[m], "sent">>
        BY <2>2 DEF Deliver, Beats, TypeOK, NothingOverwritten
      <4> QED
        BY <3>0, <4>1 DEF TypeOK
    <3> QED
      BY <3>1, <3>2
  <2>3. CASE Pop(m) \/ Take(m) \/ Restore(m) \/ Refuse(m)
    BY <2>1, <2>3 DEF Pop, Take, Restore, Refuse, TypeOK
  <2> QED
    BY <1>2, <2>2, <2>3 DEF Respond
<1>3. ASSUME NEW n \in Polls, StopPop(n) \/ StopSend(n) \/ Signal(n) \/ Park(n) \/ Return(n)
      PROVE  NobodyLeaves'
  BY <1>3 DEF StopPop, StopSend, Signal, Park, Return
<1>4. ASSUME NEW n \in Polls, Send(n) PROVE NobodyLeaves'
  <2>1. \A b \in Beats : apc'[b] \in {apc[b], "done"}
    BY <1>4 DEF Send, Started, Kept, TypeOK
  <2>2. \A t \in Topics : apc'[t] = apc[t]
    BY <1>4 DEF Send, Started, Beats, TypeOK
  <2> QED
    BY <2>1, <2>2
<1>5. ASSUME NEW n \in Polls, Reclaim(n) PROVE NobodyLeaves'
  BY <1>5 DEF Reclaim
<1>6. ASSUME NEW l \in Loops, NEW n \in Polls, Poll(l, n) \/ Answered(l, n)
      PROVE  NobodyLeaves'
  BY <1>6 DEF Poll, Answered
<1>7. ASSUME NEW t \in Topics, Subscribe(t) \/ SubscribeReturns(t) \/ \E l \in Loops : StartLoop(t, l)
      PROVE  NobodyLeaves'
  BY <1>7 DEF Subscribe, SubscribeReturns, StartLoop
<1>8. ASSUME NEW tm \in inbox, Dispatch(tm) PROVE NobodyLeaves'
  BY <1>8 DEF Dispatch
<1>9. CASE UNCHANGED vars
  BY <1>9 DEF vars
<1> QED
  BY <1>1, <1>2, <1>3, <1>4, <1>5, <1>6, <1>7, <1>8, <1>9, Zenon DEF KeptStep

\* The cache of a topic that has one stays.
EntriesStay == \A t \in Topics : entry[t] # None => entry'[t] = entry[t]

\* Then no cache is taken away, and the one a push has looked up stays its topic's.
LEMMA EntriesAreHeld ==
  ASSUME TypeOK, HoldsEntry, KeptStep
  PROVE  HoldsEntry' /\ EntriesStay
<1> USE NoneAssumption
<1> USE DEF HoldsEntry, EntriesStay, cacheVars, actorVars, pollVars, signalVars, clientVars
<1>1. ASSUME NEW m \in Messages, Append(m) \/ \E t \in Topics : Lookup(m, t)
      PROVE  HoldsEntry' /\ EntriesStay
  BY <1>1 DEF Append, Lookup, TypeOK, Actors
<1>2. ASSUME NEW m \in Messages, Respond(m) PROVE HoldsEntry' /\ EntriesStay
  BY <1>2 DEF Respond, Pop, Take, Deliver, Restore, Refuse
<1>3. ASSUME NEW n \in Polls, StopPop(n) \/ StopSend(n) \/ Signal(n) \/ Send(n) \/ Park(n)
                              \/ Return(n) \/ Reclaim(n)
      PROVE  HoldsEntry' /\ EntriesStay
  BY <1>3 DEF StopPop, StopSend, Signal, Send, Park, Return, Reclaim
<1>4. ASSUME NEW l \in Loops, NEW n \in Polls, Poll(l, n) \/ Answered(l, n)
      PROVE  HoldsEntry' /\ EntriesStay
  BY <1>4 DEF Poll, Answered
<1>5. ASSUME NEW t \in Topics, SubscribeReturns(t) PROVE HoldsEntry' /\ EntriesStay
  <2>1. EntriesStay /\ UNCHANGED hold
    BY <1>5, EnterOne DEF SubscribeReturns
  <2>2. ASSUME NEW m \in Messages, hold[m] # None
        PROVE  hold[m][1] \in Topics /\ hold[m][2] # None
    BY <2>2 DEF TypeOK, Actors
  <2> QED
    BY <2>1, <2>2
<1>6. ASSUME NEW t \in Topics, Subscribe(t) \/ \E l \in Loops : StartLoop(t, l)
      PROVE  HoldsEntry' /\ EntriesStay
  BY <1>6 DEF Subscribe, StartLoop
<1>7. ASSUME NEW tm \in inbox, Dispatch(tm) PROVE HoldsEntry' /\ EntriesStay
  BY <1>7 DEF Dispatch
<1>8. CASE UNCHANGED vars
  BY <1>8 DEF vars
<1> QED
  BY <1>1, <1>2, <1>3, <1>4, <1>5, <1>6, <1>7, <1>8, Zenon DEF KeptStep

\* What a callback is for stays: it is stored before the topic is subscribed,
\* and nobody deletes it.
LEMMA StaysWelcome ==
  ASSUME TypeOK, Kept, NobodyLeaves, Welcome, KeptStep
  PROVE  Welcome'
<1> USE DEF Welcome, cacheVars, actorVars, pollVars, signalVars, clientVars
<1>a. \A tm \in Letters(Pending) : tm[1] \in callbacks
  BY DEF Letters, Pending, Subscribed, Mail
<1>b. Letters(None) = {} /\ Letters(Nil) = {} /\ Letters({}) = {}
  BY DEF Letters
<1>1. ASSUME NEW m \in Messages, Append(m) \/ \E t \in Topics : Lookup(m, t)
      PROVE  Welcome'
  BY <1>1 DEF Append, Lookup
<1>2. ASSUME NEW m \in Messages, Pop(m) \/ Restore(m) PROVE Welcome'
  BY <1>2 DEF Pop, Restore
<1>3. ASSUME NEW m \in Messages, Take(m) PROVE Welcome'
  <2>1. /\ \A a \in Actors : taken'[a] \in {taken[a], Nil, Pending}
        /\ UNCHANGED <<entry, spc, callbacks, chan, answer, inbox>>
    BY <1>3 DEF Take, TypeOK
  <2> QED
    BY <2>1, <1>a, <1>b
<1>4. ASSUME NEW m \in Messages, Deliver(m) PROVE Welcome'
  <2>1. /\ \A a \in Actors : taken'[a] \in {taken[a], {}}
        /\ \A n \in Polls : chan'[n] \in {chan[n], taken[m]}
        /\ UNCHANGED <<entry, spc, callbacks, answer, inbox>> /\ m \in Actors
    BY <1>4 DEF Deliver, TypeOK, Actors
  <2> QED
    BY <2>1, <1>b
<1>5. ASSUME NEW m \in Messages, Refuse(m) PROVE Welcome'
  <2>1. /\ \A n \in Polls : chan'[n] \in {chan[n], Nil}
        /\ UNCHANGED <<entry, spc, callbacks, taken, answer, inbox>>
    BY <1>5 DEF Refuse, TypeOK
  <2> QED
    BY <2>1, <1>b
<1>6. ASSUME NEW n \in Polls, StopPop(n) \/ Signal(n) PROVE Welcome'
  BY <1>6 DEF StopPop, Signal
<1>7. ASSUME NEW n \in Polls, StopSend(n) \/ Park(n) \/ Send(n) PROVE Welcome'
  <2>1. /\ \A k \in Polls : chan'[k] \in {chan[k], Nil, None, Pending}
        /\ UNCHANGED <<entry, spc, callbacks, taken, answer, inbox>>
    BY <1>7 DEF StopSend, Park, Send, TypeOK
  <2> QED
    BY <2>1, <1>a, <1>b
<1>8. ASSUME NEW n \in Polls, Return(n) \/ Reclaim(n) PROVE Welcome'
  <2>1. /\ \A k \in Polls : chan'[k] \in {chan[k], None}
        /\ \A k \in Polls : answer'[k] \in {answer[k], chan[k], None}
        /\ UNCHANGED <<entry, spc, callbacks, taken, inbox>>
    <3>1. /\ chan' = [chan EXCEPT ![n] = None]
          /\ \/ answer' = [answer EXCEPT ![n] = chan[n]]
             \/ answer' = [answer EXCEPT ![n] = None]
          /\ UNCHANGED <<entry, spc, callbacks, taken, inbox>>
      BY <1>8 DEF Return, Reclaim
    <3> QED
      BY <3>1 DEF TypeOK
  <2> QED
    BY <2>1, <1>b
<1>9. ASSUME NEW l \in Loops, NEW n \in Polls, Poll(l, n) PROVE Welcome'
  BY <1>9 DEF Poll
<1>10. ASSUME NEW l \in Loops, NEW n \in Polls, Answered(l, n) PROVE Welcome'
  <2>1. /\ \A k \in Polls : answer'[k] \in {answer[k], None}
        /\ inbox' \subseteq inbox \cup Letters(answer[n])
        /\ UNCHANGED <<entry, spc, callbacks, taken, chan>>
    BY <1>10 DEF Answered, TypeOK, Letters
  <2> QED
    BY <2>1, <1>b
<1>11. ASSUME NEW t \in Topics, Subscribe(t) PROVE Welcome'
  BY <1>11 DEF Subscribe, TypeOK
<1>12. ASSUME NEW t \in Topics, SubscribeReturns(t) PROVE Welcome'
  <2>1. /\ \A u \in Topics : u # t => entry'[u] = entry[u] /\ spc'[u] = spc[u]
        /\ spc[t] = "called"
        /\ UNCHANGED <<callbacks, taken, chan, answer, inbox>>
    BY <1>12, EnterOne DEF SubscribeReturns, TypeOK
  <2> QED
    BY <2>1
<1>13. ASSUME NEW t \in Topics, NEW l \in Loops, StartLoop(t, l) PROVE Welcome'
  BY <1>13 DEF StartLoop, TypeOK
<1>14. ASSUME NEW tm \in inbox, Dispatch(tm) PROVE Welcome'
  BY <1>14 DEF Dispatch
<1>15. CASE UNCHANGED vars
  BY <1>15 DEF vars
<1>16. ASSUME NEW m \in Messages, Respond(m) PROVE Welcome'
  BY <1>2, <1>3, <1>4, <1>5, <1>16, Zenon DEF Respond
<1> QED
  BY <1>1, <1>6, <1>7, <1>8, <1>9, <1>10, <1>11, <1>12, <1>13, <1>14, <1>15, <1>16, Zenon
     DEF KeptStep

\* Where a message can be that was pushed and is not lost: OnItsWay, without
\* regard to who waits for it.
Carried(tm) ==
  \/ entry[tm[1]] # None /\ tm[2] \in content[entry[tm[1]]]
  \/ tm \in inbox \cup received \cup returned
  \/ \E a \in Actors : tm \in Letters(taken[a])
  \/ \E n \in Polls : tm \in Letters(chan[n]) \cup Letters(answer[n])

\* What holds no message may change, and the rest stays or moves to where the
\* message is carried on.
CarriesOn(tm) ==
  /\ entry[tm[1]] # None /\ tm[2] \in content[entry[tm[1]]] => Carried(tm)'
  /\ tm \in inbox \cup received \cup returned => Carried(tm)'
  /\ \A a \in Actors : tm \in Letters(taken[a]) => Carried(tm)'
  /\ \A n \in Polls : tm \in Letters(chan[n]) \cup Letters(answer[n]) => Carried(tm)'

\* Nobody loses a message that a poll, a cache or an actor holds.
LEMMA MailIsCarriedOn ==
  ASSUME PollsInOrder, HoldsCache, Kept, NobodyLeaves, EntriesStay, Welcome, KeptStep,
         NEW tm \in Mail
  PROVE  CarriesOn(tm)
<1> USE NoneAssumption
<1> USE DEF CarriesOn, Carried, cacheVars, actorVars, pollVars, signalVars, clientVars
<1>0. /\ TypeOK /\ ResponderFree /\ PollsAttended /\ OwnedAreWaiting /\ NothingOverwritten
  BY DEF PollsInOrder
<1>a. tm[1] \in Topics /\ tm[2] \in Messages
  BY DEF Mail
<1>b. Letters(None) = {} /\ Letters({}) = {}
  BY DEF Letters
<1>c. Letters(Pending) = Pending
  BY NilAssumption DEF Letters, Pending, Mail
<1>d. entry[tm[1]] # None /\ tm[2] \in content[entry[tm[1]]] => tm \in Pending /\ Subscribed # {}
  BY <1>a DEF Pending, Subscribed
<1>1. ASSUME NEW m \in Messages, Append(m) PROVE CarriesOn(tm)
  <2>1. hold[m][2] \in Caches /\ m \in Actors
    BY <1>1, <1>0 DEF Append, HoldsCache, TypeOK, Actors
  <2>2. \A c \in Caches : content[c] \subseteq content'[c]
    BY <1>1, <2>1, <1>0 DEF Append, WithMessage, TypeOK
  <2>3. entry[tm[1]] # None => entry[tm[1]] \in Caches
    BY <1>a, <1>0 DEF TypeOK
  <2> QED
    BY <1>1, <2>2, <2>3 DEF Append
<1>2. ASSUME NEW m \in Messages, Pop(m) \/ Restore(m) \/ \E t \in Topics : Lookup(m, t)
      PROVE  CarriesOn(tm)
  BY <1>2 DEF Pop, Restore, Lookup
<1>3. ASSUME NEW m \in Messages, Take(m) PROVE CarriesOn(tm)
  <2>1. /\ m \in Actors /\ taken[m] = {}
        /\ Subscribed # {} => taken'[m] = Pending
        /\ \A a \in Actors : a # m => taken'[a] = taken[a]
        /\ UNCHANGED <<chan, answer, inbox, received, returned>>
    BY <1>3, <1>0 DEF Take, NothingOverwritten, TypeOK, Actors
  <2> QED
    BY <2>1, <1>b, <1>c, <1>d
<1>4. ASSUME NEW m \in Messages, Deliver(m) PROVE CarriesOn(tm)
  <2>1. PICK n \in Polls : n = popped[m]
    BY <1>4, <1>0 DEF Deliver, NothingOverwritten, TypeOK, Actors
  <2>2. /\ m \in Actors /\ chan[n] = None /\ chan'[n] = taken[m]
        /\ \A a \in Actors : a # m => taken'[a] = taken[a]
        /\ \A k \in Polls : k # n => chan'[k] = chan[k]
        /\ UNCHANGED <<entry, content, answer, inbox, received, returned>>
    BY <1>4, <2>1, <1>0 DEF Deliver, TypeOK, Actors
  <2> QED
    BY <2>2, <1>b
<1>5. ASSUME NEW m \in Messages, Refuse(m) PROVE CarriesOn(tm)
  <2>1. /\ \A k \in Polls : chan[k] # None => chan'[k] = chan[k]
        /\ UNCHANGED <<entry, content, taken, answer, inbox, received, returned>>
    BY <1>5, <1>0 DEF Refuse, TypeOK
  <2> QED
    BY <2>1, <1>b
<1>6. ASSUME NEW n \in Polls, StopPop(n) \/ Signal(n) PROVE CarriesOn(tm)
  BY <1>6 DEF StopPop, Signal
<1>7. ASSUME NEW n \in Polls, StopSend(n) \/ Park(n) PROVE CarriesOn(tm)
  <2>1. /\ \A k \in Polls : chan[k] # None => chan'[k] = chan[k]
        /\ UNCHANGED <<entry, content, taken, answer, inbox, received, returned>>
    BY <1>7, <1>0 DEF StopSend, Park, Replaces, ResponderFree, TypeOK
  <2> QED
    BY <2>1, <1>b
<1>8. ASSUME NEW n \in Polls, Send(n) PROVE CarriesOn(tm)
  <2>1. /\ chan[n] = None
        /\ tm \in Pending /\ Subscribed # {} => chan'[n] = Pending
        /\ \A k \in Polls : k # n => chan'[k] = chan[k]
        /\ UNCHANGED <<taken, answer, inbox, received, returned>>
    BY <1>8, <1>0 DEF Send, OwnedAreWaiting, TypeOK
  <2> QED
    BY <2>1, <1>b, <1>c, <1>d
<1>9. ASSUME NEW n \in Polls, Return(n) PROVE CarriesOn(tm)
  <2>1. /\ answer[n] = None /\ answer'[n] = chan[n]
        /\ \A k \in Polls : k # n => chan'[k] = chan[k] /\ answer'[k] = answer[k]
        /\ UNCHANGED <<entry, content, taken, inbox, received, returned>>
    BY <1>9, <1>0 DEF Return, NothingOverwritten, TypeOK
  <2> QED
    BY <2>1, <1>b
<1>10. ASSUME NEW n \in Polls, Reclaim(n) PROVE CarriesOn(tm)
  <2>1. /\ chan[n] = None /\ answer[n] = None
        /\ \A k \in Polls : k # n => chan'[k] = chan[k] /\ answer'[k] = answer[k]
        /\ UNCHANGED <<entry, content, taken, inbox, received, returned>>
    BY <1>10, <1>0 DEF Reclaim, OwnedAreWaiting, PollsAttended, TypeOK
  <2> QED
    BY <2>1, <1>b
<1>11. ASSUME NEW l \in Loops, NEW n \in Polls, Poll(l, n) PROVE CarriesOn(tm)
  BY <1>11 DEF Poll
<1>12. ASSUME NEW l \in Loops, NEW n \in Polls, Answered(l, n) PROVE CarriesOn(tm)
  <2>1. /\ Letters(answer[n]) \subseteq inbox' /\ inbox \subseteq inbox'
        /\ \A k \in Polls : k # n => answer'[k] = answer[k]
        /\ UNCHANGED <<entry, content, taken, chan, received, returned>>
    BY <1>12, <1>0 DEF Answered, Letters, TypeOK
  <2> QED
    BY <2>1
<1>13. ASSUME NEW t \in Topics, Subscribe(t) \/ \E l \in Loops : StartLoop(t, l)
       PROVE  CarriesOn(tm)
  BY <1>13 DEF Subscribe, StartLoop
<1>14. ASSUME NEW t \in Topics, SubscribeReturns(t) PROVE CarriesOn(tm)
  <2>1. ASSUME entry[tm[1]] # None PROVE content'[entry[tm[1]]] = content[entry[tm[1]]]
    <3>1. CASE UNCHANGED content
      BY <3>1
    <3>2. CASE entry[t] = None /\ Enter(t)
      <4>1. PICK c \in FreeCaches : content' = [content EXCEPT ![c] = {}]
        BY <3>2 DEF Enter
      <4>2. entry[tm[1]] # c /\ entry[tm[1]] \in Caches
        BY <4>1, <2>1, <1>a, <1>0 DEF FreeCaches, TypeOK
      <4> QED
        BY <4>1, <4>2, <1>0 DEF TypeOK
    <3> QED
      BY <3>1, <3>2, <1>14 DEF SubscribeReturns, Enter
  <2>2. entry[tm[1]] # None => entry'[tm[1]] = entry[tm[1]]
    BY <1>a DEF EntriesStay
  <2>3. UNCHANGED <<taken, chan, answer, inbox, received, returned>>
    BY <1>14 DEF SubscribeReturns
  <2> QED
    BY <2>1, <2>2, <2>3
<1>15. ASSUME NEW um \in inbox, Dispatch(um) PROVE CarriesOn(tm)
  BY <1>15 DEF Dispatch, Welcome
<1>16. CASE UNCHANGED vars
  BY <1>16 DEF vars
<1>17. ASSUME NEW m \in Messages, Respond(m) PROVE CarriesOn(tm)
  BY <1>2, <1>3, <1>4, <1>5, <1>17, Zenon DEF Respond
<1> HIDE DEF CarriesOn
<1> QED
  BY <1>1, <1>2, <1>6, <1>7, <1>8, <1>9, <1>10, <1>11, <1>12, <1>13, <1>14, <1>15, <1>16,
     <1>17, Zenon DEF KeptStep

\* While polls are in order somebody waits for what they and the actors hold.
LEMMA CarriedIsOnItsWay ==
  ASSUME TypeOK', PollsAttended', OwnedAreWaiting', NothingOverwritten',
         NEW tm, Carried(tm)'
  PROVE  OnItsWay(tm)'
<1>1. CASE \E a \in Actors : tm \in Letters(taken'[a])
  <2>1. PICK a \in Actors : tm \in Letters(taken'[a])
    BY <1>1
  <2>2. taken'[a] # Nil /\ tm \in taken'[a] /\ taken'[a] # {}
    BY <2>1 DEF Letters
  <2>3. pc'[popped'[a]] = "await"
    BY <2>2 DEF NothingOverwritten, OwnedAreWaiting
  <2> QED
    BY <2>2, <2>3 DEF OnItsWay
<1>2. CASE \E n \in Polls : tm \in Letters(chan'[n]) \cup Letters(answer'[n])
  <2>1. PICK n \in Polls : tm \in Letters(chan'[n]) \cup Letters(answer'[n])
    BY <1>2
  <2>2. CASE tm \in Letters(chan'[n])
    <3>1. chan'[n] \notin {None, Nil} /\ tm \in chan'[n] /\ pc'[n] = "await"
      BY <2>2 DEF Letters, OwnedAreWaiting
    <3> QED
      BY <3>1 DEF OnItsWay
  <2>3. CASE tm \in Letters(answer'[n])
    <3>1. answer'[n] \notin {None, Nil} /\ tm \in answer'[n] /\ \E l \in Loops : loop'[l] = n
      BY <2>3 DEF Letters, PollsAttended
    <3> QED
      BY <3>1 DEF OnItsWay
  <2> QED
    BY <2>1, <2>2, <2>3
<1>3. CASE (entry'[tm[1]] # None /\ tm[2] \in content'[entry'[tm[1]]])
           \/ tm \in inbox' \cup received' \cup returned'
  BY <1>3 DEF OnItsWay
<1> QED
  BY <1>1, <1>2, <1>3 DEF Carried

\* A message that is on its way stays so, and one that is pushed gets on its way.
LEMMA NoMessageGetsLost ==
  ASSUME PollsInOrder, HoldsCache, Kept, NobodyLeaves, HoldsEntry, Welcome, NoMessageLost,
         KeptStep, TypeOK', PollsAttended', OwnedAreWaiting', NothingOverwritten'
  PROVE  NoMessageLost'
<1> USE DEF cacheVars, actorVars, pollVars, signalVars, clientVars
<1>0. TypeOK /\ EntriesStay
  BY EntriesAreHeld DEF PollsInOrder
<1>1. ASSUME NEW tm \in Mail, OnItsWay(tm) PROVE OnItsWay(tm)'
  <2>1. CarriesOn(tm)
    BY <1>0, MailIsCarriedOn
  <2>2. \A a \in Actors : taken[a] # None
    BY <1>0, NilAssumption, NoneAssumption DEF TypeOK, Mail
  <2>3. Carried(tm)
    BY <1>1, <2>2 DEF OnItsWay, Carried, Letters
  <2>4. Carried(tm)'
    BY <2>1, <2>3 DEF CarriesOn, Carried
  <2> QED
    BY <2>4, CarriedIsOnItsWay
<1>2. ASSUME NEW m \in Messages, apc[m] \notin {"idle", "append"}
      PROVE  \E t \in Topics : OnItsWay(<<t, m>>)'
  <2>1. PICK t \in Topics : OnItsWay(<<t, m>>)
    BY <1>2 DEF NoMessageLost
  <2> QED
    BY <2>1, <1>1 DEF Mail
<1>3. ASSUME NEW m \in Messages, Append(m) PROVE \E t \in Topics : OnItsWay(<<t, m>>)'
  <2>1. PICK t \in Topics, c \in Caches : hold[m] = <<t, c>>
    BY <1>3, <1>0 DEF Append, HoldsCache, TypeOK, Actors
  <2>2. entry[t] = c /\ c # None
    BY <2>1, NoneAssumption DEF HoldsEntry, NoneAssumption
  <2>3. entry'[t] = c /\ m \in content'[c]
    BY <1>3, <2>1, <2>2, <1>0 DEF Append, WithMessage, TypeOK
  <2>4. Carried(<<t, m>>)'
    BY <2>2, <2>3 DEF Carried
  <2>5. OnItsWay(<<t, m>>)'
    BY <2>4, CarriedIsOnItsWay
  <2> QED
    BY <2>5
<1>4. ASSUME NEW m \in Messages, apc[m] \in {"idle", "append"}, apc'[m] \notin {"idle", "append"}
      PROVE  Append(m)
  <2>1. \A b \in Beats : m # b
    BY ActorAssumption
  <2>2. ASSUME NEW n \in Messages, Append(n) \/ \E t \in Topics : Lookup(n, t) PROVE Append(m)
    BY <2>2, <1>4, <1>0 DEF Append, Lookup, TypeOK, Actors
  <2>3. ASSUME NEW n \in Messages, Respond(n) PROVE FALSE
    <3>1. n \in Actors /\ n # m
      BY <2>3, <1>4 DEF Respond, Pop, Take, Deliver, Restore, Refuse, Actors
    <3>2. ASSUME Deliver(n) PROVE FALSE
      <4>1. popped[n] \in Polls
        BY <3>1, <3>2, <1>0 DEF Deliver, PollsInOrder, NothingOverwritten, TypeOK
      <4>2. m # <<popped[n], "sent">>
        BY <4>1, <2>1 DEF Beats
      <4> DEFINE returns == [apc EXCEPT ![n] = Resume(n)]
      <4>3. apc' = returns \/ apc' = [returns EXCEPT ![<<popped[n], "sent">>] = "done"]
        BY <3>2 DEF Deliver, Started, Kept
      <4>4. m \in Actors
        BY DEF Actors
      <4>5. apc'[m] = apc[m]
        BY <3>1, <4>2, <4>3, <4>4, <1>0 DEF TypeOK
      <4> QED
        BY <4>5, <1>4
    <3>3. ASSUME Pop(n) \/ Take(n) \/ Restore(n) \/ Refuse(n) PROVE FALSE
      <4>1. apc'[m] = apc[m]
        BY <3>1, <3>3, <1>0 DEF Pop, Take, Restore, Refuse, TypeOK, Actors
      <4> QED
        BY <4>1, <1>4
    <3> QED
      BY <2>3, <3>2, <3>3 DEF Respond
  <2>4. ASSUME NEW n \in Polls, StopPop(n) \/ StopSend(n) \/ Signal(n) \/ Park(n) \/ Return(n)
        PROVE  FALSE
    BY <2>4, <1>4 DEF StopPop, StopSend, Signal, Park, Return
  <2>5. ASSUME NEW n \in Polls, Send(n) PROVE FALSE
    <3>1. m # <<n, "sent">>
      BY <2>1 DEF Beats
    <3> QED
      BY <2>5, <3>1, <1>4, <1>0 DEF Send, Started, TypeOK
  <2>6. ASSUME NEW n \in Polls, Reclaim(n) PROVE FALSE
    BY <2>6, <1>4 DEF Reclaim, Actors
  <2>7. ASSUME NEW l \in Loops, NEW n \in Polls, Poll(l, n) \/ Answered(l, n) PROVE FALSE
    BY <2>7, <1>4 DEF Poll, Answered
  <2>8. ASSUME NEW t \in Topics, Subscribe(t) \/ SubscribeReturns(t) \/ \E l \in Loops : StartLoop(t, l)
        PROVE  FALSE
    BY <2>8, <1>4 DEF Subscribe, SubscribeReturns, StartLoop
  <2>9. ASSUME NEW tm \in inbox, Dispatch(tm) PROVE FALSE
    BY <2>9, <1>4 DEF Dispatch
  <2>10. CASE UNCHANGED vars
    BY <2>10, <1>4 DEF vars
  <2> QED
    BY <2>2, <2>3, <2>4, <2>5, <2>6, <2>7, <2>8, <2>9, <2>10, Zenon DEF KeptStep
<1> QED
  BY <1>2, <1>3, <1>4 DEF NoMessageLost

\* KeptInv is an invariant of the broker.
THEOREM KeptInvariant == Spec => []KeptInv
<1>1. Init => KeptInv
  <2> SUFFICES ASSUME Init PROVE NobodyLeaves /\ HoldsEntry /\ Welcome /\ NoMessageLost
    BY DEF KeptInv
  <2>1. NobodyLeaves /\ HoldsEntry /\ NoMessageLost
    BY DEF Init, NobodyLeaves, HoldsEntry, NoMessageLost, Actors
  <2>2. Welcome
    BY DEF Init, Welcome, Letters
  <2> QED
    BY <2>1, <2>2
<1>2. ResponderInv /\ AttendedInv /\ KeptInv /\ [Next]_vars /\ ResponderInv' /\ AttendedInv'
        => KeptInv'
  <2> SUFFICES ASSUME ResponderInv, AttendedInv, KeptInv, [Next]_vars, ResponderInv',
                      AttendedInv', Kept'
               PROVE  NobodyLeaves' /\ HoldsEntry' /\ Welcome' /\ NoMessageLost'
    BY DEF KeptInv
  <2>1. Kept /\ Undisturbed /\ Undisturbed'
    BY OptionsStay DEF Kept, Undisturbed, Timeout, Unreliable, HeartBeat, Unsubscribes
  <2>2. PollsInOrder /\ HoldsCache
    BY <2>1 DEF AttendedInv, ResponderInv, PollsInOrder
  <2>3. NobodyLeaves /\ HoldsEntry /\ Welcome /\ NoMessageLost
    BY <2>1 DEF KeptInv
  <2>4. KeptStep
    BY <2>1, <2>2, <2>3, UndisturbedSteps, KeptSteps DEF PollsInOrder
  <2>5. TypeOK' /\ PollsAttended' /\ OwnedAreWaiting' /\ NothingOverwritten'
    BY <2>1 DEF AttendedInv, ResponderInv
  <2>6. NobodyLeaves' /\ HoldsEntry' /\ Welcome'
    BY <2>1, <2>2, <2>3, <2>4, NobodyStillLeaves, EntriesAreHeld, StaysWelcome DEF PollsInOrder
  <2>7. NoMessageLost'
    BY <2>1, <2>2, <2>3, <2>4, <2>5, NoMessageGetsLost
  <2> QED
    BY <2>6, <2>7
<1> QED
  BY <1>1, <1>2, ResponderInvariant, AttendedInvariant, PTL DEF Spec

\* With polls that neither time out nor fail, and a consumer that neither a
\* heartbeat nor an unsubscribe takes a topic from, every message that was
\* pushed is in a cache, on its way to a loop that waits for it, or received.
THEOREM PushedIsKept == Spec => [](Kept => NoMessageLost)
<1>1. KeptInv => (Kept => NoMessageLost)
  BY DEF KeptInv
<1> QED
  BY <1>1, KeptInvariant, PTL
=============================================================================

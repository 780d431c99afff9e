-------------------------- MODULE ReverseCallProofs --------------------------
(***************************************************************************)
(* Proofs about ReverseCall: its types, that the responder of a poll has   *)
(* one owner, that reverse calls implement the at-most-once channel, and   *)
(* that without timeouts and failures no call is lost.                     *)
(***************************************************************************)
EXTENDS ReverseCall, TLAPS

\* The caller starts with empty maps, and the provider with no poll.
LEMMA TypeInit == Init => TypeOK /\ BatchIsOpen
BY PollsAssumption DEF Init, TypeOK, BatchIsOpen, Stoppers

\* A step of Invoke, begin, close, a heartbeat or the provider keeps the types,
\* and results are collected as long as there are calls to process.
LEMMA TypeStep ==
  TypeOK /\ BatchIsOpen /\ [Next]_vars => TypeOK' /\ BatchIsOpen'
<1> SUFFICES ASSUME TypeOK, BatchIsOpen, [Next]_vars
             PROVE  TypeOK' /\ BatchIsOpen'
  OBVIOUS
<1> USE PollsAssumption, OptionAssumption, NoneAssumption
<1> USE DEF TypeOK, BatchIsOpen, Stoppers, invokeVars, tableVars, pollVars,
            onlineVars, providerVars
<1>1. ASSUME NEW k \in Calls, Append(k) PROVE TypeOK' /\ BatchIsOpen'
  BY <1>1 DEF Append, WithCall
<1>2. ASSUME NEW k \in Calls, Register(k) PROVE TypeOK' /\ BatchIsOpen'
  BY <1>2 DEF Register
<1>3. ASSUME NEW k \in Calls, Pop(k) PROVE TypeOK' /\ BatchIsOpen'
  BY <1>3 DEF Pop, AfterPop
<1>4. ASSUME NEW k \in Calls, Take(k) PROVE TypeOK' /\ BatchIsOpen'
  BY <1>4 DEF Take, AfterTake
<1>5. ASSUME NEW k \in Calls, Deliver(k) PROVE TypeOK' /\ BatchIsOpen'
  BY <1>5 DEF Deliver
<1>6. ASSUME NEW k \in Calls, Restore(k) PROVE TypeOK' /\ BatchIsOpen'
  <2>1. /\ responder' \in {responder, popped[k]}
        /\ popped' \in {popped, [popped EXCEPT ![k] = None]}
        /\ ipc' \in {[ipc EXCEPT ![k] = "wait"], [ipc EXCEPT ![k] = "refuse"]}
    BY <1>6 DEF Restore
  <2> QED
    BY <1>6, <2>1, SMTT(20) DEF Restore
<1>7. ASSUME NEW k \in Calls, Refuse(k) PROVE TypeOK' /\ BatchIsOpen'
  BY <1>7 DEF Refuse
<1>8. ASSUME NEW k \in Calls, Return(k) PROVE TypeOK' /\ BatchIsOpen'
  BY <1>8 DEF Return
<1>9. ASSUME NEW k \in Calls, Expire(k) PROVE TypeOK' /\ BatchIsOpen'
  BY <1>9 DEF Expire
<1>10. ASSUME NEW n \in Polls, Mark(n) PROVE TypeOK' /\ BatchIsOpen'
  BY <1>10 DEF Mark
<1>11. ASSUME NEW n \in Polls, Send(n) PROVE TypeOK' /\ BatchIsOpen'
  BY <1>11 DEF Send, AfterTake
<1>12. ASSUME NEW n \in Polls, Park(n) PROVE TypeOK' /\ BatchIsOpen'
  BY <1>12 DEF Park
<1>13. ASSUME NEW n \in Polls, IdleExpire(n) PROVE TypeOK' /\ BatchIsOpen'
  BY <1>13 DEF IdleExpire
<1>14. ASSUME NEW n \in Polls, PutEmpty(n) PROVE TypeOK' /\ BatchIsOpen'
  BY <1>14 DEF PutEmpty
<1>15. ASSUME NEW n \in Polls, BeginReturns(n) PROVE TypeOK' /\ BatchIsOpen'
  BY <1>15 DEF BeginReturns
<1>16. ASSUME NEW n \in Polls, BeatInTime(n) PROVE TypeOK' /\ BatchIsOpen'
  BY <1>16 DEF BeatInTime
<1>17. ASSUME NEW n \in Polls, BeatMissed(n) PROVE TypeOK' /\ BatchIsOpen'
  BY <1>17 DEF BeatMissed
<1>18. ASSUME NEW n \in Polls, GoOffline(n) PROVE TypeOK' /\ BatchIsOpen'
  BY <1>18 DEF GoOffline
<1>19. ASSUME NEW n \in Stoppers, StopPop(n) PROVE TypeOK' /\ BatchIsOpen'
  BY <1>19 DEF StopPop, AfterPop
<1>20. ASSUME NEW n \in Stoppers, StopSend(n) PROVE TypeOK' /\ BatchIsOpen'
  BY <1>20 DEF StopSend
<1>21. ASSUME CloseReturns PROVE TypeOK' /\ BatchIsOpen'
  BY <1>21 DEF CloseReturns
<1>22. ASSUME Listen PROVE TypeOK' /\ BatchIsOpen'
  BY <1>22 DEF Listen
<1>23. ASSUME LeaveLoop PROVE TypeOK' /\ BatchIsOpen'
  BY <1>23 DEF LeaveLoop
<1>24. ASSUME Close PROVE TypeOK' /\ BatchIsOpen'
  BY <1>24 DEF Close
<1>25. ASSUME NEW n \in Polls, CallBegin(n) PROVE TypeOK' /\ BatchIsOpen'
  BY <1>25 DEF CallBegin, MayPoll
<1>26. ASSUME NEW n \in Polls, Answered(n) PROVE TypeOK' /\ BatchIsOpen'
  <2>1. TypeOK'
    BY <1>26 DEF Answered
  <2>2. BatchIsOpen'
    <3>1. {} # None
      OBVIOUS
    <3> QED
      BY <1>26, <3>1 DEF Answered
  <2> QED
    BY <2>1, <2>2
<1>27. ASSUME NEW n \in Polls, BeginFails(n) PROVE TypeOK' /\ BatchIsOpen'
  BY <1>27 DEF BeginFails
<1>28. ASSUME NEW n \in Polls, NEW k \in batch[n], Process(n, k)
       PROVE  TypeOK' /\ BatchIsOpen'
  <2>1. TypeOK'
    BY <1>28 DEF Process
  <2>2. BatchIsOpen'
    <3>1. k \in Calls /\ finished[n] \in SUBSET Calls
      BY <1>28
    <3>2. finished[n] \cup {k} # None
      <4>1. finished[n] \cup {k} \in SUBSET Calls
        BY <3>1
      <4> HIDE DEF TypeOK, BatchIsOpen
      <4> QED
        BY <4>1, NoneAssumption
    <3>3. \A m \in Polls : m # n => batch'[m] = batch[m] /\ finished'[m] = finished[m]
      BY <1>28 DEF Process
    <3>4. finished'[n] # None
      BY <1>28, <3>2 DEF Process
    <3> QED
      BY <3>3, <3>4 DEF BatchIsOpen
  <2> QED
    BY <2>1, <2>2
<1>29. ASSUME NEW n \in Polls, End(n) PROVE TypeOK' /\ BatchIsOpen'
  BY <1>29 DEF End, Complete
<1>30. ASSUME NEW n \in Polls, EndFails(n) PROVE TypeOK' /\ BatchIsOpen'
  BY <1>30 DEF EndFails, Complete
<1>31. ASSUME NEW n \in Polls, Reclaim(n) PROVE TypeOK' /\ BatchIsOpen'
  BY <1>31 DEF Reclaim
<1>32. ASSUME UNCHANGED vars PROVE TypeOK' /\ BatchIsOpen'
  BY <1>32 DEF vars
<1>33. ASSUME NEW k \in Calls, Append(k) \/ Invoke(k) \/ Expire(k)
       PROVE  TypeOK' /\ BatchIsOpen'
  BY <1>33, <1>1, <1>2, <1>3, <1>4, <1>5, <1>6, <1>7, <1>8, <1>9, Zenon DEF Invoke
<1>34. ASSUME NEW n \in Polls,
   Begin(n) \/ Beat(n) \/ Dispatch(n) \/ Reclaim(n) \/ BeginFails(n) \/ EndFails(n)
      PROVE TypeOK' /\ BatchIsOpen'
  BY <1>34, <1>10, <1>11, <1>12, <1>13, <1>14, <1>15, <1>16, <1>17, <1>18, <1>27,
     <1>28, <1>29, <1>30, <1>31, Zenon DEF Begin, Beat, Dispatch
<1>35. ASSUME NEW n \in Stoppers, Stop(n) PROVE TypeOK' /\ BatchIsOpen'
  BY <1>35, <1>19, <1>20, Zenon DEF Stop
<1>36. ASSUME Loop PROVE TypeOK' /\ BatchIsOpen'
  BY <1>36, <1>22, <1>23, <1>25, <1>26, Zenon DEF Loop
<1> QED
  BY <1>33, <1>34, <1>35, <1>36, <1>21, <1>24, <1>32, Zenon DEF Next

\* A step takes a responder from the map or from one owner only, and puts it in
\* one place; the responder that Park puts in the map is nobody's yet.
LEMMA OwnerStep ==
  TypeOK /\ OneOwner /\ OwnedArePolling /\ [Next]_vars
    => (OneOwner /\ OwnedArePolling)'
<1> SUFFICES ASSUME TypeOK, OneOwner, OwnedArePolling, [Next]_vars
             PROVE  (OneOwner /\ OwnedArePolling)'
  OBVIOUS
<1> USE PollsAssumption, OptionAssumption
<1> USE DEF TypeOK, OneOwner, OwnedArePolling, NotYetParked, Stoppers,
            invokeVars, tableVars, pollVars, onlineVars, providerVars
<1>1. ASSUME NEW k \in Calls, Append(k) PROVE (OneOwner /\ OwnedArePolling)'
  BY <1>1 DEF Append, WithCall
<1>2. ASSUME NEW k \in Calls, Register(k) PROVE (OneOwner /\ OwnedArePolling)'
  BY <1>2 DEF Register
<1>3. ASSUME NEW k \in Calls, Pop(k) PROVE (OneOwner /\ OwnedArePolling)'
  BY <1>3 DEF Pop, AfterPop
<1>4. ASSUME NEW k \in Calls, Take(k) PROVE (OneOwner /\ OwnedArePolling)'
  BY <1>4 DEF Take, AfterTake
<1>5. ASSUME NEW k \in Calls, Deliver(k) PROVE (OneOwner /\ OwnedArePolling)'
  BY <1>5 DEF Deliver
<1>6. ASSUME NEW k \in Calls, Restore(k) PROVE (OneOwner /\ OwnedArePolling)'
  <2>1. CASE responder = None
    <3>1. /\ responder' = popped[k]
          /\ popped' = [popped EXCEPT ![k] = None]
          /\ UNCHANGED <<pc, victim>>
      BY <1>6, <2>1 DEF Restore
    <3>2. popped[k] # None => \A j \in Calls : j # k => popped[j] # popped[k]
      OBVIOUS
    <3>3. OneOwner'
      BY <3>1, <3>2
    <3>4. OwnedArePolling'
      BY <3>1
    <3> QED
      BY <3>3, <3>4
  <2>2. CASE responder # None
    BY <1>6, <2>2 DEF Restore
  <2> QED
    BY <2>1, <2>2
<1>7. ASSUME NEW k \in Calls, Refuse(k) PROVE (OneOwner /\ OwnedArePolling)'
  BY <1>7 DEF Refuse
<1>8. ASSUME NEW k \in Calls, Return(k) PROVE (OneOwner /\ OwnedArePolling)'
  BY <1>8 DEF Return
<1>9. ASSUME NEW k \in Calls, Expire(k) PROVE (OneOwner /\ OwnedArePolling)'
  BY <1>9 DEF Expire
<1>10. ASSUME NEW n \in Polls, Mark(n) PROVE (OneOwner /\ OwnedArePolling)'
  BY <1>10 DEF Mark
<1>11. ASSUME NEW n \in Polls, Send(n) PROVE (OneOwner /\ OwnedArePolling)'
  BY <1>11 DEF Send, AfterTake
<1>12. ASSUME NEW n \in Polls, Park(n) PROVE (OneOwner /\ OwnedArePolling)'
  BY <1>12 DEF Park
<1>13. ASSUME NEW n \in Polls, IdleExpire(n) PROVE (OneOwner /\ OwnedArePolling)'
  BY <1>13 DEF IdleExpire
<1>14. ASSUME NEW n \in Polls, PutEmpty(n) PROVE (OneOwner /\ OwnedArePolling)'
  BY <1>14 DEF PutEmpty
<1>15. ASSUME NEW n \in Polls, BeginReturns(n)
       PROVE  (OneOwner /\ OwnedArePolling)'
  BY <1>15 DEF BeginReturns
<1>16. ASSUME NEW n \in Polls, BeatInTime(n) PROVE (OneOwner /\ OwnedArePolling)'
  BY <1>16 DEF BeatInTime
<1>17. ASSUME NEW n \in Polls, BeatMissed(n) PROVE (OneOwner /\ OwnedArePolling)'
  BY <1>17 DEF BeatMissed
<1>18. ASSUME NEW n \in Polls, GoOffline(n) PROVE (OneOwner /\ OwnedArePolling)'
  BY <1>18 DEF GoOffline
<1>19. ASSUME NEW n \in Stoppers, StopPop(n) PROVE (OneOwner /\ OwnedArePolling)'
  BY <1>19 DEF StopPop, AfterPop
<1>20. ASSUME NEW n \in Stoppers, StopSend(n) PROVE (OneOwner /\ OwnedArePolling)'
  BY <1>20 DEF StopSend
<1>21. ASSUME CloseReturns PROVE (OneOwner /\ OwnedArePolling)'
  BY <1>21 DEF CloseReturns
<1>22. ASSUME Listen PROVE (OneOwner /\ OwnedArePolling)'
  BY <1>22 DEF Listen
<1>23. ASSUME LeaveLoop PROVE (OneOwner /\ OwnedArePolling)'
  BY <1>23 DEF LeaveLoop
<1>24. ASSUME Close PROVE (OneOwner /\ OwnedArePolling)'
  BY <1>24 DEF Close
<1>25. ASSUME NEW n \in Polls, CallBegin(n) PROVE (OneOwner /\ OwnedArePolling)'
  BY <1>25 DEF CallBegin, MayPoll
<1>26. ASSUME NEW n \in Polls, Answered(n) PROVE (OneOwner /\ OwnedArePolling)'
  BY <1>26 DEF Answered
<1>27. ASSUME NEW n \in Polls, BeginFails(n) PROVE (OneOwner /\ OwnedArePolling)'
  BY <1>27 DEF BeginFails
<1>28. ASSUME NEW n \in Polls, NEW k \in batch[n], Process(n, k)
       PROVE  (OneOwner /\ OwnedArePolling)'
  BY <1>28 DEF Process
<1>29. ASSUME NEW n \in Polls, End(n) PROVE (OneOwner /\ OwnedArePolling)'
  BY <1>29 DEF End, Complete
<1>30. ASSUME NEW n \in Polls, EndFails(n) PROVE (OneOwner /\ OwnedArePolling)'
  BY <1>30 DEF EndFails, Complete
<1>31. ASSUME NEW n \in Polls, Reclaim(n) PROVE (OneOwner /\ OwnedArePolling)'
  BY <1>31 DEF Reclaim
<1>32. ASSUME UNCHANGED vars PROVE (OneOwner /\ OwnedArePolling)'
  BY <1>32 DEF vars
<1>33. ASSUME NEW k \in Calls, Append(k) \/ Invoke(k) \/ Expire(k)
       PROVE  (OneOwner /\ OwnedArePolling)'
  BY <1>33, <1>1, <1>2, <1>3, <1>4, <1>5, <1>6, <1>7, <1>8, <1>9, Zenon DEF Invoke
<1>34. ASSUME NEW n \in Polls,
   Begin(n) \/ Beat(n) \/ Dispatch(n) \/ Reclaim(n) \/ BeginFails(n) \/ EndFails(n)
      PROVE (OneOwner /\ OwnedArePolling)'
  BY <1>34, <1>10, <1>11, <1>12, <1>13, <1>14, <1>15, <1>16, <1>17, <1>18, <1>27,
     <1>28, <1>29, <1>30, <1>31, Zenon DEF Begin, Beat, Dispatch
<1>35. ASSUME NEW n \in Stoppers, Stop(n) PROVE (OneOwner /\ OwnedArePolling)'
  BY <1>35, <1>19, <1>20, Zenon DEF Stop
<1>36. ASSUME Loop PROVE (OneOwner /\ OwnedArePolling)'
  BY <1>36, <1>22, <1>23, <1>25, <1>26, Zenon DEF Loop
<1> QED
  BY <1>33, <1>34, <1>35, <1>36, <1>21, <1>24, <1>32, Zenon DEF Next

\* OwnerInv is an invariant of reverse calls.
THEOREM OwnerInvariant == Spec => []OwnerInv
<1>1. Init => OwnerInv
  BY TypeInit, PollsAssumption DEF Init, OwnerInv, OneOwner, OwnedArePolling,
     Stoppers
<1>2. OwnerInv /\ [Next]_vars => OwnerInv'
  BY TypeStep, OwnerStep DEF OwnerInv
<1> QED
  BY <1>1, <1>2, PTL DEF Spec

\* Every variable of reverse calls keeps its type.
THEOREM TypeCorrect == Spec => []TypeOK
<1>1. OwnerInv => TypeOK
  BY DEF OwnerInv
<1> QED
  BY <1>1, OwnerInvariant, PTL

\* Whoever sends on the responder of a poll is the only one who has it: response,
\* stop and Park never race for it, for any number of calls and polls.
THEOREM ResponderHasOneOwner == Spec => []OneOwner
<1>1. OwnerInv => OneOwner
  BY DEF OwnerInv
<1> QED
  BY <1>1, OwnerInvariant, PTL

-----------------------------------------------------------------------------
\* What a step leaves at the stations that are not in X: at most what is there.
StationsKept(X) ==
  /\ <<"cache", None>> \notin X => cache' \subseteq cache
  /\ \A k \in Calls : <<"taken", k>> \notin X => taken'[k] \subseteq taken[k]
  /\ \A n \in Polls : <<"chan", n>> \notin X => chan'[n] \in {chan[n], None, Nil, {}}
  /\ \A n \in Polls : <<"answer", n>> \notin X => answer'[n] \in {answer[n], None, Nil, {}}
  /\ \A n \in Polls : <<"batch", n>> \notin X => batch'[n] \subseteq batch[n]

\* A step adds no result, and no call was not invoked any more.
ResultsKept ==
  /\ \A k \in Calls : ipc'[k] = "idle" => ipc[k] = "idle"
  /\ \A n \in Polls : finished'[n] \in {finished[n], None, {}}
  /\ \A k \in Calls : result'[k] \in {result[k], None}

\* The calls at each station, by the variable that holds them.
LEMMA CallsAtEach ==
  /\ <<"cache", None>> \in Stations
  /\ CallsAt(<<"cache", None>>) = cache /\ CallsAt(<<"cache", None>>)' = cache'
  /\ \A k \in Calls :
       /\ <<"taken", k>> \in Stations
       /\ CallsAt(<<"taken", k>>) = taken[k]
       /\ CallsAt(<<"taken", k>>)' = taken'[k]
  /\ \A n \in Polls :
       /\ <<"chan", n>> \in Stations
       /\ CallsAt(<<"chan", n>>) = Carried(chan[n])
       /\ CallsAt(<<"chan", n>>)' = Carried(chan'[n])
  /\ \A n \in Polls :
       /\ <<"answer", n>> \in Stations
       /\ CallsAt(<<"answer", n>>) = Carried(answer[n])
       /\ CallsAt(<<"answer", n>>)' = Carried(answer'[n])
  /\ \A n \in Polls :
       /\ <<"batch", n>> \in Stations
       /\ CallsAt(<<"batch", n>>) = batch[n]
       /\ CallsAt(<<"batch", n>>)' = batch'[n]
<1>1. /\ <<"cache", None>> \in Stations
      /\ CallsAt(<<"cache", None>>) = cache /\ CallsAt(<<"cache", None>>)' = cache'
  BY DEF Stations, CallsAt
<1>2. ASSUME NEW k \in Calls
      PROVE  /\ <<"taken", k>> \in Stations
             /\ CallsAt(<<"taken", k>>) = taken[k]
             /\ CallsAt(<<"taken", k>>)' = taken'[k]
  BY DEF Stations, CallsAt
<1>3. ASSUME NEW n \in Polls
      PROVE  /\ <<"chan", n>> \in Stations
             /\ CallsAt(<<"chan", n>>) = Carried(chan[n])
             /\ CallsAt(<<"chan", n>>)' = Carried(chan'[n])
  BY DEF Stations, CallsAt
<1>4. ASSUME NEW n \in Polls
      PROVE  /\ <<"answer", n>> \in Stations
             /\ CallsAt(<<"answer", n>>) = Carried(answer[n])
             /\ CallsAt(<<"answer", n>>)' = Carried(answer'[n])
  BY DEF Stations, CallsAt
<1>5. ASSUME NEW n \in Polls
      PROVE  /\ <<"batch", n>> \in Stations
             /\ CallsAt(<<"batch", n>>) = batch[n]
             /\ CallsAt(<<"batch", n>>)' = batch'[n]
  BY DEF Stations, CallsAt
<1> QED
  BY <1>1, <1>2, <1>3, <1>4, <1>5

\* There are no other stations.
LEMMA StationCases ==
  \A s \in Stations :
    \/ s = <<"cache", None>>
    \/ \E k \in Calls : s = <<"taken", k>>
    \/ \E n \in Polls : s = <<"chan", n>> \/ s = <<"answer", n>> \/ s = <<"batch", n>>
BY DEF Stations

\* Stations hold calls.
LEMMA StationsHoldCalls ==
  ASSUME TypeOK
  PROVE  \A s \in Stations : CallsAt(s) \subseteq Calls
<1> SUFFICES ASSUME NEW s \in Stations PROVE CallsAt(s) \subseteq Calls
  OBVIOUS
<1>1. CASE s = <<"cache", None>>
  BY <1>1, CallsAtEach DEF TypeOK
<1>2. ASSUME NEW k \in Calls, s = <<"taken", k>> PROVE CallsAt(s) \subseteq Calls
  BY <1>2, CallsAtEach DEF TypeOK
<1>3. ASSUME NEW n \in Polls, s = <<"chan", n>> PROVE CallsAt(s) \subseteq Calls
  BY <1>3, CallsAtEach DEF TypeOK, Carried
<1>4. ASSUME NEW n \in Polls, s = <<"answer", n>> PROVE CallsAt(s) \subseteq Calls
  BY <1>4, CallsAtEach DEF TypeOK, Carried
<1>5. ASSUME NEW n \in Polls, s = <<"batch", n>> PROVE CallsAt(s) \subseteq Calls
  BY <1>5, CallsAtEach DEF TypeOK
<1> QED
  BY <1>1, <1>2, <1>3, <1>4, <1>5, StationCases

\* StationsKept says of the variables what is meant of the stations.
LEMMA KeptAtStations ==
  ASSUME NEW X, StationsKept(X)
  PROVE  \A s \in Stations : s \notin X => CallsAt(s)' \subseteq CallsAt(s)
<1> SUFFICES ASSUME NEW s \in Stations, s \notin X PROVE CallsAt(s)' \subseteq CallsAt(s)
  OBVIOUS
<1>1. CASE s = <<"cache", None>>
  BY <1>1 DEF StationsKept, CallsAt
<1>2. ASSUME NEW k \in Calls, s = <<"taken", k>> PROVE CallsAt(s)' \subseteq CallsAt(s)
  BY <1>2 DEF StationsKept, CallsAt
<1>3. ASSUME NEW n \in Polls, s = <<"chan", n>> PROVE CallsAt(s)' \subseteq CallsAt(s)
  <2>1. chan'[n] \in {chan[n], None, Nil, {}}
    BY <1>3 DEF StationsKept
  <2> QED
    BY <1>3, <2>1 DEF CallsAt, Carried
<1>4. ASSUME NEW n \in Polls, s = <<"answer", n>> PROVE CallsAt(s)' \subseteq CallsAt(s)
  <2>1. answer'[n] \in {answer[n], None, Nil, {}}
    BY <1>4 DEF StationsKept
  <2> QED
    BY <1>4, <2>1 DEF CallsAt, Carried
<1>5. ASSUME NEW n \in Polls, s = <<"batch", n>> PROVE CallsAt(s)' \subseteq CallsAt(s)
  BY <1>5 DEF StationsKept, CallsAt
<1> QED
  BY <1>1, <1>2, <1>3, <1>4, <1>5, StationCases

\* Results stay own when none is added and nothing is forgotten of executions.
LEMMA ResultsStay ==
  ASSUME ResultsAreOwn, ResultsKept, \A k \in Calls : executed[k] = 1 => executed'[k] = 1,
         TypeOK
  PROVE  ResultsAreOwn'
<1>1. ASSUME NEW n \in Polls, finished'[n] # None, NEW k \in finished'[n]
      PROVE  executed'[k] = 1
  <2>1. finished'[n] = finished[n]
    BY <1>1 DEF ResultsKept
  <2>2. k \in Calls
    BY <2>1, <1>1 DEF TypeOK
  <2> QED
    BY <1>1, <2>1, <2>2 DEF ResultsAreOwn
<1>2. ASSUME NEW k \in Calls, result'[k] # None PROVE result'[k] = k /\ executed'[k] = 1
  BY <1>2 DEF ResultsKept, ResultsAreOwn
<1> QED
  BY <1>1, <1>2 DEF ResultsAreOwn

\* Calls that leave one station for another stay sole and fresh.
LEMMA CallsMove ==
  ASSUME TypeOK, CarriedInv, NEW r \in Stations, NEW s \in Stations, r # s, NEW New,
         New \subseteq CallsAt(r), CallsAt(r)' \subseteq CallsAt(r) \ New,
         CallsAt(s)' \subseteq CallsAt(s) \cup New, StationsKept({r, s}), ResultsKept,
         UNCHANGED executed
  PROVE  CarriedInv'
<1> USE DEF CarriedInv
<1>1. \A x \in Stations : x # s => CallsAt(x)' \subseteq CallsAt(x)
  BY KeptAtStations
<1>2. \A x \in Stations : x # s => CallsAt(x)' \cap New = {}
  <2> SUFFICES ASSUME NEW x \in Stations, x # s PROVE CallsAt(x)' \cap New = {}
    OBVIOUS
  <2>1. CASE x = r
    BY <2>1
  <2>2. CASE x # r
    <3>1. CallsAt(x) \cap CallsAt(r) = {}
      BY <2>2 DEF CallsAreSole
    <3> QED
      BY <3>1, <1>1
  <2> QED
    BY <2>1, <2>2
<1>3. CallsAreSole'
  <2> SUFFICES ASSUME NEW x \in Stations, NEW y \in Stations, x # y
               PROVE  CallsAt(x)' \cap CallsAt(y)' = {}
    BY DEF CallsAreSole, Stations
  <2>1. CallsAt(x) \cap CallsAt(y) = {}
    BY DEF CallsAreSole
  <2>2. CASE x # s /\ y # s
    BY <2>1, <2>2, <1>1
  <2>3. CASE x = s
    BY <2>1, <2>3, <1>1, <1>2
  <2>4. CASE y = s
    BY <2>1, <2>4, <1>1, <1>2
  <2> QED
    BY <2>2, <2>3, <2>4
<1>4. ASSUME NEW k, NEW x \in Stations, k \in CallsAt(x)'
      PROVE  \E y \in Stations : k \in CallsAt(y)
  BY <1>4, <1>1
<1>5. \A x \in Stations : CallsAt(x) \subseteq Calls
  BY StationsHoldCalls
<1>6. CarriedAreFresh'
  <2> SUFFICES ASSUME NEW x \in Stations, NEW k \in CallsAt(x)'
               PROVE  ipc'[k] # "idle" /\ executed'[k] = 0
    BY DEF CarriedAreFresh, Stations
  <2>1. PICK y \in Stations : k \in CallsAt(y)
    BY <1>4
  <2>2. k \in Calls /\ ipc[k] # "idle" /\ executed[k] = 0
    BY <2>1, <1>5 DEF CarriedAreFresh
  <2> QED
    BY <2>2 DEF ResultsKept
<1>7. AtMostOnce' /\ UninvokedAreFresh' /\ ResultsAreOwn'
  BY ResultsStay DEF AtMostOnce, UninvokedAreFresh, ResultsKept
<1> QED
  BY <1>3, <1>6, <1>7

\* A step that moves no call keeps each in its place.
LEMMA NoCallMoves ==
  ASSUME TypeOK, CarriedInv, StationsKept({}), ResultsKept, UNCHANGED executed
  PROVE  CarriedInv'
<1>1. \A x \in Stations : CallsAt(x)' \subseteq CallsAt(x)
  BY KeptAtStations
<1>2. CallsAreSole'
  BY <1>1 DEF CarriedInv, CallsAreSole, Stations
<1>3. CarriedAreFresh'
  <2> SUFFICES ASSUME NEW x \in Stations, NEW k \in CallsAt(x)'
               PROVE  ipc'[k] # "idle" /\ executed'[k] = 0
    BY DEF CarriedAreFresh, Stations
  <2>1. k \in CallsAt(x)
    BY <1>1
  <2>2. k \in Calls
    BY <2>1, StationsHoldCalls
  <2>3. ipc[k] # "idle" /\ executed[k] = 0
    BY <2>1 DEF CarriedInv, CarriedAreFresh
  <2> QED
    BY <2>2, <2>3 DEF ResultsKept
<1> QED
  BY <1>2, <1>3, ResultsStay DEF CarriedInv, AtMostOnce, UninvokedAreFresh, ResultsKept

\* A call that is invoked was nowhere before.
LEMMA AppendKeepsCarried ==
  ASSUME TypeOK, CarriedInv, NEW k \in Calls, Append(k)
  PROVE  CarriedInv'
<1> USE DEF CarriedInv
<1>1. cache' = cache \cup {k} /\ ipc[k] = "idle" /\ ipc' = [ipc EXCEPT ![k] = "register"]
  BY DEF Append, WithCall
<1>2. UNCHANGED <<taken, chan, answer, batch, finished, result, executed>>
  BY DEF Append, pollVars, providerVars
<1>3. \A s \in Stations : k \notin CallsAt(s)
  BY <1>1 DEF CarriedAreFresh
<1>4. StationsKept({<<"cache", None>>})
  BY <1>2 DEF StationsKept
<1>5. \A s \in Stations : s # <<"cache", None>> => CallsAt(s)' \subseteq CallsAt(s)
  BY <1>4, KeptAtStations
<1>6. CallsAt(<<"cache", None>>)' = CallsAt(<<"cache", None>>) \cup {k}
  BY <1>1, CallsAtEach
<1>7. CallsAreSole'
  <2> SUFFICES ASSUME NEW x \in Stations, NEW y \in Stations, x # y
               PROVE  CallsAt(x)' \cap CallsAt(y)' = {}
    BY DEF CallsAreSole, Stations
  <2>1. CallsAt(x) \cap CallsAt(y) = {}
    BY DEF CallsAreSole
  <2> QED
    BY <2>1, <1>3, <1>5, <1>6
<1>8. CarriedAreFresh'
  <2> SUFFICES ASSUME NEW x \in Stations, NEW j \in CallsAt(x)'
               PROVE  ipc'[j] # "idle" /\ executed'[j] = 0
    BY DEF CarriedAreFresh, Stations
  <2>1. CASE j = k
    <3>1. executed[k] = 0
      BY <1>1 DEF UninvokedAreFresh
    <3> QED
      BY <2>1, <3>1, <1>1, <1>2 DEF TypeOK
  <2>2. CASE j # k
    <3>1. j \in CallsAt(x)
      BY <2>2, <1>5, <1>6
    <3>2. j \in Calls
      BY <3>1, StationsHoldCalls
    <3>3. ipc[j] # "idle" /\ executed[j] = 0
      BY <3>1 DEF CarriedAreFresh
    <3> QED
      BY <2>2, <3>2, <3>3, <1>1, <1>2 DEF TypeOK
  <2> QED
    BY <2>1, <2>2
<1>9. ResultsKept
  BY <1>1, <1>2 DEF ResultsKept, TypeOK
<1> QED
  BY <1>2, <1>7, <1>8, <1>9, ResultsStay DEF AtMostOnce, UninvokedAreFresh, ResultsKept

\* A call that is processed leaves its batch, and is nowhere else.
LEMMA ProcessKeepsCarried ==
  ASSUME TypeOK, CarriedInv, BatchIsOpen, NEW n \in Polls, NEW k \in batch[n], Process(n, k)
  PROVE  CarriedInv'
<1> USE DEF CarriedInv
<1>1. /\ batch' = [batch EXCEPT ![n] = @ \ {k}]
      /\ finished' = [finished EXCEPT ![n] = @ \cup {k}]
      /\ executed' = [executed EXCEPT ![k] = @ + 1]
      /\ UNCHANGED <<cache, taken, chan, answer, ipc, result>>
  BY DEF Process, invokeVars, tableVars, pollVars
<1>2. k \in Calls /\ finished[n] # None
  BY DEF TypeOK, BatchIsOpen
<1>3. \A s \in Stations : s # <<"batch", n>> => k \notin CallsAt(s)
  BY CallsAtEach DEF CallsAreSole
<1>4. ipc[k] # "idle" /\ executed[k] = 0
  BY CallsAtEach DEF CarriedAreFresh
<1>5. \A s \in Stations : CallsAt(s)' \subseteq CallsAt(s)
  <2>1. StationsKept({})
    BY <1>1 DEF StationsKept, TypeOK
  <2> QED
    BY <2>1, KeptAtStations
<1>6. \A s \in Stations : k \notin CallsAt(s)'
  <2>1. CallsAt(<<"batch", n>>)' = batch[n] \ {k}
    BY <1>1, CallsAtEach DEF TypeOK
  <2> QED
    BY <2>1, <1>3, <1>5
<1>7. \A j \in Calls : executed'[j] = IF j = k THEN 1 ELSE executed[j]
  BY <1>1, <1>2, <1>4 DEF TypeOK
<1>8. CallsAreSole'
  BY <1>5 DEF CallsAreSole, Stations
<1>9. CarriedAreFresh'
  <2> SUFFICES ASSUME NEW x \in Stations, NEW j \in CallsAt(x)'
               PROVE  ipc'[j] # "idle" /\ executed'[j] = 0
    BY DEF CarriedAreFresh, Stations
  <2>1. j \in CallsAt(x) /\ j # k
    BY <1>5, <1>6
  <2>2. j \in Calls
    BY <2>1, StationsHoldCalls
  <2>3. ipc[j] # "idle" /\ executed[j] = 0
    BY <2>1 DEF CarriedAreFresh
  <2> QED
    BY <2>1, <2>2, <2>3, <1>1, <1>7
<1>10. ResultsAreOwn'
  <2>1. ASSUME NEW m \in Polls, finished'[m] # None, NEW j \in finished'[m]
        PROVE  executed'[j] = 1
    <3>1. CASE j = k
      BY <3>1, <1>2, <1>7
    <3>2. CASE j # k
      <4>1. finished[m] # None /\ j \in finished[m]
        BY <2>1, <3>2, <1>1, <1>2 DEF TypeOK
      <4>2. j \in Calls /\ executed[j] = 1
        BY <4>1 DEF ResultsAreOwn, TypeOK
      <4> QED
        BY <4>2, <1>7
    <3> QED
      BY <3>1, <3>2
  <2>2. \A j \in Calls : result'[j] # None => result'[j] = j /\ executed'[j] = 1
    BY <1>1, <1>7 DEF ResultsAreOwn
  <2> QED
    BY <2>1, <2>2 DEF ResultsAreOwn
<1>11. AtMostOnce' /\ UninvokedAreFresh'
  BY <1>1, <1>4, <1>7 DEF AtMostOnce, UninvokedAreFresh
<1> QED
  BY <1>8, <1>9, <1>10, <1>11

\* The service delivers results of calls that were processed, each to its own.
LEMMA EndKeepsCarried ==
  ASSUME TypeOK, CarriedInv, NEW n \in Polls, End(n) \/ EndFails(n)
  PROVE  CarriedInv'
<1> USE DEF CarriedInv
<1>1. /\ finished[n] # None /\ finished'[n] \in {finished[n], None}
      /\ \A m \in Polls : m # n => finished'[m] = finished[m]
      /\ UNCHANGED <<cache, taken, chan, answer, batch, ipc, executed>>
  BY DEF End, EndFails, TypeOK, invokeVars, pollVars
<1>2. \A k \in Calls : result'[k] = result[k] \/ (result'[k] = k /\ k \in finished[n])
  BY DEF End, EndFails, Complete
<1>3. \A x \in Stations : CallsAt(x)' \subseteq CallsAt(x)
  <2>1. StationsKept({})
    BY <1>1 DEF StationsKept
  <2> QED
    BY <2>1, KeptAtStations
<1>4. CallsAreSole'
  BY <1>3 DEF CallsAreSole, Stations
<1>5. CarriedAreFresh'
  BY <1>1, <1>3 DEF CarriedAreFresh, Stations
<1>6. ResultsAreOwn'
  <2>1. \A k \in finished[n] : executed[k] = 1
    BY <1>1 DEF ResultsAreOwn
  <2>2. \A m \in Polls : finished'[m] \in {finished[m], None}
    BY <1>1
  <2>3. ASSUME NEW m \in Polls, finished'[m] # None, NEW j \in finished'[m]
        PROVE  executed'[j] = 1
    BY <2>2, <2>3, <1>1 DEF ResultsAreOwn
  <2>4. \A k \in Calls : result'[k] # None => result'[k] = k /\ executed'[k] = 1
    BY <2>1, <1>1, <1>2 DEF ResultsAreOwn
  <2> QED
    BY <2>3, <2>4 DEF ResultsAreOwn
<1>7. AtMostOnce' /\ UninvokedAreFresh'
  BY <1>1 DEF AtMostOnce, UninvokedAreFresh
<1> QED
  BY <1>4, <1>5, <1>6, <1>7

\* What Invoke does: its send takes all that is in the cache, and the responder
\* gets it.
LEMMA InvokeKeepsCarried ==
  ASSUME TypeOK, CarriedInv, NEW k \in Calls, Invoke(k) \/ Expire(k)
  PROVE  CarriedInv'
<1> USE DEF invokeVars, tableVars, pollVars, onlineVars, providerVars
<1>1. CASE Register(k) \/ Pop(k) \/ Restore(k) \/ Refuse(k) \/ Return(k) \/ Expire(k)
  <2>1. StationsKept({})
    BY <1>1 DEF Register, Pop, Restore, Refuse, Return, Expire, StationsKept, TypeOK
  <2>2. ResultsKept
    BY <1>1 DEF Register, Pop, Restore, Refuse, Return, Expire, ResultsKept, TypeOK
  <2>3. UNCHANGED executed
    BY <1>1 DEF Register, Pop, Restore, Refuse, Return, Expire
  <2> QED
    BY <2>1, <2>2, <2>3, NoCallMoves
<1>2. CASE Take(k)
  <2>1. taken' = [taken EXCEPT ![k] = cache] /\ cache' = {} /\ UNCHANGED executed
    BY <1>2 DEF Take, AfterTake
  <2>2. CallsAt(<<"cache", None>>)' = {}
        /\ CallsAt(<<"taken", k>>)' = CallsAt(<<"cache", None>>)
    BY <2>1, CallsAtEach DEF TypeOK
  <2>3. StationsKept({<<"cache", None>>, <<"taken", k>>})
    BY <1>2 DEF Take, StationsKept, TypeOK
  <2>4. ResultsKept
    BY <1>2 DEF Take, ResultsKept, TypeOK
  <2>5. <<"cache", None>> # <<"taken", k>>
    OBVIOUS
  <2> QED
    BY <2>1, <2>2, <2>3, <2>4, <2>5, CallsMove, CallsAtEach
<1>3. CASE Deliver(k) /\ popped[k] \in Polls
  <2> PICK n \in Polls : n = popped[k]
    BY <1>3
  <2>1. taken'[k] = {} /\ chan'[n] = taken[k] /\ UNCHANGED executed
    BY <1>3 DEF Deliver, TypeOK
  <2>2. CallsAt(<<"taken", k>>)' = {}
        /\ CallsAt(<<"chan", n>>)' \subseteq CallsAt(<<"taken", k>>)
    BY <2>1, CallsAtEach DEF Carried
  <2>3. StationsKept({<<"taken", k>>, <<"chan", n>>})
    BY <1>3 DEF Deliver, StationsKept, TypeOK
  <2>4. ResultsKept
    BY <1>3 DEF Deliver, ResultsKept, TypeOK
  <2>5. <<"taken", k>> # <<"chan", n>>
    OBVIOUS
  <2> QED
    BY <2>1, <2>2, <2>3, <2>4, <2>5, CallsMove, CallsAtEach
<1>4. CASE Deliver(k) /\ popped[k] = None
  <2>1. StationsKept({})
    BY <1>4, PollsAssumption DEF Deliver, StationsKept, TypeOK
  <2>2. ResultsKept /\ UNCHANGED executed
    BY <1>4 DEF Deliver, ResultsKept, TypeOK
  <2> QED
    BY <2>1, <2>2, NoCallMoves
<1> QED
  BY <1>1, <1>2, <1>3, <1>4 DEF Invoke, TypeOK

\* What begin does: its own send takes what is in the cache, and what it returns
\* it takes from its responder.
LEMMA BeginKeepsCarried ==
  ASSUME TypeOK, CarriedInv, NEW n \in Polls, Begin(n)
  PROVE  CarriedInv'
<1> USE DEF invokeVars, tableVars, pollVars, onlineVars, providerVars
<1>1. CASE Mark(n) \/ Park(n) \/ IdleExpire(n) \/ PutEmpty(n)
  <2>1. StationsKept({})
    BY <1>1 DEF Mark, Park, IdleExpire, PutEmpty, StationsKept, TypeOK
  <2>2. ResultsKept /\ UNCHANGED executed
    BY <1>1 DEF Mark, Park, IdleExpire, PutEmpty, ResultsKept
  <2> QED
    BY <2>1, <2>2, NoCallMoves
<1>2. CASE Send(n)
  <2>1. /\ chan'[n] = (IF cache = {} THEN None ELSE cache) /\ cache' = {}
        /\ UNCHANGED executed
    BY <1>2 DEF Send, AfterTake, TypeOK
  <2>2. CallsAt(<<"cache", None>>)' = {}
        /\ CallsAt(<<"chan", n>>)' \subseteq CallsAt(<<"cache", None>>)
    BY <2>1, CallsAtEach DEF Carried
  <2>3. StationsKept({<<"cache", None>>, <<"chan", n>>})
    BY <1>2 DEF Send, StationsKept, TypeOK
  <2>4. ResultsKept
    BY <1>2 DEF Send, ResultsKept
  <2>5. <<"cache", None>> # <<"chan", n>>
    OBVIOUS
  <2> QED
    BY <2>1, <2>2, <2>3, <2>4, <2>5, CallsMove, CallsAtEach
<1>3. CASE BeginReturns(n)
  <2>1. chan'[n] = None /\ answer'[n] = chan[n] /\ UNCHANGED executed
    BY <1>3 DEF BeginReturns, TypeOK
  <2>2. CallsAt(<<"chan", n>>)' = {}
        /\ CallsAt(<<"answer", n>>)' \subseteq CallsAt(<<"chan", n>>)
    BY <2>1, CallsAtEach DEF Carried
  <2>3. StationsKept({<<"chan", n>>, <<"answer", n>>})
    BY <1>3 DEF BeginReturns, StationsKept, TypeOK
  <2>4. ResultsKept
    BY <1>3 DEF BeginReturns, ResultsKept
  <2>5. <<"chan", n>> # <<"answer", n>>
    OBVIOUS
  <2> QED
    BY <2>1, <2>2, <2>3, <2>4, <2>5, CallsMove, CallsAtEach
<1> QED
  BY <1>1, <1>2, <1>3 DEF Begin

\* What Listen does: the calls it is answered with are dispatched.
LEMMA LoopKeepsCarried ==
  ASSUME TypeOK, CarriedInv, Loop
  PROVE  CarriedInv'
<1> USE DEF invokeVars, tableVars, pollVars, onlineVars, providerVars
<1>1. ASSUME NEW n \in Polls, Answered(n) PROVE CarriedInv'
  <2>1. /\ answer'[n] = None /\ UNCHANGED executed
        /\ batch'[n] \subseteq batch[n] \cup Carried(answer[n])
    BY <1>1 DEF Answered, TypeOK, Carried
  <2>2. CallsAt(<<"answer", n>>)' = {}
        /\ CallsAt(<<"batch", n>>)'
             \subseteq CallsAt(<<"batch", n>>) \cup CallsAt(<<"answer", n>>)
    BY <2>1, CallsAtEach DEF Carried
  <2>3. StationsKept({<<"answer", n>>, <<"batch", n>>})
    BY <1>1 DEF Answered, StationsKept, TypeOK
  <2>4. ResultsKept
    BY <1>1 DEF Answered, ResultsKept, TypeOK
  <2>5. <<"answer", n>> # <<"batch", n>>
    OBVIOUS
  <2> QED
    BY <2>1, <2>2, <2>3, <2>4, <2>5, CallsMove, CallsAtEach
<1>2. CASE Listen \/ LeaveLoop \/ \E n \in Polls : CallBegin(n)
  <2>1. StationsKept({}) /\ ResultsKept /\ UNCHANGED executed
    BY <1>2 DEF Listen, LeaveLoop, CallBegin, StationsKept, ResultsKept
  <2> QED
    BY <2>1, NoCallMoves
<1> QED
  BY <1>1, <1>2 DEF Loop

\* No step executes a call twice, or puts it in a second place.
LEMMA CarriedStep ==
  ASSUME TypeOK, BatchIsOpen, CarriedInv, [Next]_vars
  PROVE  CarriedInv'
<1> USE DEF invokeVars, tableVars, pollVars, onlineVars, providerVars
<1>1. ASSUME NEW n \in Stoppers, Stop(n) PROVE CarriedInv'
  <2>1. StationsKept({}) /\ ResultsKept /\ UNCHANGED executed
    BY <1>1 DEF Stop, StopPop, StopSend, StationsKept, ResultsKept, TypeOK
  <2> QED
    BY <2>1, NoCallMoves
<1>2. ASSUME NEW n \in Polls, Beat(n) \/ BeginFails(n) PROVE CarriedInv'
  <2>1. StationsKept({}) /\ ResultsKept /\ UNCHANGED executed
    BY <1>2 DEF Beat, BeatInTime, BeatMissed, GoOffline, BeginFails, StationsKept,
       ResultsKept
  <2> QED
    BY <2>1, NoCallMoves
<1>3. CASE CloseReturns \/ Close \/ UNCHANGED vars
  <2>1. StationsKept({}) /\ ResultsKept /\ UNCHANGED executed
    BY <1>3 DEF CloseReturns, Close, vars, StationsKept, ResultsKept
  <2> QED
    BY <2>1, NoCallMoves
<1>4. ASSUME NEW n \in Polls, Reclaim(n) PROVE CarriedInv'
  <2>1. StationsKept({}) /\ ResultsKept /\ UNCHANGED executed
    BY <1>4 DEF Reclaim, StationsKept, ResultsKept, TypeOK
  <2> QED
    BY <2>1, NoCallMoves
<1>5. ASSUME NEW n \in Polls, Dispatch(n) \/ EndFails(n) PROVE CarriedInv'
  BY <1>5, ProcessKeepsCarried, EndKeepsCarried, Zenon DEF Dispatch
<1>6. ASSUME NEW k \in Calls, Append(k) \/ Invoke(k) \/ Expire(k) PROVE CarriedInv'
  BY <1>6, AppendKeepsCarried, InvokeKeepsCarried, Zenon
<1>7. ASSUME NEW n \in Polls, Begin(n) PROVE CarriedInv'
  BY <1>7, BeginKeepsCarried
<1> QED
  BY <1>1, <1>2, <1>3, <1>4, <1>5, <1>6, <1>7, LoopKeepsCarried, Zenon DEF Next

\* CarriedInv is an invariant of reverse calls: a call that was not executed is
\* in one place.
THEOREM CarriedInvariant == Spec => []CarriedInv
<1>1. Init => CarriedInv
  <2> SUFFICES ASSUME Init PROVE CarriedInv
    OBVIOUS
  <2>1. \A s \in Stations : CallsAt(s) = {}
    BY StationCases, CallsAtEach DEF Init, Carried
  <2>2. CallsAreSole /\ CarriedAreFresh
    BY <2>1 DEF CallsAreSole, CarriedAreFresh
  <2>3. AtMostOnce /\ UninvokedAreFresh /\ ResultsAreOwn
    BY DEF Init, AtMostOnce, UninvokedAreFresh, ResultsAreOwn
  <2> QED
    BY <2>2, <2>3 DEF CarriedInv
<1>2. OwnerInv /\ CarriedInv /\ [Next]_vars => CarriedInv'
  BY CarriedStep DEF OwnerInv
<1> QED
  BY <1>1, <1>2, OwnerInvariant, PTL DEF Spec

\* The provider processes a call at most once, whatever polls and end calls fail
\* and are repeated.
THEOREM ProcessedAtMostOnce == Spec => []AtMostOnce
<1>1. CarriedInv => AtMostOnce
  BY DEF CarriedInv
<1> QED
  BY <1>1, CarriedInvariant, PTL

-----------------------------------------------------------------------------
(* Reverse calls implement the at-most-once channel *)

\* A step that moves one call changes the phase of that call alone.
LEMMA PhaseOfOne ==
  ASSUME NEW k \in Calls, \A j \in Calls \ {k} : ipc'[j] = ipc[j]
  PROVE  [j \in Calls |-> Phase(j)]'
           = [[j \in Calls |-> Phase(j)] EXCEPT ![k] = Phase(k)']
<1>1. \A j \in Calls \ {k} : Phase(j)' = Phase(j)
  BY DEF Phase
<1> QED
  BY <1>1

\* Only Invoke changes where it is, and only the provider executes.
LEMMA OthersKeepCallers ==
  ASSUME TypeOK,
         \/ \E n \in Polls : \/ Begin(n) \/ Beat(n) \/ Dispatch(n) \/ Reclaim(n)
                             \/ BeginFails(n) \/ EndFails(n)
         \/ \E n \in Stoppers : Stop(n)
         \/ CloseReturns \/ Loop \/ Close \/ UNCHANGED vars
  PROVE  /\ UNCHANGED <<ipc, reply>>
         /\ \/ UNCHANGED executed
            \/ \E n \in Polls : \E k \in batch[n] :
                 executed' = [executed EXCEPT ![k] = @ + 1]
<1> USE DEF invokeVars, tableVars, pollVars, onlineVars, providerVars
<1>1. ASSUME NEW n \in Polls, NEW k \in batch[n], Process(n, k)
      PROVE  /\ UNCHANGED <<ipc, reply>>
             /\ executed' = [executed EXCEPT ![k] = @ + 1]
  BY <1>1 DEF Process
<1>2. ASSUME NEW n \in Polls,
             Begin(n) \/ Beat(n) \/ End(n) \/ Reclaim(n) \/ BeginFails(n) \/ EndFails(n)
      PROVE  UNCHANGED <<ipc, reply, executed>>
  BY <1>2 DEF Begin, Mark, Send, Park, IdleExpire, PutEmpty, BeginReturns, Beat, BeatInTime,
     BeatMissed, GoOffline, End, Reclaim, BeginFails, EndFails
<1>3. ASSUME NEW n \in Stoppers, Stop(n) PROVE UNCHANGED <<ipc, reply, executed>>
  BY <1>3 DEF Stop, StopPop, StopSend
<1>4. CASE CloseReturns \/ Loop \/ Close \/ UNCHANGED vars
  BY <1>4 DEF CloseReturns, Loop, Listen, LeaveLoop, CallBegin, Answered, Close, vars
<1> QED
  BY <1>1, <1>2, <1>3, <1>4 DEF Dispatch

\* A step of Invoke is a step of the channel: the append that starts the call,
\* the two ways to return, or a stutter.
LEMMA InvokeRefines ==
  ASSUME TypeOK, CarriedInv, NEW k \in Calls, Append(k) \/ Invoke(k) \/ Expire(k)
  PROVE  Channel!Next \/ UNCHANGED Channel!vars
<1> USE DEF invokeVars, tableVars, pollVars, onlineVars, providerVars
<1> DEFINE phase == [j \in Calls |-> Phase(j)]
<1>1. CASE Append(k)
  <2>1. Phase(k) = "idle" /\ Phase(k)' = "pending" /\ UNCHANGED <<executed, reply>>
    BY <1>1 DEF Append, Phase, TypeOK
  <2>2. phase' = [phase EXCEPT ![k] = "pending"]
    BY <1>1, <2>1, PhaseOfOne DEF Append, TypeOK
  <2>3. Channel!Invoke(k)
    BY <2>1, <2>2 DEF Channel!Invoke
  <2> QED
    BY <2>3 DEF Channel!Next
<1>2. CASE Expire(k)
  <2>1. Phase(k) = "pending" /\ Phase(k)' = "failed" /\ UNCHANGED <<executed, reply>>
    BY <1>2 DEF Expire, Phase, TypeOK
  <2>2. phase' = [phase EXCEPT ![k] = "failed"]
    BY <1>2, <2>1, PhaseOfOne DEF Expire, TypeOK
  <2>3. Channel!Fail(k)
    BY <2>1, <2>2 DEF Channel!Fail
  <2> QED
    BY <2>3 DEF Channel!Next
<1>3. CASE Return(k)
  <2>1. Phase(k) = "pending" /\ Phase(k)' = "replied" /\ UNCHANGED executed
    BY <1>3 DEF Return, Phase, TypeOK
  <2>2. phase' = [phase EXCEPT ![k] = "replied"]
    BY <1>3, <2>1, PhaseOfOne DEF Return, TypeOK
  <2>3. result[k] = k /\ executed[k] = 1
    BY <1>3 DEF Return, CarriedInv, ResultsAreOwn
  <2>4. reply' = [reply EXCEPT ![k] = k]
    BY <1>3, <2>3 DEF Return
  <2>5. Channel!Return(k)
    BY <2>1, <2>2, <2>3, <2>4 DEF Channel!Return
  <2> QED
    BY <2>5 DEF Channel!Next
<1>4. CASE Register(k) \/ Pop(k) \/ Take(k) \/ Deliver(k) \/ Restore(k) \/ Refuse(k)
  <2>1. Phase(k) = "pending" /\ Phase(k)' = "pending" /\ UNCHANGED <<executed, reply>>
    BY <1>4 DEF Register, Pop, Take, Deliver, Restore, Refuse, Phase, TypeOK
  <2>2. \A j \in Calls \ {k} : ipc'[j] = ipc[j]
    BY <1>4 DEF Register, Pop, Take, Deliver, Restore, Refuse, TypeOK
  <2>3. phase' = phase
    BY <2>1, <2>2, PhaseOfOne
  <2> QED
    BY <2>1, <2>3 DEF Channel!vars
<1> QED
  BY <1>1, <1>2, <1>3, <1>4 DEF Invoke

\* Every step of reverse calls is a step of the channel or a stutter.
LEMMA StepRefines ==
  ASSUME TypeOK, CarriedInv, [Next]_vars
  PROVE  [Channel!Next]_(Channel!vars)
<1>1. ASSUME NEW k \in Calls, Append(k) \/ Invoke(k) \/ Expire(k)
      PROVE  [Channel!Next]_(Channel!vars)
  BY <1>1, InvokeRefines
<1>2. CASE \/ \E n \in Polls : \/ Begin(n) \/ Beat(n) \/ Dispatch(n) \/ Reclaim(n)
                               \/ BeginFails(n) \/ EndFails(n)
           \/ \E n \in Stoppers : Stop(n)
           \/ CloseReturns \/ Loop \/ Close \/ UNCHANGED vars
  <2>1. UNCHANGED <<ipc, reply>>
    BY <1>2, OthersKeepCallers
  <2>2. [j \in Calls |-> Phase(j)]' = [j \in Calls |-> Phase(j)]
    BY <2>1 DEF Phase
  <2>3. CASE UNCHANGED executed
    BY <2>1, <2>2, <2>3 DEF Channel!vars
  <2>4. ASSUME NEW n \in Polls, NEW k \in batch[n],
               executed' = [executed EXCEPT ![k] = @ + 1]
        PROVE  [Channel!Next]_(Channel!vars)
    <3> DEFINE s == <<"batch", n>>
    <3>a. s \in Stations /\ k \in CallsAt(s)
      BY CallsAtEach
    <3>b. k \in Calls
      BY DEF TypeOK
    <3> HIDE DEF s
    <3>1. k \in Calls /\ executed[k] = 0 /\ ipc[k] # "idle"
      BY <3>a, <3>b DEF CarriedInv, CarriedAreFresh
    <3>2. Phase(k) # "idle"
      BY <3>1 DEF Phase
    <3>3. executed' = [executed EXCEPT ![k] = 1]
      BY <2>4, <3>1 DEF TypeOK
    <3>4. Channel!Execute(k)
      BY <2>1, <2>2, <3>1, <3>2, <3>3 DEF Channel!Execute
    <3> QED
      BY <3>1, <3>4 DEF Channel!Next
  <2> QED
    BY <1>2, <2>3, <2>4, OthersKeepCallers
<1> QED
  BY <1>1, <1>2, Zenon DEF Next

\* Reverse calls implement the at-most-once channel: a call that travels in the
\* answer of a poll is processed at most once, and Invoke returns the result of
\* its own call or an error.
THEOREM ReverseImplementsChannel == Spec => ImplementsChannel
<1>1. Init => Channel!Init
  <2> SUFFICES ASSUME Init PROVE Channel!Init
    OBVIOUS
  <2>1. [j \in Calls |-> Phase(j)] = [j \in Calls |-> "idle"]
    BY DEF Init, Phase
  <2> QED
    BY <2>1 DEF Init, Channel!Init
<1>2. TypeOK /\ CarriedInv /\ [Next]_vars => [Channel!Next]_(Channel!vars)
  BY StepRefines
<1> QED
  BY <1>1, <1>2, TypeCorrect, CarriedInvariant, PTL
     DEF Spec, ImplementsChannel, Channel!Spec

-----------------------------------------------------------------------------
(* Without timeouts and failures no call is lost *)

\* The settings never change.
LEMMA SettingsStay == [Next]_vars => UNCHANGED options
<1> SUFFICES ASSUME [Next]_vars PROVE UNCHANGED options
  OBVIOUS
<1>1. ASSUME NEW k \in Calls, Append(k) \/ Invoke(k) \/ Expire(k) PROVE UNCHANGED options
  BY <1>1 DEF Append, Invoke, Register, Pop, Take, Deliver, Restore, Refuse, Return, Expire
<1>2. ASSUME NEW n \in Polls, Begin(n) \/ Beat(n) PROVE UNCHANGED options
  BY <1>2 DEF Begin, Mark, Send, Park, IdleExpire, PutEmpty, BeginReturns, Beat, BeatInTime,
     BeatMissed, GoOffline
<1>3. ASSUME NEW n \in Polls, Dispatch(n) \/ Reclaim(n) \/ BeginFails(n) \/ EndFails(n)
      PROVE  UNCHANGED options
  BY <1>3 DEF Dispatch, End, Process, Reclaim, BeginFails, EndFails
<1>4. ASSUME NEW n \in Stoppers, Stop(n) PROVE UNCHANGED options
  BY <1>4 DEF Stop, StopPop, StopSend
<1>5. CASE CloseReturns \/ Loop \/ Close \/ UNCHANGED vars
  BY <1>5 DEF CloseReturns, Loop, Listen, LeaveLoop, CallBegin, Answered, Close, vars
<1> QED
  BY <1>1, <1>2, <1>3, <1>4, <1>5, Zenon DEF Next

Quiet == ~IdleTimeout /\ ~Unreliable

\* One poll at a time, whose responder is empty as long as somebody has it, and
\* nothing written over.
PollsInOrder == OnePoll /\ OwnedAreWaiting /\ NothingOverwritten

\* A step of Invoke keeps the polls in order.
LEMMA InvokeKeepsOrder ==
  ASSUME TypeOK, OneOwner, Quiet, PollsInOrder, NEW k \in Calls,
         Append(k) \/ Invoke(k) \/ Expire(k)
  PROVE  PollsInOrder'
<1> USE PollsAssumption
<1> USE DEF TypeOK, PollsInOrder, OnePoll, OwnedAreWaiting, NothingOverwritten, Stoppers, Live,
            invokeVars, tableVars, pollVars, onlineVars, providerVars
<1>1. CASE Append(k) \/ Register(k) \/ Return(k) \/ Expire(k)
  BY <1>1, SMTT(20) DEF Append, Register, Return, Expire
<1>2. CASE Pop(k)
  BY <1>2 DEF Pop, AfterPop
<1>3. CASE Take(k)
  BY <1>3 DEF Take, AfterTake
<1>4. CASE Deliver(k)
  BY <1>4 DEF Deliver, OneOwner
<1>5. CASE Restore(k)
  <2>1. CASE responder = None
    <3>1. /\ responder' = popped[k] /\ popped' = [popped EXCEPT ![k] = None]
          /\ ipc' = [ipc EXCEPT ![k] = "wait"] /\ ipc[k] = "restore"
          /\ UNCHANGED <<taken, chan, pc, victim, answer, listen, batch>>
      BY <1>5, <2>1 DEF Restore
    <3>2. OnePoll' /\ NothingOverwritten'
      BY <3>1
    <3>3. OwnedAreWaiting'
      BY <3>1
    <3> QED
      BY <3>2, <3>3
  <2>2. CASE responder # None
    BY <1>5, <2>2, SMTT(20) DEF Restore
  <2> QED
    BY <2>1, <2>2
<1>6. CASE Refuse(k)
  BY <1>6 DEF Refuse, OneOwner
<1> QED
  BY <1>1, <1>2, <1>3, <1>4, <1>5, <1>6 DEF Invoke

\* So does a step of begin, ...
LEMMA BeginKeepsOrder ==
  ASSUME TypeOK, OneOwner, Quiet, PollsInOrder, NEW n \in Polls, Begin(n)
  PROVE  PollsInOrder'
<1> USE PollsAssumption
<1> USE DEF TypeOK, PollsInOrder, OnePoll, OwnedAreWaiting, NothingOverwritten, Stoppers, Live,
            Quiet, invokeVars, tableVars, pollVars, onlineVars, providerVars
<1>1. CASE Mark(n)
  BY <1>1 DEF Mark
<1>2. CASE Send(n)
  BY <1>2 DEF Send, AfterTake
<1>3. CASE Park(n)
  BY <1>3 DEF Park
<1>4. CASE IdleExpire(n) \/ PutEmpty(n)
  BY <1>4 DEF IdleExpire, PutEmpty
<1>5. CASE BeginReturns(n)
  BY <1>5 DEF BeginReturns
<1> QED
  BY <1>1, <1>2, <1>3, <1>4, <1>5 DEF Begin

\* ... of a stop, a heartbeat, Listen and its dispatch.
LEMMA OthersKeepOrder ==
  ASSUME TypeOK, OneOwner, BatchIsOpen, Quiet, PollsInOrder,
         \/ \E n \in Polls : Beat(n) \/ Dispatch(n) \/ Reclaim(n) \/ BeginFails(n) \/ EndFails(n)
         \/ \E n \in Stoppers : Stop(n)
         \/ CloseReturns \/ Loop \/ Close \/ UNCHANGED vars
  PROVE  PollsInOrder'
<1> USE PollsAssumption
<1> USE DEF TypeOK, PollsInOrder, OnePoll, OwnedAreWaiting, NothingOverwritten, Stoppers, Live,
            Quiet, invokeVars, tableVars, pollVars, onlineVars, providerVars
<1>1. ASSUME NEW n \in Polls, Beat(n) \/ BeginFails(n) \/ EndFails(n) \/ End(n)
      PROVE  PollsInOrder'
  BY <1>1 DEF Beat, BeatInTime, BeatMissed, GoOffline, BeginFails, EndFails, End
<1>2. ASSUME NEW n \in Polls, NEW k \in batch[n], Process(n, k) PROVE PollsInOrder'
  BY <1>2 DEF Process
<1>3. ASSUME NEW n \in Polls, Reclaim(n) PROVE PollsInOrder'
  BY <1>3 DEF Reclaim, BatchIsOpen
<1>4. ASSUME NEW n \in Stoppers, StopPop(n) PROVE PollsInOrder'
  BY <1>4 DEF StopPop, AfterPop
<1>5. ASSUME NEW n \in Stoppers, StopSend(n) PROVE PollsInOrder'
  BY <1>5 DEF StopSend, OneOwner
<1>6. CASE CloseReturns \/ Listen \/ LeaveLoop \/ Close \/ UNCHANGED vars
  BY <1>6 DEF CloseReturns, Listen, LeaveLoop, Close, vars
<1>7. ASSUME NEW n \in Polls, CallBegin(n) PROVE PollsInOrder'
  BY <1>7 DEF CallBegin
<1>8. ASSUME NEW n \in Polls, Answered(n) PROVE PollsInOrder'
  <2>1. /\ listen = n /\ answer[n] # None /\ answer' = [answer EXCEPT ![n] = None]
        /\ listen' \in {"off", "loop"} /\ UNCHANGED <<chan, pc, victim, responder>>
        /\ UNCHANGED <<ipc, popped, taken>>
    BY <1>8 DEF Answered
  <2>2. \A m \in Polls : m # n => batch'[m] = batch[m]
    BY <1>8 DEF Answered
  <2>3. OwnedAreWaiting'
    BY <2>1
  <2>4. pc[n] = "done"
    BY <2>1
  <2>5. OnePoll'
    BY <2>1, <2>4
  <2>6. NothingOverwritten'
    BY <2>1, <2>2, <2>4
  <2> QED
    BY <2>3, <2>5, <2>6
<1> QED
  BY <1>1, <1>2, <1>3, <1>4, <1>5, <1>6, <1>7, <1>8 DEF Dispatch, Stop, Loop

\* A step leaves call k where it is on its way.
WayKept(k) ==
  /\ k \in cache => k \in cache'
  /\ \A j \in Calls : k \in taken[j] => k \in taken'[j] /\ popped'[j] = popped[j]
  /\ \A n \in Polls : chan[n] \notin {None, Nil} /\ k \in chan[n] => chan'[n] = chan[n]
  /\ \A n \in Polls : answer[n] \notin {None, Nil} /\ k \in answer[n] => answer'[n] = answer[n]
  /\ \A n \in Polls : k \in batch[n] => k \in batch'[n]
  /\ \A n \in Polls : Attended(n) => Attended(n)'
  /\ \A n \in Polls : answer[n] \notin {None, Nil} /\ k \in answer[n] => listen' = n

\* Invoke was called for k, has not returned, and nobody has processed it.
Waiting(k) == ipc[k] \notin {"idle", "replied", "failed"} /\ executed[k] = 0

\* What is on its way stays so when it is left there.
LEMMA WayIsKept ==
  ASSUME TypeOK, PollsInOrder, NEW k \in Calls, Underway(k), WayKept(k)
  PROVE  Underway(k)'
<1>1. CASE k \in cache
  BY <1>1 DEF WayKept, Underway
<1>2. ASSUME NEW j \in Calls, k \in taken[j], Attended(popped[j]) PROVE Underway(k)'
  <2>1. popped[j] \in Polls
    BY <1>2, PollsAssumption DEF Attended, TypeOK, PollsInOrder, NothingOverwritten
  <2>2. PICK n \in Polls : n = popped[j]
    BY <2>1
  <2>3. k \in taken'[j] /\ popped'[j] = n /\ Attended(n)'
    BY <1>2, <2>2 DEF WayKept
  <2> QED
    BY <2>3 DEF Underway, Attended
<1>3. ASSUME NEW n \in Polls, chan[n] \notin {None, Nil}, k \in chan[n], Attended(n)
      PROVE  Underway(k)'
  BY <1>3 DEF WayKept, Underway
<1>4. ASSUME NEW n \in Polls, answer[n] \notin {None, Nil}, k \in answer[n]
      PROVE  Underway(k)'
  BY <1>4 DEF WayKept, Underway
<1>5. ASSUME NEW n \in Polls, k \in batch[n] PROVE Underway(k)'
  BY <1>5 DEF WayKept, Underway
<1> QED
  BY <1>1, <1>2, <1>3, <1>4, <1>5 DEF Underway

\* A step that moves no call at all
NothingMoves ==
  /\ UNCHANGED <<cache, taken, batch>>
  /\ \A n \in Polls : chan[n] # None => chan'[n] = chan[n]
  /\ \A n \in Polls : answer[n] # None => answer'[n] = answer[n] /\ listen' = n
  /\ \A j \in Calls : taken[j] # {} => popped'[j] = popped[j]
  /\ \A n \in Polls : Attended(n) => Attended(n)'

\* A step that moves nothing and invokes nothing leaves every call on its way.
LEMMA NothingIsLost ==
  ASSUME TypeOK, PollsInOrder, InvokedAreUnderway, NothingMoves,
         \A k \in Calls : Waiting(k)' => Waiting(k)
  PROVE  InvokedAreUnderway'
<1> SUFFICES ASSUME NEW k \in Calls, Waiting(k)' PROVE Underway(k)'
  BY DEF InvokedAreUnderway, Waiting
<1>1. Underway(k)
  BY DEF InvokedAreUnderway, Waiting
<1>2. WayKept(k)
  BY DEF NothingMoves, WayKept
<1> QED
  BY <1>1, <1>2, WayIsKept

\* What Invoke appends is in the cache, and what it takes from there goes to the
\* poll that Listen waits for.
LEMMA InvokeKeepsUnderway ==
  ASSUME TypeOK, Quiet, PollsInOrder, InvokedAreUnderway,
         NEW k \in Calls, Append(k) \/ Invoke(k) \/ Expire(k)
  PROVE  InvokedAreUnderway'
<1> USE PollsAssumption
<1> USE DEF invokeVars, tableVars, pollVars, onlineVars, providerVars
<1>a. \A j \in Calls : Waiting(j) => Underway(j)
  BY DEF InvokedAreUnderway, Waiting
<1>b. \A j \in Calls : j # k => (Waiting(j)' => Waiting(j))
  BY DEF Append, Invoke, Register, Pop, Take, Deliver, Restore, Refuse, Return, Expire,
     Waiting, TypeOK
<1>c. (\A j \in Calls : Waiting(j)' => Underway(j)') => InvokedAreUnderway'
  BY DEF InvokedAreUnderway, Waiting
<1>d. \A n \in Polls : Attended(n) => Attended(n)'
  BY DEF Append, Invoke, Register, Pop, Take, Deliver, Restore, Refuse, Return, Expire, Attended
<1>e. UNCHANGED <<batch, answer, listen, pc, executed>>
  BY DEF Append, Invoke, Register, Pop, Take, Deliver, Restore, Refuse, Return, Expire
<1>f. \A n \in Polls : answer[n] # None => listen' = n
  BY <1>e DEF PollsInOrder, OnePoll
<1>1. CASE Register(k) \/ Pop(k) \/ Restore(k) \/ Refuse(k) \/ Return(k)
  <2>1. Waiting(k)' => Waiting(k)
    BY <1>1 DEF Register, Pop, Restore, Refuse, Return, Waiting, TypeOK
  <2>2. UNCHANGED <<cache, taken>> /\ \A n \in Polls : chan[n] # None => chan'[n] = chan[n]
    BY <1>1 DEF Register, Pop, Restore, Refuse, Return, TypeOK, PollsInOrder, OwnedAreWaiting
  <2>3. \A j \in Calls : taken[j] # {} => popped'[j] = popped[j]
    BY <1>1 DEF Register, Pop, Restore, Refuse, Return, PollsInOrder, NothingOverwritten, TypeOK
  <2>4. NothingMoves
    BY <1>d, <1>e, <1>f, <2>2, <2>3 DEF NothingMoves
  <2> QED
    BY <1>b, <2>1, <2>4, NothingIsLost
<1>2. CASE Append(k) \/ Expire(k)
  <2>1. \A j \in Calls : j # k => WayKept(j)
    BY <1>2, <1>d, <1>e, <1>f DEF Append, WithCall, Expire, WayKept
  <2>2. Waiting(k)' => Underway(k)'
    BY <1>2 DEF Append, WithCall, Expire, Underway, Waiting, TypeOK
  <2> QED
    BY <1>a, <1>b, <1>c, <2>1, <2>2, WayIsKept
<1>3. CASE Take(k)
  <2>1. PICK n \in Polls : n = popped[k]
    BY <1>3 DEF Take, PollsInOrder, NothingOverwritten, TypeOK
  <2>2. taken' = [taken EXCEPT ![k] = cache] /\ taken[k] = {} /\ UNCHANGED <<popped, chan>>
    BY <1>3 DEF Take, PollsInOrder, NothingOverwritten
  <2>3. Attended(n)
    BY <2>1, PollsAssumption DEF Attended, PollsInOrder, OnePoll, OwnedAreWaiting, Live
  <2>4. ASSUME NEW j \in Calls, j \in cache PROVE Underway(j)'
    <3>1. j \in taken'[k] /\ popped'[k] = n /\ listen' = n /\ pc'[n] \in {"idle", "await"}
      BY <2>1, <2>2, <2>3, <2>4, <1>e DEF Attended, TypeOK
    <3> QED
      BY <3>1 DEF Underway, Attended
  <2>5. ASSUME NEW j \in Calls, j \notin cache PROVE WayKept(j)
    BY <2>2, <2>5, <1>d, <1>e, <1>f DEF WayKept, TypeOK
  <2>6. Waiting(k)' => Waiting(k)
    BY <1>3 DEF Take, Waiting, TypeOK
  <2> QED
    BY <1>a, <1>b, <1>c, <2>4, <2>5, <2>6, WayIsKept
<1>4. CASE Deliver(k)
  <2>1. PICK n \in Polls : n = popped[k]
    BY <1>4 DEF Deliver, PollsInOrder, NothingOverwritten, TypeOK
  <2>2. /\ taken' = [taken EXCEPT ![k] = {}] /\ popped' = [popped EXCEPT ![k] = None]
        /\ chan' = [chan EXCEPT ![n] = taken[k]] /\ chan[n] = None /\ UNCHANGED cache
    BY <1>4, <2>1 DEF Deliver
  <2>3. Attended(n)'
    BY <2>1, <1>e, PollsAssumption DEF Attended, PollsInOrder, OnePoll, OwnedAreWaiting, Live
  <2>4. ASSUME NEW j \in Calls, j \in taken[k], taken[k] \notin {None, Nil} PROVE Underway(j)'
    <3>1. chan'[n] = taken[k]
      BY <2>2 DEF TypeOK
    <3> QED
      BY <3>1, <2>3, <2>4 DEF Underway
  <2>5. ASSUME NEW j \in Calls, j \notin taken[k] PROVE WayKept(j)
    BY <2>2, <2>5, <1>d, <1>e, <1>f DEF WayKept, TypeOK
  <2>6. Waiting(k)' => Waiting(k)
    BY <1>4 DEF Deliver, Waiting, TypeOK
  <2>7. taken[k] \notin {None, Nil}
    BY NoneAssumption DEF TypeOK
  <2> QED
    BY <1>a, <1>b, <1>c, <2>4, <2>5, <2>6, <2>7, WayIsKept
<1> QED
  BY <1>1, <1>2, <1>3, <1>4 DEF Invoke

\* What the send of begin takes is in its responder, and then in the answer that
\* Listen waits for.
LEMMA BeginKeepsUnderway ==
  ASSUME TypeOK, Quiet, PollsInOrder, InvokedAreUnderway, NEW n \in Polls, Begin(n)
  PROVE  InvokedAreUnderway'
<1> USE PollsAssumption
<1> USE DEF invokeVars, tableVars, pollVars, onlineVars, providerVars
<1>a. \A j \in Calls : Waiting(j) => Underway(j)
  BY DEF InvokedAreUnderway, Waiting
<1>b. \A j \in Calls : Waiting(j)' => Waiting(j)
  BY DEF Begin, Mark, Send, Park, IdleExpire, PutEmpty, BeginReturns, Waiting
<1>c. (\A j \in Calls : Waiting(j)' => Underway(j)') => InvokedAreUnderway'
  BY DEF InvokedAreUnderway, Waiting
<1>e. UNCHANGED <<taken, popped, batch, listen>>
  BY DEF Begin, Mark, Send, Park, IdleExpire, PutEmpty, BeginReturns
<1>f. \A m \in Polls : answer[m] # None => listen' = m
  BY <1>e DEF PollsInOrder, OnePoll
<1>1. CASE Mark(n) \/ Park(n) \/ IdleExpire(n) \/ PutEmpty(n)
  <2>1. UNCHANGED <<cache, answer>>
    BY <1>1 DEF Mark, Park, IdleExpire, PutEmpty
  <2>2. \A m \in Polls : chan[m] # None => chan'[m] = chan[m]
    BY <1>1 DEF Mark, Park, IdleExpire, PutEmpty, TypeOK, PollsInOrder, OwnedAreWaiting
  <2>3. \A m \in Polls : Attended(m) => Attended(m)'
    BY <1>1, <1>e DEF Mark, Park, IdleExpire, PutEmpty, Attended, TypeOK, PollsInOrder,
       OnePoll, Live, Stoppers
  <2>4. NothingMoves
    BY <1>e, <1>f, <2>1, <2>2, <2>3 DEF NothingMoves
  <2> QED
    BY <1>b, <2>4, NothingIsLost
<1>2. CASE Send(n)
  <2>1. /\ pc[n] = "send" /\ chan[n] = None /\ listen = n
        /\ pc'[n] = IF cache = {} THEN "park" ELSE "await"
        /\ chan' = [chan EXCEPT ![n] = IF cache = {} THEN None ELSE cache]
        /\ UNCHANGED answer
        /\ \A m \in Polls : m # n => pc'[m] = pc[m]
    BY <1>2 DEF Send, TypeOK, Stoppers, PollsInOrder, OnePoll, OwnedAreWaiting, Live
  <2>2. \A m \in Polls : Attended(m) => Attended(m)'
    BY <1>e, <2>1 DEF Attended
  <2>3. ASSUME NEW j \in Calls, j \in cache PROVE Underway(j)'
    <3>1. chan'[n] = cache /\ cache \notin {None, Nil} /\ Attended(n)'
      BY <2>1, <2>3, <1>e, NoneAssumption DEF TypeOK, Attended
    <3> QED
      BY <3>1, <2>3 DEF Underway
  <2>4. ASSUME NEW j \in Calls, j \notin cache PROVE WayKept(j)
    BY <2>1, <2>2, <2>4, <1>e, <1>f DEF WayKept, TypeOK
  <2> QED
    BY <1>a, <1>b, <1>c, <2>3, <2>4, WayIsKept
<1>3. CASE BeginReturns(n)
  <2>1. /\ pc[n] = "await" /\ chan[n] # None /\ listen = n /\ answer[n] = None
        /\ answer' = [answer EXCEPT ![n] = chan[n]] /\ UNCHANGED cache
    BY <1>3 DEF BeginReturns, TypeOK, Stoppers, PollsInOrder, OnePoll, NothingOverwritten,
       OwnedAreWaiting, Live
  <2>2. ASSUME NEW i \in Calls, taken[i] # {} PROVE FALSE
    <3>1. popped[i] # None
      BY <2>2 DEF PollsInOrder, NothingOverwritten
    <3>2. PICK m \in Polls : m = popped[i]
      BY <3>1 DEF TypeOK
    <3>3. pc[m] = "await" /\ chan[m] = None
      BY <3>1, <3>2 DEF PollsInOrder, OwnedAreWaiting
    <3>4. listen = m
      BY <3>3 DEF PollsInOrder, OnePoll, Live
    <3> QED
      BY <2>1, <3>3, <3>4
  <2>3. ASSUME NEW k \in Calls, Underway(k) PROVE Underway(k)'
    <3>1. CASE k \in cache
      BY <3>1, <2>1 DEF Underway
    <3>2. ASSUME NEW m \in Polls, chan[m] \notin {None, Nil}, k \in chan[m], Attended(m)
          PROVE  Underway(k)'
      <4>1. m = n
        BY <3>2, <2>1 DEF Attended
      <4>2. answer'[n] = chan[n] /\ listen' = n
        BY <2>1, <1>e DEF TypeOK
      <4> QED
        BY <3>2, <4>1, <4>2 DEF Underway
    <3>3. ASSUME NEW m \in Polls, k \in batch[m] PROVE Underway(k)'
      BY <3>3, <1>e DEF Underway
    <3>4. ~ \E m \in Polls : answer[m] \notin {None, Nil} /\ listen = m
      BY <2>1
    <3> QED
      BY <2>2, <2>3, <3>1, <3>2, <3>3, <3>4 DEF Underway
  <2> QED
    BY <1>a, <1>b, <1>c, <2>3
<1> QED
  BY <1>1, <1>2, <1>3 DEF Begin

\* What Listen is answered with is dispatched, and processed from there.
LEMMA OthersKeepUnderway ==
  ASSUME TypeOK, BatchIsOpen, Quiet, PollsInOrder, InvokedAreUnderway,
         \/ \E n \in Polls : Beat(n) \/ Dispatch(n) \/ Reclaim(n) \/ BeginFails(n) \/ EndFails(n)
         \/ \E n \in Stoppers : Stop(n)
         \/ CloseReturns \/ Loop \/ Close \/ UNCHANGED vars
  PROVE  InvokedAreUnderway'
<1> USE PollsAssumption
<1> USE DEF invokeVars, tableVars, pollVars, onlineVars, providerVars
<1>a. \A j \in Calls : Waiting(j) => Underway(j)
  BY DEF InvokedAreUnderway, Waiting
<1>c. (\A j \in Calls : Waiting(j)' => Underway(j)') => InvokedAreUnderway'
  BY DEF InvokedAreUnderway, Waiting
<1>f. \A m \in Polls : answer[m] # None => listen = m
  BY DEF PollsInOrder, OnePoll
<1>1. ASSUME NEW n \in Polls, Beat(n) \/ BeginFails(n) \/ End(n) \/ EndFails(n)
      PROVE  InvokedAreUnderway'
  <2>1. NothingMoves /\ UNCHANGED <<ipc, executed>>
    BY <1>1, <1>f DEF Beat, BeatInTime, BeatMissed, GoOffline, BeginFails, End, EndFails,
       NothingMoves, Attended, Quiet
  <2> QED
    BY <2>1, NothingIsLost DEF Waiting
<1>2. ASSUME NEW n \in Polls, NEW k \in batch[n], Process(n, k) PROVE InvokedAreUnderway'
  <2>1. /\ batch' = [batch EXCEPT ![n] = @ \ {k}]
        /\ executed' = [executed EXCEPT ![k] = @ + 1]
        /\ UNCHANGED <<ipc, cache, taken, popped, chan, answer, listen, pc>>
    BY <1>2 DEF Process
  <2>2. k \in Calls /\ ~Waiting(k)'
    BY <2>1 DEF TypeOK, Waiting
  <2>3. ASSUME NEW j \in Calls, j # k PROVE WayKept(j) /\ (Waiting(j)' => Waiting(j))
    BY <2>1, <2>3, <1>f DEF WayKept, Attended, Waiting, TypeOK
  <2> QED
    BY <1>a, <1>c, <2>2, <2>3, WayIsKept
<1>3. ASSUME NEW n \in Polls, Reclaim(n) PROVE InvokedAreUnderway'
  <2>1. pc[n] = "done" /\ listen # n /\ UNCHANGED <<ipc, executed, cache, taken, popped, batch, listen>>
    BY <1>3 DEF Reclaim
  <2>2. \A m \in Polls : chan[m] # None => chan'[m] = chan[m]
    BY <1>3, <2>1 DEF Reclaim, PollsInOrder, OwnedAreWaiting, TypeOK
  <2>3. \A m \in Polls : answer[m] # None => answer'[m] = answer[m]
    BY <1>3, <2>1, <1>f DEF Reclaim, TypeOK
  <2>4. \A m \in Polls : Attended(m) => Attended(m)'
    BY <1>3, <2>1 DEF Reclaim, Attended, TypeOK
  <2>5. NothingMoves
    BY <1>f, <2>1, <2>2, <2>3, <2>4 DEF NothingMoves
  <2> QED
    BY <2>1, <2>5, NothingIsLost DEF Waiting
<1>4. ASSUME NEW n \in Stoppers, Stop(n) PROVE InvokedAreUnderway'
  <2>1. UNCHANGED <<ipc, executed, cache, taken, popped, batch, listen, answer>>
    BY <1>4 DEF Stop, StopPop, StopSend
  <2>2. \A m \in Polls : chan[m] # None => chan'[m] = chan[m]
    BY <1>4 DEF Stop, StopPop, StopSend, PollsInOrder, OwnedAreWaiting, TypeOK
  <2>3. \A m \in Polls : Attended(m) => Attended(m)'
    BY <1>4, <2>1 DEF Stop, StopPop, StopSend, Attended, TypeOK, Stoppers
  <2>4. NothingMoves
    BY <1>f, <2>1, <2>2, <2>3 DEF NothingMoves
  <2> QED
    BY <2>1, <2>4, NothingIsLost DEF Waiting
<1>5. CASE CloseReturns \/ Close \/ UNCHANGED vars
  <2>1. /\ UNCHANGED <<ipc, executed, cache, taken, popped, batch, listen, answer, chan>>
        /\ \A m \in Polls : pc'[m] = pc[m]
    BY <1>5 DEF CloseReturns, Close, vars, TypeOK, Stoppers
  <2>2. NothingMoves
    BY <1>f, <2>1 DEF NothingMoves, Attended
  <2> QED
    BY <2>1, <2>2, NothingIsLost DEF Waiting
<1>6. ASSUME Listen \/ LeaveLoop \/ \E n \in Polls : CallBegin(n) PROVE InvokedAreUnderway'
  <2>1. /\ UNCHANGED <<ipc, executed, cache, taken, popped, batch, answer, chan>>
        /\ \A m \in Polls : listen # m
    BY <1>6 DEF Listen, LeaveLoop, CallBegin
  <2>2. NothingMoves
    BY <1>f, <2>1 DEF NothingMoves, Attended
  <2> QED
    BY <2>1, <2>2, NothingIsLost DEF Waiting
<1>7. ASSUME NEW n \in Polls, Answered(n) PROVE InvokedAreUnderway'
  <2>1. /\ listen = n /\ answer[n] # None /\ pc[n] = "done" /\ batch[n] = {}
        /\ answer[n] # Nil => batch' = [batch EXCEPT ![n] = answer[n]]
        /\ answer[n] = Nil => UNCHANGED batch
        /\ UNCHANGED <<ipc, executed, cache, taken, popped, chan>>
    BY <1>7 DEF Answered, PollsInOrder, NothingOverwritten
  <2>2. /\ \A m \in Polls : ~Attended(m)
        /\ \A m \in Polls : answer[m] # None => m = n
        /\ \A m \in Polls : batch[m] \subseteq batch'[m]
    BY <2>1, <1>f DEF Attended, TypeOK
  <2>3. ASSUME NEW k \in Calls, Underway(k) PROVE Underway(k)'
    <3>1. CASE k \in cache
      BY <3>1, <2>1 DEF Underway
    <3>2. CASE answer[n] \notin {None, Nil} /\ k \in answer[n]
      <4>1. k \in batch'[n]
        BY <3>2, <2>1 DEF TypeOK
      <4> QED
        BY <4>1 DEF Underway
    <3>3. ASSUME NEW m \in Polls, k \in batch[m] PROVE Underway(k)'
      BY <3>3, <2>2 DEF Underway
    <3>4. \A i \in Calls : k \in taken[i] => ~Attended(popped[i])
      BY <2>2, PollsAssumption DEF PollsInOrder, NothingOverwritten, TypeOK
    <3> QED
      BY <2>2, <2>3, <3>1, <3>2, <3>3, <3>4 DEF Underway
  <2> QED
    BY <1>a, <1>c, <2>1, <2>3 DEF Waiting
<1> QED
  BY <1>1, <1>2, <1>3, <1>4, <1>5, <1>6, <1>7 DEF Dispatch, Loop

\* UnderwayInv is an invariant of reverse calls.
THEOREM UnderwayInvariant == Spec => []UnderwayInv
<1>1. Init => UnderwayInv
  <2> SUFFICES ASSUME Init PROVE OnePoll /\ OwnedAreWaiting /\ NothingOverwritten
                                /\ InvokedAreUnderway
    BY DEF UnderwayInv
  <2>1. OnePoll /\ OwnedAreWaiting /\ NothingOverwritten
    BY PollsAssumption DEF Init, OnePoll, OwnedAreWaiting, NothingOverwritten, Live, Stoppers
  <2>2. InvokedAreUnderway
    BY DEF Init, InvokedAreUnderway
  <2> QED
    BY <2>1, <2>2
<1>2. OwnerInv /\ UnderwayInv /\ [Next]_vars => UnderwayInv'
  <2> SUFFICES ASSUME OwnerInv, UnderwayInv, [Next]_vars, Quiet'
               PROVE  PollsInOrder' /\ InvokedAreUnderway'
    BY DEF UnderwayInv, Quiet, PollsInOrder
  <2>1. Quiet
    BY SettingsStay DEF Quiet, IdleTimeout, Unreliable
  <2>2. PollsInOrder /\ InvokedAreUnderway
    BY <2>1 DEF UnderwayInv, Quiet, PollsInOrder
  <2>3. TypeOK /\ BatchIsOpen /\ OneOwner
    BY DEF OwnerInv
  <2>4. ASSUME NEW k \in Calls, Append(k) \/ Invoke(k) \/ Expire(k)
        PROVE  PollsInOrder' /\ InvokedAreUnderway'
    BY <2>1, <2>2, <2>3, <2>4, InvokeKeepsOrder, InvokeKeepsUnderway
  <2>5. ASSUME NEW n \in Polls, Begin(n) PROVE PollsInOrder' /\ InvokedAreUnderway'
    BY <2>1, <2>2, <2>3, <2>5, BeginKeepsOrder, BeginKeepsUnderway
  <2>6. CASE \/ \E n \in Polls : \/ Beat(n) \/ Dispatch(n) \/ Reclaim(n)
                                 \/ BeginFails(n) \/ EndFails(n)
             \/ \E n \in Stoppers : Stop(n)
             \/ CloseReturns \/ Loop \/ Close \/ UNCHANGED vars
    BY <2>1, <2>2, <2>3, <2>6, OthersKeepOrder, OthersKeepUnderway
  <2> QED
    BY <2>4, <2>5, <2>6, Zenon DEF Next
<1> QED
  BY <1>1, <1>2, OwnerInvariant, PTL DEF Spec

\* With polls that neither time out nor fail no call is lost: each that Invoke
\* waits for is on its way to the provider, whatever heartbeats and Close do.
THEOREM CallsAreKept == Spec => []BeatingKeepsCalls
<1>1. UnderwayInv => BeatingKeepsCalls
  BY DEF UnderwayInv, BeatingKeepsCalls, NoCallLost, InvokedAreUnderway
<1> QED
  BY <1>1, UnderwayInvariant, PTL
=============================================================================

----------------------------- MODULE RateLimiter -----------------------------
(* plugins/limiter/rate_limiter.go: next is the time at which the tokens   *)
(* spent so far have been earned.  Acquire reads the clock, loads next and *)
(* stores the new value in separate steps, then passes, waits or fails.    *)
(* Times are whole multiples of the clock's unit, one token takes Interval.*)
EXTENDS Integers, Sequences

CONSTANTS Clients, Interval, Sizes,     \* sizes of the requests, in tokens
          Permits,      \* the values of maxPermits that are tried
          Timeouts,     \* those of timeout; 0: none
          MaxTime, MaxAcquires

VARIABLES maxPermits, timeout,     \* the options, which never change
          clock, earned,           \* the time, and l.next
          doing,                   \* where each client is in Acquire
          asked,                   \* what it asked for: tokens, now, last
          asks,                    \* how often Acquire has been called
          granted,                 \* history: every Acquire that stored, in order
          raced                    \* history: two Acquires have overlapped, and
                                   \* granted is no longer kept

ravars == <<maxPermits, timeout, clock, earned, doing, asked, asks, granted, raced>>

NotAsked == [tokens |-> 0, now |-> 0, last |-> 0, place |-> 0]

Init ==
  /\ maxPermits \in Permits /\ timeout \in Timeouts
  /\ clock = 0 /\ earned = 0
  /\ doing = [c \in Clients |-> "idle"] /\ asked = [c \in Clients |-> NotAsked]
  /\ asks = 0 /\ granted = <<>> /\ raced = FALSE

Tick ==
  /\ clock < MaxTime /\ clock' = clock + 1
  /\ UNCHANGED <<maxPermits, timeout, earned, doing, asked, asks, granted, raced>>

Ask(c) ==
  /\ doing[c] = "idle" /\ asks < MaxAcquires /\ asks' = asks + 1
  /\ \E n \in Sizes : asked' = [asked EXCEPT ![c] = [NotAsked EXCEPT !.tokens = n, !.now = clock]]
  /\ doing' = [doing EXCEPT ![c] = "load"]
  /\ raced' = (raced \/ \E d \in Clients : doing[d] \in {"load", "store"})
  /\ granted' = IF raced' THEN <<>> ELSE granted
  /\ UNCHANGED <<maxPermits, timeout, clock, earned>>

Load(c) ==
  /\ doing[c] = "load"
  /\ asked' = [asked EXCEPT ![c].last = earned]
  /\ doing' = [doing EXCEPT ![c] = "store"]
  /\ UNCHANGED <<maxPermits, timeout, clock, earned, asks, granted, raced>>

(* mutant: who has to wait is not charged.                                 *)
ChargesNoDebt(a) == IF a.last > a.now THEN a.last
                    ELSE a.last + a.tokens * Interval

(* now - permits * interval, with permits no more than maxPermits.         *)
NextTime(a) ==
  LET spent == a.last + a.tokens * Interval
      least == a.now - maxPermits * Interval
  IN  IF spent < least THEN least ELSE spent

Outcome(a) ==
  CASE a.last <= a.now                              -> "pass"
    [] a.last > a.now /\ timeout > 0 /\ a.last - a.now > timeout -> "refused"
    [] OTHER                                        -> "wait"

(* history: the tokens of all requests in granted.                         *)
Spent == IF granted = << >> THEN 0 ELSE granted[Len(granted)].through

Store(c) ==
  LET a == asked[c] IN
  /\ doing[c] = "store"
  /\ earned' = NextTime(a)
  /\ doing' = [doing EXCEPT ![c] = IF Outcome(a) = "wait" THEN "waiting" ELSE "idle"]
  /\ granted' = IF raced THEN <<>>
                ELSE Append(granted, [tokens |-> a.tokens, asked |-> a.now, last |-> a.last,
                                      through |-> Spent + a.tokens, out |-> Outcome(a), at |-> clock])
  /\ asked' = [asked EXCEPT ![c] = IF Outcome(a) = "wait" THEN [a EXCEPT !.place = Len(granted) + 1] ELSE NotAsked]
  /\ UNCHANGED <<maxPermits, timeout, clock, asks, raced>>

Leave(c, out) ==
  /\ doing' = [doing EXCEPT ![c] = "idle"]
  /\ asked' = [asked EXCEPT ![c] = NotAsked]
  /\ granted' = IF raced THEN <<>>
                ELSE [granted EXCEPT ![asked[c].place].out = out, ![asked[c].place].at = clock]
  /\ UNCHANGED <<maxPermits, timeout, clock, earned, asks, raced>>

(* The delay (from now to last, started later than now) is over.           *)
Wait(c) == doing[c] = "waiting" /\ clock >= asked[c].last /\ Leave(c, "pass")

(* The client's own context ends first: Acquire returns nil and the        *)
(* request goes on with a context that is over.                            *)
ContextEnds(c) == doing[c] = "waiting" /\ Leave(c, "over")

Next ==
  \/ Tick
  \/ \E c \in Clients : Ask(c) \/ Load(c) \/ Store(c) \/ Wait(c) \/ ContextEnds(c)

Spec == Init /\ [][Next]_ravars

-----------------------------------------------------------------------------
(* Properties *)

TypeOK ==
  /\ clock \in 0..MaxTime /\ earned \in Int
  /\ doing \in [Clients -> {"idle", "load", "store", "waiting"}]
  /\ asks \in 0..MaxAcquires /\ Len(granted) <= asks

(* The rate: between one request and a later one that passes, no more      *)
(* tokens have been asked for than the time between them earns and         *)
(* maxPermits allows; a request in debt is paid for by those after it.     *)
(* Overlapping Acquires can lose each other's stores, so that a rate over  *)
(* several callers at once is not kept (raced).                            *)
TokensBetween(i, j) == granted[j].through - granted[j].tokens - granted[i].through
RateKept ==
  ~raced =>
    \A i, j \in DOMAIN granted :
      i < j /\ granted[j].out = "pass" =>
        TokensBetween(i, j) * Interval <= granted[j].at - granted[i].asked + maxPermits * Interval

-----------------------------------------------------------------------------
(* The inductive invariant behind RateKept, in parts.                      *)

Grants == [tokens : Nat, asked : Nat, last : Int, through : Nat,
           out : {"pass", "wait", "refused", "over"}, at : Nat]

Shaped ==
  /\ maxPermits \in Permits /\ timeout \in Timeouts /\ raced \in BOOLEAN
  /\ asked \in [Clients -> [tokens : Nat, now : Nat, last : Int, place : Nat]]
  /\ granted \in Seq(Grants) /\ (raced => granted = << >>)

(* Who is between its load and its store is alone there, what it has read  *)
(* is still true, and who waits is kept at its place.                      *)
Alone ==
  /\ \A c \in Clients : doing[c] /= "idle" => asked[c].now <= clock
  /\ ~raced =>
       /\ \A c, d \in Clients : doing[c] \in {"load", "store"} /\ doing[d] \in {"load", "store"} => c = d
       /\ \A c \in Clients : doing[c] \in {"load", "store"} => Len(granted) < asks
       /\ \A c \in Clients : doing[c] = "store" => asked[c].last = earned
       /\ \A c \in Clients : doing[c] = "waiting" =>
            asked[c].place \in DOMAIN granted /\ granted[asked[c].place].last = asked[c].last

(* Whoever passes, passes when what was spent before it has been earned.   *)
PassedInTime == \A j \in DOMAIN granted : granted[j].out = "pass" => granted[j].last <= granted[j].at

(* What was spent since a request is in next, and in the last of each      *)
(* request after it.                                                       *)
Earning ==
  ~raced =>
    \A i \in DOMAIN granted :
      /\ (Spent - granted[i].through) * Interval <= earned - granted[i].asked + maxPermits * Interval
      /\ \A j \in DOMAIN granted : i < j =>
           TokensBetween(i, j) * Interval <= granted[j].last - granted[i].asked + maxPermits * Interval

RateInv == TypeOK /\ Shaped /\ Alone /\ PassedInTime /\ Earning
=============================================================================

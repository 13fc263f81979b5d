-------------------------- MODULE PollingLoopProofs --------------------------
(***************************************************************************)
(* Theorems about the timing of TradeEngine::run, for every length of a    *)
(* candle, of the work of a round and of the lag of the exchange.          *)
(***************************************************************************)
EXTENDS PollingLoop, TLAPS

Steps == {"orders", "klines", "update", "sleep", "undefined"}

\* The moment of the request lies in the candle given, or at its end.
Covers(k, time) == Opens(k) <= time /\ time <= Opens(k) + Period

\* The exchange holds the candles that opened up to now, save one that opened less
\* than Lag ago.
ExchangeInv ==
  /\ clock \in Nat /\ newest \in Nat
  /\ Opens(newest) <= clock /\ clock <= Opens(newest + 1) + Lag

\* What lies between two requests: a sleep of Period, and work for some time but
\* less than Period.
LoopInv ==
  /\ step \in Steps /\ asked \in Nat /\ wake \in Nat
  /\ asked <= clock /\ clock <= Deadline
  /\ step = "update" => asked < clock
  /\ step = "sleep" => asked + Period < wake
  /\ step = "orders" /\ given # None => asked + Period < clock

\* The candle given last, seen from its own request or, while the next is under way,
\* from that one.
GivenInv ==
  /\ given \in Nat \cup {None} /\ before \in Nat \cup {None}
  /\ given # None /\ step \in {"update", "sleep", "orders"} => Covers(given, asked)
  /\ given # None /\ step \in {"klines", "undefined"} =>
       Opens(given) + Period < asked /\ asked < Opens(given) + 3 * Period

PollingInv ==
  ExchangeInv /\ LoopInv /\ GivenInv /\ CandlesAdvance /\ EmptyOnlyWhileLate

\* The products with the length of a candle.
LEMMA OpensOrder ==
  ASSUME NEW j \in Int, NEW k \in Int
  PROVE  /\ Opens(k) \in Int
         /\ Opens(k + 1) = Opens(k) + Period /\ Opens(k + 2) = Opens(k) + 2 * Period
         /\ j <= k => Opens(j) <= Opens(k)
         /\ Opens(j) < Opens(k) => j < k
<1> DEFINE P == Period
<1>1. P \in Int /\ P > 0
  BY PollingAssumption
<1> HIDE DEF P
<1>2. /\ k * P \in Int /\ j * P \in Int
      /\ (k + 1) * P = k * P + P /\ (k + 2) * P = k * P + 2 * P
  BY <1>1
<1>3. \A a, b \in Int : a <= b => a * P <= b * P
  <2> SUFFICES ASSUME NEW a \in Int, NEW b \in Int, a <= b PROVE a * P <= b * P
    OBVIOUS
  <2>1. PICK d \in Nat : b = a + d
    <3>1. b - a \in Nat /\ b = a + (b - a)
      OBVIOUS
    <3> QED  BY <3>1
  <2>2. (a + d) * P = a * P + d * P /\ a * P \in Int /\ d * P \in Nat
    BY <1>1
  <2> QED  BY <2>1, <2>2
<1>4. (j <= k => j * P <= k * P) /\ (k <= j => k * P <= j * P)
  BY <1>3
<1>5. j * P < k * P => j < k
  BY <1>2, <1>4
<1> QED  BY <1>2, <1>4, <1>5 DEF Opens, P

\* The candle that a moment lies in.
LEMMA CandleOf ==
  ASSUME NEW time \in Nat
  PROVE  /\ time \div Period \in Nat
         /\ Opens(time \div Period) <= time /\ time < Opens(time \div Period) + Period
         /\ time % Period = time - Opens(time \div Period)
<1>1. Period \in Nat /\ Period > 0
  BY PollingAssumption
<1> DEFINE q == time \div Period
           r == time % Period
<1>2. q \in Int /\ r \in 0..(Period - 1) /\ time = Period * q + r
  BY <1>1
<1>3. q \in Nat
  <2>1. CASE q < 0
    <3>1. Period * (q + 1) <= 0
      BY <1>1, <1>2, <2>1
    <3> QED  BY <1>1, <1>2, <3>1
  <2> QED  BY <1>2, <2>1
<1>4. Opens(q) = Period * q
  BY <1>1, <1>2 DEF Opens
<1> HIDE DEF q, r
<1>5. q \in Nat /\ Opens(q) \in Int /\ Opens(q) <= time /\ time < Opens(q) + Period /\ r = time - Opens(q)
  <2>1. Period * q \in Int
    BY <1>1, <1>3
  <2> QED  BY <1>1, <1>2, <1>3, <1>4, <2>1
<1> QED  BY <1>5 DEF q, r

LEMMA Greatest ==
  ASSUME NEW S, NEW m \in S, S \subseteq Int, \A k \in S : k <= m
  PROVE  Max(S) = m
<1>1. \E x \in S : \A y \in S : x >= y
  OBVIOUS
<1>2. Max(S) \in S /\ \A y \in S : Max(S) >= y
  BY <1>1 DEF Max
<1>3. Max(S) \in Int /\ m \in Int /\ Max(S) >= m /\ Max(S) <= m
  BY <1>2
<1> QED  BY <1>3

\* The reply has one candle or none, and none only while the exchange is late.
LEMMA WhatReplyHolds ==
  ASSUME ExchangeInv, asked \in Nat, asked < clock
  PROVE  \/ Reply = {} /\ asked % Period \in 1..(Lag - 1)
         \/ Reply # {} /\ Max(Reply) \in Nat /\ Covers(Max(Reply), asked)
<1> DEFINE q == asked \div Period
<1>1. /\ q \in Nat /\ Opens(q) <= asked /\ asked < Opens(q) + Period
      /\ asked % Period = asked - Opens(q)
  BY CandleOf
<1> HIDE DEF q
<1>2. /\ Period \in Nat /\ Period > 0 /\ Lag \in Nat /\ Lag < Period
      /\ newest \in Nat /\ clock \in Nat /\ clock <= Opens(newest + 1) + Lag
      /\ Opens(newest + 1) = Opens(newest) + Period
      /\ Opens(q) \in Int /\ Opens(newest) \in Int /\ Opens(newest + 1) \in Int
      /\ Opens(q + 1) = Opens(q) + Period
  BY <1>1, PollingAssumption, OpensOrder DEF ExchangeInv
<1>3. newest >= q - 1
  <2>1. Opens(q) < Opens(newest + 2)
    <3>1. Opens(newest + 2) = Opens(newest) + 2 * Period
      BY <1>2, OpensOrder
    <3> QED  BY <1>1, <1>2, <3>1
  <2>2. q < newest + 2
    BY <1>1, <1>2, <2>1, OpensOrder
  <2> QED  BY <1>1, <1>2, <2>2
<1>4. \A k \in Reply : /\ k \in Nat /\ k <= q /\ k <= newest
                       /\ Covers(k, asked)
  <2> SUFFICES ASSUME NEW k \in Reply
               PROVE  k \in Nat /\ k <= q /\ k <= newest /\ Covers(k, asked)
    OBVIOUS
  <2>1. /\ k \in 0..newest /\ asked - Period <= Opens(k) /\ Opens(k) <= asked
        /\ k \in Int /\ Opens(k) \in Int
    BY <1>2, OpensOrder DEF Reply, StartTime
  <2>2. Opens(k) < Opens(q + 1)
    BY <1>1, <1>2, <2>1
  <2>3. k < q + 1
    BY <1>1, <2>1, <2>2, OpensOrder
  <2> QED  BY <1>1, <1>2, <2>1, <2>3 DEF Covers
<1>5. CASE q \in Reply
  <2>1. Max(Reply) = q
    <3>1. Reply \subseteq Int /\ \A k \in Reply : k <= q
      BY <1>4
    <3> QED  BY <1>5, <3>1, Greatest
  <2> QED  BY <1>4, <1>5, <2>1
<1>6. CASE q \notin Reply
  <2>1. newest = q - 1
    BY <1>1, <1>2, <1>3, <1>6 DEF Reply, StartTime
  <2>2. CASE Reply = {}
    <3>1. Opens(newest + 1) = Opens(q)
      BY <1>1, <1>2, <2>1
    <3>2. asked # Opens(q)
      <4>1. ASSUME asked = Opens(q) PROVE FALSE
        <5>1. Opens(q) = Opens(newest) + Period
          BY <1>2, <3>1
        <5>2. newest \in Reply
          BY <1>2, <4>1, <5>1 DEF Reply, StartTime
        <5> QED  BY <2>2, <5>2
      <4> QED  BY <4>1
    <3> QED  BY <1>1, <1>2, <2>2, <3>1, <3>2
  <2>3. CASE Reply # {}
    <3>1. \A k \in Reply : k = newest
      <4> SUFFICES ASSUME NEW k \in Reply PROVE k = newest
        OBVIOUS
      <4>1. k \in Nat /\ Opens(k) \in Int /\ asked - Period <= Opens(k) /\ k <= newest
        BY <1>4, OpensOrder DEF Reply, StartTime
      <4>2. k > newest - 1
        <5>1. CASE k < newest
          <6>1. Opens(k + 1) <= Opens(newest) /\ Opens(k + 1) = Opens(k) + Period
            BY <1>2, <4>1, <5>1, OpensOrder
          <6>2. Opens(newest) + Period = Opens(q)
            BY <1>1, <1>2, <2>1
          <6> QED  BY <1>1, <1>2, <4>1, <6>1, <6>2
        <5> QED  BY <1>2, <4>1, <5>1
      <4> QED  BY <1>2, <4>1, <4>2
    <3>2. newest \in Reply
      BY <2>3, <3>1
    <3>3. Max(Reply) = newest
      <4>1. Reply \subseteq Int /\ \A k \in Reply : k <= newest
        BY <1>4
      <4> QED  BY <3>2, <4>1, Greatest
    <3> QED  BY <1>4, <2>3, <3>2, <3>3
  <2> QED  BY <2>2, <2>3
<1> QED  BY <1>5, <1>6

-----------------------------------------------------------------------------
(* The invariant *)

LEMMA Numbers ==
  /\ Period \in Nat /\ Period > 0 /\ MaxWork \in Nat /\ MaxWork < Period
  /\ Lag \in Nat /\ Lag < Period
BY PollingAssumption

LEMMA PollingInit == Init => PollingInv
<1> SUFFICES ASSUME Init PROVE PollingInv
  OBVIOUS
<1>1. /\ clock \in Int /\ Opens(1) <= clock /\ clock < Opens(2)
      /\ newest = 1 /\ step = "orders" /\ asked = clock - Period /\ wake = 0
      /\ given = None /\ before = None
      /\ Opens(1) \in Int /\ Opens(2) \in Int
  <2>1. Opens(1) \in Int /\ Opens(2) \in Int
    BY OpensOrder
  <2> QED  BY <2>1 DEF Init
<1>2. Opens(0) = 0 /\ Opens(1) = Period /\ Opens(1 + 1) = Opens(2)
  BY Numbers DEF Opens
<1>3. ExchangeInv
  BY <1>1, <1>2, Numbers DEF ExchangeInv
<1>4. LoopInv
  BY <1>1, <1>2, Numbers DEF LoopInv, Steps, Deadline
<1>5. GivenInv /\ CandlesAdvance /\ EmptyOnlyWhileLate
  BY <1>1 DEF GivenInv, CandlesAdvance, EmptyOnlyWhileLate
<1> QED  BY <1>3, <1>4, <1>5 DEF PollingInv

\* What the reply gives next to the candle given before.
LEMMA UpdatePreserves == ASSUME PollingInv, Update PROVE PollingInv'
<1>1. /\ step = "klines" /\ asked < clock /\ UNCHANGED <<clock, asked, wake, newest>>
      /\ clock \in Nat /\ asked \in Nat /\ wake \in Nat /\ clock <= asked + MaxWork
      /\ given \in Nat \cup {None} /\ before \in Nat \cup {None}
  <2>1. step = "klines" /\ asked < clock /\ UNCHANGED <<clock, asked, wake, newest>>
    BY DEF Update
  <2>2. /\ clock \in Nat /\ asked \in Nat /\ wake \in Nat /\ clock <= Deadline
        /\ given \in Nat \cup {None} /\ before \in Nat \cup {None}
    BY DEF PollingInv, ExchangeInv, LoopInv, GivenInv
  <2>3. Deadline = asked + MaxWork
    BY <2>1, <2>2, Numbers DEF Deadline
  <2> QED  BY <2>1, <2>2, <2>3
<1>2. ExchangeInv'
  BY <1>1 DEF PollingInv, ExchangeInv
<1>3. CASE Reply = {}
  <2>1. step' = "undefined" /\ given' = given /\ before' = before
    BY <1>3 DEF Update
  <2>2. asked % Period \in 1..(Lag - 1)
    BY <1>1, <1>3, WhatReplyHolds DEF PollingInv
  <2>3. LoopInv'
    BY <1>1, <2>1, Numbers DEF LoopInv, Steps, Deadline
  <2>4. GivenInv' /\ CandlesAdvance' /\ EmptyOnlyWhileLate'
    BY <1>1, <2>1, <2>2
       DEF PollingInv, GivenInv, CandlesAdvance, EmptyOnlyWhileLate, Covers, Opens
  <2> QED  BY <1>2, <2>3, <2>4 DEF PollingInv
<1>4. CASE Reply # {}
  <2> DEFINE k == Max(Reply)
  <2>1. step' = "update" /\ given' = k /\ before' = given
    BY <1>4 DEF Update
  <2>2. k \in Nat /\ Covers(k, asked)
    BY <1>1, <1>4, WhatReplyHolds DEF PollingInv
  <2> HIDE DEF k
  <2>3. LoopInv'
    BY <1>1, <2>1, Numbers DEF LoopInv, Steps, Deadline
  <2>4. GivenInv'
    BY <1>1, <2>1, <2>2 DEF GivenInv, Covers, Opens, None
  <2>5. ASSUME given # None PROVE k - given \in {1, 2}
    <3>1. given \in Nat /\ Opens(given) + Period < asked /\ asked < Opens(given) + 3 * Period
      BY <1>1, <2>5 DEF PollingInv, GivenInv
    <3>2. Opens(k) <= asked /\ asked <= Opens(k) + Period
      BY <2>2 DEF Covers
    <3>3. /\ Opens(given) \in Int /\ Opens(k) \in Int
          /\ Opens(given + 3) = Opens(given) + 3 * Period
      <4>1. /\ Opens(given + 1 + 2) = Opens(given + 1) + 2 * Period
            /\ Opens(given + 1) = Opens(given) + Period
            /\ Opens(given) \in Int /\ Opens(k) \in Int
        BY <2>2, <3>1, OpensOrder
      <4>2. given + 1 + 2 = given + 3
        BY <3>1
      <4> QED  BY <4>1, <4>2, Numbers
    <3>4. Opens(given) < Opens(k) /\ Opens(k) < Opens(given + 3)
      BY <1>1, <3>1, <3>2, <3>3, Numbers
    <3>5. given < k /\ k < given + 3
      BY <2>2, <3>1, <3>4, OpensOrder
    <3> QED  BY <2>2, <3>1, <3>5
  <2>6. CandlesAdvance' /\ EmptyOnlyWhileLate'
    BY <2>1, <2>5 DEF CandlesAdvance, EmptyOnlyWhileLate
  <2> QED  BY <1>2, <2>3, <2>4, <2>6 DEF PollingInv
<1> QED  BY <1>3, <1>4

LEMMA PollingNext == PollingInv /\ [Next]_vars => PollingInv'
<1> SUFFICES ASSUME PollingInv, [Next]_vars PROVE PollingInv'
  OBVIOUS
<1> USE DEF PollingInv
<1>0. /\ clock \in Nat /\ asked \in Nat /\ wake \in Nat /\ newest \in Nat
      /\ \A k \in Nat : Opens(k) \in Int
  BY OpensOrder DEF ExchangeInv, LoopInv
<1>1. CASE AskCandles
  <2>1. ExchangeInv'
    BY <1>1 DEF AskCandles, ExchangeInv
  <2>2. LoopInv'
    BY <1>0, <1>1, Numbers DEF AskCandles, LoopInv, Steps, Deadline
  <2>3. GivenInv'
    <3>1. CASE given = None
      BY <1>1, <3>1 DEF AskCandles, GivenInv
    <3>2. CASE given # None
      <4>1. /\ given \in Nat /\ asked + Period < clock /\ clock <= asked + MaxWork + Period
            /\ Opens(given) <= asked /\ asked <= Opens(given) + Period
        BY <1>1, <3>2 DEF AskCandles, GivenInv, LoopInv, Deadline, Covers
      <4>2. Opens(given) + Period < clock /\ clock < Opens(given) + 3 * Period
        BY <1>0, <4>1, Numbers
      <4>3. asked' = clock /\ given' = given /\ before' = before /\ step' = "klines"
        BY <1>1 DEF AskCandles
      <4>4. Opens(given)' = Opens(given)
        BY <4>3 DEF Opens
      <4> QED  BY <4>2, <4>3, <4>4 DEF GivenInv
    <3> QED  BY <3>1, <3>2
  <2>4. CandlesAdvance' /\ EmptyOnlyWhileLate'
    BY <1>1 DEF AskCandles, CandlesAdvance, EmptyOnlyWhileLate
  <2> QED  BY <2>1, <2>2, <2>3, <2>4
<1>2. CASE Update
  BY <1>2, UpdatePreserves
<1>3. CASE SleepFor
  <2>1. /\ step = "update" /\ wake' = clock + Period /\ step' = "sleep"
        /\ UNCHANGED <<clock, asked, newest, given, before>>
    BY <1>3 DEF SleepFor
  <2>2. LoopInv'
    BY <1>0, <2>1, Numbers DEF LoopInv, Steps, Deadline
  <2>3. ExchangeInv' /\ GivenInv' /\ CandlesAdvance' /\ EmptyOnlyWhileLate'
    BY <2>1 DEF ExchangeInv, GivenInv, CandlesAdvance, EmptyOnlyWhileLate, Covers, Opens
  <2> QED  BY <2>2, <2>3
<1>4. CASE WakeUp
  <2>1. /\ step = "sleep" /\ clock >= wake /\ step' = "orders"
        /\ UNCHANGED <<clock, asked, wake, newest, given, before>>
    BY <1>4 DEF WakeUp
  <2>2. LoopInv'
    BY <1>0, <2>1, Numbers DEF LoopInv, Steps, Deadline
  <2>3. ExchangeInv' /\ GivenInv' /\ CandlesAdvance' /\ EmptyOnlyWhileLate'
    BY <2>1 DEF ExchangeInv, GivenInv, CandlesAdvance, EmptyOnlyWhileLate, Covers, Opens
  <2> QED  BY <2>2, <2>3
<1>5. CASE CandleOpens
  <2>1. clock >= Opens(newest + 1) /\ newest' = newest + 1 /\ UNCHANGED <<loop, clock>>
    BY <1>5 DEF CandleOpens
  <2>2. ExchangeInv'
    <3>1. /\ Opens(newest + 1 + 1) = Opens(newest + 1) + Period
          /\ Opens(newest + 1) \in Int
      BY <1>0, OpensOrder
    <3> QED  BY <1>0, <2>1, <3>1, Numbers DEF ExchangeInv, Opens
  <2>3. LoopInv' /\ GivenInv' /\ CandlesAdvance' /\ EmptyOnlyWhileLate'
    BY <2>1 DEF loop, LoopInv, Deadline, GivenInv, CandlesAdvance, EmptyOnlyWhileLate,
                Covers, Opens
  <2> QED  BY <2>2, <2>3
<1>6. CASE Tick
  <2>1. /\ clock < Opens(newest + 1) + Lag /\ clock < Deadline /\ clock' = clock + 1
        /\ UNCHANGED <<loop, newest>>
    BY <1>6 DEF Tick
  <2>2. ExchangeInv'
    <3>1. Opens(newest + 1) \in Int /\ Opens(newest) \in Int
      BY <1>0
    <3> QED  BY <1>0, <2>1, <3>1, Numbers DEF ExchangeInv, Opens
  <2>3. LoopInv'
    <3>1. Deadline \in Int /\ Deadline' = Deadline
      BY <1>0, <2>1, Numbers DEF Deadline, loop
    <3> QED  BY <1>0, <2>1, <3>1, Numbers DEF LoopInv, loop
  <2>4. GivenInv' /\ CandlesAdvance' /\ EmptyOnlyWhileLate'
    BY <2>1 DEF loop, GivenInv, CandlesAdvance, EmptyOnlyWhileLate, Covers, Opens
  <2> QED  BY <2>2, <2>3, <2>4
<1>7. CASE Over \/ UNCHANGED vars
  BY <1>7 DEF Over, vars, loop, ExchangeInv, LoopInv, Deadline, GivenInv, CandlesAdvance,
              EmptyOnlyWhileLate, Covers, Opens
<1> QED  BY <1>1, <1>2, <1>3, <1>4, <1>5, <1>6, <1>7 DEF Next

THEOREM PollingInvariance == Spec => []PollingInv
BY PollingInit, PollingNext, PTL DEF Spec

\* The strategy is not given a candle twice, and no more than one candle is passed
\* over between two rounds (sleep_for and the start of the window, trade_engine.cc
\* lines 31-40), for every length of a candle, of the work and of the lag below it.
THEOREM RoundsAdvance == Spec => []CandlesAdvance
<1>1. PollingInv => CandlesAdvance
  BY DEF PollingInv
<1> QED  BY <1>1, PollingInvariance, PTL

\* candles.back() of line 37 is taken of an empty reply only if the request came
\* after the opening of a candle and before the exchange had it.
THEOREM EmptyWhileLate == Spec => []EmptyOnlyWhileLate
<1>1. PollingInv => EmptyOnlyWhileLate
  BY DEF PollingInv
<1> QED  BY <1>1, PollingInvariance, PTL
=============================================================================

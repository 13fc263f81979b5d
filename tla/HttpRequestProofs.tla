------------------------- MODULE HttpRequestProofs --------------------------
(***************************************************************************)
(* Theorems about HttpRequest, for every number of tries: what the caller  *)
(* may conclude from how a request ended.  The invariant counts the tries  *)
(* that are written against those that are left, the orders and requests   *)
(* in flight against the tries, and says of an answer, from the moment the *)
(* exchange gives it, what it will still mean when the client reads it.    *)
(***************************************************************************)
EXTENDS HttpRequest, FiniteSetTheorems, TLAPS

SyncSteps  == {"loop", "resolve", "connect", "handshake", "write", "read", "shutdown",
               "status", "replied", "aborted", "terminated"}
AsyncSteps == {"resolve", "connect", "handshake", "write", "read", "body", "replied",
               "gave_up", "terminated"}

HttpTypeOK ==
  /\ client \in {"sync", "async"} /\ verb \in Verbs
  /\ step \in IF client = "sync" THEN SyncSteps ELSE AsyncSteps
  /\ tries \in Nat /\ failures \in Nat /\ attempt \in Nat /\ copies \in Nat
  /\ in_flight \subseteq 1..attempt
  /\ order \in {"open", "filled", "canceled"}

\* The client is between the start of a try and its request.
BeforeWrite == step \in {"resolve", "connect", "handshake", "write"}

TriesInv ==
  /\ client = "sync" =>
       attempt + tries + (IF BeforeWrite THEN 1 ELSE 0) <= RetryCount
  /\ client = "async" =>
       /\ failures <= MaxFailures
       /\ attempt <= failures + (IF BeforeWrite \/ step = "gave_up" THEN 0 ELSE 1)
       /\ step # "gave_up" => failures < MaxFailures

CopiesInv == copies + Cardinality(in_flight) <= attempt

\* What an answer says is so, and stays so.
ReplyInv ==
  /\ reply.status = "ok" =>
       /\ verb = "post" => reply.orderId \in 1..copies
       /\ verb = "delete" => order = "canceled"
       /\ verb = "get" /\ reply.order = "filled" => order = "filled"
  /\ step = "replied" => reply.status = "ok"

HttpInv == HttpTypeOK /\ TriesInv /\ CopiesInv /\ ReplyInv

-----------------------------------------------------------------------------

LEMMA InFlightFinite ==
  ASSUME HttpTypeOK
  PROVE  IsFiniteSet(in_flight) /\ Cardinality(in_flight) \in Nat
<1>1. IsFiniteSet(1..attempt)
  BY FS_Interval DEF HttpTypeOK
<1>2. IsFiniteSet(in_flight)
  BY <1>1, FS_Subset DEF HttpTypeOK
<1> QED  BY <1>2, FS_CardinalityType

LEMMA HttpInit == Init => HttpInv
<1> SUFFICES ASSUME Init PROVE HttpInv
  OBVIOUS
<1>1. Cardinality(in_flight) = 0
  BY FS_EmptySet DEF Init
<1> QED
  BY <1>1, HttpAssumption
     DEF Init, HttpInv, HttpTypeOK, TriesInv, CopiesInv, ReplyInv, BeforeWrite,
         SyncSteps, AsyncSteps, Verbs, NoReply, Answer

\* A step of the client that writes nothing: only the counts and the reply matter.
LEMMA ClientStep ==
  ASSUME HttpInv, Loop \/ Resolve \/ Connect \/ Handshake \/ Read \/ Shutdown
                  \/ Status \/ Body \/ (step = "write" /\ TryFails)
  PROVE  HttpInv'
<1>0. UNCHANGED <<client, verb, attempt, in_flight, copies, order>>
  BY DEF Loop, Resolve, Connect, Handshake, Read, Shutdown, Status, Body, TryFails,
         ConnectFails, Goto, caller, exchange
<1>1. CopiesInv'
  BY <1>0 DEF HttpInv, CopiesInv
<1>2. HttpTypeOK' /\ TriesInv'
  <2>1. CASE client = "sync"
    BY <1>0, <2>1, HttpAssumption
       DEF HttpInv, HttpTypeOK, TriesInv, BeforeWrite, SyncSteps, Loop, Resolve, Connect,
           Handshake, Read, Shutdown, Status, Body, TryFails, ConnectFails, Goto
  <2>2. CASE client = "async"
    BY <1>0, <2>2, HttpAssumption
       DEF HttpInv, HttpTypeOK, TriesInv, BeforeWrite, AsyncSteps, Loop, Resolve, Connect,
           Handshake, Read, Shutdown, Status, Body, TryFails, ConnectFails, Goto, Counted
  <2> QED  BY <2>1, <2>2 DEF HttpInv, HttpTypeOK
<1>3. ReplyInv'
  BY <1>0 DEF HttpInv, HttpTypeOK, ReplyInv, Loop, Resolve, Connect, Handshake, Read,
              Shutdown, Status, Body, TryFails, ConnectFails, Goto, StatusOk, NoReply, Answer
<1> QED  BY <1>1, <1>2, <1>3 DEF HttpInv

LEMMA HttpNext == HttpInv /\ [Next]_vars => HttpInv'
<1> SUFFICES ASSUME HttpInv, [Next]_vars PROVE HttpInv'
  OBVIOUS
<1> USE DEF HttpInv
<1>1. CASE Client
  <2>1. CASE Write
    <3>1. CASE TryFails
      BY <2>1, <3>1, ClientStep DEF Write
    <3>2. CASE connected /\ attempt' = attempt + 1
               /\ in_flight' = in_flight \cup {attempt'} /\ step' = "read"
               /\ UNCHANGED <<caller, tries, failures, connected, stalled, reply, copies, order>>
      <4>1. HttpTypeOK' /\ TriesInv'
        BY <2>1, <3>2, HttpAssumption
           DEF Write, HttpTypeOK, TriesInv, BeforeWrite, SyncSteps, AsyncSteps, caller
      <4>2. Cardinality(in_flight') = Cardinality(in_flight) + 1
        <5>1. attempt + 1 \notin in_flight
          BY DEF HttpTypeOK
        <5> QED  BY <3>2, <5>1, InFlightFinite, FS_AddElement
      <4>3. CopiesInv'
        BY <3>2, <4>2, InFlightFinite DEF CopiesInv, HttpTypeOK
      <4>4. ReplyInv'
        BY <3>2 DEF ReplyInv, caller
      <4> QED  BY <4>1, <4>3, <4>4
    <3> QED  BY <2>1, <3>1, <3>2 DEF Write
  <2>2. CASE ~Write
    BY <1>1, <2>2, ClientStep DEF Client
  <2> QED  BY <2>1, <2>2
<1>2. CASE Stall
  BY <1>2 DEF Stall, HttpTypeOK, TriesInv, CopiesInv, ReplyInv, BeforeWrite, caller, exchange
<1>3. ASSUME NEW n \in in_flight, Handle(n) PROVE HttpInv'
  <2>0. UNCHANGED <<client, verb, step, tries, failures, attempt>>
        /\ in_flight' = in_flight \ {n}
    BY <1>3 DEF Handle, caller
  <2>1. copies' \in {copies, copies + 1} /\ (order' = order \/ order' = "canceled")
    BY <1>3 DEF Handle, Accepts, Rejects, HttpTypeOK, Verbs
  <2>2. HttpTypeOK' /\ TriesInv'
    BY <2>0, <2>1 DEF HttpTypeOK, TriesInv, BeforeWrite
  <2>3. Cardinality(in_flight') = Cardinality(in_flight) - 1
    BY <2>0, InFlightFinite, FS_RemoveElement
  <2>4. CopiesInv'
    BY <2>0, <2>1, <2>3, InFlightFinite DEF CopiesInv, HttpTypeOK
  <2>5. ReplyInv'
    <3>1. step = "replied" => reply' = reply
      BY <1>3 DEF Handle, Accepts, Rejects, Answers, HttpTypeOK, Verbs
    <3>2. CASE verb = "post"
      BY <1>3, <2>0, <3>1, <3>2
         DEF Handle, Accepts, Rejects, Answers, Answer, ReplyInv, HttpTypeOK
    <3>3. CASE verb = "delete"
      BY <1>3, <2>0, <3>1, <3>3
         DEF Handle, Accepts, Rejects, Answers, Answer, ReplyInv, HttpTypeOK
    <3>4. CASE verb = "get"
      BY <1>3, <2>0, <3>1, <3>4
         DEF Handle, Accepts, Rejects, Answers, Answer, ReplyInv, HttpTypeOK
    <3> QED  BY <3>2, <3>3, <3>4 DEF HttpTypeOK, Verbs
  <2> QED  BY <2>2, <2>4, <2>5
<1>4. CASE Fills
  BY <1>4 DEF Fills, HttpTypeOK, TriesInv, CopiesInv, ReplyInv, BeforeWrite, caller
<1>5. CASE UNCHANGED vars
  BY <1>5 DEF vars, HttpTypeOK, TriesInv, CopiesInv, ReplyInv, BeforeWrite, caller, exchange
<1> QED  BY <1>1, <1>2, <1>3, <1>4, <1>5 DEF Next, Over

LEMMA HttpInvariance == Spec => []HttpInv
<1> QED  BY HttpInit, HttpNext, PTL DEF Spec

-----------------------------------------------------------------------------

\* Whatever fails, is lost or arrives late, and for any number of tries, the way a
\* request ended tells the caller what OutcomeKnown says (binance_broker.cc lines
\* 16-80): no more orders than tries, and an answer is of what is really so.
THEOREM OutcomeIsKnown == Spec => []OutcomeKnown
<1>1. HttpInv => OutcomeKnown
  <2> SUFFICES ASSUME HttpInv PROVE OutcomeKnown
    OBVIOUS
  <2>1. attempt <= IF client = "sync" THEN RetryCount ELSE MaxFailures
    BY HttpAssumption DEF HttpInv, HttpTypeOK, TriesInv, BeforeWrite
  <2>2. copies + Cardinality(in_flight) <= attempt
    BY DEF HttpInv, CopiesInv
  <2> QED  BY <2>1, <2>2 DEF HttpInv, HttpTypeOK, ReplyInv, OutcomeKnown, Verbs
<1> QED  BY <1>1, HttpInvariance, PTL

-----------------------------------------------------------------------------
(* The tries are bounded *)

\* How far a try is from its end, and how many steps of the client there can still be.
StepRank == [resolve |-> 8, connect |-> 7, handshake |-> 6, write |-> 5, read |-> 4,
             shutdown |-> 3, status |-> 2, body |-> 2, loop |-> 1]
TriesLeft == IF client = "sync" THEN tries ELSE MaxFailures - failures
StepsLeft == IF step \in Ended THEN 0 ELSE 9 * TriesLeft + StepRank[step]

\* A request cannot be tried for ever: each step of the client, failed or not, brings
\* its end nearer, and nothing the network or the exchange does sets it back (the
\* retry_count of request_until and the count of download's loop).
THEOREM TriesAreBounded ==
  Spec => [][/\ StepsLeft \in 0..(9 * (RetryCount + MaxFailures) + 8)
             /\ Client => StepsLeft' \in 0..(StepsLeft - 1)
             /\ ~Client => StepsLeft' = StepsLeft]_vars
<1>1. HttpInv /\ [Next]_vars =>
        [/\ StepsLeft \in 0..(9 * (RetryCount + MaxFailures) + 8)
         /\ Client => StepsLeft' \in 0..(StepsLeft - 1)
         /\ ~Client => StepsLeft' = StepsLeft]_vars
  <2> SUFFICES ASSUME HttpInv, Next
               PROVE  /\ StepsLeft \in 0..(9 * (RetryCount + MaxFailures) + 8)
                      /\ Client => StepsLeft' \in 0..(StepsLeft - 1)
                      /\ ~Client => StepsLeft' = StepsLeft
    OBVIOUS
  <2>1. /\ TriesLeft \in 0..(RetryCount + MaxFailures)
        /\ step \notin Ended => step \in DOMAIN StepRank /\ StepRank[step] \in 1..8
        /\ client = "async" /\ step \notin Ended => TriesLeft > 0
    BY HttpAssumption DEF HttpInv, HttpTypeOK, TriesInv, TriesLeft, SyncSteps, AsyncSteps,
       Ended, StepRank
  <2>2. StepsLeft \in 0..(9 * (RetryCount + MaxFailures) + 8)
    BY <2>1, HttpAssumption DEF StepsLeft
  <2>3. ASSUME Client PROVE StepsLeft' \in 0..(StepsLeft - 1)
    <3>1. step \notin Ended /\ UNCHANGED client
      BY <2>3 DEF Client, Loop, Resolve, Connect, Handshake, Write, Read, Shutdown, Status,
         Body, TryFails, ConnectFails, Goto, Ended, caller
    <3>2. StepsLeft = 9 * TriesLeft + StepRank[step] /\ StepRank[step] \in 1..8
      BY <2>1, <3>1 DEF StepsLeft
    \* The next try, a later step of this one, or the end.
    <3>3. \/ TriesLeft' = TriesLeft - 1 /\ step' \in {"resolve", "gave_up"}
          \/ /\ TriesLeft' = TriesLeft
             /\ step' \in Ended \/ StepRank[step'] \in 1..(StepRank[step] - 1)
      <4>1. CASE client = "sync"
        BY <2>3, <3>1, <4>1
           DEF Client, Loop, Resolve, Connect, Handshake, Write, Read, Shutdown, Status,
               Body, TryFails, ConnectFails, Goto, Ended, TriesLeft, StepRank, HttpInv,
               HttpTypeOK
      <4>2. CASE client = "async"
        BY <2>3, <3>1, <4>2, HttpAssumption
           DEF Client, Loop, Resolve, Connect, Handshake, Write, Read, Shutdown, Status,
               Body, TryFails, ConnectFails, Goto, Ended, TriesLeft, StepRank, HttpInv,
               HttpTypeOK, AsyncSteps, Counted
      <4> QED  BY <4>1, <4>2 DEF HttpInv, HttpTypeOK
    <3>4. TriesLeft' \in Nat
      BY <2>1, <2>3, HttpNext, HttpAssumption DEF HttpInv, HttpTypeOK, TriesInv, TriesLeft
    <3>5. StepRank["resolve"] = 8
      BY DEF StepRank
    <3> QED  BY <2>1, <3>2, <3>3, <3>4, <3>5 DEF StepsLeft, Ended
  <2>4. ASSUME ~Client PROVE StepsLeft' = StepsLeft
    <3>1. UNCHANGED <<client, step, tries, failures>>
      BY <2>4 DEF Next, Stall, Handle, Fills, vars, caller
    <3> QED  BY <3>1 DEF StepsLeft, TriesLeft
  <2> QED  BY <2>2, <2>3, <2>4
<1> QED  BY <1>1, HttpInvariance, PTL DEF Spec
=============================================================================

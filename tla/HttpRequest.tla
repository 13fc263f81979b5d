---------------------------- MODULE HttpRequest -----------------------------
(***************************************************************************)
(* One request to the exchange, over BinanceHttpClient, the way each of    *)
(* its two callers makes it.                                               *)
(*                                                                         *)
(* "sync": request_until of the broker (binance_broker.cc).  Every try is  *)
(* a connection of its own; one that fails, or whose reply is not 200, is  *)
(* repeated until retry_count are used up, and the process then aborts.    *)
(* None of the blocking calls has a timeout.                               *)
(*                                                                         *)
(* "async": the loop of the download program (download.cc), which asks for *)
(* candles on one connection, connects again after an error without        *)
(* looking at the result, and does not look at the HTTP status.  Each      *)
(* operation but the look-up of the name expires after five seconds.       *)
(*                                                                         *)
(* The exchange handles a request when it arrives, which may be after the  *)
(* client has lost the connection and tries again.                         *)
(***************************************************************************)
EXTENDS Integers, FiniteSets

CONSTANTS
  RetryCount,  \* retry_count_ of the broker, 3 in the code
  MaxFailures  \* errors after which download gives up, 3 in the code

ASSUME HttpAssumption == RetryCount \in Nat \ {0} /\ MaxFailures \in Nat \ {0}

VARIABLES
  client,     \* "sync" or "async"
  verb,       \* the method of the request
  step,       \* what the client is about to do, or how the request ended
  tries,      \* sync: the argument retry_count
  failures,   \* async: count
  connected,  \* the TLS session stands
  attempt,    \* the number of the request last written
  stalled,    \* the peer answers nothing more and the call blocks
  reply,      \* what came back on the connection, or NoReply
  in_flight,  \* the exchange: requests on their way to it
  copies,     \* the exchange: orders that tries of a POST have placed
  order       \* the exchange: the order a GET or DELETE names

caller == <<client, verb>>
exchange == <<in_flight, copies, order>>
vars == <<caller, step, tries, failures, connected, attempt, stalled, reply, exchange>>

Answer(status, id, status_of) == [status |-> status, orderId |-> id, order |-> status_of]
NoReply == Answer("none", 0, "none")
Ended == {"replied", "aborted", "gave_up", "terminated"}

\* What is sent: GET order or candles, POST an order, DELETE an order.
Verbs == {"get", "post", "delete"}

Init ==
  /\ client \in {"sync", "async"}
  /\ verb \in IF client = "sync" THEN Verbs ELSE {"get"}
  /\ step = IF client = "sync" THEN "loop" ELSE "resolve"
  /\ tries = RetryCount /\ failures = 0
  /\ connected = FALSE /\ attempt = 0 /\ stalled = FALSE /\ reply = NoReply
  /\ in_flight = {} /\ copies = 0 /\ order \in {"open", "filled", "canceled"}

-----------------------------------------------------------------------------
(* What is done with a try that failed *)

\* requset_once returns nullopt; the loop of request_until looks at the count.
\* The loop of download counts the failure, and connects again or gives up; if
\* the very first connection fails, it gives up at once.
Counted == failures + 1
TryFails ==
  /\ reply' = NoReply
  /\ IF client = "sync"
     THEN step' = "loop" /\ UNCHANGED failures
     ELSE /\ failures' = Counted
          /\ step' = IF failures' >= MaxFailures THEN "gave_up" ELSE "resolve"
  /\ connected' = FALSE
  /\ UNCHANGED <<caller, tries, attempt, stalled, exchange>>

ConnectFails ==
  /\ step' = IF client = "sync" THEN "loop"
             ELSE IF failures = 0 THEN "gave_up"
             ELSE "write"
  /\ connected' = FALSE
  /\ UNCHANGED <<caller, tries, failures, attempt, stalled, reply, exchange>>

Goto(next) ==
  /\ step' = next
  /\ UNCHANGED <<caller, tries, failures, connected, attempt, stalled, reply, exchange>>

-----------------------------------------------------------------------------
(* The client *)

\* while (retry_count--)
Loop ==
  /\ step = "loop"
  /\ IF tries = 0 THEN step' = "aborted" /\ UNCHANGED tries
     ELSE step' = "resolve" /\ tries' = tries - 1
  /\ UNCHANGED <<caller, failures, connected, attempt, stalled, reply, exchange>>

\* Both versions call the resolver without an error code: it throws, past the
\* retries, and the process ends.
Resolve == step = "resolve" /\ (Goto("connect") \/ Goto("terminated"))

Connect == step = "connect" /\ (Goto("handshake") \/ ConnectFails)

Handshake ==
  /\ step = "handshake"
  /\ \/ /\ step' = "write" /\ connected' = TRUE
        /\ UNCHANGED <<caller, tries, failures, attempt, stalled, reply, exchange>>
     \/ ConnectFails

\* What write could not hand over completely is not a request to the exchange.
Write ==
  /\ step = "write"
  /\ \/ /\ connected
        /\ attempt' = attempt + 1
        /\ in_flight' = in_flight \cup {attempt'}
        /\ step' = "read"
        /\ UNCHANGED <<caller, tries, failures, connected, stalled, reply, copies, order>>
     \/ TryFails

\* The connection may break before the reply is complete, and a body that is not
\* JSON is an error of its own (json_body::reader::finish).
Read ==
  /\ step = "read"
  /\ \/ /\ reply.status \in {"ok", "error"}
        /\ Goto(IF client = "sync" THEN "shutdown" ELSE "body")
     \/ TryFails

\* The result of shutdown_sync is not looked at.
Shutdown == step = "shutdown" /\ Goto("status")

\* Mutant: whatever was read is taken for the answer.
AnyStatus == TRUE
StatusOk == reply.status = "ok"
Status ==
  /\ step = "status"
  /\ IF StatusOk THEN Goto("replied") ELSE TryFails

\* What is no list of candles makes the conversions throw.
Body ==
  /\ step = "body"
  /\ Goto(IF StatusOk THEN "replied" ELSE "terminated")

Client ==
  /\ ~stalled
  /\ \/ Loop \/ Resolve \/ Connect \/ Handshake \/ Write \/ Read
     \/ Shutdown \/ Status \/ Body

-----------------------------------------------------------------------------
(* The network and the exchange *)

Calls == {"resolve", "connect", "handshake", "write", "read"}

\* What the asynchronous connect and send call expires_after before.
ConnectExpires == {"connect", "handshake"}
\* Mutant: send does not set the timeout anew.
SendNeverExpires == {}
SendExpires == {"write", "read"}

Blocking == IF client = "sync"
            THEN Calls \cup {"shutdown"}
            ELSE Calls \ (ConnectExpires \cup SendExpires)

\* Nothing comes back any more, not even an error: a call without a timeout
\* blocks.  (In the asynchronous client the operation fails when it expires.)
Stall ==
  /\ step \in Blocking /\ ~stalled
  /\ stalled' = TRUE
  /\ UNCHANGED <<caller, step, tries, failures, connected, attempt, reply, exchange>>

\* An answer reaches the client only while it waits for that one.
Answers(n, answer) ==
  reply' = IF step = "read" /\ n = attempt /\ ~stalled THEN answer ELSE reply

Accepts(n) ==
  \/ /\ verb = "post"
     /\ copies' = copies + 1
     /\ Answers(n, Answer("ok", copies', "open"))
     /\ UNCHANGED order
  \/ /\ verb = "delete" /\ order = "open"
     /\ order' = "canceled"
     /\ Answers(n, Answer("ok", 0, order'))
     /\ UNCHANGED copies
  \/ /\ verb = "get"
     /\ Answers(n, Answer("ok", 0, order))
     /\ UNCHANGED <<copies, order>>

\* An error of the exchange is JSON; one of a gateway before it may not be.
Rejects(n) ==
  /\ \E status \in {"error", "no_json"} : Answers(n, Answer(status, 0, "none"))
  /\ UNCHANGED <<copies, order>>

Handle(n) ==
  /\ in_flight' = in_flight \ {n}
  /\ Accepts(n) \/ Rejects(n)
  /\ UNCHANGED <<caller, step, tries, failures, connected, attempt, stalled>>

Fills ==
  /\ order = "open" /\ order' = "filled"
  /\ UNCHANGED <<caller, step, tries, failures, connected, attempt, stalled, reply, in_flight, copies>>

Over == step \in Ended \/ stalled

Next ==
  \/ Client \/ Stall
  \/ \E n \in in_flight : Handle(n)
  \/ Fills
  \/ Over /\ UNCHANGED vars

Spec == Init /\ [][Next]_vars

\* A call that is not stalled returns, with a result or an error.
FairSpec == Spec /\ WF_vars(Client)

-----------------------------------------------------------------------------
(* Properties *)

\* What the caller may conclude from how a request ended, which is what the
\* actions Create, CreateFails, Cancel and CancelFails of Trade and Reply of
\* Download assume (binance_broker.cc lines 16-80).  A POST has placed, now or when
\* it arrives, no more orders than there were tries, and the answer names one that
\* was placed; a DELETE that is answered has cancelled the order, also when an
\* earlier try had done so or the order could be filled meanwhile; a GET that
\* reports a fill is right.
OutcomeKnown ==
  /\ attempt <= IF client = "sync" THEN RetryCount ELSE MaxFailures
  /\ copies + Cardinality(in_flight) <= attempt
  /\ step = "replied" =>
       /\ verb = "post" => reply.orderId \in 1..copies
       /\ verb = "delete" => order = "canceled"
       /\ verb = "get" /\ reply.order = "filled" => order = "filled"

\* Every request ends: answered, or by abort, exception or giving up after a
\* bounded number of tries.  Only a blocking call that the peer never answers
\* keeps it from that (binance_http_client.cc lines 173-244), and in the
\* asynchronous client only the look-up of the name (line 31).
RequestEnds ==
  step \notin Ended ~>
    step \in Ended \/ (stalled /\ (client = "sync" \/ step = "resolve"))
=============================================================================

------------------------------ MODULE Download ------------------------------
(***************************************************************************)
(* The download program (dataset/download.cc): for each task of the        *)
(* configuration it asks the exchange for candles, a batch at a time, and  *)
(* inserts them one by one into the task's SQLite file (SqlDataset), each  *)
(* insertion a transaction of its own.  A later run resumes from what the  *)
(* file holds.  Meanwhile time passes, a request may fail, and the process *)
(* may end at any moment: killed, or by the exception that reading a reply *)
(* that is not a list of candles throws (the HTTP status is not looked at).*)
(* The asynchronous client of HttpRequest makes the requests.              *)
(*                                                                         *)
(* A backtest may replay one of the files at the same time (SqlIterator).  *)
(* SQLite lets it read from the first row to the last under a shared lock, *)
(* which makes insertions into that file fail; insert does not look at the *)
(* result, and download goes on to the next candle.                        *)
(*                                                                         *)
(* Time is counted in units of which a candle takes two: candle n opens at *)
(* 2n and closes at 2n + 1.  The exchange answers with what it has at that *)
(* moment, the candle in progress included.                                *)
(***************************************************************************)
EXTENDS Integers, Sequences, FiniteSetsExt, SequencesExt, Functions

CONSTANTS
  Tasks,       \* number of tasks in the configuration
  Halted,      \* candles the exchange does not have: no trade took place
  Limit,       \* candles in a reply, 1000 in the code
  MaxFailures, \* 3: failed requests after which a task is given up
  From, To,    \* the range of the backtest, in time
  MaxTime, MaxRuns  \* bounds: the clock, starts of the process

ASSUME DownloadAssumption ==
  /\ Tasks \in Nat /\ Halted \subseteq Nat
  /\ Limit \in Nat \ {0} /\ MaxFailures \in Nat \ {0}
  /\ From \in Nat /\ To \in Nat
  /\ MaxTime \in Nat /\ MaxRuns \in Nat

VARIABLES
  rows,        \* the klines table of each task: from candle to what is stored
  phase,       \* where the process is
  task,        \* the task in hand
  start_time, end_time,  \* locals of download
  batch,       \* candles of the reply still to be inserted, as rows has them
  count,       \* the static count of failed requests
  now,         \* the clock
  runs,        \* how often the process was started
  reader,      \* where the backtest is with its SqlIterator
  file,        \* the task whose file it reads
  replay,      \* the candles that next has returned
  snapshot,    \* history: what the file held when the replay began
  unstored     \* history: per task, candles whose insertion failed on the lock

locals == <<start_time, end_time>>
backtest == <<reader, file, replay, snapshot>>
process == <<phase, task, locals, batch, count>>
vars == <<rows, process, now, runs, backtest, unstored>>

OpenTime(n) == 2 * n
CloseTime(n) == 2 * n + 1

\* A candle as the exchange has it at the moment of the reply: whether it is over.
Version(n) == IF CloseTime(n) < now THEN "finished" ELSE "unfinished"

Init ==
  /\ rows = [t \in 1..Tasks |-> <<>>]
  /\ phase = "down" /\ task = 0
  /\ start_time = 0 /\ end_time = 0 /\ batch = <<>>
  /\ count = 0 /\ now = 0 /\ runs = 0
  /\ reader = "none" /\ file = 0 /\ replay = <<>>
  /\ snapshot = {} /\ unstored = [t \in 1..Tasks |-> {}]

-----------------------------------------------------------------------------
(* SqlDataset *)

\* The backtest holds the shared lock on the file of task t.
Locked(t) == reader = "reading" /\ file = t

\* open_time is the primary key: the second insertion of a candle fails, and so
\* does one into a file that is being read.  The result is not looked at.
Insert(t, n, version) ==
  /\ rows' = IF Locked(t) THEN rows
             ELSE [rows EXCEPT ![t] =
                     [m \in DOMAIN @ \cup {n} |-> IF m \in DOMAIN @ THEN @[m] ELSE version]]
  /\ unstored' = IF Locked(t) THEN [unstored EXCEPT ![t] = @ \cup {n}] ELSE unstored

\* SELECT MAX(close_time), or 0 of an empty table.
GetMaxStartTime(t) ==
  IF DOMAIN rows[t] = {} THEN 0 ELSE CloseTime(Max(DOMAIN rows[t]))

-----------------------------------------------------------------------------
(* The process *)

\* The task is over, one way or another; async_main takes the next.
NextTask == phase' = "task" /\ task' = task + 1

Start ==
  /\ phase = "down" /\ runs < MaxRuns
  /\ phase' = "task" /\ task' = 1
  /\ count' = 0 /\ runs' = runs + 1
  /\ UNCHANGED <<rows, locals, batch, now, backtest, unstored>>

\* Mutant: the end is a candle further on.
CandleFromNow == now + 2
EndTime == now

BeginTask ==
  /\ phase = "task" /\ task <= Tasks
  /\ end_time' = EndTime
  /\ phase' = "connect"
  /\ UNCHANGED <<rows, task, start_time, batch, count, now, runs, backtest, unstored>>

Connect ==
  /\ phase = "connect"
  /\ start_time' = GetMaxStartTime(task)
  /\ phase' = "loop"
  /\ UNCHANGED <<rows, task, end_time, batch, count, now, runs, backtest, unstored>>

ConnectFails ==
  /\ phase = "connect"
  /\ NextTask
  /\ UNCHANGED <<rows, locals, batch, count, now, runs, backtest, unstored>>

More == start_time < end_time

Available == {n \in 0..now : start_time <= OpenTime(n) /\ OpenTime(n) <= end_time} \ Halted

\* The first ones, up to the limit.
Candles == {n \in Available : Cardinality({m \in Available : m < n}) < Limit}

\* The body of a reply is in the order of time.
\* Mutant: the candles come newest first.
NewestFirst(candles) == Max(candles)
NextOf(candles) == Min(candles)

\* The request goes through; a reply without candles leaves the loop as it was.
Reply ==
  /\ phase = "loop" /\ More
  /\ batch' = [n \in Candles |-> Version(n)]
  /\ phase' = "insert"
  /\ UNCHANGED <<rows, task, locals, count, now, runs, backtest, unstored>>

\* Mutant: the count starts anew before it reaches the limit.
CountStartsAnew == (count + 1) % MaxFailures
Counted == count + 1

\* Once it is given up, the task gives way to the next; count stays.
SendFails ==
  /\ phase = "loop" /\ More
  /\ count' = Counted
  /\ IF count' >= MaxFailures THEN NextTask ELSE UNCHANGED <<phase, task>>
  /\ UNCHANGED <<rows, locals, batch, now, runs, backtest, unstored>>

InsertCandle ==
  /\ phase = "insert" /\ DOMAIN batch # {}
  /\ LET n == NextOf(DOMAIN batch)
     IN  /\ Insert(task, n, batch[n])
         /\ start_time' = CloseTime(n)
         /\ batch' = Restrict(batch, DOMAIN batch \ {n})
  /\ UNCHANGED <<phase, task, end_time, count, now, runs, backtest>>

EndBatch ==
  /\ phase = "insert" /\ DOMAIN batch = {}
  /\ phase' = "loop"
  /\ UNCHANGED <<rows, task, locals, batch, count, now, runs, backtest, unstored>>

EndTask ==
  /\ phase = "loop" /\ ~More
  /\ NextTask
  /\ UNCHANGED <<rows, locals, batch, count, now, runs, backtest, unstored>>

Exit ==
  /\ phase = "task" /\ task > Tasks
  /\ phase' = "down"
  /\ UNCHANGED <<rows, task, locals, batch, count, now, runs, backtest, unstored>>

\* Killed, or ended by an exception; what is inserted stays.
Crash ==
  /\ phase # "down"
  /\ phase' = "down" /\ batch' = <<>>
  /\ UNCHANGED <<rows, task, locals, count, now, runs, backtest, unstored>>

Tick ==
  /\ now < MaxTime
  /\ now' = now + 1
  /\ UNCHANGED <<rows, process, runs, backtest, unstored>>

Process ==
  \/ BeginTask \/ Connect \/ ConnectFails \/ Reply \/ SendFails
  \/ InsertCandle \/ EndBatch \/ EndTask \/ Exit

-----------------------------------------------------------------------------
(* A backtest, of one of the files *)

OpenIterator(t) ==
  /\ reader = "none"
  /\ reader' = "open" /\ file' = t
  /\ UNCHANGED <<rows, process, now, runs, replay, snapshot, unstored>>

InRange(n) == From <= OpenTime(n) /\ OpenTime(n) <= To
Returned == IF replay = <<>> THEN -1 ELSE Last(replay)
Remaining == {n \in DOMAIN rows[file] : InRange(n) /\ n > Returned}

\* ORDER BY open_time ASC
\* Mutant: the newest comes first.
Newest(candles) == Max(candles)
Oldest(candles) == Min(candles)

NextCandle ==
  /\ reader \in {"open", "reading"}
  /\ snapshot' = IF reader = "open" THEN DOMAIN rows[file] ELSE snapshot
  /\ IF Remaining # {}
     THEN reader' = "reading" /\ replay' = Append(replay, Oldest(Remaining))
     ELSE reader' = "done" /\ UNCHANGED replay
  /\ UNCHANGED <<rows, process, now, runs, file, unstored>>

\* next aborts if an insertion is being committed when it asks for the lock; and
\* the backtest may be killed.
BacktestAborts ==
  /\ \/ reader = "open" /\ phase = "insert" /\ DOMAIN batch # {} /\ task = file
     \/ reader = "reading"
  /\ reader' = "aborted"
  /\ UNCHANGED <<rows, process, now, runs, file, replay, snapshot, unstored>>

Backtest == (\E t \in 1..Tasks : OpenIterator(t)) \/ NextCandle \/ BacktestAborts

\* The process is not started any more and the clock is at its bound.
Over == phase = "down" /\ UNCHANGED vars

Next == Start \/ Process \/ Crash \/ Tick \/ Backtest \/ Over

Spec == Init /\ [][Next]_vars

\* A running process goes on.
FairSpec == Spec /\ WF_vars(Process)

-----------------------------------------------------------------------------
(* Properties *)

\* A dataset has a hole only where an insertion failed because the file was being
\* read: with a candle it holds all the others before it that the exchange has,
\* whatever else failed, wherever a run was cut off, and wherever the next one
\* resumed (SELECT MAX(close_time), and insertion in the order of time).
NoHoles ==
  \A t \in 1..Tasks : \A n \in DOMAIN rows[t] :
    (0..n) \ (Halted \cup unstored[t]) \subseteq DOMAIN rows[t]

\* A backtest that runs while the dataset is downloaded is given the candles that
\* the file held when it began, those of its range in their order, none twice and
\* none that came in later.
ReplayConsistent ==
  LET wanted == {n \in snapshot : InRange(n)}
  IN  /\ \A j, k \in DOMAIN replay : j < k => replay[j] < replay[k]
      /\ ToSet(replay) \subseteq wanted
      /\ \A n \in wanted : \A m \in ToSet(replay) : n < m => n \in ToSet(replay)
      /\ reader = "done" => wanted \subseteq ToSet(replay)

\* A run leaves at most one candle in a dataset that was not over when it was
\* downloaded.  No later run replaces it, so that there is no better bound.
OneUnfinishedPerRun ==
  \A t \in 1..Tasks :
    Cardinality({n \in DOMAIN rows[t] : rows[t][n] = "unfinished"}) <= runs

\* A task ends, even if requests keep failing, unless it has begun during a
\* candle that the exchange does not have: then it asks for ever.
TaskEnds ==
  phase = "loop" ~> phase \in {"task", "down"} \/ end_time \div 2 \in Halted
=============================================================================

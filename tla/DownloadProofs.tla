--------------------------- MODULE DownloadProofs ---------------------------
(***************************************************************************)
(* Theorems about the download program and a backtest that reads one of    *)
(* its files: for any number of tasks, runs and candles, wherever runs are *)
(* cut off and requests and insertions fail.                               *)
(***************************************************************************)
EXTENDS Download, FiniteSetTheorems, SequenceTheorems, WellFoundedInduction, TLAPS

(* The inductive invariant *)

Versions == {"finished", "unfinished"}
Tables == UNION {[D -> Versions] : D \in SUBSET Nat}
Phases == {"down", "task", "connect", "loop", "insert"}
Readers == {"none", "open", "reading", "done", "aborted"}

\* A candle that is stored, or about to be, had opened.
ShapeInv ==
  /\ rows \in [1..Tasks -> Tables] /\ unstored \in [1..Tasks -> SUBSET Nat]
  /\ batch \in Tables /\ DOMAIN batch \subseteq 0..now
  /\ \A t \in 1..Tasks : DOMAIN rows[t] \subseteq 0..now
  /\ now \in Nat /\ runs \in Nat /\ start_time \in Nat /\ end_time \in 0..now
  /\ phase \in Phases /\ task \in Nat
  /\ phase \in {"connect", "loop", "insert"} => task \in 1..Tasks
  /\ phase = "task" => task \in 1..(Tasks + 1)

\* A candle that a later run need not look for.
Settled(t) == Halted \cup unstored[t] \cup DOMAIN rows[t]

\* Everything before start_time is settled; what lies before a candle of the batch
\* is settled or in the batch.
HolesInv ==
  /\ \A t \in 1..Tasks : \A n \in DOMAIN rows[t] : \A m \in 0..n : m \in Settled(t)
  /\ phase \in {"loop", "insert"} =>
       \A m \in Nat : OpenTime(m) < start_time => m \in Settled(task)
  /\ phase = "insert" =>
       \A n \in DOMAIN batch : \A m \in 0..n : m \in Settled(task) \cup DOMAIN batch

Unfinished(t) == {n \in DOMAIN rows[t] : rows[t][n] = "unfinished"}

\* The candle that was in progress when the task in hand began.
Current == end_time \div 2

\* The task is still to be begun in this run.
Ahead(t) == phase # "down" /\ (task < t \/ (task = t /\ phase = "task"))
InHand(t) == task = t /\ phase \in {"connect", "loop", "insert"}

\* A run adds the candle that is in progress when it begins with a task, and no other.
UnfinishedInv ==
  /\ \A t \in 1..Tasks :
       /\ Cardinality(Unfinished(t)) <= runs
       /\ Ahead(t) => Cardinality(Unfinished(t)) < runs
       /\ InHand(t) => Cardinality(Unfinished(t) \ {Current}) < runs
  /\ phase = "insert" => \A n \in DOMAIN batch : batch[n] = "unfinished" => n = Current

\* What a backtest reads does not change while it reads.
ReaderInv ==
  /\ reader \in Readers /\ replay \in Seq(Nat) /\ snapshot \subseteq Nat
  /\ reader # "none" => file \in 1..Tasks
  /\ reader \in {"none", "open"} => replay = <<>>
  /\ reader = "reading" => snapshot = DOMAIN rows[file]
  /\ ReplayConsistent

DownloadInv == ShapeInv /\ HolesInv /\ UnfinishedInv /\ ReaderInv
-----------------------------------------------------------------------------
(* Lemmas about the operators *)

LEMMA TableShape ==
  ASSUME NEW f \in Tables
  PROVE  DOMAIN f \subseteq Nat /\ f \in [DOMAIN f -> Versions]
BY DEF Tables

LEMMA IsTable ==
  ASSUME NEW D \in SUBSET Nat, NEW f \in [D -> Versions]
  PROVE  f \in Tables /\ DOMAIN f = D
BY DEF Tables

LEMMA LeastOf ==
  ASSUME NEW S \in SUBSET Nat, S # {}
  PROVE  Min(S) \in S /\ \A n \in S : Min(S) <= n
<1>1. PICK k \in S : \A m \in S : <<m, k>> \notin OpToRel(<, Nat)
  BY WFMin, NatLessThanWellFounded, Zenon
<1>2. \A m \in S : ~(m < k)
  BY <1>1 DEF OpToRel
<1>3. \A m \in S : k <= m
  BY <1>2
<1> QED  BY <1>3 DEF Min

LEMMA GreatestOf ==
  ASSUME NEW b \in Nat, NEW S \in SUBSET (0..b), S # {}
  PROVE  Max(S) \in S /\ \A n \in S : n <= Max(S)
<1> DEFINE R == {b - n : n \in S}
<1>1. R \subseteq Nat /\ R # {}
  <2>1. \A n \in S : b - n \in Nat
    OBVIOUS
  <2> QED  BY <2>1
<1>2. Min(R) \in R /\ \A r \in R : Min(R) <= r
  BY <1>1, LeastOf
<1>3. PICK k \in S : Min(R) = b - k
  BY <1>2
<1>4. \A n \in S : n <= k
  <2> SUFFICES ASSUME NEW n \in S PROVE n <= k
    OBVIOUS
  <2>1. b - k <= b - n
    BY <1>2, <1>3
  <2> QED  BY <2>1
<1> QED  BY <1>4 DEF Max

\* A set of candles up to now is finite.
LEMMA CandlesFinite ==
  ASSUME NEW b \in Nat, NEW S \in SUBSET (0..b)
  PROVE  IsFiniteSet(S) /\ Cardinality(S) \in Nat
<1>1. IsFiniteSet(0..b)
  BY FS_Interval
<1> QED  BY <1>1, FS_Subset, FS_CardinalityType

\* The reply has no gap: what the exchange has before one of its candles is in it.
LEMMA ReplyIsFirst ==
  ASSUME ShapeInv, NEW n \in Candles, NEW m \in Available, m < n
  PROVE  m \in Candles
<1> DEFINE Before(k) == {i \in Available : i < k}
<1>0. now \in Nat /\ Limit \in Nat
  BY DownloadAssumption DEF ShapeInv
<1>1. Available \subseteq 0..now /\ n \in Available
  BY DEF Available, Candles
<1>2. Before(m) \subseteq Before(n)
  <2>1. \A i \in Available : i \in Nat
    BY <1>0, <1>1
  <2>2. \A i \in Available : i < m => i < n
    BY <1>1, <2>1
  <2> QED  BY <2>2
<1>3. Before(n) \subseteq 0..now
  BY <1>1
<1>4. Cardinality(Before(n)) < Limit
  BY DEF Candles
<1> HIDE DEF Before
<1>5. /\ IsFiniteSet(Before(n)) /\ Cardinality(Before(n)) \in Nat
      /\ Cardinality(Before(m)) \in Nat
  BY <1>0, <1>2, <1>3, CandlesFinite
<1>6. Cardinality(Before(m)) <= Cardinality(Before(n))
  BY <1>2, <1>5, FS_Subset
<1>7. Cardinality(Before(m)) < Limit
  BY <1>0, <1>4, <1>5, <1>6
<1> QED  BY <1>7 DEF Before, Candles

\* An insertion stores the candle, unless it was there or the file is being read.
LEMMA InsertStores ==
  ASSUME ShapeInv, NEW t \in 1..Tasks, NEW n \in Nat, NEW v \in Versions, Insert(t, n, v)
  PROVE  /\ rows' \in [1..Tasks -> Tables] /\ unstored' \in [1..Tasks -> SUBSET Nat]
         /\ \A u \in 1..Tasks : u # t => rows'[u] = rows[u] /\ unstored'[u] = unstored[u]
         /\ Locked(t) => rows' = rows /\ unstored'[t] = unstored[t] \cup {n}
         /\ ~Locked(t) =>
              /\ unstored' = unstored /\ DOMAIN rows'[t] = DOMAIN rows[t] \cup {n}
              /\ \A m \in DOMAIN rows[t] : rows'[t][m] = rows[t][m]
              /\ n \notin DOMAIN rows[t] => rows'[t][n] = v
<1>1. CASE Locked(t)
  <2>1. rows' = rows /\ unstored' = [unstored EXCEPT ![t] = unstored[t] \cup {n}]
    BY <1>1 DEF Insert, ShapeInv
  <2> QED  BY <1>1, <2>1 DEF ShapeInv
<1>2. CASE ~Locked(t)
  <2> DEFINE D == DOMAIN rows[t] \cup {n}
             table == [m \in D |-> IF m \in DOMAIN rows[t] THEN rows[t][m] ELSE v]
  <2>1. unstored' = unstored /\ rows' = [rows EXCEPT ![t] = table]
    BY <1>2 DEF Insert, ShapeInv
  <2>2. rows[t] \in Tables
    BY DEF ShapeInv
  <2>3. D \subseteq Nat /\ table \in [D -> Versions]
    BY <2>2, TableShape
  <2>4. /\ table \in Tables /\ DOMAIN table = D
        /\ \A m \in DOMAIN rows[t] : table[m] = rows[t][m]
        /\ n \notin DOMAIN rows[t] => table[n] = v
    BY <2>3, IsTable
  <2> HIDE DEF table
  <2>5. rows' \in [1..Tasks -> Tables] /\ rows'[t] = table
        /\ \A u \in 1..Tasks : u # t => rows'[u] = rows[u]
    BY <2>1, <2>4 DEF ShapeInv
  <2> QED  BY <1>2, <2>1, <2>4, <2>5 DEF ShapeInv
<1> QED  BY <1>1, <1>2

-----------------------------------------------------------------------------
(* What the parts of the invariant depend on *)

\* The settled candles of a task are the same while its table is.
LEMMA ReaderSame ==
  ASSUME ReaderInv, UNCHANGED <<rows, backtest>>
  PROVE  ReaderInv'
BY DEF ReaderInv, ReplayConsistent, InRange, backtest

LEMMA TablesSame ==
  ASSUME HolesInv, UNCHANGED <<rows, unstored, start_time>>,
         phase' \in {"loop", "insert"} => phase \in {"loop", "insert"} /\ task' = task,
         phase' = "insert" => phase = "insert" /\ batch' = batch
  PROVE  HolesInv'
BY DEF HolesInv, Settled

\* A task that is given up, or has ended, is not ahead any more.
LEMMA TaskOver ==
  ASSUME ShapeInv, UnfinishedInv, UNCHANGED <<rows, runs, end_time>>,
         \/ phase' = "task" /\ task' = task + 1 /\ phase # "down"
         \/ phase' = "down"
  PROVE  UnfinishedInv'
<1>1. \A t \in 1..Tasks : Ahead(t)' => Ahead(t)
  <2> SUFFICES ASSUME NEW t \in 1..Tasks, Ahead(t)' PROVE Ahead(t)
    OBVIOUS
  <2>1. phase # "down" /\ task' = task + 1 /\ task' <= t
    BY DEF Ahead, ShapeInv
  <2>2. task < t
    BY <2>1, DownloadAssumption DEF ShapeInv
  <2> QED  BY <2>1, <2>2 DEF Ahead
<1>2. \A t \in 1..Tasks : ~InHand(t)' /\ Unfinished(t)' = Unfinished(t)
  BY DEF InHand, Unfinished
<1> QED  BY <1>1, <1>2 DEF UnfinishedInv

\* The process goes on with the same task.
LEMMA TaskGoesOn ==
  ASSUME UnfinishedInv, UNCHANGED <<rows, runs, end_time, task>>,
         phase \in {"connect", "loop", "insert"}, phase' \in {"connect", "loop", "insert"},
         phase' = "insert" =>
           \A n \in DOMAIN batch' : batch'[n] = "unfinished" => n = Current
  PROVE  UnfinishedInv'
<1>1. \A t \in 1..Tasks :
        /\ Unfinished(t)' = Unfinished(t)
        /\ InHand(t)' <=> InHand(t)
        /\ Ahead(t)' <=> Ahead(t)
  BY DEF InHand, Ahead, Unfinished
<1>2. Current' = Current
  BY DEF Current
<1> QED  BY <1>1, <1>2 DEF UnfinishedInv

-----------------------------------------------------------------------------
(* The invariant holds initially and is preserved by every step *)

LEMMA DownloadInit == Init => DownloadInv
<1> SUFFICES ASSUME Init PROVE DownloadInv
  OBVIOUS
<1>1. <<>> \in Tables /\ DOMAIN <<>> = {}
  <2>1. <<>> \in [{} -> Versions]
    OBVIOUS
  <2> QED  BY <2>1, IsTable
<1>2. ShapeInv
  BY <1>1, DownloadAssumption DEF Init, ShapeInv, Phases
<1>3. HolesInv
  BY <1>1 DEF Init, HolesInv
<1>4. UnfinishedInv
  <2>1. \A t \in 1..Tasks : Unfinished(t) = {} /\ ~Ahead(t) /\ ~InHand(t)
    BY <1>1 DEF Init, Unfinished, Ahead, InHand
  <2>2. Cardinality({}) = 0
    BY FS_EmptySet
  <2>3. \A t \in 1..Tasks : Cardinality(Unfinished(t)) = 0
    BY <2>1, <2>2
  <2>4. runs = 0 /\ phase = "down"
    BY DEF Init
  <2> QED  BY <2>1, <2>3, <2>4 DEF UnfinishedInv
<1>5. ReaderInv
  BY DEF Init, ReaderInv, ReplayConsistent, ToSet, Readers
<1> QED  BY <1>2, <1>3, <1>4, <1>5 DEF DownloadInv

LEMMA StartPreserves == ASSUME DownloadInv, Start PROVE DownloadInv'
<1> USE DEF DownloadInv
<1>1. /\ phase = "down" /\ phase' = "task" /\ task' = 1 /\ runs' = runs + 1
      /\ UNCHANGED <<rows, unstored, batch, now, start_time, end_time, backtest>>
  BY DEF Start, locals
<1>2. ShapeInv'
  BY <1>1, DownloadAssumption DEF ShapeInv, Phases
<1>3. UnfinishedInv'
  <2>1. \A t \in 1..Tasks : Unfinished(t)' = Unfinished(t) /\ ~InHand(t)'
    BY <1>1 DEF Unfinished, InHand
  <2>2. \A t \in 1..Tasks : Cardinality(Unfinished(t)) \in Nat
    BY CandlesFinite DEF ShapeInv, Unfinished
  <2>3. runs \in Nat /\ \A t \in 1..Tasks : Cardinality(Unfinished(t)) <= runs
    BY DEF ShapeInv, UnfinishedInv
  <2>4. \A t \in 1..Tasks : Cardinality(Unfinished(t)) < runs'
    BY <1>1, <2>2, <2>3
  <2>5. \A t \in 1..Tasks : Cardinality(Unfinished(t)) <= runs'
    BY <1>1, <2>2, <2>3
  <2> QED  BY <1>1, <2>1, <2>4, <2>5 DEF UnfinishedInv
<1> QED  BY <1>1, <1>2, <1>3, ReaderSame, TablesSame

LEMMA BeginTaskPreserves == ASSUME DownloadInv, BeginTask PROVE DownloadInv'
<1> USE DEF DownloadInv
<1>1. /\ phase = "task" /\ phase' = "connect" /\ task <= Tasks /\ end_time' = now
      /\ UNCHANGED <<rows, unstored, task, batch, now, runs, start_time, backtest>>
  BY DEF BeginTask, EndTime
<1>2. ShapeInv'
  BY <1>1, DownloadAssumption DEF ShapeInv, Phases
<1>3. UnfinishedInv'
  <2>1. \A t \in 1..Tasks :
          /\ Unfinished(t)' = Unfinished(t)
          /\ Ahead(t)' => Ahead(t)
          /\ InHand(t)' => Ahead(t)
    BY <1>1 DEF Unfinished, Ahead, InHand
  <2>2. \A t \in 1..Tasks : InHand(t)' => Cardinality(Unfinished(t) \ {Current'}) < runs
    <3> SUFFICES ASSUME NEW t \in 1..Tasks, Ahead(t)
                 PROVE  Cardinality(Unfinished(t) \ {Current'}) < runs
      BY <2>1
    <3>1. /\ IsFiniteSet(Unfinished(t)) /\ Cardinality(Unfinished(t)) \in Nat
          /\ Cardinality(Unfinished(t) \ {Current'}) \in Nat
      BY CandlesFinite DEF ShapeInv, Unfinished
    <3>2. Cardinality(Unfinished(t) \ {Current'}) <= Cardinality(Unfinished(t))
      BY <3>1, FS_Subset
    <3>3. runs \in Nat /\ Cardinality(Unfinished(t)) < runs
      BY DEF ShapeInv, UnfinishedInv
    <3> QED  BY <3>1, <3>2, <3>3
  <2> QED  BY <1>1, <2>1, <2>2 DEF UnfinishedInv
<1> QED  BY <1>1, <1>2, <1>3, ReaderSame, TablesSame

\* get_max_start_time: a run resumes after all that is settled.
LEMMA ConnectPreserves == ASSUME DownloadInv, Connect PROVE DownloadInv'
<1> USE DEF DownloadInv
<1>1. /\ phase = "connect" /\ phase' = "loop" /\ start_time' = GetMaxStartTime(task)
      /\ UNCHANGED <<rows, unstored, task, batch, now, runs, end_time, backtest>>
  BY DEF Connect
<1>2. task \in 1..Tasks /\ now \in Nat /\ DOMAIN rows[task] \subseteq 0..now
  BY <1>1 DEF ShapeInv
<1>3. /\ start_time' \in Nat
      /\ \A m \in Nat : OpenTime(m) < start_time' => m \in Settled(task)
  <2>1. CASE DOMAIN rows[task] = {}
    BY <1>1, <2>1 DEF GetMaxStartTime, OpenTime
  <2>2. CASE DOMAIN rows[task] # {}
    <3> DEFINE last == Max(DOMAIN rows[task])
    <3>1. last \in DOMAIN rows[task] /\ last \in Nat
      <4>1. \A S \in SUBSET (0..now) : S # {} => Max(S) \in S
        BY <1>2, GreatestOf
      <4> QED  BY <1>2, <2>2, <4>1
    <3>2. start_time' = 2 * last + 1
      BY <1>1, <2>2 DEF GetMaxStartTime, CloseTime
    <3> HIDE DEF last
    <3>3. ASSUME NEW m \in Nat, OpenTime(m) < start_time' PROVE m \in 0..last
      BY <3>1, <3>2, <3>3 DEF OpenTime
    <3> QED  BY <1>2, <3>1, <3>2, <3>3 DEF HolesInv
  <2> QED  BY <2>1, <2>2
<1>4. ShapeInv'
  BY <1>1, <1>3 DEF ShapeInv, Phases
<1>5. HolesInv'
  BY <1>1, <1>3 DEF HolesInv, Settled
<1> QED  BY <1>1, <1>4, <1>5, ReaderSame, TaskGoesOn

\* The candles of the reply, in the order of time, leave no gap after start_time, and
\* only the last may be in progress.
LEMMA ReplyPreserves == ASSUME DownloadInv, Reply PROVE DownloadInv'
<1> USE DEF DownloadInv
<1>1. /\ phase = "loop" /\ phase' = "insert" /\ batch' = [n \in Candles |-> Version(n)]
      /\ UNCHANGED <<rows, unstored, task, now, runs, start_time, end_time, backtest>>
  BY DEF Reply, locals
<1>2. /\ task \in 1..Tasks /\ now \in Nat /\ start_time \in Nat
      /\ end_time \in Nat /\ end_time <= now
  BY <1>1 DEF ShapeInv
<1>3. Candles \subseteq 0..now /\ Candles \subseteq Available
  BY DEF Candles, Available
<1>4. batch' \in Tables /\ DOMAIN batch' = Candles
  <2>1. \A n : Version(n) \in Versions
    BY DEF Version, Versions
  <2>2. Candles \in SUBSET Nat /\ batch' \in [Candles -> Versions]
    BY <1>1, <1>3, <2>1
  <2> QED  BY <2>2, IsTable
<1>5. ShapeInv'
  BY <1>1, <1>3, <1>4 DEF ShapeInv, Phases
<1>6. HolesInv'
  <2>1. ASSUME NEW n \in Candles, NEW m \in 0..n
        PROVE  m \in Settled(task) \cup Candles
    <3>1. n \in Nat /\ m \in Nat /\ n <= now /\ OpenTime(n) <= end_time
      BY <1>3 DEF Available
    <3>2. CASE OpenTime(m) < start_time
      BY <1>1, <3>1, <3>2 DEF HolesInv
    <3>3. CASE m \in Halted
      BY <3>3 DEF Settled
    <3>4. CASE ~(OpenTime(m) < start_time) /\ m \notin Halted /\ m # n
      <4>1. /\ m \in 0..now /\ start_time <= OpenTime(m) /\ OpenTime(m) <= end_time
            /\ m < n
        BY <1>2, <3>1, <3>4 DEF OpenTime
      <4>2. m \in Available
        BY <3>4, <4>1 DEF Available
      <4> QED  BY <4>1, <4>2, ReplyIsFirst
    <3> QED  BY <3>2, <3>3, <3>4
  <2> QED  BY <1>1, <1>4, <2>1 DEF HolesInv, Settled
<1>7. ASSUME NEW n \in Candles, batch'[n] = "unfinished" PROVE n = Current
  <2>1. n \in Nat /\ OpenTime(n) <= end_time
    BY <1>3 DEF Available
  <2>2. Version(n) = "unfinished"
    BY <1>1, <1>7
  <2>3. now <= CloseTime(n)
    BY <1>2, <2>1, <2>2 DEF Version, CloseTime
  <2> QED  BY <1>2, <2>1, <2>3 DEF OpenTime, CloseTime, Current
<1>8. UnfinishedInv'
  BY <1>1, <1>4, <1>7, TaskGoesOn
<1> QED  BY <1>1, <1>5, <1>6, <1>8, ReaderSame

LEMMA InsertPreserves == ASSUME DownloadInv, InsertCandle PROVE DownloadInv'
<1> USE DEF DownloadInv
<1> DEFINE n == Min(DOMAIN batch)
<1>1. /\ phase = "insert" /\ DOMAIN batch # {}
      /\ Insert(task, n, batch[n]) /\ start_time' = CloseTime(n)
      /\ batch' = Restrict(batch, DOMAIN batch \ {n})
      /\ UNCHANGED <<phase, task, end_time, now, runs, backtest>>
  BY DEF InsertCandle, NextOf
<1>2. /\ task \in 1..Tasks /\ now \in Nat
      /\ DOMAIN batch \subseteq 0..now /\ batch \in [DOMAIN batch -> Versions]
  BY <1>1, TableShape DEF ShapeInv
<1>3. n \in DOMAIN batch /\ n \in Nat /\ n <= now /\ \A m \in DOMAIN batch : n <= m
  BY <1>1, <1>2, LeastOf
<1> HIDE DEF n
<1>4. batch[n] \in Versions
  BY <1>2, <1>3
<1>5. /\ rows' \in [1..Tasks -> Tables] /\ unstored' \in [1..Tasks -> SUBSET Nat]
      /\ \A u \in 1..Tasks : u # task => rows'[u] = rows[u] /\ unstored'[u] = unstored[u]
      /\ Locked(task) => rows' = rows /\ unstored'[task] = unstored[task] \cup {n}
      /\ ~Locked(task) =>
           /\ unstored' = unstored /\ DOMAIN rows'[task] = DOMAIN rows[task] \cup {n}
           /\ \A m \in DOMAIN rows[task] : rows'[task][m] = rows[task][m]
           /\ n \notin DOMAIN rows[task] => rows'[task][n] = batch[n]
  BY <1>1, <1>2, <1>3, <1>4, InsertStores
<1>6. /\ batch' \in Tables /\ DOMAIN batch' = DOMAIN batch \ {n}
      /\ \A m \in DOMAIN batch' : batch'[m] = batch[m]
  <2>1. /\ DOMAIN batch \ {n} \in SUBSET Nat
        /\ batch' \in [DOMAIN batch \ {n} -> Versions]
        /\ \A m \in DOMAIN batch \ {n} : batch'[m] = batch[m]
    BY <1>1, <1>2 DEF Restrict
  <2> QED  BY <2>1, IsTable
<1>7. ShapeInv'
  <2>1. \A t \in 1..Tasks : DOMAIN rows'[t] \subseteq 0..now
    BY <1>3, <1>5 DEF ShapeInv
  <2>2. start_time' \in Nat
    BY <1>1, <1>3 DEF CloseTime
  <2> QED  BY <1>1, <1>2, <1>5, <1>6, <2>1, <2>2 DEF ShapeInv
\* Whether it is stored or not, the candle is settled.
<1>8. /\ Settled(task)' = Settled(task) \cup {n}
      /\ \A t \in 1..Tasks :
           Settled(t)' = IF t = task THEN Settled(task)' ELSE Settled(t)
  BY <1>1, <1>2, <1>5 DEF Settled
<1>9. \A m \in 0..n : m \in Settled(task)'
  <2> SUFFICES ASSUME NEW m \in 0..n, m # n PROVE m \in Settled(task)
    BY <1>8
  <2>1. m \in Settled(task) \cup DOMAIN batch
    BY <1>1, <1>3 DEF HolesInv
  <2>2. m \notin DOMAIN batch
    BY <1>3
  <2> QED  BY <2>1, <2>2
<1>10. HolesInv'
  <2>1. ASSUME NEW t \in 1..Tasks, NEW k \in DOMAIN rows'[t], NEW m \in 0..k
        PROVE  m \in Settled(t)'
    <3>1. CASE k \in DOMAIN rows[t]
      <4>1. m \in Settled(t)
        BY <3>1 DEF HolesInv
      <4>2. CASE t = task
        BY <1>8, <4>1, <4>2
      <4>3. CASE t # task
        BY <1>8, <4>1, <4>3
      <4> QED  BY <4>2, <4>3
    <3>2. CASE k \notin DOMAIN rows[t]
      <4>1. t = task /\ k = n
        BY <1>5, <3>2
      <4>2. Settled(t)' = Settled(task)'
        BY <1>8, <4>1
      <4> QED  BY <1>9, <4>1, <4>2
    <3> QED  BY <3>1, <3>2
  <2>2. ASSUME NEW m \in Nat, OpenTime(m) < start_time' PROVE m \in Settled(task)'
    BY <1>1, <1>3, <1>9, <2>2 DEF OpenTime, CloseTime
  <2>3. ASSUME NEW k \in DOMAIN batch', NEW m \in 0..k
        PROVE  m \in Settled(task)' \cup DOMAIN batch'
    BY <1>1, <1>6, <1>8 DEF HolesInv
  <2> QED  BY <1>1, <2>1, <2>2, <2>3 DEF HolesInv
<1>11. UnfinishedInv'
  <2>1. Current' = Current
    BY <1>1 DEF Current
  <2>2. \A t \in 1..Tasks : t # task => Unfinished(t)' = Unfinished(t)
    BY <1>5 DEF Unfinished
  <2>3. Unfinished(task)' \subseteq Unfinished(task) \cup {Current}
    BY <1>1, <1>3, <1>5 DEF Unfinished, UnfinishedInv
  <2>4. runs \in Nat /\ Cardinality(Unfinished(task) \ {Current}) < runs
    BY <1>1, <1>2 DEF UnfinishedInv, InHand, ShapeInv
  <2>5. /\ Cardinality(Unfinished(task)' \ {Current}) < runs
        /\ Cardinality(Unfinished(task)') <= runs
    <3> DEFINE U == Unfinished(task) \ {Current}
    <3>1. IsFiniteSet(U) /\ Cardinality(U) \in Nat
      BY <1>2, CandlesFinite DEF ShapeInv, Unfinished
    <3>2. /\ IsFiniteSet(U \cup {Current})
          /\ Cardinality(U \cup {Current}) <= Cardinality(U) + 1
      BY <3>1, FS_AddElement
    <3>3. Unfinished(task)' \subseteq U \cup {Current} /\ Unfinished(task)' \ {Current} \subseteq U
      BY <2>3
    <3>4. Cardinality(U) < runs
      BY <2>4
    <3> HIDE DEF U
    <3>5. /\ Cardinality(Unfinished(task)') <= Cardinality(U \cup {Current})
          /\ Cardinality(Unfinished(task)' \ {Current}) <= Cardinality(U)
          /\ Cardinality(Unfinished(task)') \in Nat
          /\ Cardinality(Unfinished(task)' \ {Current}) \in Nat
          /\ Cardinality(U \cup {Current}) \in Nat
      BY <3>1, <3>2, <3>3, FS_Subset, FS_CardinalityType
    <3> QED  BY <2>4, <3>1, <3>2, <3>4, <3>5
  <2>6. \A t \in 1..Tasks : (InHand(t)' <=> InHand(t)) /\ (Ahead(t)' <=> Ahead(t))
    BY <1>1 DEF InHand, Ahead
  <2>7. ~Ahead(task) /\ \A t \in 1..Tasks : t # task => ~InHand(t)
    BY <1>1, <1>2 DEF Ahead, InHand
  <2> QED  BY <1>1, <1>6, <2>1, <2>2, <2>5, <2>6, <2>7 DEF UnfinishedInv
\* A file that is being read is left as it is.
<1>12. ReaderInv'
  <2>1. reader = "reading" => rows'[file] = rows[file]
    BY <1>1, <1>5 DEF Locked, ReaderInv
  <2> QED  BY <1>1, <2>1 DEF ReaderInv, ReplayConsistent, InRange, backtest
<1> QED  BY <1>7, <1>10, <1>11, <1>12

\* The steps of the process that leave the tables and what is known of them alone.
LEMMA MovePreserves ==
  ASSUME DownloadInv, ConnectFails \/ SendFails \/ EndBatch \/ EndTask \/ Exit \/ Crash
  PROVE  DownloadInv'
<1> USE DEF DownloadInv
<1>1. /\ UNCHANGED <<rows, unstored, start_time, end_time, now, runs, backtest>>
      /\ \/ /\ phase' = "task" /\ task' = task + 1 /\ phase \in {"connect", "loop"}
            /\ batch' = batch
         \/ /\ phase' = "down" /\ task' = task
            /\ batch' = batch \/ batch' = <<>>
         \/ /\ phase' = "loop" /\ phase \in {"loop", "insert"} /\ task' = task
            /\ batch' = batch
  BY DEF ConnectFails, SendFails, EndBatch, EndTask, Exit, Crash, NextTask, locals
<1>2. ShapeInv'
  <2>1. <<>> \in Tables /\ DOMAIN <<>> = {}
    <3>1. <<>> \in [{} -> Versions]
      OBVIOUS
    <3> QED  BY <3>1, IsTable
  <2>2. batch' \in Tables /\ DOMAIN batch' \subseteq 0..now
    BY <1>1, <2>1 DEF ShapeInv
  <2>3. /\ phase' \in Phases /\ task' \in Nat
        /\ phase' \in {"connect", "loop", "insert"} => task' \in 1..Tasks
        /\ phase' = "task" => task' \in 1..(Tasks + 1)
    BY <1>1, DownloadAssumption DEF ShapeInv, Phases
  <2> QED  BY <1>1, <2>2, <2>3 DEF ShapeInv
<1>3. HolesInv'
  BY <1>1, TablesSame
<1>4. UnfinishedInv'
  BY <1>1, TaskOver, TaskGoesOn
<1>5. ReaderInv'
  BY <1>1, ReaderSame
<1> QED  BY <1>2, <1>3, <1>4, <1>5

LEMMA TickPreserves == ASSUME DownloadInv, Tick PROVE DownloadInv'
<1> USE DEF DownloadInv
<1>1. now' = now + 1 /\ UNCHANGED <<rows, process, runs, backtest, unstored>>
  BY DEF Tick
<1>2. ShapeInv'
  BY <1>1 DEF ShapeInv, process, locals
<1>3. HolesInv' /\ ReaderInv'
  BY <1>1, TablesSame, ReaderSame DEF process, locals
<1>4. UnfinishedInv'
  BY <1>1 DEF process, locals, UnfinishedInv, Unfinished, Ahead, InHand, Current
<1> QED  BY <1>2, <1>3, <1>4

LEMMA OtherBacktestPreserves ==
  ASSUME DownloadInv, (\E t \in 1..Tasks : OpenIterator(t)) \/ BacktestAborts
  PROVE  DownloadInv'
<1> USE DEF DownloadInv
<1>1. UNCHANGED <<rows, process, now, runs, unstored, replay, snapshot>>
  BY DEF OpenIterator, BacktestAborts
<1>2. \/ reader' = "open" /\ reader = "none" /\ file' \in 1..Tasks
      \/ reader' = "aborted" /\ reader \in {"open", "reading"} /\ file' = file
  BY DEF OpenIterator, BacktestAborts
<1>3. ShapeInv' /\ HolesInv' /\ UnfinishedInv'
  <2>1. ShapeInv'
    BY <1>1 DEF process, locals, ShapeInv
  <2>2. HolesInv'
    BY <1>1, TablesSame DEF process, locals
  <2>3. UnfinishedInv'
    BY <1>1 DEF process, locals, UnfinishedInv, Unfinished, Ahead, InHand, Current
  <2> QED  BY <2>1, <2>2, <2>3
<1>4. ReaderInv'
  BY <1>1, <1>2 DEF ReaderInv, Readers, ReplayConsistent, InRange
<1> QED  BY <1>3, <1>4

\* The candle that next returns is later than those before it, and no candle of the
\* range lies between.
LEMMA NextCandlePreserves == ASSUME DownloadInv, NextCandle PROVE DownloadInv'
<1> USE DEF DownloadInv
<1> DEFINE wanted == {n \in DOMAIN rows[file] : InRange(n)}
<1>1. /\ UNCHANGED <<rows, process, now, runs, file, unstored>>
      /\ reader \in {"open", "reading"} /\ snapshot' = DOMAIN rows[file]
  BY DEF NextCandle, ReaderInv
<1>2. ShapeInv' /\ HolesInv' /\ UnfinishedInv'
  <2>1. ShapeInv'
    BY <1>1 DEF process, locals, ShapeInv
  <2>2. HolesInv'
    BY <1>1, TablesSame DEF process, locals
  <2>3. UnfinishedInv'
    BY <1>1 DEF process, locals, UnfinishedInv, Unfinished, Ahead, InHand, Current
  <2> QED  BY <2>1, <2>2, <2>3
<1>3. file \in 1..Tasks /\ DOMAIN rows[file] \subseteq Nat /\ wanted \subseteq Nat
  <2>1. file \in 1..Tasks
    BY <1>1 DEF ReaderInv
  <2> QED  BY <2>1, TableShape DEF ShapeInv
<1>4. /\ replay \in Seq(Nat)
      /\ \A j, k \in DOMAIN replay : j < k => replay[j] < replay[k]
      /\ ToSet(replay) \subseteq wanted
      /\ \A n \in wanted : \A m \in ToSet(replay) : n < m => n \in ToSet(replay)
  <2>1. CASE reader = "open"
    BY <2>1 DEF ReaderInv, ToSet
  <2>2. CASE reader = "reading"
    BY <2>2 DEF ReaderInv, ReplayConsistent
  <2> QED  BY <1>1, <2>1, <2>2
<1>5. /\ Returned \in Int
      /\ Returned >= 0 => Returned \in ToSet(replay)
      /\ \A m \in ToSet(replay) : m <= Returned
  <2>1. CASE replay = <<>>
    BY <2>1 DEF Returned, ToSet
  <2>2. CASE replay # <<>>
    <3>1. Len(replay) \in DOMAIN replay /\ Returned = replay[Len(replay)]
      BY <1>4, <2>2, EmptySeq, LenProperties DEF Returned, Last
    <3>2. \A k \in DOMAIN replay : replay[k] \in Nat /\ k \in Nat /\ k <= Len(replay)
      BY <1>4, LenProperties, ElementOfSeq
    <3>3. \A k \in DOMAIN replay : replay[k] <= Returned
      BY <1>4, <3>1, <3>2
    <3> QED  BY <3>1, <3>2, <3>3 DEF ToSet
  <2> QED  BY <2>1, <2>2
<1>6. Remaining = {n \in wanted : n > Returned}
  BY DEF Remaining
<1> HIDE DEF wanted
<1>7. \A n \in wanted : n \notin Remaining => n \in ToSet(replay)
  <2> SUFFICES ASSUME NEW n \in wanted, n \notin Remaining PROVE n \in ToSet(replay)
    OBVIOUS
  <2>1. n \in Nat /\ n <= Returned
    BY <1>3, <1>5, <1>6
  <2>2. Returned \in ToSet(replay)
    BY <1>5, <2>1
  <2>3. n < Returned \/ n = Returned
    BY <1>5, <2>1
  <2> QED  BY <1>4, <2>2, <2>3
<1>8. CASE Remaining = {}
  <2>1. reader' = "done" /\ replay' = replay
    BY <1>8 DEF NextCandle
  <2>2. wanted \subseteq ToSet(replay)
    BY <1>7, <1>8
  <2>3. wanted = {n \in snapshot' : InRange(n)}
    BY <1>1 DEF wanted
  <2>4. ReplayConsistent'
    BY <1>4, <2>1, <2>2, <2>3 DEF ReplayConsistent, InRange
  <2> QED  BY <1>1, <1>2, <1>3, <1>4, <2>1, <2>4 DEF ReaderInv, Readers
<1>9. CASE Remaining # {}
  <2> DEFINE next == Min(Remaining)
  <2>1. reader' = "reading" /\ replay' = Append(replay, next)
    BY <1>9 DEF NextCandle, Oldest
  <2>2. next \in Remaining /\ \A n \in Remaining : next <= n
    BY <1>3, <1>6, <1>9, LeastOf
  <2> HIDE DEF next
  <2>3. next \in wanted /\ next \in Nat /\ next > Returned
    BY <1>3, <1>6, <2>2
  <2>4. /\ replay' \in Seq(Nat) /\ Len(replay') = Len(replay) + 1
        /\ replay'[Len(replay) + 1] = next
        /\ \A k \in 1..Len(replay) : replay'[k] = replay[k]
        /\ Len(replay) \in Nat /\ DOMAIN replay = 1..Len(replay)
        /\ DOMAIN replay' = 1..(Len(replay) + 1)
    BY <1>4, <2>1, <2>3, AppendProperties, LenProperties
  <2>5. ToSet(replay') = ToSet(replay) \cup {next}
    BY <2>4 DEF ToSet
  <2>6. \A k \in DOMAIN replay : replay[k] \in Nat /\ replay[k] < next
    <3>1. \A k \in DOMAIN replay : replay[k] \in Nat /\ replay[k] <= Returned
      BY <1>4, <1>5, ElementOfSeq DEF ToSet
    <3> QED  BY <1>5, <2>3, <3>1
  <2>7. \A j, k \in DOMAIN replay' : j < k => replay'[j] < replay'[k]
    <3> SUFFICES ASSUME NEW j \in 1..(Len(replay) + 1), NEW k \in 1..(Len(replay) + 1), j < k
                 PROVE  replay'[j] < replay'[k]
      BY <2>4
    <3>1. j \in 1..Len(replay)
      BY <2>4
    <3>2. CASE k = Len(replay) + 1
      BY <2>4, <2>6, <3>1, <3>2
    <3>3. CASE k \in 1..Len(replay)
      BY <1>4, <2>4, <3>1, <3>3
    <3> QED  BY <2>4, <3>2, <3>3
  <2>8. \A n \in wanted : \A m \in ToSet(replay') : n < m => n \in ToSet(replay')
    <3> SUFFICES ASSUME NEW n \in wanted, NEW m \in ToSet(replay'), n < m
                 PROVE  n \in ToSet(replay)
      BY <2>5
    <3>1. CASE m \in ToSet(replay)
      BY <1>4, <3>1
    <3>2. CASE m = next
      <4>1. n \notin Remaining
        BY <1>3, <2>2, <2>3, <3>2
      <4> QED  BY <1>7, <4>1
    <3> QED  BY <2>5, <3>1, <3>2
  <2>9. ToSet(replay') \subseteq wanted
    BY <1>4, <2>3, <2>5
  <2>10. wanted = {n \in snapshot' : InRange(n)}
    BY <1>1 DEF wanted
  <2>11. ReplayConsistent'
    BY <2>1, <2>7, <2>8, <2>9, <2>10 DEF ReplayConsistent, InRange
  <2> QED  BY <1>1, <1>2, <1>3, <2>1, <2>4, <2>11 DEF ReaderInv, Readers
<1> QED  BY <1>8, <1>9

LEMMA DownloadNext == ASSUME DownloadInv, [Next]_vars PROVE DownloadInv'
<1>1. CASE UNCHANGED vars
  BY <1>1 DEF vars, process, locals, backtest, DownloadInv, ShapeInv, HolesInv, Settled,
     UnfinishedInv, Unfinished, Ahead, InHand, Current, ReaderInv, ReplayConsistent, InRange
<1>2. CASE Process
  BY <1>2, BeginTaskPreserves, ConnectPreserves, ReplyPreserves, InsertPreserves,
     MovePreserves DEF Process
<1>3. CASE Backtest
  BY <1>3, OtherBacktestPreserves, NextCandlePreserves DEF Backtest
<1> QED
  BY <1>1, <1>2, <1>3, StartPreserves, MovePreserves, TickPreserves DEF Next, Over

-----------------------------------------------------------------------------
(* Theorems *)

THEOREM DownloadInvariance == Spec => []DownloadInv
BY DownloadInit, DownloadNext, PTL DEF Spec

\* However a run is cut off and the next one resumes (get_max_start_time), a dataset
\* has a hole only where an insertion failed because the file was being read.
THEOREM HolesExplained == Spec => []NoHoles
<1>1. DownloadInv => NoHoles
  BY DEF DownloadInv, HolesInv, Settled, NoHoles
<1> QED  BY <1>1, DownloadInvariance, PTL

\* A run stores at most one candle of a dataset that was in progress, the one in
\* which it began with the task (end_time), however long it takes.
THEOREM OneUnfinished == Spec => []OneUnfinishedPerRun
<1>1. DownloadInv => OneUnfinishedPerRun
  BY DEF DownloadInv, UnfinishedInv, Unfinished, OneUnfinishedPerRun
<1> QED  BY <1>1, DownloadInvariance, PTL

\* A backtest of a file that is being downloaded sees one state of it, in order.
THEOREM ReplayOfOneState == Spec => []ReplayConsistent
<1>1. DownloadInv => ReplayConsistent
  BY DEF DownloadInv, ReaderInv
<1> QED  BY <1>1, DownloadInvariance, PTL
=============================================================================

# wedge: a TLA+ verification of the trading program

wedge is a C++ program that trades one pair (BTCUSDT) with a grid strategy, live on
Binance or in a backtest over downloaded candles. A second backtest with contingent
orders is under construction in the same repository. The repository has no tests and no
documentation beyond a few comments and five assertions, so everything here is read from
the code. This directory holds TLA+ models of it, the TLC runs that check them on small
instances, and proofs of the most important properties for every instance.

## The system

| part | state it keeps | operations | interacts with |
|---|---|---|---|
| **Backtest context** (`backtest/`) | account, ordered map from index to order, next index | replay a candle: walk the map and execute what it reaches, then call the strategy; add, cancel, account | calls the strategy's `on_order_filled` in the middle of its loop and `update` after it; the strategy calls back through `BacktestBroker` |
| **Grid strategy** (`strategy/`) | two order slots, baseline price, order volume, RSI window | `update`, `on_order_filled` | calls `IBroker`: cancel, account, limit orders |
| **Contingent-order engine** (`backtest2/`) | every order with status and links, queue of active orders, lists, account | pass over the queue; new order / OTO / OCO / OTOCO, cancel order / list | a fill triggers and cancels linked orders inside the pass |
| **Strategy001** (`strategy2/`) | a price range | one handler: cancel the unentered lists, place one list | commands to the engine |
| **Trade engine** (`trade/`) | hash map from index to the exchange's id | every 30 minutes: poll each order, report the filled ones, fetch a candle, call the strategy | the grid strategy; the exchange through `BinanceBroker` |
| **Binance broker** (`binance/binance_broker.cc`) | none | one HTTPS request per call, up to three tries, then abort | the client; the exchange |
| **Binance client** (`binance/binance_http_client.cc`) | a connection | synchronous: connect, send one request, shut down, no timeout; asynchronous: connect once, send, each with a timeout of five seconds | the exchange |
| **Download program** (`dataset/`) | an SQLite file per task | fetch candles in batches, insert them one by one, resume | the exchange; the backtest reads the file, perhaps at the same time |
| **Indicators** (`indicator/`, and the RSI in `grid_strategy.cc`) | ring buffers, running sums, exponential averages per hour | `update`, `value`, `max_period` | the strategies |

What is hard here: everything is single-threaded, but callbacks change the containers that
loops are walking (both backtests and live trading); live, the exchange fills orders
between any two steps of the process, replies get lost and are retried, and a restart
forgets everything; the polling loop drifts against the candles it asks for; the download
resumes after being cut off anywhere, and a backtest may read the file it writes.
`PROJECT.json` lists each such place as a hazard with its line.

What makes each part correct: the account is never overdrawn and no candle fills an order
that reacts to it (context); the strategy's idea of its open orders is the broker's, its
assertions hold, its grid is around one baseline (strategy); no active order is lost or
executed twice and exclusive orders exclude (engine); a bought position has its exits
(Strategy001); no fill is lost silently (trade); a caller knows what became of its request
(client); no candle is given to the live strategy twice (polling); datasets have no holes
and a replay sees one state of them (download); a summary equals what it summarises
(indicators).

## The modules

| module | models | how state and actions correspond to the code |
|---|---|---|
| `BrokerContract` | what a strategy may rely on through `IBroker` / `IStrategy` | abstract: indices handed out, open orders, the report in progress |
| `BacktestContext` | `BacktestContext`, `BacktestBroker`, the four order classes | `orders` is `orders_`; `phase`, `iterator`, `last_index` are the position of the one thread in `run` and `update_orders`. A step is an iteration of the loop, or one broker call made by a callback. `AnyStrategy` makes any calls at all |
| `RsiWindow` | the RSI of `grid_strategy.cc` | a record with one field per member |
| `GridStrategy` | `GridStrategy` | a handler decides on entry, and leaves in `todo` the broker calls it has still to make; each is a step (`CancelBuy`, `PlaceSell`, ...) in the order of the code, so that what the broker does between them is visible |
| `GridBacktest` | `backtest/main.cc`: the two composed | each strategy step is joined with the context's step for it |
| `BacktestEngine` | `BacktestEngine`, `OrderBase` and its classes | the queue is a sequence, `iter` the walk's position; a fill is one step with the triggering and cancelling it calls |
| `Brackets` | what `Strategy001` wants of its lists | abstract: a bracket waits, is held, and ends once, one way or another |
| `Strategy001` | `Strategy001::on_event` giving commands to the engine | one action for the handler; each list is mapped to a bracket by the statuses of its three orders |
| `HttpRequest` | both clients of `binance_http_client.cc`, `request_until`, the request loop of `download.cc` | a step is one call on the connection, which returns, fails or blocks; requests in flight reach the exchange (external) at any later moment |
| `PollingLoop` | the timing of `TradeEngine::run` | a clock that may not pass deadlines; the work of a round takes any time up to a bound, the exchange has a candle up to `Lag` late |
| `Trade` | `TradeEngine`, `TradeBroker`, `BinanceBroker`, the exchange, restarts | composes `GridStrategy` with the live broker; an exchange (external) that fills at any moment, in part or as a whole. A request is one step, whose outcomes are those of `HttpRequest`; a poll gives any candle, as `PollingLoop` has it, or none and ends the process |
| `Download` | `download.cc`, `SqlDataset`, `SqlIterator` | tables, and the part of a reply that is still to be inserted, as functions from candle number, of which the earliest is inserted next; every insertion is a step that survives a crash; a reader holds the file while its statement is open, and an insertion then fails |
| `Indicators` | `Range`, both RSIs, both averages, `IndicatorContext` | pure updates next to the history of candles seen; exponential averages are exact fractions |
| `BacktestProofs`, `BacktestEngineProofs`, `Strategy001Proofs`, `HttpRequestProofs`, `PollingLoopProofs`, `TradeProofs`, `DownloadProofs`, `IndicatorsProofs` | theorems about the modules so named | each extends its module; `BacktestProofs` has those of `BacktestContext` and of `GridBacktest`, which extends it; `Strategy001Proofs` also extends `BacktestEngineProofs`, as their modules do |
| `MC*` | instances for TLC | |

Abstractions. Prices and amounts are integers in a smallest unit and divisions round
down; the rounding of doubles is not modelled. Only what is compared of a candle is kept.
Logging, JSON and SQL text are left out. A comment that begins with "Mutant" marks an
operator that is not part of the model: it is the operator after it with a plausible bug,
used to check that a property can tell the difference.

## The runs

| run | checks | bounds, and why they suffice |
|---|---|---|
| `backtest_context` | an arbitrary strategy: `Solvent`, `NoLookAhead`, `FillCreatesNoValue`, refinement of `BrokerContract` | 2 candles, 3 orders, funds that one order exhausts: an order of an earlier candle, one placed in a callback and one too expensive can meet |
| `grid_backtest` | the grid strategy in the backtest, 6 invariants and `OneFillPerCandle` | every sequence of up to 6 of 6 candles: enough to fill the index window (period 1), enter, fill either side, fall to a low index, leave the grid, re-enter, and one candle spans the whole grid. The account begins with 400 coins and 4 in money, amounts being in cents and the minimum amount 700: at low prices it is one that `MayLackFunds`, at high ones not, and the initial order comes from each of the three branches, affordable or not. The configuration has no `rsi_price`, as in `main.cc` |
| `grid_liveness` | `CandleEnds` under fairness | the same with 5 candles and an account of 200 USDT |
| `min_notional` | finds `InitialOrderMeetsMinimum` violated | an account of 24 USDT |
| `engine` | any commands between passes: queue, exclusivity, triggering, termination of a pass | 3 orders are a whole OTOCO list, or an OTO or OCO and one more; 2 passes: one that triggers and a later one |
| `engine_assert` | finds `TriggersWerePending` violated | as above |
| `strategy001` | the refinement `ImplementsBrackets`, `PositionProtected`, `ShortOnlyByCommission`, `TriggersWerePending` | 3 lists and 4 candles, which enter, stop, take profit, or all at once; a commission of 10 percent, so that what it takes shows in integers |
| `http_request` | `OutcomeKnown`, and `RequestEnds` under fairness | 3 tries and 3 failures, as in the code; every step may fail and every request may arrive late |
| `polling` | `CandlesAdvance`, `EmptyOnlyWhileLate` | a candle of 6 units, work of up to 4, an exchange up to 3 late, 8 candles: the phase of the loop passes a whole candle |
| `trade` | `BookAgrees`, `NothingDroppedSilently`, `PollMissesNothing`, `OrphansBounded`, the contract of `BrokerContract` | 3 polls, one lost reply, one restart; ids 6, 7, ... with a width of 10, so that the first orders fit in the narrow id of `TradeBroker::cancel` and later ones do not; 3 tries as in the code |
| `download` | `NoHoles`, `ReplayConsistent`, `OneUnfinishedPerRun`, `TaskEnds` | 2 tasks, 2 starts, batches of 2 from up to 4 candles of which the exchange lacks one; one backtest reads either file, over a range that leaves out its first candle |
| `indicators` | `RangeIsWindow`, `SumsOfWindow`, `AveragesOfOneHour`, `MaxPeriodWarmsUp` | 8 candles with windows of 3 and a cycle of 2 (a day of two hours): each window slides, each ring wraps more than once, and an hour's average is updated three times |

Bounds are `MaxCandles`, `MaxOrders` (grid runs never reach it), `MaxPasses`, `MaxRounds`,
`MaxLost`, `MaxRestarts`, `MaxTime`, `MaxRuns`; each is a guard of one action. `RetryCount`
and `MaxFailures` are constants of the code. Deadlock is checked in every run; a step that
changes nothing (`Returned`, `Done`, `Over`, `Rests`) stands for a program that has
returned or waits.

Two runs end in a counterexample, each against a text of the repository:

* `min_notional`: the comment of `grid_strategy.cc` line 143 says that Binance's minimum
  amount has to be considered; the branch below it places an order of `order_volume_`
  whatever that is worth. Live, the exchange may reject it and the process then aborts.
* `engine_assert`: the assertion of `backtest_engine.cc` line 57. `CancelOrder` on a
  pending leg of a list leaves the link from its working order; when that executes, the
  cancelled leg is activated. `Strategy001` only cancels whole lists in which nothing has
  executed, and `strategy001` shows that it never comes to this.

Met while modelling, and in the models as the code has it, though no text of the
repository says otherwise:

* `TradeBroker::cancel` keeps 16 bits of the exchange's id, so that with larger ids every
  cancellation is rejected and the process aborts (`CancelFails` of `Trade`).
* A `POST` whose reply was lost is sent again and leaves an order nobody knows of
  (`OrphansBounded` says how many). A failed look-up of the exchange's name is not retried:
  `resolve` throws and the process ends (`Resolve` of `HttpRequest`).
* The live loop takes the last candle of the reply. The reply is empty when the loop asks
  after a candle has opened and before the exchange has it, and `back()` is then undefined
  (`EmptyOnlyWhileLate`).
* The branch of `place_initial_orders` for a small gap buys `order_volume_` without looking at
  the balance. An account that holds mostly coins may not be able to pay for it; the order
  then stands in the bid's slot, unable to execute, until the price leaves the grid or the
  index gets low (`InitialOrderAffordable` says which accounts).
* What a cancelled order had traded in part is reported to nobody (`Trade`).
* The candle in progress is stored by the download and never replaced
  (`OneUnfinishedPerRun`). An insertion that SQLite refuses because a backtest reads the
  file is not noticed; the run goes on after it and no later run fills the hole (`NoHoles`
  says that this is the only way to one).
* The second order of an OCO list never executes, because nothing triggers it
  (`PendingWaitsForTrigger`), and each closed position of `Strategy001` leaves the account
  short by the commission of its purchase (`ShortOnlyByCommission`).

### Fairness

`FairGridSpec` is weakly fair in the steps of the program: one thread that runs when it
can; nothing is assumed about new data (`Finish` is not fair). `FairSpec` of
`BacktestEngine` is fair in the steps of a pass, one synchronous call, and not in commands
or new passes. `FairSpec` of `Download` is fair in the process's steps, any of which,
`SendFails` included, may be taken: requests need not succeed, and `TaskEnds` says that a
task ends all the same, except when the candle it began in does not exist at the exchange,
where `download` repeats its request for ever. `FairSpec` of `HttpRequest` is fair in the
client's steps while it is not stalled: a call that the peer answers, or that has a
timeout, returns, with a result or an error. It asks nothing of the network or the
exchange, so that every try may fail, and `RequestEnds` excepts just the calls that have no
timeout. `Trade` and `PollingLoop` claim no liveness: the synchronous client has none, so
that any request may block for ever.

## The proofs

`tlapm` checks the eight proof modules for every value of the constants that the ASSUMEs of the
modules allow. In each, one inductive invariant is shown to hold initially and to be preserved
by each action, and the theorems follow from it (`InitialOrderIsAffordable` and
`PollsAreComplete` from a second one beside it); TLC has checked each invariant on the instance
of the module's run. With them every invariant that a passing run checks is also a theorem,
with the hypotheses named below.

**`BacktestContext`** (any strategy; in `BacktestProofs`). `ContextInv` is inductive: types, the iterator
pointing into the map while the loop has work to do, orders below `last_index` placed in
an earlier candle, quantities natural, and `Solvent`. The iterator's place is what ties
`last_index` to a key of the map, and the order's index to its candle; `Solvent` alone
is not inductive because a negative quantity would break it. From it follow `TypeCorrect`,
`NeverOverdrawn`, `LooksBackOnly`, `NoFreeLunch` and `Refinement`: each step is a step of
`BrokerContract` or leaves its variables alone.

**`GridBacktest`** (in `BacktestProofs`). `GridInv` has ten parts: the context's invariant, types, `BookAgrees`,
and what holds inside the handlers: which calls can still be due in which phase
(`HandlerInv`), that a slot is empty once its cancellation was made (`SlotsFreed`), that
price and volume are set when they are used (`ValuesReady`), where a pair stands while it
is being replaced (`PairInv`), that both orders of the current pass's reaction are new
(`FillInv`), and when the strategy may be without orders (`MarketInv`). `BookAgrees` cannot
be proved without these because a handler's calls are steps of their own. The theorems are
`GridTypeCorrect`, `BookAgreement`, `NoAssertionFails`, `IteratorStaysValid`,
`PairAroundOnePrice`, `StaysInTheMarket` and `OneFill`. `IteratorStaysValid` (a callback
never erases the order the loop is at) follows from `BookAgrees` and has no run of its own.

`CandleIsBounded` is what `CandleEnds` rests on: from the moment a candle is read until it
is dealt with, every step, of the loop or of a callback, makes the natural number
`CandleStepsLeft` smaller, and it begins at six for each index below `last_index` and six
for `update`. The number counts the indices the loop may still come to and the calls the
running handler may still make, of which there are never more than four; that a fill
makes the strategy place orders in the map that is being walked does not add to it, because
they get indices of `last_index` and more.

`InitialOrderIsAffordable` is about the one order of `place_initial_orders`, whichever of the
three branches places it. A sale, and a purchase of the gap, are always covered. The branch
for a small gap buys `order_volume_` whatever the balance is, and the property says when
that can be too much: `MayLackFunds`, an account with more coins than money that, besides, has
one grid line or is worth less than four minimum amounts. Neither part can be dropped. With
two lines, a price of 1, no money and 12 coins the target is 6, the gap of 6 is below the
minimum of 7, and the strategy buys 3 for 3; with one line, 9 in money and 11 coins the target
is 10, the gap is 1, and it buys 10 for 10, which an account of any size can come to. The
order then stands, unable to execute. The proof is the arithmetic of the function
(`ValueInCoins`, `PartsOfTheAccount`, `ShareOfOneLine`) and an invariant of its own,
`AffordInv`, that carries the result from the look at the account to the order.

**`BacktestEngine`** (any commands between passes). `EngineInv` is types (`ShapeInv`) and
four parts: how lists link orders (`LinksInv`: an order is triggered by one other at most,
orders cancel each other, and what triggers one triggers both), that an order executes once
and then excludes those it cancels (`StatusInv`), that an order whose trigger has not
executed has never been in the queue, cancelled or not (`WaitingInv`), and that the queue
has every active order and nothing twice (`QueueInv`). `OneLegExecutes` needs all of them:
that a cancelled leg does not come back to life follows because what could trigger it would
have to execute a second time. The theorems are `EngineTypes`, `NoneLost`, `OneLeg` and
`PendingWaits`, and `PassIsBounded`: a queue that holds nothing twice is no longer than there
are orders, so that a pass takes at most one step more than that, however many orders its
executions append to what it walks. The assertion of line 57 is not among them: `engine_assert` shows it
violated. What `remove_if` keeps is the operator `Keep`, a selection of positions rather
than the recursive `SelectSeq` of the library, about which nothing could be proved.

**`Strategy001`** on the engine. `StrategyInv` is `EngineInv`, the account's equation, and
`BracketInv`: list `l` owns orders `3l - 2`, `3l - 1` and `3l`, chained as `add_otoco` chains
them; their three statuses are always those of one of the five states of a bracket; and an
order has executed just when its status is `Filled`. The last is false of the engine alone,
which cancels executed orders too. A fill changes one bracket, the handler's cancellations
change several at once, and each case is mapped to a step of `Brackets` (`BracketsRefined`).
`Protection` reads the statuses off the bracket's state; `ShortByCommission` counts its
closed ones; `AssertionHolds` says that the strategy never meets the violation that
`engine_assert` finds.

**`PollingLoop`** (any length of a candle, of the work and of the lag, each below it).
`ExchangeInv` bounds the clock by the newest candle, `LoopInv` the time since the last
request by where the loop is, and `GivenInv` says of the candle given last that its request
lay in it. Two requests are more than one and less than two candles apart, from which
`RoundsAdvance` follows; `EmptyWhileLate` from `ExchangeInv`.

**`HttpRequest`** (any number of tries). `HttpInv` has four parts: types; `TriesInv`, which
counts the requests written and the one about to be written against the tries used up
(sync) or the failures counted (async); `CopiesInv`, by which orders placed and requests in
flight together are no more than the requests written; and `ReplyInv`, which says of an
answer, from the moment the exchange gives it, what is still true when the client acts on
it. `OutcomeKnown` speaks only of the end of a request and is not inductive without them.
The theorems are `OutcomeIsKnown`, where the cardinality of the requests in flight is
handled by the library's theorems on finite sets, and `TriesAreBounded`: each step of the
client, failed or not, makes `StepsLeft` smaller, which counts the tries that are left and
the steps of the current one, and no other step changes it.

**`Trade`** (any configuration, any number of tries, lost replies and restarts). While the
process runs, `TradeInv` has the parts of `GridInv` that concern calls and slots, and two of
its own: `OwedInv` says where in the poll an order stands that was filled when it began and is
still in the map: in the rest of the loop or being reported; `IdsInv` says that the ids of the
two orders of a pair are close together. After an abort it keeps that no more than two orders
of the map stand (`StandInv`), which is what a restart forgets; `CountsInv` holds that against
the lost replies and restarts (`OrphansAreCounted`). The assumption `2 * RetryCount <= IdWidth`
(6 against 65536 in the code) makes the ids of a pair differ in the bits that `cancel` keeps.
`TradeKeepsContract` shows that each step until an abort or a restart is one of
`BrokerContract`.

`PollsAreComplete` speaks of the reports themselves, which the history variable `reported`
collects: whatever was filled when the poll began has been reported when it ends. `OwedInv`
leaves open that such an order was taken out of the map by the callback of its sibling, so
that the loop never came to it. `OwedKept` excludes that: what is cancelled stood, and what is
owed is filled. `PollsAreComplete` and `DropsAreKnown` both have the hypothesis
`[]IdsDistinguished` for this: no other standing order of the account has the id that the
cut leaves of an order's. Without it both are false, since the exchange would cancel that
other order and the engine drop its own, filled or not; the run of `trade` never gets that
far in ids, and checks both without it.

**`Download`** (any number of tasks, runs, candles and limits). `DownloadInv` has four parts:
types, by which a stored candle has opened; `HolesInv`; `UnfinishedInv`; and `ReaderInv`. A
candle is settled when it is stored, refused by the lock, or lacking at the exchange.
`HolesInv` says that all before a stored candle is settled, all before `start_time`, and
all before a candle of the batch but what is in the batch itself, which is why it does not
matter where a run is cut off (`HolesExplained`). `UnfinishedInv` counts a task's candles that
were in progress against the runs: fewer than the runs before this run has begun the task,
and apart from the candle in progress at `end_time` also while it is in hand
(`OneUnfinished`); that a reply cannot bring another such candle is a matter of `end_time`
being taken before the first request. `ReaderInv` says that the table equals the snapshot
while it is read (`ReplayOfOneState`). The consistency of a replay is stated without a sorted
sequence: what was returned is increasing and an initial part of what is wanted.

**`Indicators`** (any windows, cycle and period, and any history of candles). The invariant
`IndicatorsInv` says what each component holds as a function of the candles seen: a slot of
`Range`'s ring the last candle with the slot's remainder (`RangeInv`), the deques of SMA and
RSI the last closes, or changes, and their sums the sums of these (`SmaInv`, `RsiInv`), and an
hour's averages the weighted sum of that hour's changes from day to day (`CyclicInv`). The
slots and hours are reached through `Visits` and `At`, the number of times a ring of size `C`
has come to a slot after `n` candles and which candles those were. From it follow
`RingShowsWindow`, `RunningSums` and `HourlyAverages`. They compare with sums and powers of
the history, that is with a fold of the library and a recursive function, so that the lemmas
begin with what these compute for every argument: the fold meets its recursive equation,
the order in which it takes the elements of a set does not matter (`SumWithout`), a sum over a
window that slides gains one term and loses one (`SumSlides`). The library's induction takes a
predicate as its parameter, which the provers cannot instantiate; `Induction` is stated with
the set of the numbers that satisfy it instead, and that they can.

`WarmedUp` has a hypothesis, `RsiPeriod >= 2`. With a period of one, `max_period` of the
momentum index is one day; after a day each hour has a price and none has a change, which
takes two days, so that its averages still have no value. The property is false then.
No strategy of the repository uses this index yet.

The assumptions on constants are those of the code's types (prices and amounts are not
negative, a price of zero is no price), `MaxWork` and `Lag` of `PollingLoop`, which hold by
how short they are against half an hour, and the one on `IdWidth`.

Only model-checked is liveness (`CandleEnds`, `PassEnds`, `TaskEnds`, `RequestEnds`), which is
out of `tlapm`'s reach: it cannot reason about fairness and `ENABLED`. For three of the four
the argument is split: the theorems `CandleIsBounded`, `PassIsBounded` and `TriesAreBounded`
show for every value of the constants that the steps cannot go on for ever, and TLC shows on the
instance that under fairness they do not stop short. `TaskEnds` has no such theorem: a task
may repeat a request that is answered with no candles for ever, and that it
does so in one case only is a matter of which candles the exchange has.

## Not modelled

* The signing and encoding of requests and the decoding of JSON (`new_order.h`,
  `json_body.h`, `klines.h` and their like): conversions of text, of which `HttpRequest`
  keeps only whether the reply is a list of candles, an error, or no JSON.
* Market orders of `TradeBroker`, which no strategy places live. (Those of the backtest are
  modelled.)
* How much of an order was traded in part; `Trade` keeps that something was.
* A difference between the local clock and the exchange's: `Download` and `PollingLoop` have
  one clock for both.
* The parsing of dates in `sql_iterator.cc`, and `merge` of the backtest, which nothing
  calls.
* `BacktestEngine::run` is declared and not defined in the repository; the order of passes
  and commands is arbitrary in the model, and commands come between passes.
* The invalidated deque iterator of `backtest_engine.cc` line 59: the queue is walked by
  position, which is what the code does as long as the deque's blocks do not move. The
  rounding of doubles.
* The build files.

## Plan

Done, in this order: the context and its contract, the grid strategy, their composition,
the contingent-order engine, `Strategy001`, live trading, the download, the indicators;
proofs of the context, its refinement and the grid backtest; then the brackets that
`Strategy001` implements, partial fills and empty replies in `Trade`, the reader of a
dataset that is being written, the exponential averages and `max_period`, the clients step
by step with the proof of what a request tells its caller, and the timing of the polling
loop; then the proofs of live trading, of the contingent-order engine, of `Strategy001` with
its refinement, of the polling loop, of the download and its reader, and of the initial
order; then the proofs of the indicators, with what they need about folds and powers, and
of the bounds on a candle, a pass and a request.

What could be added: market orders of `TradeBroker`, once a strategy places them live;
`BacktestEngine::run`, once it is defined, and with it the order of passes and commands.

# A verification development of TradeBot

TradeBot is a C++ trading program. It reads candles, turns them into signals,
clears the signals with a risk engine and sends orders through a broker gateway
to an adapter, whose reports come back and are booked in a portfolio. It runs in
BACKTEST (files, local fills), PAPER (the deterministic broker and a simulated
feed) and LIVE mode (behind two containment gates that the default build keeps
closed).

This directory holds TLA+ modules that model the parts of the program in which
order, threads and failures decide, TLC configurations that check them on small
instances, and proofs for all instances. Paths below are relative to the root of
the repository (`src/...` is its source directory, `include/...` its headers).
`PROJECT.json` maps every definition to the lines it models and lists the
components, runs, hazards, findings and theorems.

## 1. Inventory

### Components

| component | state | operations | talks to |
|---|---|---|---|
| `OrderLifecycleStore` | `m_records`, `m_appliedEventKeys` | create, mark…, apply acknowledgement / execution / cancel result / reconciliation, request cancel | called by `BrokerGateway` under its mutex |
| `BrokerGateway` | the store, the adapter, observers, counters | normalizeOrder, dispatchOrder, requestCancel, handleAcknowledgement / Execution / Cancel, reconcile | called by the engine, calls adapter, broadcasts to observers |
| `DeterministicBrokerAdapter` | `m_connected`, `m_pendingOrders`, event counters | connect, disconnect, submit, cancel | calls back into the gateway, inside submit and cancel |
| `ExecutionEngine` (one per symbol) | `m_nextLocalOrderId`, `m_appliedBrokerQty`, `m_pendingBrokerQty` | execute, dispatchBrokerOrder, onBrokerExecution, processPendingOrders | gateway, risk engine, portfolio |
| `RiskEngine` | `m_halted`, `m_closeOnly`, error window, effective limits, drawdown, VaR | canTrade, reportApiError, reportLatency, setHaltTrading, clearHalt, updateLiveVolatility, snapshot / restore | told by main, engine, gateway and feed; read by the engine |
| `LiveDataAdapter` | `m_connected`, `m_shutdown`, candle queue, node pools, reconnect worker | connect, disconnect, simulateDisconnect / Reconnect, getNextCandle, pushSimulatedCandle | network client, integrity callback to the risk engine |
| `AsyncNetworkClient` | `m_running`, `m_wsConnected`, redial timer, socket | start, stop, connectWebSocket, its event loop | disconnect and message callbacks into the feed |
| `LockFreeRingBuffer` | head, tail, cells | push, pop | network thread to trading thread |
| `TriggerOrderManager` | fixed slots, free stack | place stop-loss and pair, cancel, evaluate a quote | engine |
| `PortfolioManager` | cash, positions, trade log, pending orders | open, add, close, updatePnL, pending orders, snapshot / restore | engine, serializer |
| `FinancialMath` | none | rounding, checked arithmetic on scaled 64-bit values | everything with money |
| `StateSerializer` | last error, the checkpoint file | save (temporary file and rename), load, validate, restore | event loop, main |
| `EventLoop`, `main` | candle heap, last checkpoint time, resume time | arguments, resume, merge of the streams, processCandle; wiring of callbacks | all of the above |
| cTrader OAuth correlation guard | phase, state value, expiry | arm, consume, expireIfDue, cancel, move | platform runtimes |
| cTrader Gate 6 account proof | phase, candidates, title, account | two account lists, operator's choice, authentication, cancel | platform runtimes |
| cTrader Gate 7 quote proof | phase, account, symbol, instrument, quote | six staged answers, the owner's endings | platform runtimes |
| strategies, regime, allocator, analytics, metrics, L2 book, CSV, auth | indicators, weights, records | numeric updates, I/O | engine and event loop |

### How they interact

One thread trades. `main` pops candles in time order and runs
`EventLoop::processCandle`; everything below it, down to the adapter's callbacks
and back up into the engines, runs on that thread's stack. Other threads are the
network client's loop, the reconnect worker of the feed, and short-lived
allocator threads. They share with the trading thread the atomics of the feed
and of the risk engine and the mutexes of the gateway, the error window, the fill
maps and the candle queue. The gateway never holds its mutex over a call to the
adapter or to an observer, so between any two of its locked sections a breaker
may open and the connection may drop.

### What is hard here, and the properties that matter

- *Reports* come late, again, out of order or contradict each other. The ledger
  must count each once, keep quantities whole, and never reopen an order.
- *The order path* is a chain of locked sections with unlocked gaps. No order may
  be left half dispatched, no lot booked twice, an open breaker must stop entries.
- *Breakers* are raised and lowered by several sources. A burst of errors must
  halt trading in whatever order its reporters enter the lock; saved limits must
  be restorable.
- *The feed* is stored and reported in two steps by three threads. A dead feed
  must halt trading, threads must be joined before they are replaced, disconnect
  must return, and a loss must be healed.
- *The queue* passes preallocated nodes through rings between threads. No node may
  be lost or used twice, no tick dropped or reordered, and a reader must wake.
- *Money* is rounded in fixed point, twice for the same trade: the engine budgets,
  the portfolio books. The two must agree, and the books must balance to the unit
  through partial closes and restarts.
- *Triggers* stay in their slot until they are executed, *pending orders* leave the
  queue before; protection must not be used up by a sale that did not happen.
- *Checkpoints* are taken in the middle of a stream of candles and may be cut short
  by a crash. What is loaded must be whole, and no candle may count twice or never.
- *cTrader's one-shot objects* meet answers that are late, repeated, of another
  connection or of another account. A state value is used once, a quote or an
  account is accepted at the end of one unbroken path only, and nothing secret
  survives the end, whichever early return it was.

`PROJECT.json` lists the hazards with their lines and the properties that would
catch each.

## 2. Plan

| order | modules | status |
|---|---|---|
| 1 | `OrderPromise` (abstract), `OrderLifecycle` (implements it), proofs | done |
| 2 | `ExecutionPath`: composes `OrderLifecycle` with engine, gateway, adapter, breakers and portfolio | done |
| 3 | `RiskBreakers` | done |
| 4 | `LiveFeed`: feed, reconnect worker and network client, proofs | done |
| 5 | `TickQueue`: candle queue, node pools, rings as bounded sequences, lost wakeups | done |
| 6 | `FinancialMath`, `Queues`, `PortfolioLedger`, `TriggerOrders`: operators for arithmetic, loops over vectors, portfolio and trigger table | done |
| 7 | `TradingSession`: composes the three into runs of the program, with local and broker fills, pending orders, checkpoints, crashes and resumed starts | done |
| 8 | `CTraderOAuth`, `CTraderGate6`, `CTraderGate7`, composed in `CTraderGates` | done |
| 9 | `RiskBreakers_proofs`, `CTraderGates_proofs`, `ExecutionPath_proofs`, `TickQueue_proofs`, the audit theorems of `OrderLifecycle_proofs` | done |
| 10 | `TradingSession_proofs`: the trigger table, `CandlesAppliedOnce`, `TriggerRetained` | done |
| 11 | `TradingBooks_proofs`: the arithmetic lemmas, the balance of the books, the session's types, `CheckpointIsRestorable` | done |
| 12 | `TradingBooks_proofs`: `SizedTradesAreAccepted`, where the session's totals leave room in the integer's range | done |

Modules that are proved about declare no RECURSIVE operator and define what they can
without recursion: a sum of lots is a cardinality, the first entry of a list that is
at fault is the least of a set of places, and the loop in `disconnect` that empties
two rings into a third is the prefix there is room for.

## 3. Modules and the code

Every module has one definition per handler or locked section, named as in the
source. A return of the code that changes nothing is a disabled action or a step
that leaves everything unchanged. A definition `X_Y` is `X` with one plausible
mistake `Y`; no action uses it, and substituting it for `X` must make a property
of the module fail.

**`OrderLifecycle`** is class `OrderLifecycleStore`. A record keeps the state,
the state before a cancel, quantity, filled and remaining amounts, the last
stamp, the resolution and the audit history. Prices, broker ids and reasons are
left out; the one external id that matters is whether an acknowledgement has
one. Amounts range a little beyond what is legal, so negative and excessive
reports are tried. Handlers return without effect in the code's order of tests;
as none of the tests has an effect, their conjunction is the guard.

**`OrderPromise`** is what the ledger promises to the engine: each order is
placed, released and ended once, executed only in between and never beyond its
quantity. `OrderLifecycle` instantiates it under a refinement mapping that
groups the thirteen states into five phases.

**`ExecutionPath`** composes the ledger, instantiated with the keys and sequence
numbers its callers really form, with the engine, the gateway, the adapter, the
portfolio and the breakers. The variable `call` is the trading thread's stack,
one stage per locked section: `Signal` (sizing, id, final risk check), `Route`,
`Enter`, `MarkRiskChecked` and `MarkSubmitted` (one lock in the code, modelled as
three steps, which allows more interleavings and no fewer), `Submit`,
`HandleAcknowledgement`, `ImmediateFill`, `Observe` (one step per bound engine),
the two failure exits, the cancel request and its answers, and late fills.
Between any two of them `SetHaltTrading`, `SetCloseOnly` and `SetConnected` may
happen. Sizing is a choice among what cash and holdings allow, `normalized` the
verdict of normalizeOrder and, for an entry, of the drawdown and VaR gates. A
lot costs one unit of cash.

**`RiskBreakers`** is the part of `RiskEngine` that is flags, counters and time.
`reportApiError` is two steps, as it reads the clock before it takes the lock,
and so is `clearHalt`. `reported` and `excused` are history variables. `saved` is
the last snapshot; a restart forgets the error window, as the code does.

**`LiveFeed`** is the connection half of `LiveDataAdapter` with the start, stop
and redial of `AsyncNetworkClient`. `pc` says where the owner, the worker and the
network thread stand; each store of `m_connected`, each report through the
integrity callback and each test of a flag is a step. The risk engine's halt is
the variable `halted`, as main wires it. `callback` says whether main has set the
callback yet: it connects first (main.cpp:233, 273), so what the first connect
reports reaches nobody. In PAPER mode no socket exists.

**`TickQueue`** is the other half of `LiveDataAdapter`: the message callback of
the network thread (`Receive`, `Publish` or `Refuse`, `NotifyReader`),
`PushSimulatedCandle`, and `getNextCandle` with its two passes of
pumpNetworkIngress, the test of its predicate, its sleep and the taking of a
candle. Stages under `m_mutex` exclude pushSimulatedCandle and not the callback,
which takes no lock. A ring is a sequence that holds one element less than its
slots. `accepted` (a set) and `delivered` (a sequence) are history variables, by pool;
ticks are numbered as they arrive, so the order of delivery can be told from them.

**`FinancialMath`** is the fixed-point arithmetic. A `std::optional` is a set of at
most one value, so a chain of `has_value` tests is a union over sets. The code
multiplies into 128 bits and divides back; TLA+ integers stand for that product,
and `Representable` is the range check at its end. A double is an integer in steps
of `1/Resolution` of a unit: it can fall between two units, so `normalize` rounds,
truncates or refuses as the code does.

**`Queues`** is what a loop over a vector collects: the elements at some of its
places, in order (`Collected`). The portfolio's pending orders, its trade log and the
trigger table use it.

**`PortfolioLedger`** is `PortfolioManager`. A portfolio is a record, each operation
an operator from a book to the book it leaves or to none, where the code throws;
all of the code's tests precede its assignments, so a throw leaves the book alone.
Every entry and exit ends in `Valued`, which is valueState and commitValuation.
`snapshotState` turns the amounts into doubles and `restoreState` takes them back,
refusing a book whose averages or valuation do not follow from the rest.

**`TriggerOrders`** is `TriggerOrderManager`: the slots, the stack of free ones, and
`evaluate`, which reports and does not remove.

**`TradingSession`** is a run of the program. `Start` is main up to its loop, with
the mode flag, the two gates of LIVE, and `--resume`; `PassOver` and `TakeCandle` pick
the earliest head of the streams; `ProcessPendingOrder`, `DispatchSignal` and
`MarkToMarket` are processCandle; `WriteTemporary` and `RenameTemporary` are the
checkpoint; `Crash` and `PowerLoss` end the process at any step, and only the file
survives, or not even that. An exception that nobody catches is a stage of its own
(`dying`) from which the process only ends. `execute` is the engine: in BACKTEST it
sizes, asks the risk gates and books; in PAPER the order is cut to the instrument's
steps and the broker's answer is a choice, whose interleavings `ExecutionPath` has.
`applied` counts, with the book, which candles it has seen. main takes for granted
that every file is in the order of time; `Chronological` says so, and what the
properties say of candles they say of such files. `TableConsistent` is the part of the
type invariant that is about the trigger table.

**`CTraderOAuth`**, **`CTraderGate6`**, **`CTraderGate7`** are the three one-shot
objects. Their methods are chains of early returns, kept in the order of the code,
which decides what is reported. A loop over a list that stops at the first entry at
fault is the least place of a set of places. Any call may come at any time with any of the evidence. Gate 7's
private methods are operators on the proof and its public ones the actions, which
may also run out of memory where the code copies. `CTraderGates` puts the three side
by side; they share no state, so a behaviour exercises one of them.

`MC…` modules give the constants their values; `…_proofs` modules hold theorems.

## 4. Runs

| run | configuration | what it asks | states |
|---|---|---|---|
| `order_lifecycle` | two orders, quantity up to 2, 7 event keys, three stamps whose sequence and time order disagree | type, quantities, cancel, risk check, deduplication, finality, growth, and the promise | 257 thousand |
| `execution_path` | one engine, 3 orders, 2 fill reports each, 2 lots of cash, cap 1, cancels with and without a sequence | one lot booked once, no half dispatched order, engine and ledger agree, one entry slips at most, identities fresh | 1.0 million |
| `shared_gateway` | two engines | the identities are *not* fresh: a violation | |
| `risk_breakers` | two reporting threads, window 2, threshold 2, cap 2, clock to 4, 4 errors | bursts halt, window, cap, restore | 2.4 million |
| `halt_latch` | the same with a smaller window | the halt does *not* latch: a violation | |
| `live_feed` | PAPER and LIVE | threads joined, disconnect returns, dead feed halts in PAPER, the worker reconnects | 10.5 thousand |
| `dead_feed` | the same | in LIVE mode a dead feed need *not* halt: a violation | |
| `reconnect_once` | PAPER | a second loss is *not* healed: a violation | |
| `tick_queue` | one local and two network nodes, rings with just enough room, calls with a limit | nodes conserved, ticks delivered once and in order, calls return | 114 thousand |
| `trading_session` | two streams with three and one candles or with a shared timestamp, 2 pending orders or triggers, two resumed starts | books balance, sized trades are accepted, checkpoints load, candles count once, triggers stay | 527 thousand |
| `resume_ties` | two streams with a shared timestamp, one resumed start | a restart is *not* complete: a violation | |
| `ctrader_gates` | for every test of the code evidence that passes it and evidence that does not, two guards, clock to 4 | one match per state value, the right account, a proven quote, no secret after the end, the end is final | 11.5 thousand |

Every property of a passing run has a mutant: a mistake in the mapped code which
makes that property fail under the same configuration.

### Bounds, and why they are enough

- *Orders.* Handlers touch one record and the set of applied keys. Two orders
  show a key used across orders; a third adds nothing. In `execution_path` three
  ids allow an entry, its exit and a re-entry. Quantity 2 is the least that has a
  partial fill; amounts run from -1 to 3.
- *Keys.* `KeyBound` counts the events a behaviour applies: seven take one order
  through create, risk check, submit, acknowledge, fill, cancel and its answer.
  Keys not yet used are interchangeable, so `MCOrderLifecycle` tries one of them,
  and every used key. `CHECK_DEADLOCK FALSE` is there because a behaviour ends
  when the keys are used up, which is a bound of the model and no deadlock of the
  code.
- *Reports.* `order_lifecycle` delivers reports in any order and repeated. In
  `execution_path` the first report of an order is the one inside submit and
  `MaxFills` bounds all of them; two give a partial fill and a later report that
  completes, contradicts or overshoots it.
- *Time.* `Horizon` twice the window lets errors leave it while others enter;
  `MaxReports` above the threshold gives a burst with one to spare.
- *Queue.* Two network nodes are the least with one in the queue and one in hand;
  `MaxTicks` 3 per connection makes a node come round again, and the rings are as
  small as their assumption allows, so that their last place is used.
- *Money.* A unit is a tenth and a double has half-unit steps, so prices, fees and
  shares are rounded at nearly every operation; 60 units of cash buy one to a few
  units of quantity, and fees and slippage are a tenth. Ranges are not reached
  (`MaxUnits` is far above): what a refused operation does is modelled, the width
  of the integer is a constant.
- *Session.* Two streams are the least that can tie. Three candles of one give a
  checkpoint after the first, a candle to process after it and one to lose in a
  crash; two resumed starts give a restart of a restart. Two placed orders in a
  BACKTEST give a pending order with a trigger, or two triggers on one quote.
  `CHECK_DEADLOCK FALSE`: a behaviour ends when its starts are used up.
- *cTrader.* Two guards allow a move, two state values a callback with the wrong
  one. Lists hold up to two accounts or symbols, the least that is ambiguous.
  Four multipliers, one per unit of the code, and two times of receipt leave
  timestamps that are fresh in one unit, in two, or in none: stale, in the future,
  or with two readings equally close.
- *Feed.* No counter needs a bound; the state space is finite and explored whole.

### Fairness

`LiveFeed` and `TickQueue` claim liveness. In `LiveFeed` a thread inside a call goes on (weak fairness
of the owner when not idle, of the worker, of the network thread when not idle):
these are operating-system threads that sleep for bounded times, and a dial gets
an answer of some kind. That holds for the `wss://` endpoint of the default
configuration; a plain `ws://` endpoint that accepts and then stays silent is read
again without end (AsyncNetworkClient.cpp:449), and `DisconnectReturns` claims
nothing there. Nothing obliges anybody to make a call, and nothing
obliges the network to lose or regain a connection. `WorkerReconnects` and
`LossIsHealed` are stated for PAPER mode, where a reconnection always succeeds;
in LIVE mode a network that refuses for ever is allowed.

In `TickQueue` the callback and the reader go on likewise (weak fairness), and
the time limit of a call passes (strong fairness of `Timeout`: `wait_for` keeps
one deadline however often the sleeper is woken). No tick has to arrive, and a
spurious wakeup is allowed and never required.

### What the violations show

1. `shared_gateway`: engines number orders from 1 and key them `execution-N`,
   but the ledger they share is keyed by both. The second symbol to trade has its
   orders refused as duplicates, and every refusal counts as an API error.
2. `halt_latch`: the error-rate halt and the integrity halt are one flag, and
   the feed's recovery clears it. The header and the adapter contract both say
   that only an operator does.
3. `dead_feed`: in LIVE mode the report of a reconnection can overtake that of
   the loss after it. Afterwards the feed is down and trading is not halted.
4. `reconnect_once`: the worker that healed one loss is never joined, and its
   object stands in the way of the next.
5. `resume_ties`: the checkpoint remembers the time of the candle it was taken at,
   and a resumed run warms up with everything up to that time. Where two symbols
   have a candle at the same time and only one was processed, the other is skipped:
   no order, signal or valuation of it reaches the book. Files with the same bar
   length tie at every bar. Without ties `CandlesAppliedOnce` holds.

Observed while modelling, without a document that says otherwise: a pending order
that risk or cash blocks has already left the queue; an order that the broker
rejects counts as executed, so its trigger is released; triggers are not part of a
checkpoint; an entry whose value rounds to 0 makes openLong throw and ends the run
(`dust`, excepted by name in `SizedTradesAreAccepted`); a repeated account
authentication ends a completed quote proof and takes its quote back (the one step
that `EndedStaysEnded` excepts for it, written out as the state it leaves); in LIVE
mode a first connect that is refused is reported to nobody, so trading is not halted
until the feed reports again (`DeadFeedHalts` speaks of a callback that has been
called); a reader of getNextCandle without a time limit, which the
program never is, can miss its wakeup, because the callback notifies without the
mutex.

## 5. Proofs

TLAPS proves for every value of the constants what TLC checks for a few. Each
component's inductive invariant was first checked by TLC on the configuration of its
run. The proofs assume only the `ASSUME`s of the modules, which TLC evaluates:

- `OrderLifecycle`: the empty key is no key, stamps are pairs of naturals, the bound
  on quantities is positive.
- `ExecutionPath`: there are finitely many engines and at least one; there may be
  some order, some report and some cash.
- `RiskBreakers`: finitely many threads, a window that is not empty.
- `LiveFeed`: the modes are PAPER or LIVE.
- `TickQueue`: the two pools are finite and apart, and a ring has more slots than
  there are network nodes, as the constructor sees to.
- cTrader: the bounds are naturals, a multiplier is positive, the lifetime is
  positive, lists are sequences and an optional field holds at most one value.
- `TradingSession` and the modules below it: the scale, the range and the resolution of
  the arithmetic are positive; symbols are finitely many and at least one; the starting
  cash is positive and in range; the table has some number of slots, possibly none; fee
  rate and slippage are less than the whole; intervals and instrument steps are
  positive, ATR sizes are positive amounts; files are sequences of candles with integer prices, of any order and
  any sign; the amounts of orders and quotes are integers.

| module | theorems |
|---|---|
| `OrderLifecycle_proofs` | `TypeCorrect`, `Conservation`, `CancelRestores`, `Finality`, `Growth`, `Refinement`, `RiskCheckedFirst`, `AppliedOnce` |
| `ExecutionPath_proofs` | `TypeCorrect`, `BookedOnce`, `NoLimbo`, `Remembered`, `OneEntrySlips`, `FreshIdentity`, `LedgerRefined` |
| `RiskBreakers_proofs` | `TypeCorrect`, `CapAgrees`, `SavedRestores`, `WindowSuffix`, `BurstsHalt` |
| `LiveFeed_proofs` | `TypeCorrect`, `ShutdownIsComplete`, `DeadFeed`, `ThreadsAreJoined` |
| `TickQueue_proofs` | `TypeCorrect`, `NoNodeLost`, `DeliveredInOrder` |
| `CTraderGates_proofs` | `MatchedOnce`, `AccountIsTheSelected`, `QuoteHasTrail`, `SecretsWiped`, `EndIsFinal` |
| `TradingSession_proofs` | `EachCandleOnce`, `TableStaysConsistent`, `TriggersRetained` |
| `TradingBooks_proofs` | `BooksAlwaysBalance`, `SessionTyped`, `CheckpointsLoad`, `SizedAreAccepted` |

**The ledger**, for any set of orders and keys. Conservation is not inductive: that
an order has something left unless it is Filled needs to know that an Accepted order
has no fill, that a cancel was requested from Accepted or PartiallyFilled and from
Accepted only with nothing filled, and that a record not yet created is empty.
`RecordInv` says these for one record and `IInv` for all. `CommitInv` reduces an
action to its record: if the changed record satisfies `RecordInv` and relates to the
old one by `RecordStep`, then `IInv` holds again and the order made a `Step` of the
promise. One lemma per handler shows the two for its record; finality, growth and
refinement follow from `Step`. For the audit properties `AuditInv` is added: the applied
keys are exactly the keys in the histories, each in one place only, and `PathInv` fixes
how a history begins and that it ends in the order's state.

**The order path**, for any number of engines, orders, fills and lots. Every step of
the path is a step of the ledger or leaves the ledger alone, so `LedgerRefined` gives
the ledger's specification, and the lemmas of `OrderLifecycle_proofs` are used through
an INSTANCE with the keys and stamps the callers form; `LedgerAssumptions` proves the
instance's assumptions. `PathInv` adds to the ledger's `IInv` what relates the two
sides. `KeysInv`: the fixed keys an order has still to use have not been applied, so no
step of a dispatch is swallowed as a duplicate. `DispatchInv`: an order that is
Created, RiskChecked or Submitted has the trading thread at exactly the stage that
goes on with it, with the sequence number that comes next. `SlipInv`: while both
breakers are closed nothing has slipped, and an entry between its last risk check and
the adapter was checked while they were. `BooksInv`: what an engine remembers of an
order is what was booked, until the order can execute no more, and an execution on its
way to the engines is the last the ledger applied. Sums of lots are cardinalities,
`LotsChange` and `LotsSplit` say how they change.
`FreshIdentity` has the hypothesis that there is one engine. It is needed:
`shared_gateway` is the counterexample with two.

**The breakers**, for any threshold, window, cap and number of reporters. A burst is a
set of errors within one window; that it halts needs to know what the window still
holds when the last of them enters. `WindowInv` says that the window is a suffix of
what was reported and that what was dropped was older than the window at some clock
reading, though the readings enter out of order.
`CapInv` says that the effective cap is a function of the configured one and the
volatility flag, so nothing compounds, and the same of a saved snapshot.

**The feed.** That a dead feed has trading halted in PAPER mode is not inductive, as it
is stated for quiet states only. `LossPending` says it for all: a loss that is not
reported has its reporter at work (`opened`, `lost`), or was overtaken by the report of
an earlier reconnection, whose worker will find the flag down when it returns to its
loop. `PaperStages` keeps the network thread out of PAPER mode, and `WorkerJoined` says
that simulateDisconnect gets past its first test only while the adapter is not shut
down. `FirstConnect` says that before main has set the callback nothing but the first
connect has happened, which in PAPER mode succeeds, so that no loss is reported to
nobody. `Invariance` proves the conjunction with one lemma per thread; a step that
moves one thread is measured against the stage it goes to (`OwnerSteps`, `WorkerSteps`).

**The queue**, for any pools and any ring they fit in. The seven places a node can be in
are a partition of the nodes; `NodesMove` says that moving nodes from one place to
another keeps it one, and each action is one such move (`Disconnect` is four). That no
push is refused follows: a ring that lacks one network node is shorter than the pool
(`RingHasRoom`). `OrderInv` says that what waits in the queue and then the ring is later
than what was delivered and in order, and `FreshInv` that the tick in the hands of the
network thread is later than all that was accepted.

**The cTrader objects**, for any number of guards and lists of any length. They share no
state, so each has an invariant of its own. `GuardInv`: a live state value is held by
one armed guard, which remembers when it was armed, and has not been matched; a move
hands it on. `Gate6Inv` and `Gate7Inv` say for each phase what the lists accepted so far
must have contained: `OneShown` and `OneListed` that the title was unique among the demo
accounts of the first list and of the second, `Vouched` and the `…Accepted` predicates
that the trail has an accepted answer of this connection for every stage passed.

**The session's candles**, for any number of streams and candles and any sequence of
starts and deaths. That a resumed run books no candle twice depends on what it takes as
warm-up, which is a matter of times, while the book counts candles. `CandleInv` ties the
two: what the book has seen of the candles ahead of the heads is at or before the resume
time, so it will be passed over (`AheadIsCovered`); what has been taken is no later than
the candle in hand (`HandIsLatest`), because the merge takes the earliest head; and a
checkpoint cuts every file at its time (`FileIsCut`), which is what makes the first hold
again after a start. `NothingMissed` adds, where no two streams share a timestamp, that
everything behind the heads, and everything that will be passed over, was seen. All of it
rests on `Chronological`.

**The trigger table**, for any number of slots. `TableInv` says that slots in use and the
free stack partition the table and that no two slots hold one order number. `EventInv`:
what evaluate reported and the engine has not yet executed are orders of the quote's
symbol. A trigger that leaves the table was then cancelled by an accepted execution, and
in a BACKTEST that sells the whole position. evaluate collects from a loop over the slots;
`CollectedFrom` says that what it collects is what is at those places.

**The books**, for any fees, slippage, prices, rounding steps and range. `Sane` is
`BookType` and `Balanced`, the invariant `BooksInv` that the book, the queues of the
candle in hand and the book of the file are so. A booking changes one position and adds
at most one trade, so the sums change at one place (`SumChanges`, `SumLoses`,
`PositionSums`); `EntryBalances` and `ExitBalances` draw the balance from the amounts at
that place, and one lemma per operation of the portfolio delivers the amounts. For a
partial close the arithmetic is `ShareRange`: the rounded share of a cost or a fee is no
more than the whole, and all of it when everything is sold, so no unit is left behind
without a position. For a checkpoint it is `AlignedBack`: an amount that became a double
and comes back is the same amount. That the cash stays in range is not assumed: an
operation whose result leaves the range changes nothing.

**The checkpoints.** A balanced book need not pass `restoreState`, which computes averages,
the valuation and the drawdown anew and refuses what differs. `Solid` adds what it asks:
`Coherent`, that equity, profit and drawdown follow from positions and marks, and `Ready`,
that every position's average is the rounded quotient of cost and quantity and not 0, that
closed trades have positive amounts and that pending orders have ids of their own.
`AveragePositive` is the arithmetic: a cost that does not round to 0 has an average that
does not. A partial close leaves an average that no longer follows from the rest, so
`SolidInv` needs that a BACKTEST sells positions whole and has nothing working at a broker.
`SolidIsRestored` shows that such a book passes each test in turn.

**The sized trades.** ExecutionEngine sizes a trade so that its debit fits the cash, and
PortfolioManager rounds everything again and throws where a number does not come out. That
it never does so is false for all constants: with a range hardly wider than the starting
cash TLC finds sales whose proceeds the cash cannot hold. `SizedAreAccepted` therefore has
the hypothesis `[]Headroom`: cash, fees, and the positions at their marks and again at
cost, with the value of any position at a price the next step may trade at, add up within
the range (`Room`, `RoomAt`), and such a price is at least one whole unit below its end.
TLC finds `Headroom` in every state of `trading_session`'s configuration; for the code's
64-bit amounts with eight decimals the limit is some ninety billion. Under it, each test of openLong and
closePosition is derived. The amounts come through the doubles unchanged (`RoundedExact`)
and the debit is the engine's (`OpenLongAccepted`); the average of an entry exceeds its
price by less than one whole unit, as rounding adds no more than half a divisor
(`RoundedAbove`, `AverageFits`); the fee of an exit is no more than its proceeds
(`FeeIsLess`), and the whole position takes its whole cost along (`WholeShare`); and the
book can be valued afterwards (`CanBeValued`), since its profit lies between what its
positions cost and what they are worth (`SumDifference`, `BookTotals`). The exception that
is left is `dust`, an entry whose value rounds to nothing.

Left to TLC are

- the liveness properties `WorkerReconnects`, `DisconnectReturns` and `CallReturns`: the
  prover has neither fairness nor ENABLED;
- that the operators compute what the code computes: the proofs speak of the models.

What a recursive definition computes for every input is out of the prover's reach, as
induction over data needs theorems with operator parameters. Where an argument is an
induction, it is put into sets: one over a number takes the least element of a set
(`LeastElement`), and one over a finite set is `SubsetInduction`, in which the statement is
the set of subsets of which it holds. The sum over a function, which the community modules
define by recursion on sets, is reached this way: `PartialExists` shows that the recursion
has a solution, and `SumAdds` what one more term does.

## 6. Not modelled

- Numbers: strategies, regime, allocator weights, VaR, covariance and analytics are
  floating point. Their verdicts enter as choices.
- Formats and I/O: TLS, HTTP and WebSocket framing, JSON, CSV, request signing,
  the Objective-C++ runtimes of the cTrader gates.
- The gateway's reconcile, which compares and changes nothing, its counters and
  its fault configuration. `applyReconciliation` and `markTimeout` of the ledger
  have no caller in the program; they are in `OrderLifecycle`, not in
  `ExecutionPath`.
- The order in which the strategies' votes become a signal, and the L2 book, whose
  best quote is an input of `EvaluateTriggers`.
- In PAPER mode the candle that main processes is the one at the front of the
  feed's queue; `TradingSession` takes the one that was read.
- Gate 7's classification of provider errors and frames for diagnostics and its
  heartbeat timer, which the platform runtime polls.
- In LIVE mode `AsyncNetworkClient::start` is one step, though its test and its
  store are apart; back-off delays are "some time".

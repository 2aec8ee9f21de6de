--------------------------- MODULE TradingSession ---------------------------
(***************************************************************************)
(* A run of the program: main (src/src/main.cpp) merges the candle files   *)
(* by time, EventLoop::processCandle takes each candle through pending     *)
(* orders, the strategies' signal, the valuation and the daily checkpoint, *)
(* and ExecutionEngine sizes and books the trades.  Between candles a user *)
(* of the engine may place pending orders and protective triggers.  The    *)
(* process may die at any step, the machine may lose power, and a later    *)
(* start may resume from the checkpoint.                                   *)
(*                                                                         *)
(* One thread runs all of it, so "stage" is a program counter: the steps   *)
(* are the places where a death leaves something different behind, or      *)
(* where an order of the candle is booked.                                 *)
(*                                                                         *)
(* In PAPER mode the gateway is bound and the broker's answer is a choice  *)
(* (ExecutionPath models how it comes about); what an execution report     *)
(* books is modelled here.  Indicators, regime and VaR enter as choices:   *)
(* which signal, which ATR size, whether the VaR gate holds.               *)
(* X_Y is X with one plausible mistake Y, which no action uses.            *)
(***************************************************************************)
EXTENDS PortfolioLedger, TriggerOrders

CONSTANTS
  Tapes,               \* candle files: functions from symbols to sequences
  FeeRate, Slippage,   \* m_feeRate and m_slippage, in units
  MaxPositions,        \* maxConcurrentPositions, 0 for no limit
  DrawdownLimit,       \* MAX_TOTAL_DRAWDOWN, in basis points
  CheckpointInterval,  \* seconds between checkpoints of one loop
  AtrUnits,            \* quantities ATR sizing may ask for, in units
  OrderMenu,           \* pending orders a user may place
  TriggerMenu,         \* triggers a user may place
  Quotes,              \* best quotes the triggers are tested on
  QuantityStep, TickSize,  \* of the instrument, in units
  LiveBuilt,           \* TRADEBOT_ENABLE_LIVE_RUNTIME
  Starts,              \* bound: a sequence, what each start may be asked for
  MaxPlaced            \* bound: orders and triggers placed, in each mode

Modes == {"backtest", "paper", "live"}

(* The mode flag, --resume, and whether main's arguments unlock LIVE.      *)
Requests == [mode : Modes, resume : BOOLEAN, unlocked : BOOLEAN]

ASSUME SessionAssumption ==
  /\ \A files \in Tapes :
       files \in [Symbols -> Seq([ts : Nat, low : Int, close : Int, high : Int])]
  /\ Symbols # {} /\ FeeRate \in 0 .. Scale - 1 /\ Slippage \in 0 .. Scale - 1
  /\ MaxPositions \in Nat /\ DrawdownLimit \in Nat /\ CheckpointInterval \in Nat \ {0}
  /\ AtrUnits \subseteq 1 .. MaxUnits /\ QuantityStep \in Nat \ {0} /\ TickSize \in Nat \ {0}
  /\ \A request \in OrderMenu :
       {request.limit, request.offset, request.quantity, request.capital} \subseteq Int
  /\ \A quote \in Quotes : quote.bid \in Int /\ quote.ask \in Int
  /\ LiveBuilt \in BOOLEAN /\ Starts \in Seq(SUBSET Requests)
  /\ MaxPlaced \in [Modes -> Nat]

VARIABLES
  tape,        \* the files, the same at every start
  session,     \* mode, doResume and resumeCheckpointTs of this process
  stage,       \* where the process is; "down" when there is none
  current,     \* symbol of the candle or quote being processed
  next,        \* per stream, the candle at its head
  fills,       \* pending orders of the candle still to be booked
  events,      \* triggered orders still to be executed
  book,        \* PortfolioManager
  drawdown,    \* RiskEngine::m_totalDrawdown
  lastSaved,   \* m_lastCheckpointTs of each symbol's loop
  triggers,    \* TriggerOrderManager
  working,     \* a broker order that is not filled completely, {} for none
  snapshot,    \* the checkpoint file
  starts, placed, \* counted against the bounds
  applied,     \* history: how often the book has seen each candle
  thrown       \* history: why the process ended, if by an exception

stream   == <<tape, next>>
queues   == <<fills, events>>
engine   == <<book, drawdown, lastSaved, triggers, working>>
counters == <<starts, placed>>
vars == <<stream, session, stage, current, queues, engine, snapshot, counters,
          applied, thrown>>

NoFile == [kind |-> "none"]
Torn   == [kind |-> "torn"]

Candle(s) == tape[s][next[s]]

Untouched == [s \in Symbols |-> [i \in DOMAIN tape[s] |-> 0]]

Init ==
  /\ tape \in Tapes
  /\ session = [mode |-> "backtest", resume |-> FALSE, ts |-> 0]
  /\ stage = "down" /\ current = CHOOSE s \in Symbols : TRUE
  /\ next = [s \in Symbols |-> 1] /\ fills = <<>> /\ events = <<>>
  /\ book = EmptyBook /\ drawdown = 0 /\ lastSaved = [s \in Symbols |-> 0]
  /\ triggers = EmptyTable /\ working = None
  /\ snapshot = NoFile /\ starts = 0 /\ placed = 0
  /\ applied = Untouched /\ thrown = "no"

(***************************************************************************)
(* Sizing.  An entry is [units, fee, debit]; it fits when the debit is     *)
(* within the budget.                                                      *)
(***************************************************************************)
Affordable(p, budget) ==
  UNION {quantityForNotional(n, p) : n \in notionalBeforeFee(budget, FeeRate)}

(* The fee of a fill.                                                      *)
FillFee(p, units) == UNION {fee(c, FeeRate) : c \in notional(p, units)}

EntryOf(p, units) ==
  UNION {{[units |-> units, fee |-> f, debit |-> d] : d \in Debit(p, units, f)} :
           f \in FillFee(p, units)}

Fitting(p, sizes, budget) ==
  {e \in UNION {EntryOf(p, q) : q \in {n \in sizes : n > 0}} : e.debit <= budget}

Sized_NotResized(p, wanted, budget) == UNION {EntryOf(p, q) : q \in wanted}

(* The quantity asked for, or what the budget affords where it does not    *)
(* fit.                                                                    *)
Sized(p, wanted, budget) ==
  IF HasValue(Fitting(p, wanted, budget)) THEN Fitting(p, wanted, budget)
  ELSE Fitting(p, Affordable(p, budget), budget)

OpenPositions(b) == Cardinality(DOMAIN b.positions)

(* The share of the cash an entry without an ATR gets.                     *)
Slice(b) ==
  IF MaxPositions = 0 THEN b.cash
  ELSE b.cash \div (IF MaxPositions > OpenPositions(b)
                    THEN MaxPositions - OpenPositions(b) ELSE 1)

(* "atr" holds the quantity of ATR sizing, {} when the ATR is not valid.   *)
SizedEntry(b, p, atr) ==
  IF HasValue(atr) THEN Sized(p, atr, b.cash)
  ELSE Sized(p, Affordable(p, Slice(b)), Slice(b))

(* canTrade; the breakers, which no BACKTEST run trips, are in             *)
(* RiskBreakers.                                                           *)
CanTrade(b, varHolds) ==
  /\ drawdown < DrawdownLimit
  /\ MaxPositions > 0 => OpenPositions(b) < MaxPositions
  /\ varHolds

(***************************************************************************)
(* ExecutionEngine::execute.  An outcome is the book it leaves, whether it *)
(* returned true, the order still working at the broker, and the exception *)
(* that left it, if any: "dust" when the value of the entry rounds to 0.   *)
(***************************************************************************)
Outcome(b, accepted, rest, exception) ==
  [book |-> b, accepted |-> accepted, working |-> rest, thrown |-> exception]

Refused(b) == Outcome(b, FALSE, working, "no")

(* What PortfolioManager makes of a booking nobody catches exceptions of.  *)
Booked(b, result, exception) ==
  IF HasValue(result) THEN Outcome(ValueOf(result), TRUE, working, "no")
                      ELSE Outcome(b, FALSE, working, exception)

BookEntry(b, s, p, e) ==
  Booked(b, openLong(b, s, toDouble(p), toDouble(e.fee), toDouble(e.debit),
                     toDouble(e.units)),
         IF notional(p, e.units) = Some(0) THEN "dust" ELSE "accounting")

BookExit(b, s, p) ==
  LET exitFee == FillFee(p, getPositionQuantity(b, s)) IN
  IF HasValue(exitFee)
  THEN Booked(b, closePosition(b, s, toDouble(p), toDouble(ValueOf(exitFee)), 0), "accounting")
  ELSE Refused(b)

Slipped(market, buySide) == UNION {applySlippage(p, Slippage, buySide) : p \in price(market)}

(* A BUY without a gateway: size, then the risk gate, then the book.       *)
LocalBuys(b, s, market) ==
  {IF ~hasPosition(b, s) /\ b.cash > 0 /\ HasValue(Slipped(market, TRUE))
      /\ HasValue(SizedEntry(b, ValueOf(Slipped(market, TRUE)), atr)) /\ CanTrade(b, varHolds)
   THEN BookEntry(b, s, ValueOf(Slipped(market, TRUE)),
                  ValueOf(SizedEntry(b, ValueOf(Slipped(market, TRUE)), atr)))
   ELSE Refused(b) : atr \in {{}} \cup {{q} : q \in AtrUnits}, varHolds \in BOOLEAN}

LocalSells(b, s, market) ==
  {IF hasPosition(b, s) /\ HasValue(Slipped(market, FALSE))
   THEN BookExit(b, s, ValueOf(Slipped(market, FALSE))) ELSE Refused(b)}

(***************************************************************************)
(* The same with a gateway bound: normalizeOrder cuts quantity and price   *)
(* to the instrument's steps, the broker answers, and onBrokerExecution    *)
(* books what it reports.  An exception there is caught and the report is  *)
(* not booked; neither is a fill whose fee or debit has no value.          *)
(***************************************************************************)
normalizeToStep(value, step) == {n \in {(value \div step) * step} : n > 0}

BrokerBooking(b, s, buy, p, units) ==
  LET f == ValueOf(FillFee(p, units))
      debit == ValueOf(Debit(p, units, f)) IN
  IF ~HasValue(FillFee(p, units)) \/ (buy /\ ~HasValue(Debit(p, units, f)))
  THEN None
  ELSE IF ~buy
  THEN IF units <= getPositionQuantity(b, s)
       THEN closePosition(b, s, toDouble(p), toDouble(f), toDouble(units)) ELSE None
  ELSE IF hasPosition(b, s)
  THEN addToLong(b, s, toDouble(p), toDouble(units), toDouble(f), toDouble(debit))
  ELSE openLong(b, s, toDouble(p), toDouble(f), toDouble(debit), toDouble(units))

Reported(b, result) == IF HasValue(result) THEN ValueOf(result) ELSE b

(* DeterministicBrokerAdapter::submit: filled in part or in full, where    *)
(* the fee can be computed.                                                *)
PaperFills(b, s, buy, p, units) ==
  {Outcome(Reported(b, BrokerBooking(b, s, buy, p, filled)), TRUE,
           IF filled < units
           THEN {[symbol |-> s, buy |-> buy, price |-> p, units |-> units - filled]}
           ELSE working, "no") :
     filled \in {n \in {units, units \div 2} : n > 0 /\ HasValue(FillFee(p, n))}}

(* Refused, rejected or dropped, or filled at the slipped reference price. *)
(* A rejected order was dispatched, so execute returns true for it.        *)
BrokerAnswers(b, s, buy, reference, units) ==
  {Refused(b), Outcome(b, TRUE, working, "no")}
  \cup UNION {PaperFills(b, s, buy, p, units) : p \in applySlippage(reference, Slippage, buy)}

Dispatched(b, s, buy, market, units) ==
  UNION {BrokerAnswers(b, s, buy, p, q) :
           p \in UNION {normalizeToStep(v, TickSize) : v \in price(market)},
           q \in normalizeToStep(units, QuantityStep)}

BrokerBuys(b, s, market) ==
  {Refused(b)} \cup
  UNION {UNION {Dispatched(b, s, TRUE, market, e.units) :
                  e \in SizedEntry(b, ValueOf(Slipped(market, TRUE)), atr)} :
           atr \in IF /\ ~hasPosition(b, s) /\ b.cash > 0
                      /\ HasValue(Slipped(market, TRUE)) /\ CanTrade(b, TRUE)
                   THEN {{}} \cup {{q} : q \in AtrUnits} ELSE {}}

BrokerSells(b, s, market) ==
  {Refused(b)} \cup
  (IF hasPosition(b, s) THEN Dispatched(b, s, FALSE, market, getPositionQuantity(b, s)) ELSE {})

execute(b, s, signal, market) ==
  IF signal = "NONE" \/ ~IsPositive(price(market)) THEN {Refused(b)}
  ELSE IF session.mode = "backtest"
  THEN IF signal = "BUY" THEN LocalBuys(b, s, market) ELSE LocalSells(b, s, market)
  ELSE IF signal = "BUY" THEN BrokerBuys(b, s, market) ELSE BrokerSells(b, s, market)

(***************************************************************************)
(* The process ends: it is killed, it is done, or an exception has left    *)
(* main.  Only the file survives.                                          *)
(***************************************************************************)
Dying(exception) == stage' = "dying" /\ thrown' = exception

Gone ==
  /\ stage' = "down" /\ thrown' = "no"
  /\ session' = [mode |-> "backtest", resume |-> FALSE, ts |-> 0]
  /\ next' = [s \in Symbols |-> 1] /\ fills' = <<>> /\ events' = <<>>
  /\ book' = EmptyBook /\ drawdown' = 0 /\ lastSaved' = [s \in Symbols |-> 0]
  /\ triggers' = EmptyTable /\ working' = None
  /\ applied' = Untouched
  /\ current' = CHOOSE s \in Symbols : TRUE
  /\ UNCHANGED <<tape, counters>>

(* The booking of one order, and where to go on.                           *)
Books(outcome, goOn) ==
  /\ book' = outcome.book
  /\ working' = outcome.working
  /\ IF outcome.thrown = "no" THEN stage' = goOn /\ UNCHANGED thrown
     ELSE Dying(outcome.thrown)

(***************************************************************************)
(* main's loop: the streams' heads in the order of their timestamps, ties  *)
(* in any order.                                                           *)
(***************************************************************************)
Live == {s \in Symbols : next[s] <= Len(tape[s])}

Earliest(s) == s \in Live /\ \A t \in Live : Candle(s).ts <= Candle(t).ts

Resumed_Strict(s) == session.resume /\ Candle(s).ts < session.ts

(* A candle of a resumed run that the checkpoint covers.                   *)
Resumed(s) == session.resume /\ Candle(s).ts <= session.ts

Advance(s) == next' = [next EXCEPT ![s] = @ + 1]

(* Warm-up feeds the indicators only; without a connection a PAPER candle  *)
(* is dropped.                                                             *)
PassOver(s) ==
  /\ stage = "next" /\ Earliest(s)
  /\ Resumed(s) \/ session.mode # "backtest"
  /\ Advance(s)
  /\ UNCHANGED <<tape, session, stage, current, queues, engine, snapshot, counters, applied, thrown>>

(* processCandle up to the orders that the candle fills.                   *)
TakeCandle(s) ==
  /\ stage = "next" /\ Earliest(s) /\ ~Resumed(s)
  /\ LET evaluated == evaluatePendingOrders(book, s, Candle(s)) IN
     book' = evaluated.book /\ fills' = evaluated.fills
  /\ stage' = "pending" /\ current' = s
  /\ applied' = [applied EXCEPT ![s][next[s]] = @ + 1]
  /\ UNCHANGED <<stream, session, events, drawdown, lastSaved, triggers, working, snapshot,
                 counters, thrown>>

(***************************************************************************)
(* processPendingOrders: a filled order has left the queue whatever        *)
(* becomes of it here, and is booked locally in every mode.                *)
(***************************************************************************)
PendingBuys(b, s, fill) ==
  LET p == ValueOf(applySlippage(fill.price, Slippage, TRUE))
      budget == IF fill.order.capital > 0 THEN Min({fill.order.capital, b.cash}) ELSE b.cash
      wanted == IF fill.order.quantity > 0 THEN Some(fill.order.quantity)
                ELSE Affordable(p, budget) IN
  {IF /\ CanTrade(b, varHolds) /\ ~hasPosition(b, s) /\ b.cash > 0
      /\ HasValue(applySlippage(fill.price, Slippage, TRUE))
      /\ HasValue(Sized(p, wanted, budget))
   THEN BookEntry(b, s, p, ValueOf(Sized(p, wanted, budget))) ELSE Refused(b) :
   varHolds \in BOOLEAN}

PendingSells(b, s, fill) ==
  LET p == applySlippage(fill.price, Slippage, FALSE) IN
  {IF hasPosition(b, s) /\ HasValue(p) THEN BookExit(b, s, ValueOf(p)) ELSE Refused(b)}

ProcessPendingOrder ==
  /\ stage = "pending" /\ fills # <<>>
  /\ \E outcome \in IF Head(fills).order.buy
                    THEN PendingBuys(book, current, Head(fills))
                    ELSE PendingSells(book, current, Head(fills)) :
       Books(outcome, "pending")
  /\ fills' = Tail(fills)
  /\ UNCHANGED <<stream, session, current, events, drawdown, lastSaved, triggers, snapshot,
                 counters, applied>>

(* dispatchSignal, with whatever the ensemble of strategies decided.       *)
DispatchSignal(signal) ==
  /\ stage = "pending" /\ fills = <<>>
  /\ \E outcome \in execute(book, current, signal, Candle(current).close) :
       Books(outcome, "mark")
  /\ UNCHANGED <<stream, session, current, queues, drawdown, lastSaved, triggers, snapshot,
                 counters, applied>>

(* A candle before the last checkpoint is due as well: the difference of   *)
(* two unsigned times is then near the largest one.                        *)
Due(s) ==
  /\ session.mode = "backtest" /\ lastSaved[s] # 0
  /\ \/ Candle(s).ts < lastSaved[s]
     \/ Candle(s).ts - lastSaved[s] >= CheckpointInterval

(* updatePnL and setTotalDrawdown; the first candle of a loop only sets    *)
(* the time its checkpoints are counted from.  A close that is not a price *)
(* throws, if a position would be marked with it.                          *)
MarkToMarket ==
  /\ stage = "mark"
  /\ LET marked == updatePnL(book, current, Candle(current).close) IN
     IF HasValue(marked)
     THEN /\ book' = ValueOf(marked)
          /\ drawdown' = ValueOf(marked).drawdown
          /\ UNCHANGED thrown
          /\ IF Due(current) THEN stage' = "saving" /\ UNCHANGED <<next, lastSaved>>
             ELSE /\ stage' = "next" /\ Advance(current)
                  /\ lastSaved' = [lastSaved EXCEPT ![current] =
                                     IF session.mode = "backtest" /\ @ = 0
                                     THEN Candle(current).ts ELSE @]
     ELSE Dying("mark") /\ UNCHANGED <<next, book, drawdown, lastSaved>>
  /\ UNCHANGED <<tape, session, current, queues, triggers, working, snapshot, counters, applied>>

(***************************************************************************)
(* StateSerializer.  The payload is the book, its amounts as doubles that  *)
(* are written bit by bit, and the risk state; envelope and checksum make  *)
(* a file that is not whole recognisable.  "applied" is the history that   *)
(* belongs to the book.  saveImpl also refuses a risk engine with recent   *)
(* API errors, which no BACKTEST has.                                      *)
(***************************************************************************)
Content ==
  [kind |-> "whole", ts |-> Candle(current).ts, book |-> snapshotState(book),
   drawdown |-> drawdown, applied |-> applied]

validate(content) ==
  LET b == content.book IN
  /\ \A i \in DOMAIN b.pending : b.pending[i].id \in 1 .. b.nextOrderId - 1
  /\ \A i, j \in DOMAIN b.pending : b.pending[i].id = b.pending[j].id => i = j
  /\ \A i \in DOMAIN b.log : /\ b.log[i].entry > 0 /\ b.log[i].exit > 0
                             /\ b.log[i].quantity > 0 /\ b.log[i].fees >= 0
  /\ HasValue(restoreState(b))

(* loadImpl assigns nothing until the whole file has been read and         *)
(* validated.                                                              *)
Loadable(file) == file.kind = "whole" /\ validate(file)

(* saveImpl and the first half of atomicWrite: a temporary file of its     *)
(* own, which nothing ever reads.                                          *)
WriteTemporary ==
  /\ stage = "saving"
  /\ \/ validate(Content) /\ stage' = "renaming" /\ UNCHANGED thrown
     \/ Dying("checkpoint")
  /\ UNCHANGED <<stream, session, current, queues, engine, snapshot, counters, applied>>

(* The rename is atomic but nothing is synced; the loop's checkpoint time  *)
(* advances only now.                                                      *)
RenameTemporary ==
  /\ stage = "renaming"
  /\ \/ /\ snapshot' = Content
        /\ lastSaved' = [lastSaved EXCEPT ![current] = Candle(current).ts]
        /\ stage' = "next" /\ Advance(current) /\ UNCHANGED thrown
     \/ Dying("checkpoint") /\ UNCHANGED <<snapshot, lastSaved, next>>
  /\ UNCHANGED <<tape, session, current, queues, book, drawdown, triggers, working, counters,
                 applied>>

Crash ==
  /\ stage # "down"
  /\ Gone
  /\ UNCHANGED snapshot

(* The file was never synced: one that the system has not written back yet *)
(* comes up empty or cut short.                                            *)
PowerLoss ==
  /\ stage # "down" /\ snapshot.kind = "whole"
  /\ Gone
  /\ snapshot' = Torn

Finish ==
  /\ stage = "next" /\ Live = {}
  /\ Gone
  /\ UNCHANGED snapshot

(* main up to its loop.  A start it refuses changes nothing.               *)
Start(mode, resume, unlocked) ==
  /\ stage = "down" /\ starts < Len(Starts)
  /\ [mode |-> mode, resume |-> resume, unlocked |-> unlocked] \in Starts[starts + 1]
  /\ resume => mode = "backtest" /\ Loadable(snapshot)
  /\ unlocked => mode = "live"
  /\ mode = "live" => LiveBuilt /\ unlocked
  /\ session' = [mode |-> mode, resume |-> resume, ts |-> IF resume THEN snapshot.ts ELSE 0]
  /\ book' = IF resume THEN ValueOf(restoreState(snapshot.book)) ELSE EmptyBook
  /\ drawdown' = IF resume THEN snapshot.drawdown ELSE 0
  /\ applied' = IF resume THEN snapshot.applied ELSE Untouched
  /\ stage' = "next" /\ starts' = starts + 1
  /\ UNCHANGED <<stream, current, queues, lastSaved, triggers, working, snapshot, placed, thrown>>

(***************************************************************************)
(* Between candles: pending orders, triggers and the broker's late fills.  *)
(***************************************************************************)
PlacePendingOrder(request) ==
  /\ stage = "next" /\ placed < MaxPlaced[session.mode]
  /\ book' = placePendingOrder(book, request)
  /\ placed' = placed + 1
  /\ UNCHANGED <<stream, session, stage, current, queues, drawdown, lastSaved, triggers,
                 working, snapshot, starts, applied, thrown>>

CancelPendingOrder(id) ==
  /\ stage = "next"
  /\ book' = cancelPendingOrder(book, id)
  /\ UNCHANGED <<stream, session, stage, current, queues, drawdown, lastSaved, triggers,
                 working, snapshot, counters, applied, thrown>>

(* placeStopLossTrigger and placeOcoTrigger: always the sell side.         *)
PlaceTrigger(request) ==
  /\ stage = "next" /\ placed < MaxPlaced[session.mode]
  /\ triggers' = IF request.type = "OCO"
                 THEN placeOco(triggers, request.symbol, FALSE, request.stop, request.takeProfit)
                 ELSE placeStopLoss(triggers, request.symbol, FALSE, request.stop)
  /\ placed' = placed + 1
  /\ UNCHANGED <<stream, session, stage, current, queues, book, drawdown, lastSaved,
                 working, snapshot, starts, applied, thrown>>

(* processTriggerOrders: every triggered order is found first, then each   *)
(* is executed in turn.                                                    *)
EvaluateTriggers(s, quote) ==
  /\ stage = "next"
  /\ events' = evaluate(triggers, s, quote) /\ events' # <<>>
  /\ stage' = "triggers" /\ current' = s
  /\ UNCHANGED <<stream, session, fills, engine, snapshot, counters, applied, thrown>>

AfterTriggers == IF Len(events) = 1 THEN "next" ELSE "triggers"

ExecuteTrigger_AlwaysReleased ==
  /\ stage = "triggers"
  /\ \E outcome \in execute(book, current, "SELL", Head(events).price) :
       Books(outcome, AfterTriggers)
  /\ triggers' = cancel(triggers, Head(events).id)
  /\ events' = Tail(events)
  /\ UNCHANGED <<stream, session, current, fills, drawdown, lastSaved, snapshot, counters,
                 applied>>

ExecuteTrigger ==
  /\ stage = "triggers"
  /\ \E outcome \in execute(book, current, "SELL", Head(events).price) :
       /\ Books(outcome, AfterTriggers)
       /\ triggers' = IF outcome.accepted THEN cancel(triggers, Head(events).id)
                      ELSE triggers
  /\ events' = Tail(events)
  /\ UNCHANGED <<stream, session, current, fills, drawdown, lastSaved, snapshot, counters,
                 applied>>

(* The rest of a partially filled order, at the price of the first part.   *)
LateFill ==
  /\ stage = "next" /\ HasValue(working)
  /\ LET w == ValueOf(working) IN
     book' = Reported(book, BrokerBooking(book, w.symbol, w.buy, w.price, w.units))
  /\ working' = None
  /\ UNCHANGED <<stream, session, stage, current, queues, drawdown, lastSaved, triggers,
                 snapshot, counters, applied, thrown>>

Next ==
  \/ \E s \in Symbols : PassOver(s) \/ TakeCandle(s)
  \/ ProcessPendingOrder
  \/ \E signal \in {"NONE", "BUY", "SELL"} : DispatchSignal(signal)
  \/ MarkToMarket \/ WriteTemporary \/ RenameTemporary
  \/ Crash \/ PowerLoss \/ Finish
  \/ \E mode \in Modes, resume, unlocked \in BOOLEAN : Start(mode, resume, unlocked)
  \/ \E request \in OrderMenu : PlacePendingOrder(request)
  \/ \E i \in DOMAIN book.pending : CancelPendingOrder(book.pending[i].id)
  \/ \E request \in TriggerMenu : PlaceTrigger(request)
  \/ \E s \in Symbols, quote \in Quotes : EvaluateTriggers(s, quote)
  \/ ExecuteTrigger \/ LateFill

Spec == Init /\ [][Next]_vars

-----------------------------------------------------------------------------
(***************************************************************************)
(* Properties.                                                             *)
(***************************************************************************)
Stages == {"down", "dying", "next", "pending", "mark", "saving", "renaming", "triggers"}

PositionType ==
  [quantity : 1 .. MaxUnits, average : 0 .. MaxUnits, cost : 0 .. MaxUnits,
   mark : 1 .. MaxUnits, entryFee : 0 .. MaxUnits]

(* Every slot of the trigger table is either free, once, or holds an order.*)
TableConsistent ==
  /\ \A i \in Slots : i \in InUse(triggers) <=> ~Contains(triggers.free, i)
  /\ triggers.active = Cardinality(InUse(triggers))
  /\ Len(triggers.free) = Capacity - triggers.active

(* Every variable has its type, and cash is never negative.                *)
TypeOK ==
  /\ tape \in Tapes /\ stage \in Stages /\ current \in Symbols
  /\ session \in [mode : Modes, resume : BOOLEAN, ts : Nat]
  /\ next \in [Symbols -> Nat] /\ lastSaved \in [Symbols -> Nat]
  /\ DOMAIN book.positions \subseteq Symbols
  /\ \A s \in DOMAIN book.positions : book.positions[s] \in PositionType
  /\ book.cash \in 0 .. MaxUnits /\ drawdown \in 0 .. BasisPoints
  /\ TableConsistent
  /\ snapshot.kind \in {"none", "torn", "whole"}
  /\ thrown \in {"no", "dust", "accounting", "mark", "checkpoint"}

(* The books balance to the unit: cash is what the run started with, plus  *)
(* what closed trades realised, less what open positions cost with their   *)
(* fees, and the fees paid are those of the trades and of the positions.   *)
(* Partial closes share out rounded costs and fees, and none is lost or    *)
(* counted twice, also across a restart.                                   *)
BooksBalance ==
  LET realized == [i \in DOMAIN book.log |-> book.log[i].realized]
      paid     == [i \in DOMAIN book.log |-> book.log[i].fees]
      spent    == [s \in DOMAIN book.positions |->
                     book.positions[s].cost + book.positions[s].entryFee]
      held     == [s \in DOMAIN book.positions |-> book.positions[s].entryFee] IN
  /\ book.cash = StartingCash + SumFunction(realized) - SumFunction(spent)
  /\ book.fees = SumFunction(paid) + SumFunction(held)

(* What ExecutionEngine sized and budgeted, PortfolioManager accepts:      *)
(* openLong and closePosition do their own arithmetic on the same trade    *)
(* and throw where it disagrees, and nobody catches that exception.  The   *)
(* exception is an entry whose value rounds to nothing.                    *)
SizedTradesAreAccepted == thrown # "accounting"

(* A checkpoint that is due can always be taken, for the books a BACKTEST  *)
(* can reach satisfy every test of validate and restoreState; and a file   *)
(* that exists in full can always be loaded.                               *)
CheckpointIsRestorable ==
  /\ stage = "saving" => validate(Content)
  /\ snapshot.kind = "whole" => Loadable(snapshot)

(* No two streams have a candle with the same timestamp.                   *)
Untied ==
  \A s, t \in Symbols : \A i \in DOMAIN tape[s], j \in DOMAIN tape[t] :
    tape[s][i].ts = tape[t][j].ts => s = t /\ i = j

(* Every file is in the order of time, which main takes for granted.       *)
Chronological ==
  \A s \in Symbols : \A i, j \in DOMAIN tape[s] : i < j => tape[s][i].ts <= tape[s][j].ts

CandlesComplete ==
  \A s \in Symbols : \A i \in DOMAIN tape[s] : i < next[s] => applied[s][i] = 1

(* However often a BACKTEST of files in the order of time is killed and    *)
(* resumed, the book sees each candle at most once; and where no two       *)
(* streams share a timestamp, it has seen every candle before the heads of *)
(* the streams.                                                            *)
CandlesAppliedOnce ==
  Chronological /\ session.mode = "backtest" =>
    /\ \A s \in Symbols : \A i \in DOMAIN tape[s] : applied[s][i] <= 1
    /\ Untied /\ stage = "next" => CandlesComplete

(* A protective trigger leaves the table of a BACKTEST only in the step    *)
(* that sells the position it protects: one that could not be executed     *)
(* stays for the next quote.  In PAPER mode an order that the broker       *)
(* rejects counts as executed.                                             *)
TriggerRetained ==
  [][\A i \in InUse(triggers) :
       LET order == triggers.slots[i] IN
       session.mode = "backtest" /\ stage' # "down" /\ ~hasOrder(triggers', order.id) =>
         hasPosition(book, order.symbol) /\ ~hasPosition(book', order.symbol)]_vars

(* docs/REPOSITORY_REMEDIATION_PROGRAM.md: restart state is complete.  A   *)
(* resumed run goes on as if it had never stopped: the book has seen every *)
(* candle before the heads of the streams.                                 *)
RestartIsComplete ==
  session.mode = "backtest" /\ stage = "next" => CandlesComplete

=============================================================================

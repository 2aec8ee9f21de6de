--------------------------- MODULE PortfolioLedger ---------------------------
(***************************************************************************)
(* PortfolioManager (src/src/PortfolioManager.cpp): cash, open positions,  *)
(* the realised trades, the valuation that drawdown is measured on, and    *)
(* the queue of pending orders.                                            *)
(*                                                                         *)
(* A portfolio is a record, a "book", and an operation maps a book to the  *)
(* book it leaves: Some(book), or None where the code throws, which it     *)
(* does before it assigns anything.  Amounts enter as doubles and are      *)
(* normalised here, as in the code.  A drawdown is in basis points; the    *)
(* code's double is only compared with a limit and with itself.            *)
(* Timestamps, strategy names and the trade counters, whose only limit is  *)
(* INT_MAX trades, are left out.                                           *)
(* X_Y is X with one plausible mistake Y, which nothing uses.              *)
(***************************************************************************)
EXTENDS FinancialMath, Queues, Sequences, SequencesExt, FiniteSetsExt

CONSTANTS
  Symbols,       \* tradable symbols
  StartingCash   \* STARTING_CASH, in units

ASSUME BookAssumption == IsFiniteSet(Symbols) /\ StartingCash \in 1 .. MaxUnits

NoPositions == [s \in {} |-> 0]

EmptyBook ==
  [cash |-> StartingCash, positions |-> NoPositions, unrealized |-> 0,
   equity |-> StartingCash, maxEquity |-> StartingCash, drawdown |-> 0,
   maxDrawdown |-> 0, fees |-> 0, log |-> <<>>, pending |-> <<>>, nextOrderId |-> 1]

hasPosition(b, s) == s \in DOMAIN b.positions

getPositionQuantity(b, s) == IF hasPosition(b, s) THEN b.positions[s].quantity ELSE 0

Put(positions, s, p) == [t \in DOMAIN positions \cup {s} |-> IF t = s THEN p ELSE positions[t]]

Erase(positions, s) == [t \in DOMAIN positions \ {s} |-> positions[t]]

(***************************************************************************)
(* Valuation.                                                              *)
(***************************************************************************)
BasisPoints == 10000

(* valueState and commitValuation, which every booking ends with.  The     *)
(* sums are tested once, where the code tests each addition.               *)
Valued(b) ==
  LET marked(s)  == notional(b.positions[s].mark, b.positions[s].quantity)
      value      == [s \in DOMAIN b.positions |-> ValueOf(marked(s))]
      profit     == [s \in DOMAIN b.positions |-> value[s] - b.positions[s].cost]
      equity     == b.cash + SumFunction(value)
      unrealized == SumFunction(profit)
      peak       == Max({equity, b.maxEquity})
      drawdown   == IF peak > 0 THEN ((peak - equity) * BasisPoints) \div peak ELSE 0 IN
  IF /\ \A s \in DOMAIN b.positions : HasValue(marked(s))
     /\ HasValue(Representable(equity)) /\ HasValue(Representable(unrealized))
  THEN Some([b EXCEPT !.unrealized = unrealized, !.equity = equity,
                      !.maxEquity = peak, !.drawdown = drawdown,
                      !.maxDrawdown = Max({@, drawdown})])
  ELSE None

(***************************************************************************)
(* Entries.                                                                *)
(***************************************************************************)

(* What an entry of q at p with fee f takes from cash.                     *)
Debit(p, q, f) == UNION {add(c, f) : c \in notional(p, q)}

Entered(b, s, p, q, f) ==
  LET cost  == ValueOf(notional(p, q))
      debit == ValueOf(Debit(p, q, f)) IN
  IF /\ HasValue(Debit(p, q, f)) /\ debit <= b.cash /\ cost > 0
     /\ HasValue(averagePrice(cost, q)) /\ HasValue(add(b.fees, f))
  THEN Valued([b EXCEPT !.cash = @ - debit, !.fees = @ + f,
                        !.positions = Put(@, s,
                          [quantity |-> q, average |-> ValueOf(averagePrice(cost, q)),
                           cost |-> cost, mark |-> p, entryFee |-> f])])
  ELSE None

(* capital is the largest debit, 0 for all cash; units is the quantity, 0  *)
(* to buy what capital affords.                                            *)
openLong(b, s, netPrice, entryFee, capital, units) ==
  LET p == ValueOf(price(netPrice))
      f == ValueOf(money(entryFee))
      budget == IF capital > 0 THEN {m \in money(capital) : 0 < m /\ m <= b.cash}
                               ELSE Some(b.cash)
      fits(q) == \E m \in budget : \E d \in Debit(p, q, f) : d <= m
      affordable == UNION {quantityForNotional(m - f, p) : m \in {n \in budget : n > f}}
      sized == IF units > 0 THEN {q \in aligned(units) : fits(q)} ELSE affordable IN
  IF /\ ~hasPosition(b, s)
     /\ units >= 0 /\ capital >= 0 /\ entryFee >= 0
     /\ IsPositive(price(netPrice)) /\ IsNotNegative(money(entryFee))
     /\ HasValue(budget) /\ IsPositive(sized)
  THEN Entered(b, s, p, ValueOf(sized), f)
  ELSE None

addToLong(b, s, netPrice, units, addedFee, capital) ==
  LET p == ValueOf(price(netPrice))
      q == ValueOf(aligned(units))
      f == ValueOf(money(addedFee))
      cost  == ValueOf(notional(p, q))
      debit == ValueOf(Debit(p, q, f))
      held  == b.positions[s]
      average == averagePrice(held.cost + cost, held.quantity + q) IN
  IF ~hasPosition(b, s)
  THEN openLong(b, s, netPrice, addedFee,
                IF capital > 0 THEN capital
                ELSE (units * netPrice) \div toDouble(Scale) + addedFee, units)
  ELSE IF /\ units > 0 /\ addedFee >= 0 /\ capital >= 0
          /\ IsPositive(price(netPrice)) /\ IsPositive(aligned(units))
          /\ IsNotNegative(money(addedFee))
          /\ HasValue(Debit(p, q, f)) /\ cost > 0 /\ debit <= b.cash
          /\ capital > 0 => \E m \in money(capital) : debit <= m
          /\ HasValue(add(held.quantity, q)) /\ HasValue(add(held.cost, cost))
          /\ HasValue(add(held.entryFee, f)) /\ HasValue(average)
          /\ HasValue(add(b.fees, f))
  THEN Valued([b EXCEPT !.cash = @ - debit, !.fees = @ + f,
                        !.positions[s] =
                          [quantity |-> held.quantity + q, average |-> ValueOf(average),
                           cost |-> held.cost + cost, mark |-> p,
                           entryFee |-> held.entryFee + f]])
  ELSE None

(***************************************************************************)
(* Exits.  Part of a position takes its share of the cost and of the entry *)
(* fee along; what rounding leaves stays with the rest.                    *)
(***************************************************************************)
closePosition_FeeNotSplit(b, s, netPrice, exitFee, units) ==
  LET p == ValueOf(price(netPrice))
      f == ValueOf(money(exitFee))
      held == b.positions[s]
      q == IF units > 0 THEN ValueOf(aligned(units)) ELSE held.quantity
      proceeds == ValueOf(notional(p, q))
      cost     == ValueOf(proportional(held.cost, q, held.quantity))
      rest     == [held EXCEPT !.quantity = @ - q, !.cost = @ - cost, !.mark = p] IN
  IF hasPosition(b, s)
  THEN Valued([b EXCEPT
         !.cash = @ + proceeds - f, !.fees = @ + f,
         !.positions = IF q = held.quantity THEN Erase(@, s) ELSE Put(@, s, rest),
         !.log = Append(@, [symbol |-> s, entry |-> held.average, exit |-> p,
                            quantity |-> q, fees |-> f + held.entryFee,
                            realized |-> proceeds - cost - f - held.entryFee])])
  ELSE Some(b)

closePosition_NotRevalued(b, s, netPrice, exitFee, units) ==
  LET p == ValueOf(price(netPrice))
      f == ValueOf(money(exitFee))
      held == b.positions[s]
      proceeds == ValueOf(notional(p, held.quantity)) IN
  IF hasPosition(b, s)
  THEN Some([b EXCEPT
         !.cash = @ + proceeds - f, !.fees = @ + f, !.positions = Erase(@, s),
         !.log = Append(@, [symbol |-> s, entry |-> held.average, exit |-> p,
                            quantity |-> held.quantity, fees |-> f + held.entryFee,
                            realized |-> proceeds - held.cost - f - held.entryFee])])
  ELSE Some(b)

(* units is the quantity to sell, 0 for all of it.                         *)
closePosition(b, s, netPrice, exitFee, units) ==
  LET p == ValueOf(price(netPrice))
      f == ValueOf(money(exitFee))
      held == b.positions[s]
      part == IF units > 0 THEN {q \in aligned(units) : q <= held.quantity}
                           ELSE Some(held.quantity)
      q == ValueOf(part)
      proceeds == ValueOf(notional(p, q))
      cost     == ValueOf(proportional(held.cost, q, held.quantity))
      entryFee == ValueOf(proportional(held.entryFee, q, held.quantity))
      average  == averagePrice(held.cost - cost, held.quantity - q)
      rest     == [quantity |-> held.quantity - q, average |-> ValueOf(average),
                   cost |-> held.cost - cost, mark |-> p,
                   entryFee |-> held.entryFee - entryFee] IN
  IF ~hasPosition(b, s)
  THEN Some(b)
  ELSE IF /\ units >= 0 /\ exitFee >= 0
          /\ IsPositive(price(netPrice)) /\ IsNotNegative(money(exitFee))
          /\ IsPositive(part) /\ HasValue(notional(p, q))
          /\ IsNotNegative(subtract(proceeds, f))
          /\ HasValue(proportional(held.cost, q, held.quantity))
          /\ HasValue(proportional(held.entryFee, q, held.quantity))
          /\ HasValue(subtract(proceeds - cost - f, entryFee)) /\ HasValue(add(f, entryFee))
          /\ q < held.quantity => HasValue(average)
          /\ HasValue(add(b.cash, proceeds - f)) /\ HasValue(add(b.fees, f))
  THEN Valued([b EXCEPT
         !.cash = @ + proceeds - f, !.fees = @ + f,
         !.positions = IF q = held.quantity THEN Erase(@, s) ELSE Put(@, s, rest),
         !.log = Append(@, [symbol |-> s, entry |-> held.average, exit |-> p,
                            quantity |-> q, fees |-> f + entryFee,
                            realized |-> proceeds - cost - f - entryFee])])
  ELSE None

updatePnL(b, s, currentPrice) ==
  IF ~hasPosition(b, s)
  THEN Some(b)
  ELSE IF IsPositive(price(currentPrice))
  THEN Valued([b EXCEPT !.positions[s].mark = ValueOf(price(currentPrice))])
  ELSE None

(***************************************************************************)
(* snapshotState hands out the amounts as doubles, restoreState takes them *)
(* back and refuses one that is not a whole number of units.  It accepts a *)
(* book whose average prices and valuation follow from the rest of it.     *)
(***************************************************************************)
Amounts == {"cash", "unrealized", "equity", "maxEquity", "fees"}

(* The book with every amount converted, those of its positions too.       *)
Converted(b, convert(_)) ==
  LET position(p) == [field \in DOMAIN p |-> convert(p[field])] IN
  [field \in DOMAIN b |->
     IF field \in Amounts THEN convert(b[field])
     ELSE IF field = "positions" THEN [s \in DOMAIN b.positions |-> position(b.positions[s])]
     ELSE b[field]]

snapshotState(b) == Converted(b, toDouble)

RestorablePosition(p) ==
  /\ p.quantity > 0 /\ p.average > 0 /\ p.entryFee >= 0 /\ p.cost > 0 /\ p.mark > 0
  /\ averagePrice(p.cost, p.quantity) = Some(p.average)

restoreState(snapshot) ==
  LET inUnits(v) == ValueOf(aligned(v))
      b == Converted(snapshot, inUnits) IN
  IF /\ \A field \in Amounts : HasValue(aligned(snapshot[field]))
     /\ \A s \in DOMAIN snapshot.positions : \A field \in DOMAIN snapshot.positions[s] :
          HasValue(aligned(snapshot.positions[s][field]))
     /\ b.cash >= 0 /\ b.equity >= 0 /\ b.maxEquity >= 0 /\ b.fees >= 0
     /\ \A s \in DOMAIN b.positions : RestorablePosition(b.positions[s])
     /\ Valued(b) = Some(b)
  THEN Some(b) ELSE None

(***************************************************************************)
(* Pending orders: [id, symbol, type, buy, limit, offset, best, quantity,  *)
(* capital], all amounts in units.                                         *)
(***************************************************************************)
OrderTypes == {"LIMIT", "STOP_LOSS", "TRAILING_STOP", "MARKET"}

(* The request's amounts are doubles; an order that is not representable   *)
(* is refused, with id 0, and leaves the book alone.                       *)
placePendingOrder(b, request) ==
  LET limit == ValueOf(price(request.limit)) IN
  IF /\ request.quantity >= 0 /\ request.capital >= 0 /\ request.limit >= 0
     /\ request.offset >= 0
     /\ HasValue(quantity(request.quantity)) /\ HasValue(money(request.capital))
     /\ HasValue(price(request.limit)) /\ HasValue(price(request.offset))
  THEN [b EXCEPT
         !.pending = Append(@, [id |-> b.nextOrderId, symbol |-> request.symbol,
           type |-> request.type, buy |-> request.buy, limit |-> limit,
           offset |-> ValueOf(price(request.offset)),
           best |-> IF request.type = "TRAILING_STOP" THEN limit ELSE 0,
           quantity |-> ValueOf(quantity(request.quantity)),
           capital |-> ValueOf(money(request.capital))]),
         !.nextOrderId = @ + 1]
  ELSE b

cancelPendingOrder(b, id) ==
  [b EXCEPT !.pending = Collected(@, {i \in DOMAIN @ : @[i].id # id})]

(* A trailing stop follows the close before it is compared with the low.   *)
Trailed(order, candle) ==
  LET best == price(candle.close)
      stop == UNION {price(toDouble(p) - toDouble(order.offset)) : p \in best} IN
  IF /\ order.type = "TRAILING_STOP" /\ candle.close > toDouble(order.best)
     /\ IsPositive(best) /\ IsPositive(stop)
  THEN [order EXCEPT !.best = ValueOf(best), !.limit = ValueOf(stop)]
  ELSE order

(* The price an order fills at in this candle, as a double.                *)
FillPrices(order, candle) ==
  LET limit == toDouble(order.limit)
      stopped == IF candle.low <= limit THEN Some(Min({limit, candle.low})) ELSE None IN
  CASE order.type = "LIMIT" ->
         IF (order.buy /\ candle.low <= limit) \/ (~order.buy /\ candle.high >= limit)
         THEN Some(limit) ELSE None
    [] order.type = "MARKET" -> Some(candle.close)
    [] OTHER -> stopped

(* The fill, where its price is worth a unit.                              *)
Filled(order, candle) ==
  {p \in UNION {price(v) : v \in FillPrices(order, candle)} : p > 0}

(* The orders of symbol s that fill leave the queue; the rest stay, a      *)
(* trailing stop with the stop it was raised to.                           *)
evaluatePendingOrders(b, s, candle) ==
  LET fillAt(i) == Filled(Trailed(b.pending[i], candle), candle)
      ofSymbol == {i \in DOMAIN b.pending : b.pending[i].symbol = s}
      due      == {i \in ofSymbol : HasValue(fillAt(i))}
      moved    == [i \in DOMAIN b.pending |->
                     IF i \in ofSymbol THEN Trailed(b.pending[i], candle) ELSE b.pending[i]]
      filled   == [i \in due |-> [order |-> b.pending[i], price |-> ValueOf(fillAt(i))]] IN
  [book  |-> [b EXCEPT !.pending = Collected(moved, DOMAIN b.pending \ due)],
   fills |-> Collected(filled, due)]

=============================================================================

-------------------------- MODULE MCTradingSession --------------------------
(***************************************************************************)
(* Small instances of TradingSession.  A unit is a tenth and a double has  *)
(* half-unit steps, so amounts and prices are rounded at every turn.       *)
(***************************************************************************)
EXTENDS TradingSession

Bar(ts, low, close, high) == [ts |-> ts, low |-> low, close |-> close, high |-> high]

(* One stream starts a bar later; prices rise, then fall.                  *)
MCUntied ==
  {("a" :> <<Bar(1, 19, 21, 24), Bar(3, 20, 27, 28), Bar(5, 9, 14, 26)>>)
   @@ ("b" :> <<Bar(2, 30, 33, 35)>>)}

(* Both streams have a bar at the same time.                               *)
MCTied ==
  {("a" :> <<Bar(1, 19, 21, 24), Bar(3, 20, 27, 28)>>) @@ ("b" :> <<Bar(3, 30, 33, 35)>>)}

MCAll == MCUntied \cup MCTied

Order(type, buy, limit, offset, units, capital) ==
  [symbol |-> "a", type |-> type, buy |-> buy, limit |-> limit, offset |-> offset,
   quantity |-> units, capital |-> capital]

MCOrders ==
  {Order("LIMIT", TRUE, 21, 0, 0, 31), Order("MARKET", TRUE, 0, 0, 1, 0),
   Order("STOP_LOSS", FALSE, 15, 0, 0, 0), Order("TRAILING_STOP", FALSE, 10, 5, 0, 0)}

MCTriggers ==
  {[symbol |-> "a", type |-> "STOP_LOSS", stop |-> 18, takeProfit |-> 0],
   [symbol |-> "a", type |-> "OCO", stop |-> 12, takeProfit |-> 26]}

MCQuotes == {[valid |-> TRUE, bid |-> 17, ask |-> 19], [valid |-> TRUE, bid |-> 25, ask |-> 27]}

Asked(mode, resume, unlocked) == [mode |-> mode, resume |-> resume, unlocked |-> unlocked]

(* Anything, then a BACKTEST that is resumed.                              *)
MCStarts == <<Requests, {Asked("backtest", TRUE, FALSE)}, {Asked("backtest", TRUE, FALSE)}>>

MCBacktests == <<{Asked("backtest", FALSE, FALSE)}, {Asked("backtest", TRUE, FALSE)}>>

MCPlaced == [mode \in Modes |-> IF mode = "backtest" THEN 2 ELSE 1]

MCNothing == {}

=============================================================================

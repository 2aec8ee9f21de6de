---------------------------- MODULE TriggerOrders ----------------------------
(***************************************************************************)
(* TriggerOrderManager (src/src/TriggerOrderManager.cpp): a fixed table of *)
(* protective orders, stop-losses and one-cancels-other pairs, that a      *)
(* quote may trigger.  A triggered order stays in the table until the      *)
(* caller cancels it.                                                      *)
(*                                                                         *)
(* A table is a record: the slots, the stack of free slot numbers, the     *)
(* count of orders and the next order id.  Prices are doubles, compared    *)
(* only with each other.                                                   *)
(* X_Y is X with one plausible mistake Y, which nothing uses.              *)
(***************************************************************************)
EXTENDS Queues, Integers, Sequences, SequencesExt

CONSTANT Capacity   \* slots of the table, 4096 by default

ASSUME CapacityAssumption == Capacity \in Nat

Slots == 1 .. Capacity

FreeSlot == [inUse |-> FALSE]

(* The lowest slot is handed out first.                                    *)
EmptyTable ==
  [slots |-> [i \in Slots |-> FreeSlot], free |-> [i \in Slots |-> Capacity + 1 - i],
   active |-> 0, nextId |-> 1]

InUse(table) == {i \in Slots : table.slots[i].inUse}

hasOrder(table, id) == \E i \in InUse(table) : table.slots[i].id = id

(* Id 0, and no change, for an order without a price or when no slot is    *)
(* free.  takeProfit is 0 for a stop-loss.                                 *)
placeOrder(table, symbol, type, buy, stop, takeProfit) ==
  LET i == Last(table.free) IN
  IF stop > 0 /\ (type = "OCO" => takeProfit > 0) /\ table.free # <<>>
  THEN [slots |-> [table.slots EXCEPT ![i] =
                     [inUse |-> TRUE, id |-> table.nextId, symbol |-> symbol,
                      type |-> type, buy |-> buy, stop |-> stop,
                      takeProfit |-> takeProfit]],
        free |-> Front(table.free), active |-> table.active + 1,
        nextId |-> table.nextId + 1]
  ELSE table

placeStopLoss(table, symbol, buy, stop) ==
  placeOrder(table, symbol, "STOP_LOSS", buy, stop, 0)

placeOco(table, symbol, buy, stop, takeProfit) ==
  placeOrder(table, symbol, "OCO", buy, stop, takeProfit)

releaseSlot_SlotForgotten(table, i) ==
  [table EXCEPT !.slots[i] = FreeSlot, !.active = @ - 1]

releaseSlot(table, i) ==
  IF i \in InUse(table)
  THEN [table EXCEPT !.slots[i] = FreeSlot, !.free = Append(@, i), !.active = @ - 1]
  ELSE table

(* The first slot that holds the id.                                       *)
cancel(table, id) ==
  IF hasOrder(table, id)
  THEN releaseSlot(table, CHOOSE i \in InUse(table) : table.slots[i].id = id)
  ELSE table

(* A sell watches the bid below and the ask above it, a buy the opposite   *)
(* way round; of a pair the stop is tested first.                          *)
Triggered(slot, quote) ==
  IF slot.buy
  THEN \/ quote.ask >= slot.stop
       \/ slot.type = "OCO" /\ quote.bid <= slot.takeProfit
  ELSE \/ quote.bid <= slot.stop
       \/ slot.type = "OCO" /\ quote.ask >= slot.takeProfit

(* One event for each triggered order of the symbol, in slot order: its id *)
(* and the side of the quote it executes at.  A one-sided quote triggers   *)
(* nothing.                                                                *)
evaluate(table, symbol, quote) ==
  LET hits == {i \in InUse(table) : /\ table.slots[i].symbol = symbol
                                    /\ quote.valid /\ Triggered(table.slots[i], quote)}
      event(slot) == [id |-> slot.id, buy |-> slot.buy,
                      price |-> IF slot.buy THEN quote.ask ELSE quote.bid] IN
  Collected([i \in hits |-> event(table.slots[i])], hits)

=============================================================================

--------------------------- MODULE ExecutionPath ---------------------------
(***************************************************************************)
(* The path of an order in PAPER and LIVE mode: ExecutionEngine turns a    *)
(* signal into a request, RiskEngine clears it, BrokerGateway enters it in *)
(* the order ledger (OrderLifecycle) and hands it to an adapter, and what  *)
(* the adapter reports comes back through the gateway to every engine      *)
(* bound to it, which books it in the portfolio.                           *)
(*                                                                         *)
(* One thread trades: main runs processCandle and every callback of        *)
(* DeterministicBrokerAdapter runs inside submit or cancel.  "call" is     *)
(* that thread's stack, one step for each section the code locks.  The     *)
(* breakers and the connection are atomics that other threads change       *)
(* between any two steps.                                                  *)
(*                                                                         *)
(* Money: every lot costs one unit of cash and fees are left out, so a     *)
(* fill can exceed the cash that is left but never loses any.              *)
(* X_Y is X with one plausible mistake Y, which no action uses.            *)
(***************************************************************************)
EXTENDS Integers, Sequences, FiniteSets

CONSTANTS
  Engines,         \* one ExecutionEngine per symbol, named by its symbol
  MaxOrders,       \* bound on the local order ids an engine hands out
  MaxFills,        \* bound on the execution reports of one order
  CancelSequences, \* sequence numbers callers put in a CancelRequest
  InitialCash,     \* starting cash, in lots
  MaxPositions     \* maxConcurrentPositions, 0 for no limit

ASSUME EngineAssumption == Engines # {} /\ IsFiniteSet(Engines)
ASSUME BoundAssumption  ==
  /\ MaxOrders \in Nat \ {0} /\ MaxFills \in Nat \ {0} /\ InitialCash \in Nat \ {0}
  /\ MaxPositions \in Nat /\ CancelSequences \subseteq Nat

VARIABLES
  records, appliedKeys,  \* BrokerGateway::m_lifecycle
  requests,              \* engine and side of each entered order
  nextId,                \* m_nextLocalOrderId of each engine
  applied,               \* m_appliedBrokerQty of each engine, 0 for no entry
  connected, pending,    \* the adapter's m_connected and m_pendingOrders
  position, cash,        \* PortfolioManager: open lots of each symbol, cash
  halted, closeOnly,     \* RiskEngine's breakers
  call,                  \* the trading thread
  booked,                \* history: lots of each order booked in the portfolio
  slipped                \* history: entries taken into the gateway since the breakers opened

ledger    == <<records, appliedKeys>>
engines   == <<nextId, applied>>
adapter   == <<connected, pending>>
portfolio == <<position, cash>>
risk      == <<halted, closeOnly>>
history   == <<booked, slipped>>
vars == <<ledger, requests, engines, adapter, portfolio, risk, call, history>>

(***************************************************************************)
(* The ledger, with the keys and sequence numbers its callers use.         *)
(***************************************************************************)
Ids == 1 .. MaxOrders

Key(kind, o, n) == <<kind, o, n>>

EventKeys ==
  {Key(kind, o, n) : kind \in {"execution", "gateway-risk", "gateway-submit", "ack",
                               "fill", "dispatch-failed", "cancel", "cancel-result",
                               "cancel-failed"},
                     o \in Ids, n \in 1 .. MaxFills}

At(sequence) == [seq |-> sequence, ts |-> 1]

EventStamps ==
  {At(n) : n \in 0 .. 4 + MaxFills} \cup {At(n) : n \in CancelSequences}
  \cup {At(n + 1) : n \in CancelSequences}

Ledger == INSTANCE OrderLifecycle WITH
  Orders <- Ids, Keys <- EventKeys, EmptyKey <- Key("", 0, 0),
  Stamps <- EventStamps, MaxQuantity <- InitialCash

State(o) == records[o].state

(***************************************************************************)
(* The trading thread.                                                     *)
(***************************************************************************)
Idle == [stage |-> "idle"]

(* dispatchBrokerOrder and dispatchOrder between two locked sections.      *)
Dispatching(stage, e, o, side, quantity) ==
  [stage |-> stage, engine |-> e, order |-> o, side |-> side, quantity |-> quantity]

DispatchStages == {"routed", "entering", "clearing", "submitting", "handing", "refused"}

(* The adapter is inside submit, its lock released, reporting.             *)
Answering(o, accepted, filled) ==
  [stage |-> "answering", order |-> o, accepted |-> accepted, filled |-> filled]

AnswerStages == {"answering", "filling"}

(* An applied execution on its way to the engines in "observers".          *)
Observing(o, cumulative, remaining, observers) ==
  [stage |-> "observing", order |-> o, cumulative |-> cumulative,
   remaining |-> remaining, observers |-> observers]

Canceling(stage, o, sequence) ==
  [stage |-> stage, order |-> o, sequence |-> sequence]

CancelStages == {"canceling", "Accepted", "AlreadyFilled", "cancelRefused"}

Calls ==
  {Idle}
  \cup [stage : DispatchStages, engine : Engines, order : Ids,
        side : {"Buy", "Sell"}, quantity : 1 .. InitialCash]
  \cup [stage : AnswerStages, order : Ids, accepted : BOOLEAN,
        filled : 0 .. InitialCash]
  \cup [stage : {"observing"}, order : Ids, cumulative : 0 .. InitialCash,
        remaining : 0 .. InitialCash, observers : SUBSET Engines]
  \cup [stage : CancelStages, order : Ids, sequence : CancelSequences]

(***************************************************************************)
(* RiskEngine.                                                             *)
(***************************************************************************)
OpenPositions == Cardinality({e \in Engines : position[e] > 0})

CanTrade ==
  /\ ~halted /\ ~closeOnly
  /\ MaxPositions > 0 => OpenPositions < MaxPositions

(* Whether this error is the one that exceeds the threshold depends on the *)
(* window of the last minute, which RiskBreakers models.                   *)
ReportApiError ==
  /\ halted' \in {halted, TRUE}
  /\ UNCHANGED closeOnly

(***************************************************************************)
(* Breakers and connection: any thread, at any moment.                     *)
(***************************************************************************)
BreakersSet(halt, close) ==
  /\ halted' = halt
  /\ closeOnly' = close
  /\ slipped' = IF halt \/ close THEN slipped ELSE 0
  /\ UNCHANGED <<ledger, requests, engines, adapter, portfolio, call, booked>>

(* setHaltTrading, from the integrity callback of the market-data adapter. *)
(* With FALSE it does to the breaker what clearHalt does.                  *)
SetHaltTrading(halt) == BreakersSet(halt, closeOnly)

(* reportLatency above the threshold, and clearLatencyBreach.              *)
SetCloseOnly(close) == BreakersSet(halted, close)

SetConnected(up) ==
  /\ connected' = up
  /\ UNCHANGED <<ledger, requests, engines, pending, portfolio, risk, call, history>>

(***************************************************************************)
(* A signal: execute and dispatchBrokerOrder up to the final risk check.   *)
(***************************************************************************)

(* Quantities sizing can yield: an entry never costs more than the cash,   *)
(* an exit sells what is held.                                             *)
Sizes(e, side) ==
  IF side = "Buy" THEN IF position[e] = 0 THEN 1 .. cash ELSE {}
                  ELSE {position[e]} \ {0}

Signal_RiskUnchecked(e, side) ==
  /\ call = Idle /\ connected /\ nextId[e] <= MaxOrders
  /\ nextId' = [nextId EXCEPT ![e] = @ + 1]
  /\ \E quantity \in Sizes(e, side), normalized \in BOOLEAN :
       call' = IF normalized
               THEN Dispatching("routed", e, nextId[e], side, quantity)
               ELSE Idle
  /\ UNCHANGED <<ledger, requests, applied, adapter, portfolio, risk, history>>

Signal_IdReused(e, side) ==
  /\ call = Idle /\ connected /\ nextId[e] <= MaxOrders
  /\ nextId' = [nextId EXCEPT ![e] = IF side = "Sell" THEN @ ELSE @ + 1]
  /\ \E quantity \in Sizes(e, side), normalized \in BOOLEAN :
       call' = IF normalized /\ (side = "Sell" \/ CanTrade)
               THEN Dispatching("routed", e, nextId[e], side, quantity)
               ELSE Idle
  /\ UNCHANGED <<ledger, requests, applied, adapter, portfolio, risk, history>>

(* "normalized" is normalizeOrder's verdict on symbol, step and bounds,    *)
(* and for an entry that of canTrade's drawdown and VaR gates.  The id is  *)
(* used up whatever becomes of the request.                                *)
Signal(e, side) ==
  /\ call = Idle /\ connected /\ nextId[e] <= MaxOrders
  /\ nextId' = [nextId EXCEPT ![e] = @ + 1]
  /\ \E quantity \in Sizes(e, side), normalized \in BOOLEAN :
       call' = IF normalized /\ (side = "Sell" \/ CanTrade)
               THEN Dispatching("routed", e, nextId[e], side, quantity)
               ELSE Idle
  /\ UNCHANGED <<ledger, requests, applied, adapter, portfolio, risk, history>>

(***************************************************************************)
(* dispatchOrder.  Its three ledger calls run under one lock.              *)
(***************************************************************************)
Goto(stage) == call' = [call EXCEPT !.stage = stage]

Fail == ReportApiError /\ call' = Idle

Route ==
  /\ call.stage = "routed"
  /\ IF connected THEN Goto("entering") /\ UNCHANGED risk ELSE Fail
  /\ UNCHANGED <<ledger, requests, engines, adapter, portfolio, history>>

Enter ==
  /\ call.stage = "entering"
  /\ LET o == call.order
         key == Key("execution", o, 1) IN
     IF Ledger!CanCreate(o, key, call.quantity)
     THEN /\ Ledger!Create(o, key, At(1), call.quantity)
          /\ requests' = [requests EXCEPT ![o] = [engine |-> call.engine,
                                                  side   |-> call.side]]
          /\ slipped' = IF call.side = "Buy" /\ (halted \/ closeOnly)
                        THEN slipped + 1 ELSE slipped
          /\ Goto("clearing")
          /\ UNCHANGED risk
     ELSE Fail /\ UNCHANGED <<ledger, requests, slipped>>
  /\ UNCHANGED <<engines, adapter, portfolio, booked>>

Mark(stage, to, kind, sequence, next) ==
  /\ call.stage = stage
  /\ LET key == Key(kind, call.order, 1) IN
     IF Ledger!CanMove(call.order, to, key, At(sequence))
     THEN /\ Ledger!Transition(call.order, to, key, At(sequence))
          /\ Goto(next)
          /\ UNCHANGED risk
     ELSE Fail /\ UNCHANGED ledger
  /\ UNCHANGED <<requests, engines, adapter, portfolio, history>>

MarkRiskChecked == Mark("clearing", "RiskChecked", "gateway-risk", 2, "submitting")
MarkSubmitted   == Mark("submitting", "Submitted", "gateway-submit", 3, "handing")

(***************************************************************************)
(* DeterministicBrokerAdapter::submit, and the gateway when it returns     *)
(* false.                                                                  *)
(***************************************************************************)
Submit ==
  /\ call.stage = "handing"
  /\ \/ ~connected /\ Goto("refused") /\ UNCHANGED pending
     \/ /\ connected
        /\ call' = Answering(call.order, FALSE, 0)
        /\ UNCHANGED pending
     \/ /\ connected
        /\ \E filled \in 1 .. call.quantity :
             /\ call' = Answering(call.order, TRUE, filled)
             /\ pending' = IF filled < call.quantity
                           THEN pending \cup {call.order} ELSE pending
  /\ UNCHANGED <<ledger, requests, engines, connected, portfolio, risk, history>>

RefusedDispatch ==
  /\ call.stage = "refused"
  /\ LET key == Key("dispatch-failed", call.order, 1) IN
     IF Ledger!CanMove(call.order, "Unknown", key, At(4))
     THEN Ledger!MarkUnknown(call.order, key, At(4)) ELSE UNCHANGED ledger
  /\ Fail
  /\ UNCHANGED <<requests, engines, adapter, portfolio, history>>

(* After the acknowledgement submit reports the fill, or returns.          *)
Acknowledged ==
  call' = IF call.accepted
          THEN [call EXCEPT !.stage = "filling"] ELSE Idle

HandleAcknowledgement_Older ==
  /\ call.stage = "answering"
  /\ LET key == Key("ack", call.order, 1)
         to  == IF call.accepted THEN "Accepted" ELSE "Rejected" IN
     IF Ledger!CanMove(call.order, to, key, At(3))
     THEN /\ Ledger!ApplyAcknowledgement(call.order, key, At(3), call.accepted, TRUE)
          /\ IF call.accepted THEN UNCHANGED risk ELSE ReportApiError
     ELSE UNCHANGED <<ledger, risk>>
  /\ Acknowledged
  /\ UNCHANGED <<requests, engines, adapter, portfolio, history>>

(* main's acknowledgement callback reports a rejection to RiskEngine.      *)
HandleAcknowledgement ==
  /\ call.stage = "answering"
  /\ LET key == Key("ack", call.order, 1)
         to  == IF call.accepted THEN "Accepted" ELSE "Rejected" IN
     IF Ledger!CanMove(call.order, to, key, At(4))
     THEN /\ Ledger!ApplyAcknowledgement(call.order, key, At(4), call.accepted,
                                         call.accepted)
          /\ IF call.accepted THEN UNCHANGED risk ELSE ReportApiError
     ELSE UNCHANGED <<ledger, risk>>
  /\ Acknowledged
  /\ UNCHANGED <<requests, engines, adapter, portfolio, history>>

(* handleExecution under its lock; only an applied report is observed.     *)
HandleExecution(o, n, cumulative, remaining) ==
  /\ LET key == Key("fill", o, n) IN
     IF Ledger!CanExecute(o, key, At(4 + n), cumulative, remaining)
     THEN /\ Ledger!ApplyExecution(o, key, At(4 + n), cumulative, remaining)
          /\ call' = Observing(o, cumulative, remaining, Engines)
     ELSE call' = Idle /\ UNCHANGED ledger
  /\ UNCHANGED <<requests, engines, adapter, portfolio, risk, history>>

ImmediateFill ==
  /\ call.stage = "filling"
  /\ HandleExecution(call.order, 1, call.filled,
                     records[call.order].quantity - call.filled)

(* A later report: simulateExecutionEvent, in any order, any report again. *)
LateFill(o, n, cumulative, remaining) ==
  /\ call = Idle
  /\ n > 1
  /\ Ledger!CanExecute(o, Key("fill", o, n), At(4 + n), cumulative, remaining)
  /\ HandleExecution(o, n, cumulative, remaining)

(***************************************************************************)
(* onBrokerExecution: an engine books what the report adds to what it has  *)
(* booked of the order already.                                            *)
(***************************************************************************)
Fits_Unchecked(side, quantity, e) == TRUE

Fits(side, quantity, e) ==
  quantity <= IF side = "Buy" THEN cash ELSE position[e]

Book(e, o, side, quantity) ==
  LET signed == IF side = "Buy" THEN quantity ELSE -quantity IN
  /\ position' = [position EXCEPT ![e] = @ + signed]
  /\ cash' = cash - signed
  /\ booked' = [booked EXCEPT ![o] = @ + quantity]

Remember_LastErased(e, o, cumulative, remaining) ==
  applied' = [applied EXCEPT ![e][o] = 0]

(* The entry of a completed order is erased.                               *)
Remember(e, o, cumulative, remaining) ==
  applied' = [applied EXCEPT ![e][o] = IF remaining > 0 THEN cumulative ELSE 0]

OnBrokerExecution_WholeReport(e, o, cumulative, remaining) ==
  LET side == requests[o].side IN
  IF requests[o].engine = e /\ cumulative > applied[e][o] /\ Fits(side, cumulative, e)
  THEN /\ Book(e, o, side, cumulative)
       /\ Remember(e, o, cumulative, remaining)
       /\ UNCHANGED risk
  ELSE ReportApiError /\ UNCHANGED <<portfolio, applied, booked>>

(* A report for another symbol, one that adds nothing, and one the         *)
(* portfolio cannot take are API errors and leave no trace in the engine.  *)
OnBrokerExecution(e, o, cumulative, remaining) ==
  LET side == requests[o].side
      incremental == cumulative - applied[e][o] IN
  IF requests[o].engine = e /\ incremental > 0 /\ Fits(side, incremental, e)
  THEN /\ Book(e, o, side, incremental)
       /\ Remember(e, o, cumulative, remaining)
       /\ UNCHANGED risk
  ELSE ReportApiError /\ UNCHANGED <<portfolio, applied, booked>>

(* The engines are called in the order they were bound, which is the order *)
(* of main's arguments: any order.                                         *)
Observe ==
  /\ call.stage = "observing"
  /\ \E e \in call.observers :
       /\ OnBrokerExecution(e, call.order, call.cumulative, call.remaining)
       /\ call' = IF call.observers = {e} THEN Idle
                  ELSE [call EXCEPT !.observers = @ \ {e}]
  /\ UNCHANGED <<ledger, requests, nextId, adapter, slipped>>

(***************************************************************************)
(* requestCancel and DeterministicBrokerAdapter::cancel.                   *)
(***************************************************************************)
RequestCancel(o, sequence) ==
  /\ call = Idle /\ connected
  /\ Ledger!CanMove(o, "CancelRequested", Key("cancel", o, 1), At(sequence))
  /\ Ledger!RequestCancel(o, Key("cancel", o, 1), At(sequence))
  /\ call' = Canceling("canceling", o, sequence)
  /\ UNCHANGED <<requests, engines, adapter, portfolio, risk, history>>

Cancel ==
  /\ call.stage = "canceling"
  /\ IF connected
     THEN /\ Goto(IF call.order \in pending THEN "Accepted" ELSE "AlreadyFilled")
          /\ pending' = pending \ {call.order}
     ELSE Goto("cancelRefused") /\ UNCHANGED pending
  /\ UNCHANGED <<ledger, requests, engines, connected, portfolio, risk, history>>

HandleCancel ==
  /\ call.stage \in {"Accepted", "AlreadyFilled"}
  /\ LET key   == Key("cancel-result", call.order, 1)
         stamp == At(call.sequence + 1) IN
     IF Ledger!CanSettleCancel(call.order, key, stamp, call.stage)
     THEN Ledger!ApplyCancelResult(call.order, key, stamp, call.stage)
     ELSE UNCHANGED ledger
  /\ call' = Idle
  /\ UNCHANGED <<requests, engines, adapter, portfolio, risk, history>>

RefusedCancel ==
  /\ call.stage = "cancelRefused"
  /\ LET key   == Key("cancel-failed", call.order, 1)
         stamp == At(call.sequence + 1) IN
     IF Ledger!CanMove(call.order, "Unknown", key, stamp)
     THEN Ledger!MarkUnknown(call.order, key, stamp)
     ELSE UNCHANGED ledger
  /\ call' = Idle
  /\ UNCHANGED <<requests, engines, adapter, portfolio, risk, history>>

(***************************************************************************)
(* The specification.                                                      *)
(***************************************************************************)
NoRequest == [engine |-> "none", side |-> "none"]

Init ==
  /\ Ledger!Init
  /\ requests = [o \in Ids |-> NoRequest]
  /\ nextId = [e \in Engines |-> 1]
  /\ applied = [e \in Engines |-> [o \in Ids |-> 0]]
  /\ connected = TRUE /\ pending = {}
  /\ position = [e \in Engines |-> 0] /\ cash = InitialCash
  /\ halted = FALSE /\ closeOnly = FALSE
  /\ call = Idle
  /\ booked = [o \in Ids |-> 0] /\ slipped = 0

Trade ==
  \/ \E e \in Engines, side \in {"Buy", "Sell"} : Signal(e, side)
  \/ Route \/ Enter \/ MarkRiskChecked \/ MarkSubmitted
  \/ Submit \/ RefusedDispatch \/ HandleAcknowledgement \/ ImmediateFill
  \/ Observe

Amend ==
  \/ \E o \in Ids, n \in 2 .. MaxFills, cumulative, remaining \in 0 .. InitialCash :
       LateFill(o, n, cumulative, remaining)
  \/ \E o \in Ids, sequence \in CancelSequences : RequestCancel(o, sequence)
  \/ Cancel \/ HandleCancel \/ RefusedCancel

Environment ==
  \/ \E halt \in BOOLEAN : SetHaltTrading(halt)
  \/ \E close \in BOOLEAN : SetCloseOnly(close)
  \/ \E up \in BOOLEAN : SetConnected(up)

Next == Trade \/ Amend \/ Environment

Spec == Init /\ [][Next]_vars

-----------------------------------------------------------------------------
(***************************************************************************)
(* Properties.                                                             *)
(***************************************************************************)

(* Every variable has its type; sizes and positions never turn negative.   *)
TypeOK ==
  /\ Ledger!TypeOK
  /\ requests \in [Ids -> [engine : Engines, side : {"Buy", "Sell"}] \cup {NoRequest}]
  /\ nextId \in [Engines -> 1 .. MaxOrders + 1]
  /\ applied \in [Engines -> [Ids -> 0 .. InitialCash]]
  /\ connected \in BOOLEAN /\ pending \subseteq Ids
  /\ position \in [Engines -> 0 .. InitialCash] /\ cash \in 0 .. InitialCash
  /\ halted \in BOOLEAN /\ closeOnly \in BOOLEAN
  /\ call \in Calls
  /\ booked \in [Ids -> 0 .. InitialCash] /\ slipped \in Nat

(* The lots that "count" counts for the members of S, one by one.          *)
Lots(count, S) == UNION {{x} \X (1 .. count[x]) : x \in S}

OrdersOf(e, side) == {o \in Ids : requests[o] = [engine |-> e, side |-> side]}

BookedOf(e, side) == Cardinality(Lots(booked, OrdersOf(e, side)))

(* A lot is booked once: the position in a symbol is what was booked of    *)
(* its entries less what was booked of its exits, no order is booked for   *)
(* more than its ledger says was executed, and the cash is accounted for.  *)
FillsBookedOnce ==
  /\ \A e \in Engines : position[e] = BookedOf(e, "Buy") - BookedOf(e, "Sell")
  /\ \A o \in Ids : booked[o] <= records[o].filled
  /\ cash + Cardinality(Lots(position, Engines)) = InitialCash

(* Every dispatch is settled when it returns: outside a dispatch no order  *)
(* is left Created, RiskChecked or Submitted, so the sequence numbers the  *)
(* gateway and the adapter count from one request never overtake each      *)
(* other.                                                                  *)
DispatchLeavesNoLimbo ==
  call = Idle => \A o \in Ids : State(o) \notin {"Created", "RiskChecked", "Submitted"}

(* What an engine remembers of a working order is what it booked of it, so *)
(* the next cumulative report books exactly the difference, also after a   *)
(* report that could not be booked.                                        *)
EngineRemembersBooked ==
  \A o \in Ids : State(o) \in {"PartiallyFilled", "CancelRequested", "Unknown"} =>
    applied[requests[o].engine][o] = booked[o]

(* An open breaker stops entries: at most the one order that had passed    *)
(* the final risk check is still taken into the gateway.                   *)
AtMostOneEntrySlips == slipped <= 1

(* The gateway never meets an id or idempotency key it has seen: the       *)
(* identities its engines number are all different.                        *)
IdentityIsFresh ==
  call.stage = "entering" =>
    Ledger!CanCreate(call.order, Key("execution", call.order, 1), call.quantity)

=============================================================================

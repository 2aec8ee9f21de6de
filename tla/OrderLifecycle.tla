--------------------------- MODULE OrderLifecycle ---------------------------
(***************************************************************************)
(* The order ledger of the broker boundary: class OrderLifecycleStore of   *)
(* src/src/OrderLifecycleStore.cpp.  BrokerGateway keeps one store and     *)
(* feeds it, under its lock, with what it submits and with every           *)
(* acknowledgement, execution, cancel result and reconciliation an adapter *)
(* delivers, in any order, any number of times.                            *)
(*                                                                         *)
(* An action is a call that returns Applied (or true, for create).  Every  *)
(* other return of the code (Duplicate, UnknownOrder, InvalidEvent,        *)
(* InvalidTransition, false) leaves both maps alone: it is a disabled      *)
(* action, a stuttering step of the specification.                         *)
(*                                                                         *)
(* An operator named X_Y is X with one plausible mistake Y in it.  No      *)
(* action uses it: it is there to show that a property below would fail    *)
(* if the code made that mistake.                                          *)
(***************************************************************************)
EXTENDS Integers, Sequences

CONSTANTS
  Orders,       \* local order identifiers
  Keys,         \* idempotency and event keys, one name space for all orders
  EmptyKey,     \* the empty string, which no handler accepts as a key
  Stamps,       \* (sequence, timestampNs) pairs; 0 means "not provided"
  MaxQuantity   \* bound on the quantity of an order, in units of its scale

ASSUME KeyAssumption      == EmptyKey \notin Keys
ASSUME StampAssumption    == Stamps \subseteq [seq : Nat, ts : Nat]
ASSUME QuantityAssumption == MaxQuantity \in Nat \ {0}

VARIABLES
  records,      \* m_records: the record of each order, Absent if it has none
  appliedKeys   \* m_appliedEventKeys

vars == <<records, appliedKeys>>

(***************************************************************************)
(* Order states.                                                           *)
(***************************************************************************)
Absent == "Absent"

Terminal == {"Filled", "Canceled", "Expired", "Rejected", "Reconciled"}

Open == {"Created", "RiskChecked", "Submitted", "Accepted", "PartiallyFilled",
         "CancelRequested", "Timeout", "Unknown"}

State == Open \cup Terminal

Sources_RiskCheckSkipped(to) ==
  CASE to = "RiskChecked"     -> {"Created"}
    [] to = "Submitted"       -> {"Created", "RiskChecked"}
    [] to \in {"PartiallyFilled", "Filled"} -> {"Submitted"}
    [] OTHER                  -> {}

(* The states canTransition admits as the source of a move to "to", before *)
(* it excludes the terminal ones.                                          *)
Sources(to) ==
  CASE to = "RiskChecked"     -> {"Created"}
    [] to = "Submitted"       -> {"RiskChecked"}
    [] to \in {"Accepted", "Rejected"} -> {"Submitted"}
    [] to \in {"PartiallyFilled", "Filled"} ->
         {"Submitted", "Accepted", "PartiallyFilled", "CancelRequested",
          "Timeout", "Unknown"}
    [] to = "CancelRequested" -> {"Accepted", "PartiallyFilled"}
    [] to \in {"Canceled", "Expired"} ->
         {"Accepted", "PartiallyFilled", "CancelRequested", "Unknown"}
    [] to \in {"Timeout", "Unknown"} ->
         {"Submitted", "Accepted", "PartiallyFilled", "CancelRequested",
          "Timeout"}
    [] to = "Reconciled"      ->
         {"Unknown", "Timeout", "CancelRequested", "PartiallyFilled"}
    [] OTHER                  -> {}

CanTransition(from, to) == from \notin Terminal /\ from \in Sources(to)

(***************************************************************************)
(* Quantities: units of the order's own scale.  A quantity in another      *)
(* scale, or one that overflows, is refused like a pair with a wrong sum.  *)
(***************************************************************************)
Amounts == -1 .. MaxQuantity + 1

ValidQuantities_SignUnchecked(rec, cumulative, remaining) ==
  cumulative + remaining = rec.quantity

ValidQuantities_SumBounded(rec, cumulative, remaining) ==
  cumulative >= 0 /\ remaining >= 0 /\ cumulative + remaining <= rec.quantity

ValidQuantities(rec, cumulative, remaining) ==
  /\ cumulative >= 0
  /\ remaining >= 0
  /\ cumulative + remaining = rec.quantity

(***************************************************************************)
(* Event screening, common to every handler.                               *)
(***************************************************************************)
IsOlder(rec, stamp) ==
  IF stamp.seq > 0 /\ rec.stamp.seq > 0
  THEN stamp.seq <= rec.stamp.seq
  ELSE stamp.ts > 0 /\ rec.stamp.ts > 0 /\ stamp.ts < rec.stamp.ts

Known(o) == records[o].state # Absent

Admissible_KeyUnchecked(o, key, stamp) ==
  /\ Known(o)
  /\ key # EmptyKey
  /\ ~IsOlder(records[o], stamp)

Admissible(o, key, stamp) ==
  /\ Known(o)
  /\ key # EmptyKey
  /\ key \notin appliedKeys
  /\ ~IsOlder(records[o], stamp)

(* The tail of every handler: the record as changed, its last stamp, one   *)
(* audit entry, and the key marked as applied.                             *)
Commit(o, key, stamp, changed) ==
  /\ records' = [records EXCEPT ![o] =
                   [changed EXCEPT !.stamp = stamp,
                                   !.audit = Append(@, [state |-> changed.state,
                                                        key   |-> key])]]
  /\ appliedKeys' = appliedKeys \cup {key}

(***************************************************************************)
(* Types and initial state.                                                *)
(***************************************************************************)
Stamp == [seq : Nat, ts : Nat]

Record ==
  [state     : State \cup {Absent},
   preCancel : State,
   quantity  : 0 .. MaxQuantity,
   filled    : 0 .. MaxQuantity,
   remaining : 0 .. MaxQuantity,
   stamp     : Stamp,
   resolved  : Terminal \cup {"PartiallyFilled", "none"},
   audit     : Seq([state : State, key : Keys])]

Blank(state, quantity) ==
  [state |-> state, preCancel |-> "Created", quantity |-> quantity, filled |-> 0,
   remaining |-> quantity, stamp |-> [seq |-> 0, ts |-> 0], resolved |-> "none",
   audit |-> <<>>]

Init ==
  /\ records = [o \in Orders |-> Blank(Absent, 0)]
  /\ appliedKeys = {}

(***************************************************************************)
(* Handlers.                                                               *)
(***************************************************************************)
CanCreate(o, key, quantity) ==
  /\ key # EmptyKey
  /\ quantity > 0
  /\ ~Known(o)
  /\ key \notin appliedKeys

Create(o, key, stamp, quantity) ==
  /\ CanCreate(o, key, quantity)
  /\ Commit(o, key, stamp, Blank("Created", quantity))

CanMove(o, to, key, stamp) ==
  /\ Admissible(o, key, stamp)
  /\ CanTransition(records[o].state, to)

Transition(o, to, key, stamp) ==
  /\ CanMove(o, to, key, stamp)
  /\ Commit(o, key, stamp, [records[o] EXCEPT !.state = to])

MarkRiskChecked(o, key, stamp) == Transition(o, "RiskChecked", key, stamp)
MarkSubmitted(o, key, stamp)   == Transition(o, "Submitted", key, stamp)
MarkTimeout(o, key, stamp)     == Transition(o, "Timeout", key, stamp)
MarkUnknown(o, key, stamp)     == Transition(o, "Unknown", key, stamp)

(* hasExternalId: the adapter supplied a broker order identifier.          *)
ApplyAcknowledgement(o, key, stamp, accepted, hasExternalId) ==
  /\ accepted => hasExternalId
  /\ Transition(o, IF accepted THEN "Accepted" ELSE "Rejected", key, stamp)

FillState(remaining) == IF remaining = 0 THEN "Filled" ELSE "PartiallyFilled"

ApplyExecution_MayShrink(o, key, stamp, cumulative, remaining) ==
  /\ ValidQuantities(records[o], cumulative, remaining)
  /\ CanMove(o, FillState(remaining), key, stamp)
  /\ Commit(o, key, stamp, [records[o] EXCEPT !.state = FillState(remaining),
                                              !.filled = cumulative,
                                              !.remaining = remaining])

CanExecute(o, key, stamp, cumulative, remaining) ==
  /\ ValidQuantities(records[o], cumulative, remaining)
  /\ cumulative >= records[o].filled
  /\ CanMove(o, FillState(remaining), key, stamp)

ApplyExecution(o, key, stamp, cumulative, remaining) ==
  /\ CanExecute(o, key, stamp, cumulative, remaining)
  /\ Commit(o, key, stamp, [records[o] EXCEPT !.state = FillState(remaining),
                                              !.filled = cumulative,
                                              !.remaining = remaining])

RequestCancel_StateNotSaved(o, key, stamp) ==
  Transition(o, "CancelRequested", key, stamp)

RequestCancel(o, key, stamp) ==
  /\ CanMove(o, "CancelRequested", key, stamp)
  /\ Commit(o, key, stamp, [records[o] EXCEPT !.preCancel = records[o].state,
                                              !.state = "CancelRequested"])

Dispositions ==
  {"Accepted", "AlreadyCanceled", "AlreadyFilled", "Rejected", "Unknown"}

AfterCancel(rec, disposition) ==
  CASE disposition \in {"Accepted", "AlreadyCanceled"} -> "Canceled"
    [] disposition = "AlreadyFilled"                   -> "Filled"
    [] disposition = "Rejected"                        -> rec.preCancel
    [] OTHER                                           -> "Unknown"

ApplyCancelResult_AnyState(o, key, stamp, disposition) ==
  /\ Admissible(o, key, stamp)
  /\ disposition = "AlreadyFilled" => records[o].remaining = 0
  /\ Commit(o, key, stamp,
            [records[o] EXCEPT !.state = AfterCancel(records[o], disposition)])

ApplyCancelResult_FilledUnchecked(o, key, stamp, disposition) ==
  /\ Admissible(o, key, stamp)
  /\ records[o].state = "CancelRequested"
  /\ Commit(o, key, stamp,
            [records[o] EXCEPT !.state = AfterCancel(records[o], disposition)])

(* Here the code tests the state itself and never calls canTransition.     *)
CanSettleCancel(o, key, stamp, disposition) ==
  /\ Admissible(o, key, stamp)
  /\ records[o].state = "CancelRequested"
  /\ disposition = "AlreadyFilled" => records[o].remaining = 0

ApplyCancelResult(o, key, stamp, disposition) ==
  /\ CanSettleCancel(o, key, stamp, disposition)
  /\ Commit(o, key, stamp,
            [records[o] EXCEPT !.state = AfterCancel(records[o], disposition)])

Resolutions ==
  {"Filled", "PartiallyFilled", "Canceled", "Expired", "Rejected"}

ApplyReconciliation(o, key, stamp, resolved, cumulative, remaining) ==
  /\ resolved \in Resolutions
  /\ ValidQuantities(records[o], cumulative, remaining)
  /\ CanMove(o, "Reconciled", key, stamp)
  /\ Commit(o, key, stamp, [records[o] EXCEPT !.state = "Reconciled",
                                              !.resolved = resolved,
                                              !.filled = cumulative,
                                              !.remaining = remaining])

(***************************************************************************)
(* Callers: the gateway's own bookkeeping and whatever an adapter reports. *)
(***************************************************************************)
Local(o, key, stamp) ==
  \/ \E q \in Amounts \cap 0 .. MaxQuantity : Create(o, key, stamp, q)
  \/ MarkRiskChecked(o, key, stamp)
  \/ MarkSubmitted(o, key, stamp)
  \/ MarkTimeout(o, key, stamp)
  \/ MarkUnknown(o, key, stamp)
  \/ RequestCancel(o, key, stamp)

Reported(o, key, stamp) ==
  /\ Admissible(o, key, stamp)
  /\ \/ \E accepted, hasExternalId \in BOOLEAN :
          ApplyAcknowledgement(o, key, stamp, accepted, hasExternalId)
     \/ \E cumulative, remaining \in Amounts :
          ApplyExecution(o, key, stamp, cumulative, remaining)
     \/ \E disposition \in Dispositions :
          ApplyCancelResult(o, key, stamp, disposition)
     \/ \E resolved \in State, cumulative, remaining \in Amounts :
          ApplyReconciliation(o, key, stamp, resolved, cumulative, remaining)

Next ==
  \E o \in Orders, key \in Keys \cup {EmptyKey}, stamp \in Stamps :
    Local(o, key, stamp) \/ Reported(o, key, stamp)

Spec == Init /\ [][Next]_vars

-----------------------------------------------------------------------------
(***************************************************************************)
(* Properties.                                                             *)
(***************************************************************************)

(* Every record and key has its type (OrderLifecycleRecord).               *)
TypeOK ==
  /\ records \in [Orders -> Record]
  /\ appliedKeys \subseteq Keys

(* The filled and remaining quantities of an order always add up to what   *)
(* was ordered, and an order has nothing left exactly when it is Filled.   *)
(* A reconciled order is the one exception: applyReconciliation overwrites *)
(* both.  In particular an order being canceled always has something left, *)
(* so the AlreadyFilled answer of applyCancelResult is never applied.      *)
QuantitiesConserved ==
  \A o \in Orders :
    /\ records[o].filled + records[o].remaining = records[o].quantity
    /\ records[o].state \notin {Absent, "Reconciled"} =>
         (records[o].remaining = 0 <=> records[o].state = "Filled")

(* A broker that rejects a cancel puts the order back where it was:        *)
(* preCancelState is a state the order can work in, and if that state is   *)
(* Accepted nothing was filled in between, whatever arrived since.         *)
CancelRestoresWorkingState ==
  \A o \in Orders :
    /\ records[o].state = "CancelRequested" =>
         /\ records[o].preCancel \in {"Accepted", "PartiallyFilled"}
         /\ records[o].preCancel = "Accepted" => records[o].filled = 0
    /\ records[o].state = "Accepted" => records[o].filled = 0

(* No order is executed, or reconciled, that was not risk checked and then *)
(* submitted: its audit history starts Created, RiskChecked, Submitted.    *)
ExposureWasRiskChecked ==
  \A o \in Orders :
    LET path == [i \in 1 .. Len(records[o].audit) |-> records[o].audit[i].state]
    IN records[o].state \notin {Absent, "Created", "RiskChecked"} =>
         /\ Len(path) >= 3
         /\ SubSeq(path, 1, 3) = <<"Created", "RiskChecked", "Submitted">>

(* An event counts once over all orders: the applied keys are exactly the  *)
(* keys of the audit histories, no two entries share a key, and the last   *)
(* entry is the state the order is in.                                     *)
EventsAppliedOnce ==
  LET Entries == UNION {{<<o, i>> : i \in 1 .. Len(records[o].audit)} : o \in Orders}
      KeyAt(e) == records[e[1]].audit[e[2]].key
  IN /\ appliedKeys = {KeyAt(e) : e \in Entries}
     /\ \A e, f \in Entries : KeyAt(e) = KeyAt(f) => e = f
     /\ \A o \in Orders : Known(o) =>
          records[o].audit # <<>>
          /\ records[o].audit[Len(records[o].audit)].state = records[o].state

(* A terminal order never changes again, whatever late, repeated or        *)
(* contradicting event arrives for it.                                     *)
TerminalIsFinal ==
  [][\A o \in Orders : records[o].state \in Terminal => records'[o] = records[o]]_vars

GrowsOrSettles(o) ==
  records'[o].filled >= records[o].filled \/ records'[o].state = "Reconciled"

(* The executed quantity of an order never shrinks, except when the order  *)
(* is reconciled with the broker's own account of it.                      *)
FillsOnlyGrow == [][\A o \in Orders : GrowsOrSettles(o)]_vars

-----------------------------------------------------------------------------
(***************************************************************************)
(* What the ledger implements.                                             *)
(***************************************************************************)
PhaseOf(state) ==
  CASE state = Absent                       -> "none"
    [] state \in {"Created", "RiskChecked"} -> "local"
    [] state = "Filled"                     -> "complete"
    [] state \in Terminal \ {"Filled"}      -> "ended"
    [] OTHER                                -> "working"

Promise == INSTANCE OrderPromise WITH
  phase    <- [o \in Orders |-> PhaseOf(records[o].state)],
  quantity <- [o \in Orders |-> records[o].quantity],
  filled   <- [o \in Orders |-> records[o].filled]

(* The ledger keeps the promise of OrderPromise: under every interleaving  *)
(* of late, repeated and contradicting events an order is placed, released *)
(* and ended once, and executed only in between.                           *)
PromiseKept == Promise!Spec

=============================================================================

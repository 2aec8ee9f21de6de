------------------------ MODULE OrderLifecycle_proofs ------------------------
(***************************************************************************)
(* Proofs about OrderLifecycle for every set of orders, keys and stamps    *)
(* and every maximal quantity.                                             *)
(*                                                                         *)
(* A step of the ledger changes the record of one order: each handler is   *)
(* first shown to hand Commit a record of the right type (CommitTypes) and *)
(* the inductive invariant IInv is then proved handler by handler.         *)
(***************************************************************************)
EXTENDS OrderLifecycle, SequenceTheorems, TLAPS

(* The inductive invariant, record by record.  To the three invariants the *)
(* runs check it adds that nothing is executed before the broker has       *)
(* accepted or executed the order: without it an acknowledgement could     *)
(* bring back, as Accepted, an order with fills.                           *)
RecordInv(rec) ==
  /\ rec.filled + rec.remaining = rec.quantity
  /\ rec.state \notin {Absent, "Reconciled"} =>
       (rec.remaining = 0 <=> rec.state = "Filled")
  /\ rec.state = "CancelRequested" =>
       /\ rec.preCancel \in {"Accepted", "PartiallyFilled"}
       /\ rec.preCancel = "Accepted" => rec.filled = 0
  /\ rec.state \in {Absent, "Created", "RiskChecked", "Submitted", "Accepted"}
       => rec.filled = 0

IInv == TypeOK /\ \A o \in Orders : RecordInv(records[o])

(* What a handler may do to the record of its order, in the terms of       *)
(* OrderPromise: place it, release it, execute it, end it or settle it,    *)
(* or leave its phase and its quantities alone.                            *)
RecordStep(rec, new) ==
  LET phase == PhaseOf(rec.state)
      next  == PhaseOf(new.state)
  IN \/ /\ phase = "none" /\ next = "local"
        /\ new.quantity \in 1 .. MaxQuantity
        /\ new.filled = rec.filled
     \/ /\ phase = "local" /\ next \in {"local", "working"}
        /\ new.quantity = rec.quantity /\ new.filled = rec.filled
     \/ /\ phase = "working" /\ next \in {"working", "ended"}
        /\ new.quantity = rec.quantity /\ new.filled = rec.filled
        /\ rec.filled < rec.quantity
     \/ /\ phase = "working"
        /\ next = IF new.filled = rec.quantity THEN "complete" ELSE "working"
        /\ new.quantity = rec.quantity
        /\ new.filled \in rec.filled .. rec.quantity
     \/ /\ phase = "working" /\ new.state = "Reconciled"
        /\ new.quantity = rec.quantity /\ new.filled \in 0 .. rec.quantity

Step(o) ==
  /\ \A p \in Orders \ {o} : records'[p] = records[p]
  /\ RecordStep(records[o], records'[o])

(* The events a handler can be called with.                                *)
Event(o, key, stamp) ==
  o \in Orders /\ key \in Keys \cup {EmptyKey} /\ stamp \in Stamps

-----------------------------------------------------------------------------
LEMMA Phases ==
  /\ PhaseOf(Absent) = "none"
  /\ PhaseOf("Created") = "local"
  /\ PhaseOf("PartiallyFilled") = "working"
  /\ PhaseOf("Filled") = "complete"
  /\ PhaseOf("Reconciled") = "ended"
  BY DEF PhaseOf, Absent, Terminal

(* Commit keeps the types when it is given a record of a live order.       *)
LEMMA CommitTypes ==
  ASSUME TypeOK,
         NEW o, NEW key, NEW stamp, Event(o, key, stamp), key # EmptyKey,
         NEW changed \in Record, changed.state \in State,
         Commit(o, key, stamp, changed)
  PROVE  /\ TypeOK'
         /\ \A p \in Orders \ {o} : records'[p] = records[p]
         /\ \A f \in {"state", "preCancel", "quantity", "filled", "remaining", "resolved"} :
              records'[o][f] = changed[f]
<1> DEFINE entry == [state |-> changed.state, key |-> key]
           new == [changed EXCEPT !.stamp = stamp, !.audit = Append(@, entry)]
<1>1. key \in Keys /\ o \in Orders /\ stamp \in Stamp
  BY StampAssumption DEF Event, Stamp
<1>2. entry \in [state : State, key : Keys]
  BY <1>1
<1>3. Append(changed.audit, entry) \in Seq([state : State, key : Keys])
  BY <1>2 DEF Record
<1>4. new \in Record
  BY <1>1, <1>3 DEF Record
<1>5. records' = [records EXCEPT ![o] = new]
  BY DEF Commit
<1>6. appliedKeys' \subseteq Keys
  BY <1>1 DEF Commit, TypeOK
<1>7. QED
  BY <1>1, <1>4, <1>5, <1>6 DEF TypeOK, Record

-----------------------------------------------------------------------------
(* A handler that hands Commit a well-formed record keeps the invariant    *)
(* and makes a step of the promise.                                        *)
LEMMA CommitInv ==
  ASSUME IInv,
         NEW o, NEW key, NEW stamp, Event(o, key, stamp), key # EmptyKey,
         NEW changed \in Record, changed.state \in State, RecordInv(changed),
         RecordStep(records[o], changed),
         Commit(o, key, stamp, changed)
  PROVE  IInv' /\ Step(o)
<1>1. /\ TypeOK'
      /\ \A p \in Orders \ {o} : records'[p] = records[p]
      /\ \A f \in {"state", "preCancel", "quantity", "filled", "remaining", "resolved"} :
           records'[o][f] = changed[f]
  BY CommitTypes DEF IInv
<1>2. RecordInv(records'[o])
  BY <1>1 DEF RecordInv
<1>3. ASSUME NEW p \in Orders \ {o} PROVE RecordInv(records'[p])
  BY <1>1, <1>3 DEF IInv
<1>4. RecordStep(records[o], records'[o])
  BY <1>1 DEF RecordStep
<1>5. QED
  BY <1>1, <1>2, <1>3, <1>4 DEF IInv, Step

LEMMA BlankRecord ==
  ASSUME NEW q \in 0 .. MaxQuantity,
         NEW state, \/ state = Absent /\ q = 0
                    \/ state = "Created" /\ q > 0
  PROVE  Blank(state, q) \in Record /\ RecordInv(Blank(state, q))
  BY QuantityAssumption
     DEF Blank, Record, RecordInv, State, Open, Terminal, Stamp, Absent

LEMMA InitInv == Init => IInv
<1> SUFFICES ASSUME Init PROVE IInv
  OBVIOUS
<1>1. Blank(Absent, 0) \in Record /\ RecordInv(Blank(Absent, 0))
  BY BlankRecord, QuantityAssumption
<1>2. QED
  BY <1>1 DEF Init, IInv, TypeOK

(* A move to a state other than Filled of a record that is not terminal.   *)
LEMMA TransitionInv ==
  ASSUME IInv,
         NEW o, NEW key, NEW stamp, Event(o, key, stamp),
         NEW to \in {"RiskChecked", "Submitted", "Accepted", "Rejected",
                     "Timeout", "Unknown"},
         Transition(o, to, key, stamp)
  PROVE  IInv' /\ Step(o)
<1> DEFINE changed == [records[o] EXCEPT !.state = to]
<1>1. /\ o \in Orders
      /\ records[o] \in Record
      /\ RecordInv(records[o])
  BY DEF Event, IInv, TypeOK
<1>2. /\ key # EmptyKey
      /\ CanTransition(records[o].state, to)
      /\ Commit(o, key, stamp, changed)
  BY DEF Transition, CanMove, Admissible
<1>3. changed \in Record /\ changed.state \in State
  BY <1>1 DEF Record, State, Open, Terminal
<1>4. RecordInv(changed)
  BY <1>1, <1>2 DEF RecordInv, CanTransition, Sources, Record, Terminal, Absent
<1>5. RecordStep(records[o], changed)
  BY <1>1, <1>2 DEF RecordStep, RecordInv, PhaseOf, CanTransition, Sources,
                    Record, Terminal, Absent
<1>6. QED
  BY <1>2, <1>3, <1>4, <1>5, CommitInv

LEMMA CreateInv ==
  ASSUME IInv,
         NEW o, NEW key, NEW stamp, Event(o, key, stamp),
         NEW q \in 0 .. MaxQuantity, Create(o, key, stamp, q)
  PROVE  IInv' /\ Step(o)
<1>1. key # EmptyKey /\ q > 0 /\ Commit(o, key, stamp, Blank("Created", q))
  BY DEF Create, CanCreate
<1>2. Blank("Created", q) \in Record /\ RecordInv(Blank("Created", q))
  BY <1>1, BlankRecord
<1>3. Blank("Created", q).state \in State
  BY DEF Blank, State, Open
<1>4. RecordStep(records[o], Blank("Created", q))
  <2>1. records[o].state = Absent /\ records[o].filled = 0
    BY DEF Create, CanCreate, Known, IInv, RecordInv, Event
  <2>2. /\ Blank("Created", q).state = "Created"
        /\ Blank("Created", q).quantity = q
        /\ Blank("Created", q).filled = 0
    BY DEF Blank
  <2>3. q \in 1 .. MaxQuantity
    BY <1>1
  <2>4. QED
    BY <2>1, <2>2, <2>3, Phases DEF RecordStep
<1>5. QED
  BY <1>1, <1>2, <1>3, <1>4, CommitInv

LEMMA ExecutionInv ==
  ASSUME IInv,
         NEW o, NEW key, NEW stamp, Event(o, key, stamp),
         NEW cumulative \in Amounts, NEW remaining \in Amounts,
         ApplyExecution(o, key, stamp, cumulative, remaining)
  PROVE  IInv' /\ Step(o)
<1> DEFINE next == IF remaining = 0 THEN "Filled" ELSE "PartiallyFilled"
           changed == [records[o] EXCEPT !.state = next, !.filled = cumulative,
                                         !.remaining = remaining]
<1>1. /\ o \in Orders
      /\ records[o] \in Record
      /\ RecordInv(records[o])
  BY DEF Event, IInv, TypeOK
<1>2. /\ key # EmptyKey
      /\ ValidQuantities(records[o], cumulative, remaining)
      /\ cumulative >= records[o].filled
      /\ CanTransition(records[o].state, next)
      /\ Commit(o, key, stamp, changed)
  BY DEF ApplyExecution, CanExecute, CanMove, FillState, Admissible
<1>3. /\ cumulative \in 0 .. MaxQuantity
      /\ remaining \in 0 .. MaxQuantity
      /\ cumulative + remaining = records[o].quantity
  BY <1>1, <1>2, QuantityAssumption DEF ValidQuantities, Amounts, Record
<1>4. changed \in Record /\ changed.state \in State
  BY <1>1, <1>3 DEF Record, State, Open, Terminal
<1>5. RecordInv(changed)
  BY <1>1, <1>3 DEF RecordInv, Record, Absent
<1>6. RecordStep(records[o], changed)
  <2>1. PhaseOf(records[o].state) = "working"
    BY <1>2 DEF PhaseOf, CanTransition, Sources, Terminal, Absent
  <2>2. /\ changed.state = next
        /\ changed.filled = cumulative
        /\ changed.quantity = records[o].quantity
    BY <1>1 DEF Record
  <2>3. PhaseOf(next) = IF cumulative = records[o].quantity THEN "complete" ELSE "working"
    <3>1. CASE remaining = 0
      BY <1>1, <1>3, <3>1, Phases DEF Record
    <3>2. CASE remaining # 0
      BY <1>1, <1>3, <3>2, Phases DEF Record
    <3>3. QED
      BY <3>1, <3>2
  <2>4. cumulative \in records[o].filled .. records[o].quantity
    BY <1>1, <1>2, <1>3 DEF Record
  <2>5. QED
    BY <2>1, <2>2, <2>3, <2>4 DEF RecordStep
<1>7. QED
  BY <1>2, <1>4, <1>5, <1>6, CommitInv

LEMMA RequestCancelInv ==
  ASSUME IInv,
         NEW o, NEW key, NEW stamp, Event(o, key, stamp),
         RequestCancel(o, key, stamp)
  PROVE  IInv' /\ Step(o)
<1> DEFINE changed == [records[o] EXCEPT !.preCancel = records[o].state,
                                         !.state = "CancelRequested"]
<1>1. /\ o \in Orders
      /\ records[o] \in Record
      /\ RecordInv(records[o])
  BY DEF Event, IInv, TypeOK
<1>2. /\ key # EmptyKey
      /\ records[o].state \in {"Accepted", "PartiallyFilled"}
      /\ Commit(o, key, stamp, changed)
  BY DEF RequestCancel, CanMove, Admissible, CanTransition, Sources
<1>3. changed \in Record /\ changed.state \in State
  BY <1>1, <1>2 DEF Record, State, Open, Terminal
<1>4. RecordInv(changed)
  BY <1>1, <1>2 DEF RecordInv, Record, Absent
<1>5. RecordStep(records[o], changed)
  BY <1>1, <1>2 DEF RecordStep, RecordInv, PhaseOf, Record, Terminal, Absent
<1>6. QED
  BY <1>2, <1>3, <1>4, <1>5, CommitInv

LEMMA CancelResultInv ==
  ASSUME IInv,
         NEW o, NEW key, NEW stamp, Event(o, key, stamp),
         NEW disposition \in Dispositions,
         ApplyCancelResult(o, key, stamp, disposition)
  PROVE  IInv' /\ Step(o)
<1> DEFINE next == AfterCancel(records[o], disposition)
           changed == [records[o] EXCEPT !.state = next]
<1>1. /\ o \in Orders
      /\ records[o] \in Record
      /\ RecordInv(records[o])
  BY DEF Event, IInv, TypeOK
<1>2. /\ key # EmptyKey
      /\ records[o].state = "CancelRequested"
      /\ disposition = "AlreadyFilled" => records[o].remaining = 0
      /\ Commit(o, key, stamp, changed)
  BY DEF ApplyCancelResult, CanSettleCancel, Admissible
<1>3. disposition # "AlreadyFilled"
  BY <1>1, <1>2 DEF RecordInv, Absent
<1>4. next \in {"Canceled", "Unknown", "Accepted", "PartiallyFilled"}
      /\ (next = "Accepted" => records[o].filled = 0)
  BY <1>1, <1>2, <1>3 DEF RecordInv, AfterCancel, Dispositions
<1>5. changed \in Record /\ changed.state \in State
  BY <1>1, <1>4 DEF Record, State, Open, Terminal
<1>6. RecordInv(changed)
  BY <1>1, <1>2, <1>4 DEF RecordInv, Record, Absent
<1>7. RecordStep(records[o], changed)
  BY <1>1, <1>2, <1>4 DEF RecordStep, RecordInv, PhaseOf, Record, Terminal, Absent
<1>8. QED
  BY <1>2, <1>5, <1>6, <1>7, CommitInv

LEMMA ReconciliationInv ==
  ASSUME IInv,
         NEW o, NEW key, NEW stamp, Event(o, key, stamp),
         NEW resolved, NEW cumulative \in Amounts, NEW remaining \in Amounts,
         ApplyReconciliation(o, key, stamp, resolved, cumulative, remaining)
  PROVE  IInv' /\ Step(o)
<1> DEFINE changed == [records[o] EXCEPT !.state = "Reconciled",
                                         !.resolved = resolved,
                                         !.filled = cumulative,
                                         !.remaining = remaining]
<1>1. /\ o \in Orders
      /\ records[o] \in Record
      /\ RecordInv(records[o])
  BY DEF Event, IInv, TypeOK
<1>2. /\ key # EmptyKey
      /\ ValidQuantities(records[o], cumulative, remaining)
      /\ CanTransition(records[o].state, "Reconciled")
      /\ resolved \in Resolutions
      /\ Commit(o, key, stamp, changed)
  BY DEF ApplyReconciliation, CanMove, Admissible
<1>3. /\ cumulative \in 0 .. MaxQuantity
      /\ remaining \in 0 .. MaxQuantity
      /\ cumulative + remaining = records[o].quantity
  BY <1>1, <1>2, QuantityAssumption DEF ValidQuantities, Amounts, Record
<1>4. changed \in Record /\ changed.state \in State
  BY <1>1, <1>2, <1>3 DEF Record, State, Open, Terminal, Resolutions
<1>5. RecordInv(changed)
  BY <1>1, <1>3 DEF RecordInv, Record, Absent
<1>6. RecordStep(records[o], changed)
  BY <1>1, <1>2, <1>3 DEF RecordStep, PhaseOf, CanTransition, Sources,
                          Record, Terminal, Absent
<1>7. QED
  BY <1>2, <1>4, <1>5, <1>6, CommitInv

LEMMA StepInv ==
  ASSUME IInv, [Next]_vars
  PROVE  IInv' /\ ((\E o \in Orders : Step(o)) \/ UNCHANGED vars)
<1>1. ASSUME NEW o \in Orders, NEW key \in Keys \cup {EmptyKey},
             NEW stamp \in Stamps, Local(o, key, stamp)
      PROVE  IInv' /\ Step(o)
  <2>1. Event(o, key, stamp)
    BY DEF Event
  <2>2. CASE \E q \in Amounts \cap 0 .. MaxQuantity : Create(o, key, stamp, q)
    BY <2>1, <2>2, CreateInv
  <2>3. CASE \E to \in {"RiskChecked", "Submitted", "Timeout", "Unknown"} :
               Transition(o, to, key, stamp)
    BY <2>1, <2>3, TransitionInv
  <2>4. CASE RequestCancel(o, key, stamp)
    BY <2>1, <2>4, RequestCancelInv
  <2>5. QED
    BY <1>1, <2>2, <2>3, <2>4
       DEF Local, MarkRiskChecked, MarkSubmitted, MarkTimeout, MarkUnknown
<1>2. ASSUME NEW o \in Orders, NEW key \in Keys \cup {EmptyKey},
             NEW stamp \in Stamps, Reported(o, key, stamp)
      PROVE  IInv' /\ Step(o)
  <2>1. Event(o, key, stamp)
    BY DEF Event
  <2>2. CASE \E accepted, hasExternalId \in BOOLEAN :
               ApplyAcknowledgement(o, key, stamp, accepted, hasExternalId)
    BY <2>1, <2>2, TransitionInv DEF ApplyAcknowledgement
  <2>3. CASE \E cumulative, remaining \in Amounts :
               ApplyExecution(o, key, stamp, cumulative, remaining)
    BY <2>1, <2>3, ExecutionInv
  <2>4. CASE \E disposition \in Dispositions :
               ApplyCancelResult(o, key, stamp, disposition)
    BY <2>1, <2>4, CancelResultInv
  <2>5. CASE \E resolved \in State, cumulative, remaining \in Amounts :
               ApplyReconciliation(o, key, stamp, resolved, cumulative, remaining)
    BY <2>1, <2>5, ReconciliationInv
  <2>6. QED
    BY <1>2, <2>2, <2>3, <2>4, <2>5 DEF Reported
<1>3. CASE UNCHANGED vars
  BY <1>3 DEF vars, IInv, TypeOK
<1>4. QED
  BY <1>1, <1>2, <1>3 DEF Next

-----------------------------------------------------------------------------
(***************************************************************************)
(* The audit histories.                                                    *)
(***************************************************************************)

Early == {Absent, "Created", "RiskChecked"}

(* The first three entries of a history, and how far a record that is not  *)
(* submitted yet has come along them.                                      *)
PathInv(rec) ==
  LET n == Len(rec.audit) IN
  /\ rec.state = Absent => n = 0
  /\ rec.state = "Created" => n = 1
  /\ rec.state = "RiskChecked" => n = 2
  /\ rec.state \notin Early => n >= 3
  /\ n >= 1 => rec.audit[1].state = "Created"
  /\ n >= 2 => rec.audit[2].state = "RiskChecked"
  /\ n >= 3 => rec.audit[3].state = "Submitted"
  /\ n >= 1 => rec.audit[n].state = rec.state

(* Every applied key is in a history, every key of a history is applied,   *)
(* and no key is in two places.                                            *)
KeysInv ==
  /\ \A o \in Orders : \A i \in 1 .. Len(records[o].audit) :
       records[o].audit[i].key \in appliedKeys
  /\ \A key \in appliedKeys : \E o \in Orders :
       \E i \in 1 .. Len(records[o].audit) : records[o].audit[i].key = key
  /\ \A o, p \in Orders :
       \A i \in 1 .. Len(records[o].audit), j \in 1 .. Len(records[p].audit) :
         records[o].audit[i].key = records[p].audit[j].key => o = p /\ i = j

AuditInv == KeysInv /\ \A o \in Orders : PathInv(records[o])

(* A state follows another on the way to Submitted, or both are past it.   *)
Follows(from, to) ==
  \/ from = Absent /\ to = "Created"
  \/ from = "Created" /\ to = "RiskChecked"
  \/ from = "RiskChecked" /\ to = "Submitted"
  \/ from \notin Early /\ to \notin Early

(* What every handler does to the histories: it appends one entry, with    *)
(* the state it leaves the order in and a key that was never applied.      *)
Recorded(o, key) ==
  /\ key \in Keys \ appliedKeys
  /\ appliedKeys' = appliedKeys \cup {key}
  /\ \A p \in Orders \ {o} : records'[p] = records[p]
  /\ records'[o].audit =
       Append(records[o].audit, [state |-> records'[o].state, key |-> key])
  /\ Follows(records[o].state, records'[o].state)

LEMMA CommitRecords ==
  ASSUME TypeOK,
         NEW o, NEW key, NEW stamp, Event(o, key, stamp), key # EmptyKey,
         key \notin appliedKeys,
         NEW changed \in Record, changed.audit = records[o].audit,
         Follows(records[o].state, changed.state),
         Commit(o, key, stamp, changed)
  PROVE  Recorded(o, key)
<1> DEFINE entry == [state |-> changed.state, key |-> key]
           new == [changed EXCEPT !.stamp = stamp, !.audit = Append(@, entry)]
<1>1. key \in Keys /\ o \in Orders
  BY DEF Event
<1>2. records' = [records EXCEPT ![o] = new] /\ appliedKeys' = appliedKeys \cup {key}
  BY DEF Commit
<1>3. new.state = changed.state /\ new.audit = Append(changed.audit, entry)
  BY DEF Record
<1>4. records'[o] = new /\ \A p \in Orders \ {o} : records'[p] = records[p]
  BY <1>1, <1>2 DEF TypeOK
<1>5. QED
  BY <1>1, <1>2, <1>3, <1>4 DEF Recorded

LEMMA TransitionRecords ==
  ASSUME IInv,
         NEW o, NEW key, NEW stamp, Event(o, key, stamp),
         NEW to \in {"RiskChecked", "Submitted", "Accepted", "Rejected",
                     "Timeout", "Unknown"},
         Transition(o, to, key, stamp)
  PROVE  Recorded(o, key)
<1> DEFINE changed == [records[o] EXCEPT !.state = to]
<1>1. records[o] \in Record
  BY DEF Event, IInv, TypeOK
<1>2. /\ key # EmptyKey /\ key \notin appliedKeys
      /\ CanTransition(records[o].state, to)
      /\ Commit(o, key, stamp, changed)
  BY DEF Transition, CanMove, Admissible
<1>3. changed \in Record /\ changed.audit = records[o].audit /\ changed.state = to
  BY <1>1 DEF Record, State, Open, Terminal
<1>4. Follows(records[o].state, to)
  BY <1>2 DEF Follows, Early, CanTransition, Sources, Absent
<1>5. QED
  BY <1>2, <1>3, <1>4, CommitRecords DEF IInv

LEMMA CreateRecords ==
  ASSUME IInv, AuditInv,
         NEW o, NEW key, NEW stamp, Event(o, key, stamp),
         NEW q \in 0 .. MaxQuantity, Create(o, key, stamp, q)
  PROVE  Recorded(o, key)
<1> DEFINE changed == Blank("Created", q)
<1>1. /\ key # EmptyKey /\ key \notin appliedKeys /\ q > 0
      /\ records[o].state = Absent
      /\ Commit(o, key, stamp, changed)
  BY DEF Create, CanCreate, Known
<1>2. changed \in Record /\ changed.audit = <<>> /\ changed.state = "Created"
  BY <1>1, BlankRecord DEF Blank
<1>3. records[o].audit = <<>>
  <2>1. Len(records[o].audit) = 0
    BY <1>1 DEF Event, AuditInv, PathInv
  <2>2. records[o].audit \in Seq([state : State, key : Keys])
    BY DEF Event, IInv, TypeOK, Record
  <2>3. QED
    BY <2>1, <2>2
<1>4. QED
  BY <1>1, <1>2, <1>3, CommitRecords DEF IInv, Follows

LEMMA ReportRecords ==
  ASSUME IInv,
         NEW o, NEW key, NEW stamp, Event(o, key, stamp),
         \/ RequestCancel(o, key, stamp)
         \/ \E cumulative, remaining \in Amounts :
              \/ ApplyExecution(o, key, stamp, cumulative, remaining)
              \/ \E resolved \in State :
                   ApplyReconciliation(o, key, stamp, resolved, cumulative, remaining)
         \/ \E disposition \in Dispositions :
              ApplyCancelResult(o, key, stamp, disposition)
  PROVE  Recorded(o, key)
<1>1. records[o] \in Record /\ RecordInv(records[o])
  BY DEF Event, IInv, TypeOK
<1>2. CASE RequestCancel(o, key, stamp)
  <2> DEFINE changed == [records[o] EXCEPT !.preCancel = records[o].state,
                                           !.state = "CancelRequested"]
  <2>1. /\ key # EmptyKey /\ key \notin appliedKeys
        /\ records[o].state \in {"Accepted", "PartiallyFilled"}
        /\ Commit(o, key, stamp, changed)
    BY <1>2 DEF RequestCancel, CanMove, Admissible, CanTransition, Sources
  <2>2. /\ changed \in Record /\ changed.audit = records[o].audit
        /\ changed.state = "CancelRequested"
    BY <1>1, <2>1 DEF Record, State, Open, Terminal
  <2>3. QED
    BY <2>1, <2>2, CommitRecords DEF IInv, Follows, Early, Absent
<1>3. ASSUME NEW cumulative \in Amounts, NEW remaining \in Amounts,
             ApplyExecution(o, key, stamp, cumulative, remaining)
      PROVE  Recorded(o, key)
  <2> DEFINE changed == [records[o] EXCEPT !.state = FillState(remaining),
                                           !.filled = cumulative,
                                           !.remaining = remaining]
  <2>1. /\ key # EmptyKey /\ key \notin appliedKeys
        /\ ValidQuantities(records[o], cumulative, remaining)
        /\ CanTransition(records[o].state, FillState(remaining))
        /\ Commit(o, key, stamp, changed)
    BY <1>3 DEF ApplyExecution, CanExecute, CanMove, Admissible
  <2>2. cumulative \in 0 .. MaxQuantity /\ remaining \in 0 .. MaxQuantity
    BY <1>1, <2>1, QuantityAssumption DEF ValidQuantities, Amounts, Record
  <2>3. /\ changed \in Record /\ changed.audit = records[o].audit
        /\ changed.state = FillState(remaining)
    BY <1>1, <2>2 DEF FillState, Record, State, Open, Terminal
  <2>4. Follows(records[o].state, FillState(remaining))
    BY <2>1 DEF FillState, Follows, Early, CanTransition, Sources, Absent
  <2>5. QED
    BY <2>1, <2>3, <2>4, CommitRecords DEF IInv
<1>4. ASSUME NEW disposition \in Dispositions,
             ApplyCancelResult(o, key, stamp, disposition)
      PROVE  Recorded(o, key)
  <2> DEFINE next == AfterCancel(records[o], disposition)
             changed == [records[o] EXCEPT !.state = next]
  <2>1. /\ key # EmptyKey /\ key \notin appliedKeys
        /\ records[o].state = "CancelRequested"
        /\ Commit(o, key, stamp, changed)
    BY <1>4 DEF ApplyCancelResult, CanSettleCancel, Admissible
  <2>2. next \in State /\ next \notin Early
    BY <1>1, <2>1 DEF RecordInv, AfterCancel, Dispositions, State, Open, Terminal,
                      Early, Absent
  <2>3. changed \in Record /\ changed.audit = records[o].audit /\ changed.state = next
    BY <1>1, <2>2 DEF Record
  <2>4. QED
    BY <2>1, <2>2, <2>3, CommitRecords DEF IInv, Follows, Early, Absent
<1>5. ASSUME NEW cumulative \in Amounts, NEW remaining \in Amounts, NEW resolved \in State,
             ApplyReconciliation(o, key, stamp, resolved, cumulative, remaining)
      PROVE  Recorded(o, key)
  <2> DEFINE changed == [records[o] EXCEPT !.state = "Reconciled",
                                           !.resolved = resolved,
                                           !.filled = cumulative,
                                           !.remaining = remaining]
  <2>1. /\ key # EmptyKey /\ key \notin appliedKeys
        /\ ValidQuantities(records[o], cumulative, remaining)
        /\ resolved \in Resolutions
        /\ CanTransition(records[o].state, "Reconciled")
        /\ Commit(o, key, stamp, changed)
    BY <1>5 DEF ApplyReconciliation, CanMove, Admissible
  <2>2. cumulative \in 0 .. MaxQuantity /\ remaining \in 0 .. MaxQuantity
    <3>1. records[o].quantity \in 0 .. MaxQuantity
      BY <1>1 DEF Record
    <3>2. cumulative \in Int /\ remaining \in Int
      BY <1>5, QuantityAssumption DEF Amounts
    <3>3. /\ cumulative >= 0 /\ remaining >= 0
          /\ cumulative + remaining = records[o].quantity
      BY <2>1 DEF ValidQuantities
    <3>4. QED
      BY <3>1, <3>2, <3>3, QuantityAssumption
  <2>3. /\ changed \in Record /\ changed.audit = records[o].audit
        /\ changed.state = "Reconciled"
    BY <1>1, <2>1, <2>2 DEF Record, State, Open, Terminal, Resolutions
  <2>4. Follows(records[o].state, "Reconciled")
    BY <2>1 DEF Follows, Early, CanTransition, Sources, Absent
  <2>5. QED
    BY <2>1, <2>3, <2>4, CommitRecords DEF IInv
<1>6. QED
  BY <1>2, <1>3, <1>4, <1>5

LEMMA StepRecords ==
  ASSUME IInv, AuditInv, [Next]_vars
  PROVE  (\E o \in Orders, key \in Keys : Recorded(o, key)) \/ UNCHANGED vars
<1>1. ASSUME NEW o \in Orders, NEW key \in Keys \cup {EmptyKey}, NEW stamp \in Stamps,
             Local(o, key, stamp) \/ Reported(o, key, stamp)
      PROVE  Recorded(o, key)
  <2>1. Event(o, key, stamp)
    BY DEF Event
  <2>2. CASE \E q \in Amounts \cap 0 .. MaxQuantity : Create(o, key, stamp, q)
    BY <2>1, <2>2, CreateRecords
  <2>3. CASE \E to \in {"RiskChecked", "Submitted", "Accepted", "Rejected", "Timeout",
                        "Unknown"} :
               Transition(o, to, key, stamp)
    BY <2>1, <2>3, TransitionRecords
  <2>4. CASE \/ RequestCancel(o, key, stamp)
             \/ \E cumulative, remaining \in Amounts :
                  \/ ApplyExecution(o, key, stamp, cumulative, remaining)
                  \/ \E resolved \in State :
                       ApplyReconciliation(o, key, stamp, resolved, cumulative, remaining)
             \/ \E disposition \in Dispositions :
                  ApplyCancelResult(o, key, stamp, disposition)
    BY <2>1, <2>4, ReportRecords
  <2>5. CASE \E accepted, hasExternalId \in BOOLEAN :
               ApplyAcknowledgement(o, key, stamp, accepted, hasExternalId)
    BY <2>3, <2>5 DEF ApplyAcknowledgement
  <2>6. CASE Local(o, key, stamp)
    BY <2>2, <2>3, <2>4, <2>6
       DEF Local, MarkRiskChecked, MarkSubmitted, MarkTimeout, MarkUnknown
  <2>7. CASE Reported(o, key, stamp)
    BY <2>4, <2>5, <2>7 DEF Reported
  <2>8. QED
    BY <1>1, <2>6, <2>7
<1>2. QED
  BY <1>1 DEF Next, Recorded

-----------------------------------------------------------------------------
(* Every behaviour of the ledger satisfies the inductive invariant.        *)
LEMMA Invariance == Spec => []IInv
<1>1. IInv /\ [Next]_vars => IInv'
  BY StepInv
<1>2. QED
  BY <1>1, InitInv, PTL DEF Spec

(* The records stay well typed under every sequence of events.             *)
THEOREM TypeCorrect == Spec => []TypeOK
<1>1. IInv => TypeOK
  BY DEF IInv
<1>2. QED
  BY <1>1, Invariance, PTL

(* Filled and remaining always add up to what was ordered, and nothing     *)
(* remains exactly when the order is Filled (OrderLifecycleStore's         *)
(* validQuantities, applyExecution and applyCancelResult together).        *)
THEOREM Conservation == Spec => []QuantitiesConserved
<1>1. IInv => QuantitiesConserved
  BY DEF IInv, RecordInv, QuantitiesConserved
<1>2. QED
  BY <1>1, Invariance, PTL

(* A rejected cancel puts the order back into a state that agrees with     *)
(* what was executed meanwhile (requestCancel, applyCancelResult).         *)
THEOREM CancelRestores == Spec => []CancelRestoresWorkingState
<1>1. IInv => CancelRestoresWorkingState
  BY DEF IInv, RecordInv, CancelRestoresWorkingState
<1>2. QED
  BY <1>1, Invariance, PTL

-----------------------------------------------------------------------------
LEMMA PathStep ==
  ASSUME IInv, AuditInv, IInv', NEW o \in Orders, NEW key, Recorded(o, key)
  PROVE  \A p \in Orders : PathInv(records'[p])
<1> DEFINE old == records[o].audit
           entry == [state |-> records'[o].state, key |-> key]
<1>1. /\ old \in Seq([state : State, key : Keys])
      /\ records'[o].audit = Append(old, entry)
  BY DEF IInv, TypeOK, Record, Recorded
<1>2. /\ Len(records'[o].audit) = Len(old) + 1
      /\ \A i \in 1 .. Len(old) : records'[o].audit[i] = old[i]
      /\ records'[o].audit[Len(old) + 1].state = records'[o].state
  BY <1>1
<1>3. Len(old) \in Nat /\ PathInv(records[o])
  BY <1>1 DEF AuditInv
<1>4. Follows(records[o].state, records'[o].state)
  BY DEF Recorded
<1>5. /\ Len(old) >= 1 => records'[o].audit[1] = old[1]
      /\ Len(old) >= 2 => records'[o].audit[2] = old[2]
      /\ Len(old) >= 3 => records'[o].audit[3] = old[3]
  <2>1. \A i \in {1, 2, 3} : Len(old) >= i => i \in 1 .. Len(old)
    BY <1>3
  <2>2. QED
    BY <1>2, <2>1
<1>6. PathInv(records'[o])
  <2> DEFINE n == Len(old)
             new == records'[o].audit
             state == records'[o].state
  <2>1. Len(new) = n + 1 /\ new[n + 1].state = state
    BY <1>2
  <2>2. CASE records[o].state = Absent /\ state = "Created"
    <3>1. n = 0
      BY <1>3, <2>2 DEF PathInv
    <3>2. QED
      BY <2>1, <2>2, <3>1 DEF PathInv, Early, Absent
  <2>3. CASE records[o].state = "Created" /\ state = "RiskChecked"
    <3>1. n = 1 /\ new[1].state = "Created"
      BY <1>3, <1>5, <2>3 DEF PathInv
    <3>2. QED
      BY <2>1, <2>3, <3>1 DEF PathInv, Early, Absent
  <2>4. CASE records[o].state = "RiskChecked" /\ state = "Submitted"
    <3>1. n = 2
      BY <1>3, <2>4 DEF PathInv
    <3>2. new[1].state = "Created" /\ new[2].state = "RiskChecked"
      BY <1>3, <1>5, <3>1 DEF PathInv
    <3>3. QED
      BY <2>1, <2>4, <3>1, <3>2 DEF PathInv, Early, Absent
  <2>5. CASE records[o].state \notin Early /\ state \notin Early
    <3>1. n >= 3
      BY <1>3, <2>5 DEF PathInv
    <3>2. /\ new[1].state = "Created" /\ new[2].state = "RiskChecked"
          /\ new[3].state = "Submitted"
      BY <1>3, <1>5, <3>1 DEF PathInv
    <3>3. QED
      BY <1>3, <2>1, <2>5, <3>1, <3>2 DEF PathInv, Early, Absent
  <2>6. QED
    BY <1>4, <2>2, <2>3, <2>4, <2>5 DEF Follows
<1>7. QED
  BY <1>6 DEF Recorded, AuditInv

LEMMA KeysStep ==
  ASSUME IInv, AuditInv, NEW o \in Orders, NEW key, Recorded(o, key)
  PROVE  KeysInv'
<1> DEFINE old == records[o].audit
           entry == [state |-> records'[o].state, key |-> key]
           n(p) == Len(records[p].audit)
<1>1. /\ old \in Seq([state : State, key : Keys])
      /\ records'[o].audit = Append(old, entry)
  BY DEF IInv, TypeOK, Record, Recorded
<1>2. /\ Len(records'[o].audit) = n(o) + 1
      /\ \A i \in 1 .. n(o) : records'[o].audit[i] = old[i]
      /\ records'[o].audit[n(o) + 1].key = key
      /\ n(o) \in Nat
  BY <1>1
<1>3. \A p \in Orders \ {o} : records'[p] = records[p]
  BY DEF Recorded
<1>4. KeysInv /\ key \notin appliedKeys /\ appliedKeys' = appliedKeys \cup {key}
  BY DEF AuditInv, Recorded
<1> DEFINE at(p, i) == records'[p].audit[i].key
           in(p) == 1 .. Len(records'[p].audit)
<1>5. ASSUME NEW p \in Orders, NEW i \in in(p)
      PROVE  \/ /\ p = o /\ i = n(o) + 1 /\ at(p, i) = key
             \/ /\ i \in 1 .. n(p) /\ at(p, i) = records[p].audit[i].key
                /\ at(p, i) \in appliedKeys
  <2>1. CASE p = o
    <3>1. i \in 1 .. n(o) \/ i = n(o) + 1
      BY <1>2, <2>1
    <3>2. QED
      BY <1>2, <1>4, <2>1, <3>1 DEF KeysInv
  <2>2. CASE p # o
    BY <1>3, <1>4, <2>2 DEF KeysInv
  <2>3. QED
    BY <2>1, <2>2
<1>6. ASSUME NEW p \in Orders, NEW i \in 1 .. n(p)
      PROVE  i \in in(p) /\ at(p, i) = records[p].audit[i].key
  <2>1. CASE p = o
    BY <1>2, <2>1
  <2>2. CASE p # o
    BY <1>3, <2>2
  <2>3. QED
    BY <2>1, <2>2
<1>7. \A p \in Orders : \A i \in in(p) : at(p, i) \in appliedKeys'
  BY <1>4, <1>5
<1>8. ASSUME NEW k \in appliedKeys'
      PROVE  \E p \in Orders : \E i \in in(p) : at(p, i) = k
  <2>1. CASE k = key
    <3>1. n(o) + 1 \in in(o) /\ at(o, n(o) + 1) = key
      BY <1>2
    <3>2. QED
      BY <2>1, <3>1
  <2>2. CASE k \in appliedKeys
    <3>1. PICK p \in Orders : \E i \in 1 .. n(p) : records[p].audit[i].key = k
      BY <1>4, <2>2 DEF KeysInv
    <3>2. PICK i \in 1 .. n(p) : records[p].audit[i].key = k
      BY <3>1
    <3>3. i \in in(p) /\ at(p, i) = k
      BY <1>6, <3>2
    <3>4. QED
      BY <3>3
  <2>3. QED
    BY <1>4, <2>1, <2>2
<1>9. ASSUME NEW p \in Orders, NEW q \in Orders, NEW i \in in(p), NEW j \in in(q),
             at(p, i) = at(q, j)
      PROVE  p = q /\ i = j
  <2>1. CASE at(p, i) = key
    <3>1. p = o /\ i = n(o) + 1
      BY <1>4, <1>5, <2>1
    <3>2. q = o /\ j = n(o) + 1
      BY <1>4, <1>5, <1>9, <2>1
    <3>3. QED
      BY <3>1, <3>2
  <2>2. CASE at(p, i) # key
    <3>1. i \in 1 .. n(p) /\ at(p, i) = records[p].audit[i].key
      BY <1>5, <2>2
    <3>2. j \in 1 .. n(q) /\ at(q, j) = records[q].audit[j].key
      BY <1>5, <1>9, <2>2
    <3>3. records[p].audit[i].key = records[q].audit[j].key
      BY <1>9, <3>1, <3>2
    <3>4. QED
      BY <1>4, <3>1, <3>2, <3>3 DEF KeysInv
  <2>3. QED
    BY <2>1, <2>2
<1>10. QED
  BY <1>7, <1>8, <1>9 DEF KeysInv

LEMMA AuditInit == Init => AuditInv
<1> SUFFICES ASSUME Init PROVE AuditInv
  OBVIOUS
<1>1. \A o \in Orders : records[o].state = Absent /\ records[o].audit = <<>>
  BY DEF Init, Blank
<1>2. QED
  BY <1>1 DEF Init, AuditInv, KeysInv, PathInv, Early, Absent

LEMMA AuditInvariance == Spec => []AuditInv
<1>1. ASSUME IInv, AuditInv, [Next]_vars PROVE AuditInv'
  <2>1. IInv'
    BY <1>1, StepInv
  <2>2. ASSUME NEW o \in Orders, NEW key, Recorded(o, key) PROVE AuditInv'
    BY <1>1, <2>1, <2>2, PathStep, KeysStep DEF AuditInv
  <2>3. CASE UNCHANGED vars
    BY <1>1, <2>3 DEF vars, AuditInv, KeysInv, PathInv
  <2>4. QED
    BY <1>1, <2>2, <2>3, StepRecords
<1>2. QED
  BY <1>1, AuditInit, Invariance, PTL DEF Spec

(* No order is executed, canceled, reconciled or even acknowledged whose   *)
(* history does not start Created, RiskChecked, Submitted (canTransition). *)
THEOREM RiskCheckedFirst == Spec => []ExposureWasRiskChecked
<1>1. ASSUME IInv, AuditInv PROVE ExposureWasRiskChecked
  <2> SUFFICES ASSUME NEW o \in Orders, records[o].state \notin Early
               PROVE  LET path == [i \in 1 .. Len(records[o].audit) |->
                                     records[o].audit[i].state]
                      IN /\ Len(path) >= 3
                         /\ SubSeq(path, 1, 3) = <<"Created", "RiskChecked", "Submitted">>
    BY DEF ExposureWasRiskChecked, Early
  <2> DEFINE n == Len(records[o].audit)
             path == [i \in 1 .. n |-> records[o].audit[i].state]
  <2>1. records[o].audit \in Seq([state : State, key : Keys])
    BY <1>1 DEF IInv, TypeOK, Record
  <2>2. n \in Nat /\ PathInv(records[o])
    BY <1>1, <2>1 DEF AuditInv
  <2>3. path \in Seq(State) /\ Len(path) = n
    <3>1. path \in [1 .. n -> State]
      <4>1. \A i \in 1 .. n : records[o].audit[i].state \in State
        <5>1. \A i \in 1 .. n : records[o].audit[i] \in [state : State, key : Keys]
          BY <2>1, ElementOfSeq
        <5>2. QED
          BY <5>1
      <4>2. QED
        BY <4>1
    <3>2. QED
      BY <2>2, <3>1, SeqDef
  <2>4. /\ n >= 3 /\ path[1] = "Created" /\ path[2] = "RiskChecked"
        /\ path[3] = "Submitted"
    BY <2>2 DEF PathInv
  <2>5. SubSeq(path, 1, 3) = <<"Created", "RiskChecked", "Submitted">>
    <3> HIDE DEF path
    <3>1. \A i \in 1 .. 3 : path[i] \in State
      BY <2>2, <2>3, <2>4, ElementOfSeq
    <3>2. /\ SubSeq(path, 1, 3) \in Seq(State)
          /\ Len(SubSeq(path, 1, 3)) = 3
          /\ \A i \in 1 .. 3 : SubSeq(path, 1, 3)[i] = path[i]
      BY <3>1, SubSeqProperties
    <3> DEFINE start == SubSeq(path, 1, 3)
    <3>3. start \in [1 .. 3 -> State]
      BY <3>2, LenProperties
    <3>4. start[1] = "Created" /\ start[2] = "RiskChecked" /\ start[3] = "Submitted"
      BY <2>4, <3>2
    <3> HIDE DEF start
    <3>5. start = <<"Created", "RiskChecked", "Submitted">>
      BY <3>3, <3>4
    <3>6. QED
      BY <3>5 DEF start
  <2>6. QED
    BY <2>3, <2>4, <2>5
<1>2. QED
  BY <1>1, Invariance, AuditInvariance, PTL

(* An event counts once over all orders, however often and for whichever   *)
(* order it is delivered (m_appliedEventKeys and the audit histories).     *)
THEOREM AppliedOnce == Spec => []EventsAppliedOnce
<1>1. ASSUME IInv, AuditInv PROVE EventsAppliedOnce
  <2> DEFINE Entries == UNION {{<<o, i>> : i \in 1 .. Len(records[o].audit)} : o \in Orders}
             KeyAt(e) == records[e[1]].audit[e[2]].key
  <2>1. ASSUME NEW e \in Entries
        PROVE  /\ e = <<e[1], e[2]>> /\ e[1] \in Orders
               /\ e[2] \in 1 .. Len(records[e[1]].audit)
    OBVIOUS
  <2>2. ASSUME NEW o \in Orders, NEW i \in 1 .. Len(records[o].audit)
        PROVE  <<o, i>> \in Entries /\ KeyAt(<<o, i>>) = records[o].audit[i].key
    OBVIOUS
  <2>3. appliedKeys = {KeyAt(e) : e \in Entries}
    <3>1. ASSUME NEW key \in appliedKeys PROVE key \in {KeyAt(e) : e \in Entries}
      <4>1. PICK o \in Orders : \E i \in 1 .. Len(records[o].audit) :
                                  records[o].audit[i].key = key
        BY <1>1 DEF AuditInv, KeysInv
      <4>2. PICK i \in 1 .. Len(records[o].audit) : records[o].audit[i].key = key
        BY <4>1
      <4>3. QED
        BY <2>2, <4>2
    <3>2. ASSUME NEW e \in Entries PROVE KeyAt(e) \in appliedKeys
      BY <1>1, <2>1 DEF AuditInv, KeysInv
    <3>3. QED
      BY <3>1, <3>2
  <2>4. ASSUME NEW e \in Entries, NEW f \in Entries, KeyAt(e) = KeyAt(f)
        PROVE  e = f
    <3>1. PICK o \in Orders : \E i \in 1 .. Len(records[o].audit) : e = <<o, i>>
      BY <2>1
    <3>2. PICK i \in 1 .. Len(records[o].audit) : e = <<o, i>>
      BY <3>1
    <3>3. PICK p \in Orders : \E j \in 1 .. Len(records[p].audit) : f = <<p, j>>
      BY <2>1
    <3>4. PICK j \in 1 .. Len(records[p].audit) : f = <<p, j>>
      BY <3>3
    <3>5. records[o].audit[i].key = records[p].audit[j].key
      BY <2>4, <3>2, <3>4
    <3>6. o = p /\ i = j
      BY <1>1, <3>5 DEF AuditInv, KeysInv
    <3>7. QED
      BY <3>2, <3>4, <3>6
  <2>5. ASSUME NEW o \in Orders, Known(o)
        PROVE  /\ records[o].audit # <<>>
               /\ records[o].audit[Len(records[o].audit)].state = records[o].state
    <3>1. Len(records[o].audit) \in Nat
      BY <1>1 DEF IInv, TypeOK, Record
    <3>2. PathInv(records[o]) /\ records[o].state # Absent
      BY <1>1, <2>5 DEF AuditInv, Known
    <3> DEFINE rec == records[o]
    <3> HIDE DEF rec
    <3>3. PathInv(rec) /\ rec.state # Absent /\ Len(rec.audit) \in Nat
      BY <3>1, <3>2 DEF rec
    <3>4. Len(rec.audit) >= 1
      <4>1. Len(rec.audit) \in {1, 2} \/ Len(rec.audit) >= 3
        BY <3>3 DEF PathInv, Early
      <4>2. QED
        BY <3>3, <4>1
    <3>5. rec.audit # <<>> /\ rec.audit[Len(rec.audit)].state = rec.state
      BY <3>3, <3>4 DEF PathInv
    <3>6. QED
      BY <3>5 DEF rec
  <2>6. QED
    BY <2>3, <2>4, <2>5 DEF EventsAppliedOnce
<1>2. QED
  BY <1>1, Invariance, AuditInvariance, PTL

-----------------------------------------------------------------------------
LEMMA TerminalPhase ==
  ASSUME NEW state \in Terminal
  PROVE  PhaseOf(state) \in {"complete", "ended"}
  BY DEF PhaseOf, Terminal, Absent

(* No late, repeated or contradicting event changes a terminal order: no   *)
(* handler, applyCancelResult included, touches one.                       *)
THEOREM Finality == Spec => TerminalIsFinal
<1>1. ASSUME IInv, [Next]_vars
      PROVE  [\A o \in Orders : records[o].state \in Terminal
                                  => records'[o] = records[o]]_vars
  <2>1. ASSUME NEW p \in Orders, Step(p), NEW o \in Orders,
               records[o].state \in Terminal
        PROVE  records'[o] = records[o]
    BY <2>1, TerminalPhase DEF Step, RecordStep
  <2>2. QED
    BY <1>1, <2>1, StepInv
<1>2. QED
  BY <1>1, Invariance, PTL DEF Spec, TerminalIsFinal

(* The executed quantity never shrinks except by reconciliation.           *)
THEOREM Growth == Spec => FillsOnlyGrow
<1>1. ASSUME IInv, [Next]_vars
      PROVE  [\A o \in Orders : GrowsOrSettles(o)]_vars
  <2>1. ASSUME NEW p \in Orders, Step(p), NEW o \in Orders
        PROVE  GrowsOrSettles(o)
    <3>1. records[o].filled \in Nat /\ records[o].quantity \in Nat
      BY <1>1, QuantityAssumption DEF IInv, TypeOK, Record
    <3>2. CASE o = p
      BY <2>1, <3>1, <3>2 DEF Step, RecordStep, GrowsOrSettles
    <3>3. CASE o # p
      BY <2>1, <3>1, <3>3 DEF Step, GrowsOrSettles
    <3>4. QED
      BY <3>2, <3>3
  <2>2. QED
    BY <1>1, <2>1, StepInv
<1>2. QED
  BY <1>1, Invariance, PTL DEF Spec, FillsOnlyGrow

(* The ledger implements OrderPromise: every initial state is one of the   *)
(* promise, and every handler is a step of it or leaves it alone.          *)
THEOREM Refinement == Spec => PromiseKept
<1>1. Init => Promise!Init
  <2>1. /\ Blank(Absent, 0).state = Absent
        /\ Blank(Absent, 0).quantity = 0
        /\ Blank(Absent, 0).filled = 0
    BY DEF Blank
  <2>2. QED
    BY <2>1, Phases DEF Init, Promise!Init
<1>2. ASSUME IInv, [Next]_vars
      PROVE  [Promise!Next]_(Promise!vars)
  <2>1. CASE UNCHANGED vars
    BY <2>1 DEF vars, Promise!vars
  <2>2. ASSUME NEW o \in Orders, Step(o)
        PROVE  [Promise!Next]_(Promise!vars)
    <3> DEFINE rec == records[o]
               new == records'[o]
               phase == [p \in Orders |-> PhaseOf(records[p].state)]
               quantity == [p \in Orders |-> records[p].quantity]
               filled == [p \in Orders |-> records[p].filled]
    <3>1. /\ phase' = [phase EXCEPT ![o] = PhaseOf(new.state)]
          /\ quantity' = [quantity EXCEPT ![o] = new.quantity]
          /\ filled' = [filled EXCEPT ![o] = new.filled]
      BY <2>2 DEF Step
    <3>2. /\ phase[o] = PhaseOf(rec.state)
          /\ quantity[o] = rec.quantity
          /\ filled[o] = rec.filled
      OBVIOUS
    <3>3. RecordStep(rec, new)
      BY <2>2 DEF Step
    <3>4. ASSUME PhaseOf(new.state) = PhaseOf(rec.state),
                 new.quantity = rec.quantity, new.filled = rec.filled
          PROVE  UNCHANGED Promise!vars
      <4>1. \A p \in Orders :
              /\ PhaseOf(records'[p].state) = PhaseOf(records[p].state)
              /\ records'[p].quantity = records[p].quantity
              /\ records'[p].filled = records[p].filled
        BY <2>2, <3>4 DEF Step
      <4>2. phase' = phase /\ quantity' = quantity /\ filled' = filled
        BY <4>1
      <4>3. QED
        BY <4>2 DEF Promise!vars
    <3>5. CASE phase[o] = "none"
      <4>1. Promise!Place(o)
        BY <3>1, <3>2, <3>3, <3>5 DEF RecordStep, Promise!Place
      <4>2. QED
        BY <4>1 DEF Promise!Next
    <3>6. CASE phase[o] = "local"
      <4>1. CASE PhaseOf(new.state) = "local"
        BY <3>2, <3>3, <3>4, <3>6, <4>1 DEF RecordStep
      <4>2. CASE PhaseOf(new.state) = "working"
        <5>1. Promise!Release(o)
          BY <3>1, <3>2, <3>3, <3>6, <4>2 DEF RecordStep, Promise!Release
        <5>2. QED
          BY <5>1 DEF Promise!Next
      <4>3. QED
        BY <3>2, <3>3, <3>6, <4>1, <4>2 DEF RecordStep
    <3>7. CASE phase[o] = "working"
      <4>1. CASE PhaseOf(new.state) = "working" /\ new.filled = rec.filled
        BY <3>2, <3>3, <3>4, <3>7, <4>1, Phases DEF RecordStep
      <4>2. CASE new.state = "Reconciled" /\ new.filled \in 0 .. rec.quantity
        <5>1. Promise!Settle(o)
          <6>1. PhaseOf(new.state) = "ended" /\ new.quantity = rec.quantity
            BY <3>2, <3>3, <3>7, <4>2, Phases DEF RecordStep
          <6>2. quantity' = quantity
            BY <3>1, <3>2, <6>1
          <6>3. phase' = [phase EXCEPT ![o] = "ended"]
            BY <3>1, <6>1
          <6>4. \E f \in 0 .. quantity[o] : filled' = [filled EXCEPT ![o] = f]
            BY <3>1, <3>2, <4>2
          <6>5. QED
            BY <3>7, <6>2, <6>3, <6>4 DEF Promise!Settle
        <5>2. QED
          BY <5>1 DEF Promise!Next
      <4>3. CASE PhaseOf(new.state) = "ended" /\ rec.filled < rec.quantity
                 /\ new.filled = rec.filled
        <5>1. Promise!End(o)
          BY <3>1, <3>2, <3>3, <3>7, <4>3 DEF RecordStep, Promise!End
        <5>2. QED
          BY <5>1 DEF Promise!Next
      <4>4. CASE /\ new.filled \in rec.filled .. rec.quantity
                 /\ PhaseOf(new.state) = IF new.filled = rec.quantity
                                          THEN "complete" ELSE "working"
        <5>1. Promise!Execute(o)
          BY <3>1, <3>2, <3>3, <3>7, <4>4, Phases DEF RecordStep, Promise!Execute
        <5>2. QED
          BY <5>1 DEF Promise!Next
      <4>5. QED
        BY <3>2, <3>3, <3>7, <4>1, <4>2, <4>3, <4>4 DEF RecordStep
    <3>8. QED
      BY <3>2, <3>3, <3>5, <3>6, <3>7 DEF RecordStep
  <2>3. QED
    BY <1>2, <2>1, <2>2, StepInv
<1>3. QED
  BY <1>1, <1>2, Invariance, PTL DEF Spec, PromiseKept, Promise!Spec

=============================================================================

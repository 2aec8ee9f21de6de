------------------------ MODULE ExecutionPath_proofs ------------------------
(***************************************************************************)
(* Proofs about ExecutionPath, for any number of engines, orders, fills    *)
(* and lots.  The ledger's own theorems are taken over from                *)
(* OrderLifecycle_proofs: every step of the path is a step of the ledger.  *)
(***************************************************************************)
EXTENDS ExecutionPath, FiniteSetTheorems, TLAPS

Proved == INSTANCE OrderLifecycle_proofs WITH
  Orders <- Ids, Keys <- EventKeys, EmptyKey <- Key("", 0, 0),
  Stamps <- EventStamps, MaxQuantity <- InitialCash

(***************************************************************************)
(* The inductive invariant.                                                *)
(***************************************************************************)

(* The breakers: while they are closed nothing has slipped, and an entry   *)
(* that has passed the final risk check was cleared while they were.       *)
SlipInv ==
  /\ slipped <= 1
  /\ ~halted /\ ~closeOnly => slipped = 0
  /\ call.stage \in {"routed", "entering"} /\ call.side = "Buy" => slipped = 0

(* The kinds of keys an order in this state has still to use.              *)
Ahead(state) ==
  CASE state = "Absent"      -> {"execution", "gateway-risk", "gateway-submit", "ack",
                                 "dispatch-failed"}
    [] state = "Created"     -> {"gateway-risk", "gateway-submit", "ack", "dispatch-failed"}
    [] state = "RiskChecked" -> {"gateway-submit", "ack", "dispatch-failed"}
    [] state = "Submitted"   -> {"ack", "dispatch-failed"}
    [] OTHER                 -> {}

KeysInv ==
  \A o \in Ids : \A kind \in Ahead(State(o)) : Key(kind, o, 1) \notin appliedKeys

(* Where the trading thread is while an order is in this state.            *)
StagesOf(state) ==
  CASE state = "Created"     -> {"clearing"}
    [] state = "RiskChecked" -> {"submitting"}
    [] state = "Submitted"   -> {"handing", "refused", "answering"}
    [] OTHER                 -> {}

Unsettled == {"Created", "RiskChecked", "Submitted"}

(* The sequence number of the last event of an unsettled order.            *)
SequenceOf(state) ==
  CASE state = "Created" -> 1 [] state = "RiskChecked" -> 2 [] OTHER -> 3

DispatchInv ==
  /\ \A o \in Ids : State(o) \in Unsettled =>
       /\ call.stage \in StagesOf(State(o)) /\ call.order = o
       /\ records[o].stamp = At(SequenceOf(State(o)))
  /\ \A state \in Unsettled :
       call.stage \in StagesOf(state) => State(call.order) = state

(* The engine of this order has yet to see its last report.                *)
Awaited(o) ==
  \/ State(o) # "Filled"
  \/ /\ call.stage = "observing" /\ call.order = o
     /\ requests[o].engine \in call.observers

(* What the engine of an order remembers of it.                            *)
BookInv(o) ==
  /\ State(o) = "Absent" => /\ requests[o] = NoRequest /\ booked[o] = 0
                            /\ \A e \in Engines : applied[e][o] = 0
  /\ State(o) # "Absent" =>
       /\ requests[o].engine \in Engines /\ requests[o].side \in {"Buy", "Sell"}
       /\ Awaited(o) => applied[requests[o].engine][o] = booked[o]

(* An execution on its way to the engines is the last the ledger applied.  *)
ObserveInv ==
  call.stage = "observing" =>
    /\ State(call.order) = IF call.remaining = 0 THEN "Filled" ELSE "PartiallyFilled"
    /\ records[call.order].filled = call.cumulative

BooksInv == FillsBookedOnce /\ ObserveInv /\ \A o \in Ids : BookInv(o)

PathInv ==
  /\ TypeOK /\ Proved!IInv
  /\ KeysInv /\ DispatchInv /\ SlipInv /\ BooksInv

(* With one engine: no order has an id that is still to be handed out.     *)
FreshInv ==
  \A e \in Engines :
    /\ \A o \in Ids : o >= nextId[e] => State(o) = "Absent"
    /\ call.stage \in {"routed", "entering"} =>
         State(call.order) = "Absent" /\ call.order < nextId[e]

-----------------------------------------------------------------------------
(***************************************************************************)
(* Counting lots.                                                          *)
(***************************************************************************)
LEMMA LotsFinite ==
  ASSUME NEW S, IsFiniteSet(S), NEW n \in Nat, NEW f, \A x \in S : f[x] \in 0 .. n
  PROVE  IsFiniteSet(Lots(f, S)) /\ Cardinality(Lots(f, S)) \in Nat
<1>1. IsFiniteSet(S \X (1 .. n))
  <2>1. IsFiniteSet(1 .. n)
    BY FS_Interval
  <2>2. QED
    BY <2>1, FS_Product
<1>2. Lots(f, S) \subseteq S \X (1 .. n)
  BY DEF Lots
<1>3. QED
  BY <1>1, <1>2, FS_Subset, FS_CardinalityType

(* The lots of one member, and those of the others.                        *)
LEMMA LotsSplit ==
  ASSUME NEW S, IsFiniteSet(S), NEW n \in Nat, NEW f, \A x \in S : f[x] \in 0 .. n,
         NEW x \in S
  PROVE  Cardinality(Lots(f, S)) = Cardinality(Lots(f, S \ {x})) + f[x]
<1> DEFINE own == {x} \X (1 .. f[x])
           rest == Lots(f, S \ {x})
<1>1. IsFiniteSet(own) /\ Cardinality(own) = f[x]
  <2>1. IsFiniteSet({x}) /\ Cardinality({x}) = 1
    BY FS_Singleton
  <2>2. IsFiniteSet(1 .. f[x]) /\ Cardinality(1 .. f[x]) = f[x]
    <3>1. f[x] \in Nat
      OBVIOUS
    <3>2. \A m \in Nat : IsFiniteSet(1 .. m) /\ Cardinality(1 .. m) = m
      BY FS_Interval
    <3>3. QED
      BY <3>1, <3>2
  <2>3. ASSUME NEW T, IsFiniteSet(T)
        PROVE  /\ IsFiniteSet({x} \X T)
               /\ Cardinality({x} \X T) = Cardinality({x}) * Cardinality(T)
    BY <2>1, <2>3, FS_Product
  <2>4. f[x] \in Nat /\ 1 * f[x] = f[x]
    OBVIOUS
  <2>5. IsFiniteSet(own) /\ Cardinality(own) = Cardinality({x}) * Cardinality(1 .. f[x])
    BY <2>2, <2>3
  <2>6. QED
    BY <2>1, <2>2, <2>4, <2>5
<1>2. IsFiniteSet(rest) /\ Cardinality(rest) \in Nat
  BY LotsFinite, FS_RemoveElement
<1>3. Lots(f, S) = rest \cup own
  BY DEF Lots
<1>4. rest \cap own = {}
  BY DEF Lots
<1>5. Cardinality(rest \cap own) = 0
  BY <1>4, FS_EmptySet
<1> HIDE DEF own, rest
<1>6. Cardinality(rest \cup own) = Cardinality(rest) + Cardinality(own) - Cardinality(rest \cap own)
  BY <1>1, <1>2, FS_Union
<1>7. QED
  BY <1>1, <1>2, <1>3, <1>5, <1>6 DEF rest

LEMMA LotsAgree ==
  ASSUME NEW S, NEW f, NEW g, \A x \in S : f[x] = g[x]
  PROVE  Lots(f, S) = Lots(g, S)
  BY DEF Lots

(* Changing the count of one member.                                       *)
LEMMA LotsChange ==
  ASSUME NEW S, IsFiniteSet(S), NEW n \in Nat, NEW f, NEW g,
         \A x \in S : f[x] \in 0 .. n /\ g[x] \in 0 .. n,
         NEW x \in S, \A y \in S \ {x} : f[y] = g[y]
  PROVE  Cardinality(Lots(g, S)) = Cardinality(Lots(f, S)) - f[x] + g[x]
<1>1. Cardinality(Lots(f, S)) = Cardinality(Lots(f, S \ {x})) + f[x]
  BY LotsSplit
<1>2. Cardinality(Lots(g, S)) = Cardinality(Lots(g, S \ {x})) + g[x]
  BY LotsSplit
<1>3. Lots(f, S \ {x}) = Lots(g, S \ {x})
  BY LotsAgree
<1>4. Cardinality(Lots(f, S \ {x})) \in Nat
  BY LotsFinite, FS_RemoveElement
<1>5. QED
  BY <1>1, <1>2, <1>3, <1>4

(* A member without lots does not count.                                   *)
LEMMA LotsAdd ==
  ASSUME NEW S, NEW f, NEW x, f[x] = 0
  PROVE  Lots(f, S \cup {x}) = Lots(f, S)
  BY DEF Lots

LEMMA LotsBound ==
  ASSUME NEW S, IsFiniteSet(S), NEW n \in Nat, NEW f, \A x \in S : f[x] \in 0 .. n,
         NEW x \in S
  PROVE  f[x] <= Cardinality(Lots(f, S))
<1>1. Cardinality(Lots(f, S \ {x})) \in Nat
  BY LotsFinite, FS_RemoveElement
<1>2. QED
  BY <1>1, LotsSplit

-----------------------------------------------------------------------------
(***************************************************************************)
(* The ledger: the handlers of the instance in ExecutionPath are those the *)
(* theorems of OrderLifecycle_proofs are about.                            *)
(***************************************************************************)
LEMMA LedgerAssumptions ==
  Proved!KeyAssumption /\ Proved!StampAssumption /\ Proved!QuantityAssumption
<1>1. Proved!KeyAssumption
  BY DEF Proved!KeyAssumption, EventKeys, Key
<1>2. Proved!StampAssumption
  BY BoundAssumption DEF Proved!StampAssumption, EventStamps, At
<1>3. Proved!QuantityAssumption
  BY BoundAssumption DEF Proved!QuantityAssumption
<1>4. QED
  BY <1>1, <1>2, <1>3

LEMMA SameTypes == Proved!TypeOK = Ledger!TypeOK /\ Proved!Init = Ledger!Init
<1>1. Proved!TypeOK = Ledger!TypeOK
  BY Zenon DEF Proved!TypeOK, Ledger!TypeOK, Proved!Record, Ledger!Record, Proved!Stamp,
    Ledger!Stamp, Proved!State, Ledger!State, Proved!Open, Ledger!Open, Proved!Terminal,
    Ledger!Terminal, Proved!Absent, Ledger!Absent
<1>2. Proved!Init = Ledger!Init
  BY Zenon DEF Proved!Init, Ledger!Init, Proved!Blank, Ledger!Blank, Proved!Absent, Ledger!Absent
<1>3. QED
  BY <1>1, <1>2

LEMMA SameMoves ==
  ASSUME NEW o, NEW to, NEW key, NEW stamp
  PROVE  /\ Proved!CanMove(o, to, key, stamp) = Ledger!CanMove(o, to, key, stamp)
         /\ Proved!Transition(o, to, key, stamp) = Ledger!Transition(o, to, key, stamp)
<1>1. Proved!CanMove(o, to, key, stamp) = Ledger!CanMove(o, to, key, stamp)
  BY Zenon DEF Proved!CanMove, Ledger!CanMove, Proved!Admissible, Ledger!Admissible,
    Proved!Known, Ledger!Known, Proved!Absent, Ledger!Absent, Proved!IsOlder, Ledger!IsOlder,
    Proved!CanTransition, Ledger!CanTransition, Proved!Terminal, Ledger!Terminal,
    Proved!Sources, Ledger!Sources
<1>2. QED
  BY <1>1, Zenon DEF Proved!Transition, Ledger!Transition, Proved!Commit, Ledger!Commit

LEMMA SameHandlers ==
  ASSUME NEW o, NEW key, NEW stamp
  PROVE  /\ \A q : Ledger!Create(o, key, stamp, q) => Proved!Create(o, key, stamp, q)
         /\ \A c, r : Ledger!ApplyExecution(o, key, stamp, c, r)
                        => Proved!ApplyExecution(o, key, stamp, c, r)
         /\ Ledger!RequestCancel(o, key, stamp) => Proved!RequestCancel(o, key, stamp)
         /\ \A d : Ledger!ApplyCancelResult(o, key, stamp, d)
                     => Proved!ApplyCancelResult(o, key, stamp, d)
<1>1. \A to : Proved!CanMove(o, to, key, stamp) = Ledger!CanMove(o, to, key, stamp)
  BY SameMoves
<1>2. \A q : Ledger!Create(o, key, stamp, q) => Proved!Create(o, key, stamp, q)
  BY Zenon DEF Proved!Create, Ledger!Create, Proved!CanCreate, Ledger!CanCreate, Proved!Known,
    Ledger!Known, Proved!Absent, Ledger!Absent, Proved!Blank, Ledger!Blank,
    Proved!Commit, Ledger!Commit
<1>3. \A c, r : Ledger!ApplyExecution(o, key, stamp, c, r)
                  => Proved!ApplyExecution(o, key, stamp, c, r)
  BY <1>1, Zenon DEF Proved!ApplyExecution, Ledger!ApplyExecution, Proved!CanExecute,
    Ledger!CanExecute, Proved!ValidQuantities, Ledger!ValidQuantities,
    Proved!FillState, Ledger!FillState, Proved!Commit, Ledger!Commit
<1>4. Ledger!RequestCancel(o, key, stamp) => Proved!RequestCancel(o, key, stamp)
  BY <1>1, Zenon DEF Proved!RequestCancel, Ledger!RequestCancel, Proved!Commit, Ledger!Commit
<1>5. \A d : Ledger!ApplyCancelResult(o, key, stamp, d)
               => Proved!ApplyCancelResult(o, key, stamp, d)
  BY Zenon DEF Proved!ApplyCancelResult, Ledger!ApplyCancelResult, Proved!CanSettleCancel,
    Ledger!CanSettleCancel, Proved!Admissible, Ledger!Admissible, Proved!Known, Ledger!Known,
    Proved!Absent, Ledger!Absent, Proved!IsOlder, Ledger!IsOlder, Proved!AfterCancel,
    Ledger!AfterCancel, Proved!Commit, Ledger!Commit
<1>6. QED
  BY <1>2, <1>3, <1>4, <1>5

(* An event the path can deliver.                                          *)
Event(o, key, stamp) == o \in Ids /\ key \in EventKeys /\ stamp \in EventStamps

LEMMA TransitionStep ==
  ASSUME Proved!IInv, NEW o, NEW key, NEW stamp, Proved!Event(o, key, stamp),
         NEW to \in {"RiskChecked", "Submitted", "Accepted", "Rejected", "Timeout", "Unknown"},
         Proved!Transition(o, to, key, stamp)
  PROVE  Proved!IInv'
  BY Proved!TransitionInv, LedgerAssumptions

LEMMA EventStep ==
  ASSUME Proved!IInv, NEW o, NEW key, NEW stamp, Event(o, key, stamp),
         \/ \E q \in 1 .. InitialCash : Ledger!Create(o, key, stamp, q)
         \/ \E to \in {"RiskChecked", "Submitted", "Accepted", "Rejected", "Unknown"} :
              Ledger!Transition(o, to, key, stamp)
         \/ \E c, r \in 0 .. InitialCash : Ledger!ApplyExecution(o, key, stamp, c, r)
         \/ Ledger!RequestCancel(o, key, stamp)
         \/ \E d \in {"Accepted", "AlreadyFilled"} : Ledger!ApplyCancelResult(o, key, stamp, d)
  PROVE  Proved!IInv'
<1>1. Proved!Event(o, key, stamp)
  BY DEF Event, Proved!Event
<1>2. ASSUME NEW q \in 1 .. InitialCash, Ledger!Create(o, key, stamp, q)
      PROVE  Proved!IInv'
  <2>1. Proved!Create(o, key, stamp, q) /\ q \in 0 .. InitialCash
    BY <1>2, SameHandlers
  <2>2. QED
    BY <1>1, <2>1, Proved!CreateInv, LedgerAssumptions
<1>3. ASSUME NEW to \in {"RiskChecked", "Submitted", "Accepted", "Rejected", "Unknown"},
             Ledger!Transition(o, to, key, stamp)
      PROVE  Proved!IInv'
  <2>1. /\ Proved!Transition(o, to, key, stamp)
        /\ to \in {"RiskChecked", "Submitted", "Accepted", "Rejected", "Timeout", "Unknown"}
    BY <1>3, SameMoves
  <2>2. QED
    BY <1>1, <2>1, TransitionStep
<1>4. ASSUME NEW c \in 0 .. InitialCash, NEW r \in 0 .. InitialCash,
             Ledger!ApplyExecution(o, key, stamp, c, r)
      PROVE  Proved!IInv'
  <2>1. Proved!ApplyExecution(o, key, stamp, c, r)
    BY <1>4, SameHandlers
  <2>2. c \in Proved!Amounts /\ r \in Proved!Amounts
    BY BoundAssumption DEF Proved!Amounts
  <2>3. QED
    BY <1>1, <2>1, <2>2, Proved!ExecutionInv, LedgerAssumptions
<1>5. ASSUME Ledger!RequestCancel(o, key, stamp) PROVE Proved!IInv'
  <2>1. Proved!RequestCancel(o, key, stamp)
    BY <1>5, SameHandlers
  <2>2. QED
    BY <1>1, <2>1, Proved!RequestCancelInv, LedgerAssumptions
<1>6. ASSUME NEW d \in {"Accepted", "AlreadyFilled"}, Ledger!ApplyCancelResult(o, key, stamp, d)
      PROVE  Proved!IInv'
  <2>1. Proved!ApplyCancelResult(o, key, stamp, d) /\ d \in Proved!Dispositions
    BY <1>6, SameHandlers DEF Proved!Dispositions
  <2>2. QED
    BY <1>1, <2>1, Proved!CancelResultInv, LedgerAssumptions
<1>7. QED
  BY <1>2, <1>3, <1>4, <1>5, <1>6

-----------------------------------------------------------------------------
(***************************************************************************)
(* What the handlers do to the part of a record the invariant speaks of.   *)
(***************************************************************************)
MovedTo(o, to, key, stamp, filled) ==
  /\ \A p \in Ids \ {o} : records'[p] = records[p]
  /\ records'[o].state = to /\ records'[o].stamp = stamp /\ records'[o].filled = filled
  /\ appliedKeys' = appliedKeys \cup {key}

LEMMA CommitMoves ==
  ASSUME Ledger!TypeOK, NEW o \in Ids, NEW key, NEW stamp, NEW changed \in Ledger!Record,
         Ledger!Commit(o, key, stamp, changed)
  PROVE  MovedTo(o, changed.state, key, stamp, changed.filled)
<1> DEFINE entry == [state |-> changed.state, key |-> key]
           audit == Append(changed.audit, entry)
           new == [changed EXCEPT !.stamp = stamp, !.audit = audit]
<1>1. records' = [records EXCEPT ![o] = new] /\ appliedKeys' = appliedKeys \cup {key}
  BY DEF Ledger!Commit
<1> HIDE DEF audit
<1>2. new.state = changed.state /\ new.stamp = stamp /\ new.filled = changed.filled
  BY DEF Ledger!Record
<1> HIDE DEF new
<1>3. QED
  BY <1>1, <1>2 DEF Ledger!TypeOK, MovedTo

LEMMA TransitionMoves ==
  ASSUME Ledger!TypeOK, NEW o \in Ids, NEW key, NEW stamp,
         NEW to \in {"RiskChecked", "Submitted", "Accepted", "Rejected", "Unknown"},
         Ledger!Transition(o, to, key, stamp)
  PROVE  /\ MovedTo(o, to, key, stamp, records[o].filled)
         /\ State(o) \in Ledger!Sources(to) /\ State(o) \notin {"Absent", "Filled"}
<1>1. records[o] \in Ledger!Record
  BY DEF Ledger!TypeOK
<1> DEFINE changed == [records[o] EXCEPT !.state = to]
<1>2. /\ changed \in Ledger!Record
      /\ changed.state = to /\ changed.filled = records[o].filled
  BY <1>1 DEF Ledger!Record, Ledger!State, Ledger!Open, Ledger!Terminal
<1>3. /\ Ledger!Commit(o, key, stamp, changed)
      /\ Ledger!CanTransition(records[o].state, to) /\ Ledger!Known(o)
  BY DEF Ledger!Transition, Ledger!CanMove, Ledger!Admissible
<1> HIDE DEF changed
<1>4. QED
  BY <1>2, <1>3, CommitMoves
     DEF Ledger!CanTransition, Ledger!Terminal, Ledger!Known, Ledger!Absent, State

LEMMA CreateMoves ==
  ASSUME Ledger!TypeOK, NEW o \in Ids, NEW key, NEW stamp, NEW q \in 1 .. InitialCash,
         Ledger!Create(o, key, stamp, q)
  PROVE  /\ MovedTo(o, "Created", key, stamp, 0)
         /\ State(o) = "Absent"
<1>1. Ledger!Blank("Created", q) \in Ledger!Record
  BY BoundAssumption DEF Ledger!Record, Ledger!Blank, Ledger!State, Ledger!Open,
                         Ledger!Terminal, Ledger!Stamp
<1>2. /\ Ledger!Blank("Created", q).state = "Created"
      /\ Ledger!Blank("Created", q).filled = 0
  BY DEF Ledger!Blank
<1>3. Ledger!Commit(o, key, stamp, Ledger!Blank("Created", q)) /\ ~Ledger!Known(o)
  BY DEF Ledger!Create, Ledger!CanCreate
<1>4. QED
  BY <1>1, <1>2, <1>3, CommitMoves DEF Ledger!Known, Ledger!Absent, State

LEMMA ExecutionMoves ==
  ASSUME Ledger!TypeOK, NEW o \in Ids, NEW key, NEW stamp,
         NEW c \in 0 .. InitialCash, NEW r \in 0 .. InitialCash,
         Ledger!ApplyExecution(o, key, stamp, c, r)
  PROVE  /\ MovedTo(o, IF r = 0 THEN "Filled" ELSE "PartiallyFilled", key, stamp, c)
         /\ c >= records[o].filled
         /\ State(o) \notin {"Absent", "Created", "RiskChecked", "Filled"}
<1>1. records[o] \in Ledger!Record
  BY DEF Ledger!TypeOK
<1> DEFINE to == IF r = 0 THEN "Filled" ELSE "PartiallyFilled"
           changed == [records[o] EXCEPT !.state = to, !.filled = c, !.remaining = r]
<1>2. /\ changed \in Ledger!Record
      /\ changed.state = to /\ changed.filled = c
  BY <1>1 DEF Ledger!Record, Ledger!State, Ledger!Open, Ledger!Terminal
<1>3. /\ Ledger!Commit(o, key, stamp, changed) /\ c >= records[o].filled
      /\ Ledger!CanTransition(records[o].state, to) /\ Ledger!Known(o)
  BY DEF Ledger!ApplyExecution, Ledger!CanExecute, Ledger!CanMove, Ledger!Admissible,
         Ledger!FillState
<1>4. Ledger!Sources(to) = {"Submitted", "Accepted", "PartiallyFilled", "CancelRequested",
                            "Timeout", "Unknown"}
  BY DEF Ledger!Sources
<1>5. MovedTo(o, to, key, stamp, c)
  <2> HIDE DEF changed, to
  <2>1. QED
    BY <1>2, <1>3, CommitMoves
<1>6. QED
  BY <1>3, <1>4, <1>5 DEF Ledger!CanTransition, Ledger!Terminal, State

LEMMA RequestCancelMoves ==
  ASSUME Ledger!TypeOK, NEW o \in Ids, NEW key, NEW stamp,
         Ledger!RequestCancel(o, key, stamp)
  PROVE  /\ MovedTo(o, "CancelRequested", key, stamp, records[o].filled)
         /\ State(o) \in {"Accepted", "PartiallyFilled"}
<1>1. records[o] \in Ledger!Record
  BY DEF Ledger!TypeOK
<1> DEFINE changed == [records[o] EXCEPT !.preCancel = records[o].state,
                                         !.state = "CancelRequested"]
<1>2. /\ Ledger!Commit(o, key, stamp, changed)
      /\ records[o].state \in {"Accepted", "PartiallyFilled"}
  BY DEF Ledger!RequestCancel, Ledger!CanMove, Ledger!CanTransition, Ledger!Sources
<1>3. /\ changed \in Ledger!Record
      /\ changed.state = "CancelRequested" /\ changed.filled = records[o].filled
  BY <1>1, <1>2 DEF Ledger!Record, Ledger!State, Ledger!Open, Ledger!Terminal
<1> HIDE DEF changed
<1>4. QED
  BY <1>2, <1>3, CommitMoves DEF State

LEMMA CancelResultMoves ==
  ASSUME Ledger!TypeOK, NEW o \in Ids, NEW key, NEW stamp,
         NEW d \in {"Accepted", "AlreadyFilled"},
         Ledger!ApplyCancelResult(o, key, stamp, d)
  PROVE  /\ MovedTo(o, IF d = "Accepted" THEN "Canceled" ELSE "Filled", key, stamp,
                    records[o].filled)
         /\ State(o) = "CancelRequested"
<1>1. records[o] \in Ledger!Record
  BY DEF Ledger!TypeOK
<1> DEFINE to == IF d = "Accepted" THEN "Canceled" ELSE "Filled"
           changed == [records[o] EXCEPT !.state = to]
<1>2. Ledger!AfterCancel(records[o], d) = to
  BY DEF Ledger!AfterCancel
<1>3. /\ Ledger!Commit(o, key, stamp, changed)
      /\ records[o].state = "CancelRequested"
  BY <1>2 DEF Ledger!ApplyCancelResult, Ledger!CanSettleCancel
<1>4. /\ changed \in Ledger!Record
      /\ changed.state = to /\ changed.filled = records[o].filled
  BY <1>1 DEF Ledger!Record, Ledger!State, Ledger!Open, Ledger!Terminal
<1> HIDE DEF changed
<1>5. QED
  BY <1>3, <1>4, CommitMoves DEF State

-----------------------------------------------------------------------------
(***************************************************************************)
(* The trading thread's stack.                                             *)
(***************************************************************************)
LEMMA CallForms ==
  ASSUME TypeOK
  PROVE  /\ call.stage \in DispatchStages =>
              /\ call = Dispatching(call.stage, call.engine, call.order, call.side, call.quantity)
              /\ call.engine \in Engines /\ call.order \in Ids
              /\ call.side \in {"Buy", "Sell"} /\ call.quantity \in 1 .. InitialCash
         /\ call.stage \in AnswerStages =>
              /\ call = [stage |-> call.stage, order |-> call.order,
                         accepted |-> call.accepted, filled |-> call.filled]
              /\ call.order \in Ids /\ call.accepted \in BOOLEAN
              /\ call.filled \in 0 .. InitialCash
         /\ call.stage = "observing" =>
              /\ call = Observing(call.order, call.cumulative, call.remaining, call.observers)
              /\ call.order \in Ids /\ call.cumulative \in 0 .. InitialCash
              /\ call.remaining \in 0 .. InitialCash /\ call.observers \subseteq Engines
         /\ call.stage \in CancelStages =>
              /\ call = Canceling(call.stage, call.order, call.sequence)
              /\ call.order \in Ids /\ call.sequence \in CancelSequences
<1> USE DEF DispatchStages, AnswerStages, CancelStages
<1>1. CASE call = Idle
  BY <1>1 DEF Idle
<1>2. CASE call \in [stage : DispatchStages, engine : Engines, order : Ids,
                     side : {"Buy", "Sell"}, quantity : 1 .. InitialCash]
  BY <1>2 DEF Dispatching
<1>3. CASE call \in [stage : AnswerStages, order : Ids, accepted : BOOLEAN,
                     filled : 0 .. InitialCash]
  BY <1>3
<1>4. CASE call \in [stage : {"observing"}, order : Ids, cumulative : 0 .. InitialCash,
                     remaining : 0 .. InitialCash, observers : SUBSET Engines]
  BY <1>4 DEF Observing
<1>5. CASE call \in [stage : CancelStages, order : Ids, sequence : CancelSequences]
  BY <1>5 DEF Canceling
<1>6. QED
  BY <1>1, <1>2, <1>3, <1>4, <1>5, Zenon DEF TypeOK, Calls

(* Going on to the next stage of a dispatch or of a cancel.                *)
LEMMA GotoDispatch ==
  ASSUME TypeOK, call.stage \in DispatchStages, NEW stage \in DispatchStages, Goto(stage)
  PROVE  /\ call' \in Calls
         /\ call'.stage = stage /\ call'.order = call.order /\ call'.side = call.side
<1>1. /\ call = Dispatching(call.stage, call.engine, call.order, call.side, call.quantity)
      /\ call.engine \in Engines /\ call.order \in Ids
      /\ call.side \in {"Buy", "Sell"} /\ call.quantity \in 1 .. InitialCash
  BY CallForms
<1>2. call' = Dispatching(stage, call.engine, call.order, call.side, call.quantity)
  BY <1>1 DEF Goto, Dispatching
<1>3. QED
  BY <1>1, <1>2 DEF Dispatching, Calls

LEMMA GotoCancel ==
  ASSUME TypeOK, call.stage \in CancelStages, NEW stage \in CancelStages, Goto(stage)
  PROVE  call' \in Calls /\ call'.stage = stage
<1>1. /\ call = Canceling(call.stage, call.order, call.sequence)
      /\ call.order \in Ids /\ call.sequence \in CancelSequences
  BY CallForms
<1>2. call' = Canceling(stage, call.order, call.sequence)
  BY <1>1 DEF Goto, Canceling
<1>3. QED
  BY <1>1, <1>2 DEF Canceling, Calls

LEMMA GotoAnswer ==
  ASSUME TypeOK, call.stage \in AnswerStages, NEW stage \in AnswerStages, Goto(stage)
  PROVE  call' \in Calls /\ call'.stage = stage
<1> DEFINE Answers == [stage : AnswerStages, order : Ids, accepted : BOOLEAN,
                       filled : 0 .. InitialCash]
<1>1. call \in Answers
  BY DEF TypeOK, Calls, AnswerStages, Idle, DispatchStages, CancelStages
<1>2. call' \in Answers /\ call'.stage = stage
  BY <1>1 DEF Goto
<1>3. QED
  BY <1>2, Zenon DEF Calls

LEMMA IdleCall == Idle \in Calls /\ Idle.stage = "idle"
  BY DEF Idle, Calls

(***************************************************************************)
(* Steps that leave a part of the invariant alone.                         *)
(***************************************************************************)
(* A step of this kind moves no order, or one that nobody has to book.     *)
Quiet ==
  \/ records' = records
  \/ \E o \in Ids : \E key, stamp, to :
       /\ MovedTo(o, to, key, stamp, records[o].filled)
       /\ State(o) \notin {"Absent", "Filled"} /\ to # "Absent"

LEMMA QuietBooks ==
  ASSUME TypeOK, BooksInv, Quiet, UNCHANGED <<requests, applied, booked, portfolio>>,
         \/ call.stage # "observing" /\ call'.stage # "observing"
         \/ UNCHANGED <<call, records>>
  PROVE  BooksInv'
<1>1. ASSUME NEW o \in Ids
      PROVE  /\ records'[o].filled = records[o].filled
             /\ \/ State(o)' = State(o)
                \/ State(o)' # "Absent" /\ State(o) \notin {"Absent", "Filled"}
  BY DEF Quiet, MovedTo, State
<1>2. ASSUME NEW e, NEW side PROVE BookedOf(e, side)' = BookedOf(e, side)
  <2>1. OrdersOf(e, side)' = OrdersOf(e, side)
    BY DEF OrdersOf
  <2>2. QED
    BY <2>1 DEF BookedOf
<1>3. FillsBookedOnce'
  BY <1>1, <1>2 DEF BooksInv, FillsBookedOnce, portfolio
<1>4. ObserveInv'
  BY DEF BooksInv, ObserveInv, State
<1>5. ASSUME NEW o \in Ids PROVE BookInv(o)'
  <2>1. BookInv(o)
    BY DEF BooksInv
  <2>2. Awaited(o)' => Awaited(o)
    BY <1>1 DEF Awaited, State
  <2>3. State(o)' = "Absent" <=> State(o) = "Absent"
    BY <1>1
  <2>4. QED
    BY <2>1, <2>2, <2>3 DEF BookInv
<1>6. QED
  BY <1>3, <1>4, <1>5 DEF BooksInv

(* Outside the risk checks a step can only open a breaker.                 *)
LEMMA QuietSlip ==
  ASSUME TypeOK, SlipInv, UNCHANGED <<slipped, closeOnly>>, halted' \in {halted, TRUE},
         \/ call' = call
         \/ call'.stage \notin {"routed", "entering"}
         \/ call.stage \in {"routed", "entering"} /\ call'.side = call.side
  PROVE  SlipInv'
  BY DEF SlipInv, TypeOK

UnsettledStages == {"clearing", "submitting", "handing", "refused", "answering"}

(* Outside a dispatch every order is settled.                              *)
LEMMA QuietDispatch ==
  ASSUME TypeOK, DispatchInv,
         \/ /\ call.stage \notin UnsettledStages /\ call'.stage \notin UnsettledStages
            /\ \/ records' = records
               \/ \E o \in Ids : \E key, stamp, to, filled :
                    MovedTo(o, to, key, stamp, filled) /\ to \notin Unsettled
         \/ UNCHANGED <<records, call>>
  PROVE  DispatchInv'
<1>1. CASE UNCHANGED <<records, call>>
  BY <1>1 DEF DispatchInv, State
<1>2. CASE /\ call.stage \notin UnsettledStages /\ call'.stage \notin UnsettledStages
           /\ \/ records' = records
              \/ \E o \in Ids : \E key, stamp, to, filled :
                   MovedTo(o, to, key, stamp, filled) /\ to \notin Unsettled
  <2>1. \A state \in Unsettled :
          call.stage \notin StagesOf(state) /\ call'.stage \notin StagesOf(state)
    BY <1>2 DEF StagesOf, Unsettled, UnsettledStages
  <2>2. \A o \in Ids : State(o) \notin Unsettled
    BY <2>1 DEF DispatchInv
  <2>3. \A o \in Ids : State(o)' \notin Unsettled
    BY <1>2, <2>2 DEF MovedTo, State
  <2>4. QED
    BY <2>1, <2>3 DEF DispatchInv
<1>3. QED
  BY <1>1, <1>2

(* A key that is used up is none of those the order has still to use.      *)
LEMMA MovedKeys ==
  ASSUME KeysInv, NEW o \in Ids, NEW kind, NEW n, NEW stamp, NEW to, NEW filled,
         MovedTo(o, to, Key(kind, o, n), stamp, filled),
         Ahead(to) \subseteq Ahead(State(o)), kind \notin Ahead(to)
  PROVE  KeysInv'
<1> SUFFICES ASSUME NEW p \in Ids, NEW other \in Ahead(State(p)')
             PROVE  Key(other, p, 1) \notin appliedKeys'
  BY DEF KeysInv
<1>1. CASE p = o
  <2>1. other \in Ahead(to) /\ other # kind
    BY <1>1 DEF MovedTo, State
  <2>2. Key(other, p, 1) \notin appliedKeys
    BY <1>1, <2>1 DEF KeysInv
  <2>3. Key(other, p, 1) # Key(kind, o, n)
    BY <2>1 DEF Key
  <2>4. QED
    BY <2>2, <2>3 DEF MovedTo
<1>2. CASE p # o
  <2>1. State(p)' = State(p)
    BY <1>2 DEF MovedTo, State
  <2>2. Key(other, p, 1) \notin appliedKeys
    BY <2>1 DEF KeysInv
  <2>3. Key(other, p, 1) # Key(kind, o, n)
    BY <1>2 DEF Key
  <2>4. QED
    BY <2>2, <2>3 DEF MovedTo
<1>3. QED
  BY <1>1, <1>2

LEMMA QuietKeys ==
  ASSUME KeysInv, UNCHANGED ledger
  PROVE  KeysInv'
  BY DEF KeysInv, ledger, State

LEMMA QuietLedger ==
  ASSUME Proved!IInv, UNCHANGED ledger
  PROVE  Proved!IInv'
  BY DEF Proved!IInv, Proved!TypeOK, ledger

LEMMA LedgerTypes ==
  ASSUME Proved!IInv'
  PROVE  Ledger!TypeOK'
<1>1. Proved!TypeOK'
  BY DEF Proved!IInv
<1>2. QED
  BY <1>1, Zenon DEF Proved!TypeOK, Ledger!TypeOK, Proved!Record, Ledger!Record, Proved!Stamp,
    Ledger!Stamp, Proved!State, Ledger!State, Proved!Open, Ledger!Open, Proved!Terminal,
    Ledger!Terminal, Proved!Absent, Ledger!Absent

(* A step that books nothing keeps the types if these do.                  *)
LEMMA QuietTypes ==
  ASSUME TypeOK, Proved!IInv', call' \in Calls,
         UNCHANGED <<requests, engines, portfolio, booked>>,
         connected' \in BOOLEAN, pending' \subseteq Ids,
         halted' \in BOOLEAN, closeOnly' \in BOOLEAN, slipped' \in Nat
  PROVE  TypeOK'
<1>1. Ledger!TypeOK'
  BY LedgerTypes
<1>2. QED
  BY <1>1, Zenon DEF TypeOK, engines, portfolio

-----------------------------------------------------------------------------
(***************************************************************************)
(* Every action keeps the invariant.                                       *)
(***************************************************************************)
LEMMA SignalStep ==
  ASSUME PathInv, NEW e \in Engines, NEW side \in {"Buy", "Sell"}, Signal(e, side)
  PROVE  PathInv'
<1> USE DEF PathInv
<1>1. PICK quantity \in Sizes(e, side), normalized \in BOOLEAN :
         call' = IF normalized /\ (side = "Sell" \/ CanTrade)
                 THEN Dispatching("routed", e, nextId[e], side, quantity)
                 ELSE Idle
  BY DEF Signal
<1>2. /\ call = Idle /\ nextId[e] \in Ids
      /\ nextId' = [nextId EXCEPT ![e] = @ + 1]
      /\ UNCHANGED <<ledger, requests, applied, adapter, portfolio, risk, history>>
  BY DEF Signal, Ids, TypeOK
<1>3. quantity \in 1 .. InitialCash
  <2>1. position[e] \in 0 .. InitialCash /\ cash \in 0 .. InitialCash
    BY DEF TypeOK
  <2>2. CASE side = "Buy"
    BY <1>1, <2>1, <2>2, BoundAssumption DEF Sizes
  <2>3. CASE side = "Sell"
    BY <1>1, <2>1, <2>3, BoundAssumption DEF Sizes
  <2>4. QED
    BY <2>2, <2>3
<1>4. call' \in Calls
  BY <1>1, <1>2, <1>3, IdleCall DEF Calls, Dispatching, DispatchStages
<1>5. call.stage = "idle" /\ call'.stage \in {"idle", "routed"}
  BY <1>1, <1>2, IdleCall DEF Dispatching
<1>6. Proved!IInv'
  BY <1>2, QuietLedger
<1>7. TypeOK'
  <2>1. Ledger!TypeOK'
    BY <1>6, LedgerTypes
  <2>2. nextId' \in [Engines -> 1 .. MaxOrders + 1]
    BY <1>2, BoundAssumption DEF TypeOK, Ids
  <2>3. QED
    BY <2>1, <2>2, <1>2, <1>4, Zenon DEF TypeOK, adapter, portfolio, risk, history
<1>8. KeysInv'
  BY <1>2, QuietKeys
<1>9. DispatchInv'
  BY <1>2, <1>5, QuietDispatch DEF UnsettledStages, ledger
<1>10. SlipInv'
  <2>1. call'.stage = "routed" /\ call'.side = "Buy" => ~halted /\ ~closeOnly
    BY <1>1, IdleCall DEF Dispatching, CanTrade
  <2>2. QED
    BY <1>2, <1>5, <2>1 DEF SlipInv, risk, history
<1>11. BooksInv'
  <2>1. Quiet /\ call.stage # "observing" /\ call'.stage # "observing"
    BY <1>2, <1>5 DEF Quiet, ledger
  <2>2. QED
    BY <1>2, <2>1, QuietBooks DEF history
<1>12. QED
  BY <1>6, <1>7, <1>8, <1>9, <1>10, <1>11

LEMMA RouteStep ==
  ASSUME PathInv, Route
  PROVE  PathInv'
<1> USE DEF PathInv
<1>1. /\ call.stage = "routed" /\ call.stage \in DispatchStages
      /\ UNCHANGED <<ledger, requests, engines, adapter, portfolio, history>>
  BY DEF Route, DispatchStages
<1>2. /\ call' \in Calls /\ halted' \in {halted, TRUE} /\ closeOnly' = closeOnly
      /\ \/ call'.stage = "idle"
         \/ call'.stage = "entering" /\ call'.side = call.side
  <2>1. CASE connected
    <3>1. Goto("entering") /\ UNCHANGED risk /\ "entering" \in DispatchStages
      BY <2>1 DEF Route, DispatchStages
    <3>2. QED
      BY <1>1, <3>1, GotoDispatch DEF risk
  <2>2. CASE ~connected
    BY <2>2, IdleCall DEF Route, Fail, ReportApiError
  <2>3. QED
    BY <2>1, <2>2
<1>3. Proved!IInv'
  BY <1>1, QuietLedger
<1>4. TypeOK'
  <2>1. /\ connected' \in BOOLEAN /\ pending' \subseteq Ids /\ slipped' \in Nat
        /\ halted' \in BOOLEAN /\ closeOnly' \in BOOLEAN
    BY <1>1, <1>2 DEF TypeOK, adapter, history
  <2>2. QED
    BY <1>1, <1>2, <1>3, <2>1, QuietTypes DEF history
<1>5. KeysInv'
  BY <1>1, QuietKeys
<1>6. DispatchInv'
  BY <1>1, <1>2, QuietDispatch DEF UnsettledStages, ledger
<1>7. SlipInv'
  BY <1>1, <1>2, QuietSlip DEF history
<1>8. BooksInv'
  <2>1. Quiet /\ call.stage # "observing" /\ call'.stage # "observing"
    BY <1>1, <1>2 DEF Quiet, ledger
  <2>2. QED
    BY <1>1, <2>1, QuietBooks DEF history, engines
<1>9. QED
  BY <1>3, <1>4, <1>5, <1>6, <1>7, <1>8

LEMMA EnterStep ==
  ASSUME PathInv, Enter
  PROVE  PathInv'
<1> USE DEF PathInv
<1>0. PICK o : o = call.order
  OBVIOUS
<1> DEFINE key == Key("execution", o, 1)
<1>1. /\ call.stage = "entering" /\ call.stage \in DispatchStages
      /\ UNCHANGED <<engines, adapter, portfolio, booked>>
  BY DEF Enter, DispatchStages
<1>2. /\ call.engine \in Engines /\ o \in Ids
      /\ call.side \in {"Buy", "Sell"} /\ call.quantity \in 1 .. InitialCash
  BY <1>0, <1>1, CallForms
<1>3. CASE ~Ledger!CanCreate(o, key, call.quantity)
  <2>1. /\ call' = Idle /\ halted' \in {halted, TRUE} /\ closeOnly' = closeOnly
        /\ UNCHANGED <<ledger, requests, slipped>>
    BY <1>0, <1>3 DEF Enter, Fail, ReportApiError
  <2>2. call' \in Calls /\ call'.stage = "idle"
    BY <2>1, IdleCall
  <2>3. Proved!IInv'
    BY <2>1, QuietLedger
  <2>4. TypeOK'
    <3>1. /\ connected' \in BOOLEAN /\ pending' \subseteq Ids /\ slipped' \in Nat
          /\ halted' \in BOOLEAN /\ closeOnly' \in BOOLEAN
      BY <1>1, <2>1 DEF TypeOK, adapter
    <3>2. QED
      BY <1>1, <2>1, <2>2, <2>3, <3>1, QuietTypes
  <2>5. KeysInv'
    BY <2>1, QuietKeys
  <2>6. DispatchInv'
    BY <1>1, <2>1, <2>2, QuietDispatch DEF UnsettledStages, ledger
  <2>7. SlipInv'
    BY <2>1, <2>2, QuietSlip
  <2>8. BooksInv'
    <3>1. Quiet /\ call.stage # "observing" /\ call'.stage # "observing"
      BY <1>1, <2>1, <2>2 DEF Quiet, ledger
    <3>2. QED
      BY <1>1, <2>1, <3>1, QuietBooks DEF engines
  <2>9. QED
    BY <2>3, <2>4, <2>5, <2>6, <2>7, <2>8
<1>4. CASE Ledger!CanCreate(o, key, call.quantity)
  <2>1. /\ Ledger!Create(o, key, At(1), call.quantity)
        /\ requests' = [requests EXCEPT ![o] = [engine |-> call.engine, side |-> call.side]]
        /\ slipped' = IF call.side = "Buy" /\ (halted \/ closeOnly) THEN slipped + 1 ELSE slipped
        /\ Goto("clearing") /\ "clearing" \in DispatchStages
        /\ UNCHANGED risk
    BY <1>0, <1>4 DEF Enter, DispatchStages
  <2>2. /\ call' \in Calls /\ call'.stage = "clearing" /\ call'.order = o
    BY <1>0, <1>1, <2>1, GotoDispatch
  <2>3. Event(o, key, At(1))
    BY <1>2, BoundAssumption DEF Event, EventKeys, EventStamps
  <2>4. Proved!IInv'
    BY <1>2, <2>1, <2>3, EventStep
  <2>5. MovedTo(o, "Created", key, At(1), 0) /\ State(o) = "Absent"
    BY <1>2, <2>1, CreateMoves DEF TypeOK
  <2>6. requests[o] = NoRequest /\ booked[o] = 0 /\ \A e \in Engines : applied[e][o] = 0
    BY <1>2, <2>5 DEF BooksInv, BookInv
  <2> HIDE DEF key
  <2>7. TypeOK'
    <3>1. requests' \in [Ids -> [engine : Engines, side : {"Buy", "Sell"}] \cup {NoRequest}]
      BY <1>2, <2>1 DEF TypeOK
    <3>2. slipped' \in Nat
      BY <2>1 DEF TypeOK
    <3>3. Ledger!TypeOK'
      BY <2>4, LedgerTypes
    <3>4. QED
      BY <1>1, <2>1, <2>2, <3>1, <3>2, <3>3, Zenon DEF TypeOK, engines, adapter, portfolio, risk
  <2>8. KeysInv'
    <3>1. Ahead("Created") \subseteq Ahead("Absent") /\ "execution" \notin Ahead("Created")
      BY DEF Ahead
    <3>2. QED
      BY <1>2, <2>5, <3>1, MovedKeys DEF key
  <2>9. DispatchInv'
    <3>1. \A p \in Ids : State(p) \notin Unsettled
      BY <1>1 DEF DispatchInv, Unsettled, StagesOf
    <3>2. \A p \in Ids : State(p)' \in Unsettled => p = o
      BY <2>5, <3>1 DEF MovedTo, State
    <3>3. State(o)' = "Created" /\ records'[o].stamp = At(1)
      BY <2>5 DEF MovedTo, State
    <3>4. QED
      BY <1>2, <2>2, <3>2, <3>3 DEF DispatchInv, Unsettled, StagesOf, SequenceOf
  <2>10. SlipInv'
    BY <1>1, <2>1, <2>2 DEF SlipInv, risk, TypeOK
  <2>11. FillsBookedOnce'
    <3>1. ASSUME NEW e \in Engines, NEW side \in {"Buy", "Sell"}
          PROVE  BookedOf(e, side)' = BookedOf(e, side)
      <4>1. o \notin OrdersOf(e, side)
        BY <2>6 DEF OrdersOf, NoRequest
      <4>2. \A p \in Ids : p # o => requests'[p] = requests[p]
        BY <2>1 DEF TypeOK
      <4>3. requests'[o] = [engine |-> call.engine, side |-> call.side]
        BY <1>2, <2>1 DEF TypeOK
      <4>4. \/ OrdersOf(e, side)' = OrdersOf(e, side)
            \/ OrdersOf(e, side)' = OrdersOf(e, side) \cup {o}
        <5>1. CASE requests'[o] = [engine |-> e, side |-> side]
          BY <1>2, <4>1, <4>2, <5>1 DEF OrdersOf
        <5>2. CASE requests'[o] # [engine |-> e, side |-> side]
          BY <1>2, <4>1, <4>2, <5>2 DEF OrdersOf
        <5>3. QED
          BY <5>1, <5>2
      <4>5. Lots(booked, OrdersOf(e, side) \cup {o}) = Lots(booked, OrdersOf(e, side))
        BY <2>6, LotsAdd
      <4>6. QED
        BY <1>1, <4>4, <4>5 DEF BookedOf
    <3>2. ASSUME NEW p \in Ids PROVE booked'[p] <= records'[p].filled
      BY <1>1, <2>5, <2>6 DEF MovedTo, BooksInv, FillsBookedOnce
    <3>3. QED
      BY <1>1, <3>1, <3>2 DEF BooksInv, FillsBookedOnce, portfolio
  <2>12. ObserveInv'
    BY <2>2 DEF ObserveInv
  <2>13. ASSUME NEW p \in Ids PROVE BookInv(p)'
    <3>1. CASE p = o
      <4>1. State(o)' = "Created" /\ requests'[o] = [engine |-> call.engine, side |-> call.side]
        BY <1>2, <2>1, <2>5 DEF MovedTo, State, TypeOK
      <4>2. QED
        BY <1>1, <1>2, <2>6, <3>1, <4>1 DEF BookInv, engines
    <3>2. CASE p # o
      <4>1. State(p)' = State(p) /\ requests'[p] = requests[p]
        BY <2>1, <2>5, <3>2 DEF MovedTo, State, TypeOK
      <4>2. Awaited(p)' => Awaited(p)
        BY <1>1, <2>2, <4>1 DEF Awaited
      <4>3. BookInv(p)
        BY DEF BooksInv
      <4>4. QED
        BY <1>1, <4>1, <4>2, <4>3 DEF BookInv, engines
    <3>3. QED
      BY <3>1, <3>2
  <2>14. QED
    BY <2>4, <2>7, <2>8, <2>9, <2>10, <2>11, <2>12, <2>13 DEF BooksInv
<1>5. QED
  BY <1>3, <1>4

(* The next event of a dispatch is never refused: its key is new and its   *)
(* sequence number above the last.                                         *)
LEMMA Ready ==
  ASSUME KeysInv, DispatchInv, NEW o \in Ids, NEW from \in Unsettled, State(o) = from,
         NEW kind \in Ahead(from), NEW to, from \in Ledger!Sources(to),
         NEW sequence \in Nat, sequence > SequenceOf(from)
  PROVE  Ledger!CanMove(o, to, Key(kind, o, 1), At(sequence))
<1>1. Key(kind, o, 1) \notin appliedKeys
  BY DEF KeysInv
<1>2. kind # ""
  BY DEF Ahead, Unsettled
<1>3. Key(kind, o, 1) # Key("", 0, 0)
  BY <1>2 DEF Key
<1>4. records[o].stamp = At(SequenceOf(from)) /\ SequenceOf(from) \in {1, 2, 3}
  BY DEF DispatchInv, SequenceOf
<1>5. ~Ledger!IsOlder(records[o], At(sequence))
  BY <1>4 DEF Ledger!IsOlder, At
<1>6. from \notin Ledger!Terminal /\ from # "Absent"
  BY DEF Unsettled, Ledger!Terminal
<1>7. QED
  BY <1>1, <1>3, <1>5, <1>6 DEF Ledger!CanMove, Ledger!Admissible, Ledger!Known,
     Ledger!Absent, Ledger!CanTransition, State

(* The order in dispatch moves on.                                         *)
LEMMA DispatchMoves ==
  ASSUME DispatchInv, NEW o \in Ids, o = call.order, call.stage \in UnsettledStages,
         NEW to, NEW key, NEW sequence, NEW filled,
         MovedTo(o, to, key, At(sequence), filled),
         \/ /\ to \in Unsettled /\ call'.stage \in StagesOf(to) /\ call'.order = o
            /\ sequence = SequenceOf(to)
         \/ to \notin Unsettled /\ call'.stage \notin UnsettledStages
  PROVE  DispatchInv'
<1>1. \A p \in Ids : State(p)' \in Unsettled => p = o
  BY DEF DispatchInv, MovedTo, State
<1>2. State(o)' = to /\ records'[o].stamp = At(sequence)
  BY DEF MovedTo, State
<1>3. CASE to \notin Unsettled /\ call'.stage \notin UnsettledStages
  <2>1. \A p \in Ids : State(p)' \notin Unsettled
    BY <1>1, <1>2, <1>3
  <2>2. \A state \in Unsettled : call'.stage \notin StagesOf(state)
    BY <1>3 DEF Unsettled, UnsettledStages, StagesOf
  <2>3. QED
    BY <2>1, <2>2 DEF DispatchInv
<1>4. CASE /\ to \in Unsettled /\ call'.stage \in StagesOf(to) /\ call'.order = o
           /\ sequence = SequenceOf(to)
  <2>1. \A state \in Unsettled : call'.stage \in StagesOf(state) => state = to
    BY <1>4 DEF Unsettled, StagesOf
  <2>2. QED
    BY <1>1, <1>2, <1>4, <2>1 DEF DispatchInv
<1>5. QED
  BY <1>3, <1>4

LEMMA MarkStep ==
  ASSUME PathInv,
         NEW stage, NEW from, NEW to, NEW kind, NEW sequence, NEW next,
         \/ /\ stage = "clearing" /\ from = "Created" /\ to = "RiskChecked"
            /\ kind = "gateway-risk" /\ sequence = 2 /\ next = "submitting"
         \/ /\ stage = "submitting" /\ from = "RiskChecked" /\ to = "Submitted"
            /\ kind = "gateway-submit" /\ sequence = 3 /\ next = "handing",
         Mark(stage, to, kind, sequence, next)
  PROVE  PathInv'
<1> USE DEF PathInv
<1>0. PICK o : o = call.order
  OBVIOUS
<1> DEFINE key == Key(kind, o, 1)
<1>1. /\ call.stage = stage /\ call.stage \in DispatchStages /\ next \in DispatchStages
      /\ UNCHANGED <<requests, engines, adapter, portfolio, history>>
  BY DEF Mark, DispatchStages
<1>2. o \in Ids
  BY <1>0, <1>1, CallForms
<1>3. State(o) = from
  BY <1>0, <1>1 DEF DispatchInv, StagesOf, Unsettled
<1>4. Ledger!CanMove(o, to, key, At(sequence))
  <2>1. /\ from \in Unsettled /\ kind \in Ahead(from)
        /\ sequence \in Nat /\ sequence > SequenceOf(from)
    BY DEF Unsettled, Ahead, SequenceOf
  <2>2. from \in Ledger!Sources(to)
    BY DEF Ledger!Sources
  <2>3. QED
    BY <1>2, <1>3, <2>1, <2>2, Ready
<1>5. Ledger!Transition(o, to, key, At(sequence)) /\ Goto(next) /\ UNCHANGED risk
  BY <1>0, <1>4 DEF Mark
<1>6. call' \in Calls /\ call'.stage = next /\ call'.order = o
  BY <1>0, <1>1, <1>5, GotoDispatch
<1>7. Event(o, key, At(sequence))
  <2>1. key \in EventKeys
    BY <1>2, BoundAssumption DEF EventKeys
  <2>2. At(sequence) \in EventStamps
    BY BoundAssumption DEF EventStamps
  <2>3. QED
    BY <1>2, <2>1, <2>2 DEF Event
<1>8. to \in {"RiskChecked", "Submitted", "Accepted", "Rejected", "Unknown"}
  OBVIOUS
<1>9. Proved!IInv'
  BY <1>5, <1>7, <1>8, EventStep
<1>10. MovedTo(o, to, key, At(sequence), records[o].filled)
  BY <1>2, <1>5, <1>8, TransitionMoves DEF TypeOK
<1>11. TypeOK'
  <2>1. /\ connected' \in BOOLEAN /\ pending' \subseteq Ids /\ slipped' \in Nat
        /\ halted' \in BOOLEAN /\ closeOnly' \in BOOLEAN
    BY <1>1, <1>5 DEF TypeOK, adapter, history, risk
  <2>2. QED
    BY <1>1, <1>6, <1>9, <2>1, QuietTypes DEF history
<1>12. KeysInv'
  <2>1. Ahead(to) \subseteq Ahead(from) /\ kind \notin Ahead(to)
    BY DEF Ahead
  <2>2. QED
    BY <1>2, <1>3, <1>10, <2>1, MovedKeys
<1>13. DispatchInv'
  <2>1. /\ to \in Unsettled /\ call'.stage \in StagesOf(to) /\ sequence = SequenceOf(to)
        /\ call.stage \in UnsettledStages
    BY <1>1, <1>6 DEF Unsettled, StagesOf, SequenceOf, UnsettledStages
  <2>2. QED
    BY <1>0, <1>2, <1>6, <1>10, <2>1, DispatchMoves
<1>14. SlipInv'
  BY <1>1, <1>5, <1>6, QuietSlip DEF history, risk
<1>15. BooksInv'
  <2>1. Quiet
    <3>1. from \notin {"Absent", "Filled"} /\ to # "Absent"
      OBVIOUS
    <3>2. QED
      BY <1>2, <1>3, <1>10, <3>1 DEF Quiet
  <2>2. call.stage # "observing" /\ call'.stage # "observing"
    BY <1>1, <1>6
  <2>3. QED
    BY <1>1, <2>1, <2>2, QuietBooks DEF history, engines
<1>16. QED
  BY <1>9, <1>11, <1>12, <1>13, <1>14, <1>15

(***************************************************************************)
(* Two shapes most of the other steps have: the order settles, or only the *)
(* thread moves on.                                                        *)
(***************************************************************************)
RestStages == {"idle", "filling", "canceling", "Accepted", "AlreadyFilled", "cancelRefused"}

LEMMA SettlingStep ==
  ASSUME PathInv,
         NEW o \in Ids, NEW kind, NEW n, NEW sequence, NEW to,
         MovedTo(o, to, Key(kind, o, n), At(sequence), records[o].filled),
         State(o) \notin {"Absent", "Filled"}, to \notin Unsettled \cup {"Absent"},
         \/ call.stage \in RestStages
         \/ call.stage \in UnsettledStages /\ o = call.order,
         Proved!IInv', call' \in Calls, call'.stage \in RestStages,
         halted' \in {halted, TRUE}, closeOnly' = closeOnly,
         UNCHANGED <<requests, engines, adapter, portfolio, history>>
  PROVE  PathInv'
<1> USE DEF PathInv
<1>1. /\ call.stage # "observing" /\ call'.stage # "observing"
      /\ call'.stage \notin {"routed", "entering"} /\ call'.stage \notin UnsettledStages
  BY DEF RestStages, UnsettledStages
<1>2. TypeOK'
  <2>1. /\ connected' \in BOOLEAN /\ pending' \subseteq Ids /\ slipped' \in Nat
        /\ halted' \in BOOLEAN /\ closeOnly' \in BOOLEAN
    BY DEF TypeOK, adapter, history
  <2>2. QED
    BY <2>1, QuietTypes DEF history
<1>3. KeysInv'
  <2>1. Ahead(to) = {}
    BY DEF Ahead, Unsettled
  <2>2. QED
    BY <2>1, MovedKeys
<1>4. DispatchInv'
  <2>1. CASE call.stage \in UnsettledStages /\ o = call.order
    BY <1>1, <2>1, DispatchMoves
  <2>2. CASE call.stage \in RestStages
    <3>1. call.stage \notin UnsettledStages
      BY <2>2 DEF RestStages, UnsettledStages
    <3>2. QED
      BY <1>1, <3>1, QuietDispatch
  <2>3. QED
    BY <2>1, <2>2
<1>5. SlipInv'
  BY <1>1, QuietSlip DEF history
<1>6. BooksInv'
  <2>1. Quiet
    BY DEF Quiet
  <2>2. QED
    BY <1>1, <2>1, QuietBooks DEF history, engines
<1>7. QED
  BY <1>2, <1>3, <1>4, <1>5, <1>6

LEMMA ThreadStep ==
  ASSUME PathInv, call.stage \in RestStages, call' \in Calls, call'.stage \in RestStages,
         pending' \subseteq Ids,
         UNCHANGED <<ledger, requests, engines, connected, portfolio, risk, history>>
  PROVE  PathInv'
<1> USE DEF PathInv
<1>1. /\ call.stage # "observing" /\ call'.stage # "observing"
      /\ call'.stage \notin {"routed", "entering"}
      /\ call.stage \notin UnsettledStages /\ call'.stage \notin UnsettledStages
  BY DEF RestStages, UnsettledStages
<1>2. Proved!IInv'
  BY QuietLedger
<1>3. TypeOK'
  <2>1. /\ connected' \in BOOLEAN /\ slipped' \in Nat
        /\ halted' \in BOOLEAN /\ closeOnly' \in BOOLEAN
    BY DEF TypeOK, risk, history
  <2>2. QED
    BY <1>2, <2>1, QuietTypes DEF history
<1>4. KeysInv'
  BY QuietKeys
<1>5. DispatchInv'
  BY <1>1, QuietDispatch DEF ledger
<1>6. SlipInv'
  BY <1>1, QuietSlip DEF history, risk
<1>7. BooksInv'
  <2>1. Quiet
    BY DEF Quiet, ledger
  <2>2. QED
    BY <1>1, <2>1, QuietBooks DEF history, engines
<1>8. QED
  BY <1>2, <1>3, <1>4, <1>5, <1>6, <1>7

LEMMA SubmitStep ==
  ASSUME PathInv, Submit
  PROVE  PathInv'
<1> USE DEF PathInv
<1>0. PICK o : o = call.order
  OBVIOUS
<1>1. /\ call.stage = "handing" /\ call.stage \in DispatchStages
      /\ UNCHANGED <<ledger, requests, engines, connected, portfolio, risk, history>>
  BY DEF Submit, DispatchStages
<1>2. o \in Ids /\ call.quantity \in 1 .. InitialCash
  BY <1>0, <1>1, CallForms
<1>3. /\ call' \in Calls /\ call'.stage \in {"refused", "answering"} /\ call'.order = o
      /\ pending' \subseteq Ids
  <2>1. CASE ~connected
    <3>1. Goto("refused") /\ "refused" \in DispatchStages /\ pending' = pending
      BY <2>1 DEF Submit, DispatchStages
    <3>2. QED
      BY <1>0, <1>1, <3>1, GotoDispatch DEF TypeOK
  <2>2. CASE connected
    <3>1. \E accepted \in BOOLEAN, filled \in 0 .. InitialCash :
            call' = Answering(o, accepted, filled)
      <4>1. CASE call' = Answering(call.order, FALSE, 0)
        <5>1. 0 \in 0 .. InitialCash
          BY BoundAssumption
        <5>2. QED
          BY <1>0, <4>1, <5>1, Zenon
      <4>2. CASE \E filled \in 1 .. call.quantity : call' = Answering(call.order, TRUE, filled)
        <5>1. PICK filled \in 1 .. call.quantity : call' = Answering(call.order, TRUE, filled)
          BY <4>2
        <5>2. filled \in 0 .. InitialCash
          BY <1>2, BoundAssumption
        <5>3. QED
          BY <1>0, <5>1, <5>2
      <4>3. QED
        BY <2>2, <4>1, <4>2 DEF Submit
    <3>2. pending' \subseteq Ids
      BY <1>0, <1>2, <2>2 DEF Submit, TypeOK
    <3>3. QED
      BY <1>2, <3>1, <3>2 DEF Answering, AnswerStages, Calls
  <2>3. QED
    BY <2>1, <2>2
<1>4. Proved!IInv'
  BY <1>1, QuietLedger
<1>5. TypeOK'
  <2>1. /\ connected' \in BOOLEAN /\ slipped' \in Nat
        /\ halted' \in BOOLEAN /\ closeOnly' \in BOOLEAN
    BY <1>1 DEF TypeOK, risk, history
  <2>2. QED
    BY <1>1, <1>3, <1>4, <2>1, QuietTypes DEF history
<1>6. KeysInv'
  BY <1>1, QuietKeys
<1>7. DispatchInv'
  <2>1. State(o) = "Submitted" /\ \A p \in Ids : State(p) \in Unsettled => p = o
    BY <1>0, <1>1 DEF DispatchInv, StagesOf, Unsettled
  <2>2. \A p \in Ids : State(p)' = State(p) /\ records'[p].stamp = records[p].stamp
    BY <1>1 DEF ledger, State
  <2>3. ASSUME NEW p \in Ids, State(p)' \in Unsettled
        PROVE  /\ call'.stage \in StagesOf(State(p)') /\ call'.order = p
               /\ records'[p].stamp = At(SequenceOf(State(p)'))
    <3>1. p = o /\ State(p)' = "Submitted" /\ State(p) = "Submitted"
      BY <2>1, <2>2, <2>3
    <3>2. records[p].stamp = At(SequenceOf("Submitted"))
      BY <3>1 DEF DispatchInv, Unsettled
    <3>3. QED
      BY <1>3, <2>2, <3>1, <3>2 DEF StagesOf
  <2>4. \A state \in Unsettled : call'.stage \in StagesOf(state) => state = "Submitted"
    BY <1>3 DEF StagesOf, Unsettled
  <2>5. QED
    BY <1>2, <1>3, <2>1, <2>2, <2>3, <2>4 DEF DispatchInv
<1>8. SlipInv'
  BY <1>1, <1>3, QuietSlip DEF history, risk
<1>9. BooksInv'
  <2>1. Quiet /\ call.stage # "observing" /\ call'.stage # "observing"
    BY <1>1, <1>3 DEF Quiet, ledger
  <2>2. QED
    BY <1>1, <2>1, QuietBooks DEF history, engines
<1>10. QED
  BY <1>4, <1>5, <1>6, <1>7, <1>8, <1>9

LEMMA RefusedDispatchStep ==
  ASSUME PathInv, RefusedDispatch
  PROVE  PathInv'
<1> USE DEF PathInv
<1>0. PICK o : o = call.order
  OBVIOUS
<1> DEFINE key == Key("dispatch-failed", o, 1)
<1>1. /\ call.stage = "refused" /\ call.stage \in DispatchStages /\ call.stage \in UnsettledStages
      /\ halted' \in {halted, TRUE} /\ closeOnly' = closeOnly /\ call' = Idle
      /\ UNCHANGED <<requests, engines, adapter, portfolio, history>>
  BY DEF RefusedDispatch, Fail, ReportApiError, DispatchStages, UnsettledStages
<1>2. o \in Ids
  BY <1>0, <1>1, CallForms
<1>3. State(o) = "Submitted"
  BY <1>0, <1>1 DEF DispatchInv, StagesOf, Unsettled
<1>4. Ledger!CanMove(o, "Unknown", key, At(4))
  <2>1. /\ "Submitted" \in Unsettled /\ "dispatch-failed" \in Ahead("Submitted")
        /\ 4 > SequenceOf("Submitted") /\ "Submitted" \in Ledger!Sources("Unknown")
    BY DEF Unsettled, Ahead, SequenceOf, Ledger!Sources
  <2>2. QED
    BY <1>2, <1>3, <2>1, Ready
<1>5. Ledger!Transition(o, "Unknown", key, At(4))
  BY <1>0, <1>4 DEF RefusedDispatch, Ledger!MarkUnknown
<1>6. Event(o, key, At(4))
  <2>1. key \in EventKeys
    BY <1>2, BoundAssumption DEF EventKeys
  <2>2. At(4) \in EventStamps
    BY BoundAssumption DEF EventStamps
  <2>3. QED
    BY <1>2, <2>1, <2>2 DEF Event
<1>7. Proved!IInv'
  BY <1>5, <1>6, EventStep
<1>8. MovedTo(o, "Unknown", key, At(4), records[o].filled)
  BY <1>2, <1>5, TransitionMoves DEF TypeOK
<1>9. call' \in Calls /\ call'.stage \in RestStages /\ "Unknown" \notin Unsettled \cup {"Absent"}
  BY <1>1, IdleCall DEF RestStages, Unsettled
<1>10. State(o) \notin {"Absent", "Filled"}
  BY <1>3
<1>11. QED
  BY <1>0, <1>1, <1>2, <1>7, <1>8, <1>9, <1>10, SettlingStep

LEMMA AcknowledgementStep ==
  ASSUME PathInv, HandleAcknowledgement
  PROVE  PathInv'
<1> USE DEF PathInv
<1>0. PICK o, accepted : o = call.order /\ accepted = call.accepted
  OBVIOUS
<1> DEFINE key == Key("ack", o, 1)
           to == IF accepted THEN "Accepted" ELSE "Rejected"
<1>1. /\ call.stage = "answering" /\ call.stage \in AnswerStages /\ call.stage \in UnsettledStages
      /\ call' = IF accepted THEN [call EXCEPT !.stage = "filling"] ELSE Idle
      /\ UNCHANGED <<requests, engines, adapter, portfolio, history>>
  BY <1>0 DEF HandleAcknowledgement, Acknowledged, AnswerStages, UnsettledStages
<1>2. /\ o \in Ids /\ accepted \in BOOLEAN /\ call.filled \in 0 .. InitialCash
      /\ call = [stage |-> call.stage, order |-> o, accepted |-> accepted,
                 filled |-> call.filled]
  BY <1>0, <1>1, CallForms
<1>3. State(o) = "Submitted"
  BY <1>0, <1>1 DEF DispatchInv, StagesOf, Unsettled
<1>4. to \in {"Accepted", "Rejected"}
  OBVIOUS
<1>5. Ledger!CanMove(o, to, key, At(4))
  <2>1. /\ "Submitted" \in Unsettled /\ "ack" \in Ahead("Submitted")
        /\ 4 > SequenceOf("Submitted")
    BY DEF Unsettled, Ahead, SequenceOf
  <2>2. "Submitted" \in Ledger!Sources(to)
    BY <1>4 DEF Ledger!Sources
  <2>3. QED
    BY <1>2, <1>3, <2>1, <2>2, Ready
<1>6. /\ Ledger!Transition(o, to, key, At(4))
      /\ halted' \in {halted, TRUE} /\ closeOnly' = closeOnly
  BY <1>0, <1>5 DEF HandleAcknowledgement, Ledger!ApplyAcknowledgement, ReportApiError, risk
<1> HIDE DEF to
<1>7. Event(o, key, At(4))
  <2>1. key \in EventKeys
    BY <1>2, BoundAssumption DEF EventKeys
  <2>2. At(4) \in EventStamps
    BY BoundAssumption DEF EventStamps
  <2>3. QED
    BY <1>2, <2>1, <2>2 DEF Event
<1>8. Proved!IInv'
  BY <1>4, <1>6, <1>7, EventStep
<1>9. MovedTo(o, to, key, At(4), records[o].filled)
  BY <1>2, <1>4, <1>6, TransitionMoves DEF TypeOK
<1>10. call' \in Calls /\ call'.stage \in RestStages
  <2>1. CASE accepted
    <3>1. Goto("filling") /\ "filling" \in AnswerStages
      BY <1>1, <2>1 DEF Goto, AnswerStages
    <3>2. QED
      BY <1>1, <3>1, GotoAnswer DEF RestStages
  <2>2. CASE ~accepted
    BY <1>1, <2>2, IdleCall DEF RestStages
  <2>3. QED
    BY <2>1, <2>2
<1>11. State(o) \notin {"Absent", "Filled"} /\ to \notin Unsettled \cup {"Absent"}
  BY <1>3, <1>4 DEF Unsettled
<1>12. QED
  BY <1>0, <1>1, <1>2, <1>6, <1>8, <1>9, <1>10, <1>11, SettlingStep

(***************************************************************************)
(* Cancels.                                                                *)
(***************************************************************************)
LEMMA CancelEvents ==
  ASSUME NEW o \in Ids, NEW sequence \in CancelSequences,
         NEW kind \in {"cancel", "cancel-result", "cancel-failed"}
  PROVE  Event(o, Key(kind, o, 1), At(sequence)) /\ Event(o, Key(kind, o, 1), At(sequence + 1))
<1>1. Key(kind, o, 1) \in EventKeys
  BY BoundAssumption DEF EventKeys
<1>2. At(sequence) \in EventStamps /\ At(sequence + 1) \in EventStamps
  BY DEF EventStamps
<1>3. QED
  BY <1>1, <1>2 DEF Event

LEMMA RequestCancelStep ==
  ASSUME PathInv, NEW o \in Ids, NEW sequence \in CancelSequences, RequestCancel(o, sequence)
  PROVE  PathInv'
<1> USE DEF PathInv
<1> DEFINE key == Key("cancel", o, 1)
<1>1. /\ call = Idle /\ call' = Canceling("canceling", o, sequence)
      /\ Ledger!RequestCancel(o, key, At(sequence))
      /\ UNCHANGED <<requests, engines, adapter, portfolio, risk, history>>
  BY DEF RequestCancel
<1>2. Proved!IInv'
  BY <1>1, CancelEvents, EventStep
<1>3. /\ MovedTo(o, "CancelRequested", key, At(sequence), records[o].filled)
      /\ State(o) \in {"Accepted", "PartiallyFilled"}
  BY <1>1, RequestCancelMoves DEF TypeOK
<1>4. /\ call' \in Calls /\ call'.stage \in RestStages /\ call.stage \in RestStages
  BY <1>1, IdleCall DEF Canceling, Calls, CancelStages, RestStages
<1>5. /\ "CancelRequested" \notin Unsettled \cup {"Absent"}
      /\ State(o) \notin {"Absent", "Filled"}
  BY <1>3 DEF Unsettled
<1>6. halted' \in {halted, TRUE} /\ closeOnly' = closeOnly
  BY <1>1 DEF risk
<1>7. QED
  BY <1>1, <1>2, <1>3, <1>4, <1>5, <1>6, SettlingStep

LEMMA CancelStep ==
  ASSUME PathInv, Cancel
  PROVE  PathInv'
<1> USE DEF PathInv
<1>1. /\ call.stage = "canceling" /\ call.stage \in CancelStages /\ call.stage \in RestStages
      /\ UNCHANGED <<ledger, requests, engines, connected, portfolio, risk, history>>
  BY DEF Cancel, CancelStages, RestStages
<1>2. pending' \subseteq Ids
  BY DEF Cancel, TypeOK
<1>3. PICK stage \in {"Accepted", "AlreadyFilled", "cancelRefused"} : Goto(stage)
  BY DEF Cancel
<1>4. stage \in CancelStages /\ stage \in RestStages
  BY DEF CancelStages, RestStages
<1>5. call' \in Calls /\ call'.stage \in RestStages
  BY <1>1, <1>3, <1>4, GotoCancel
<1>6. QED
  BY <1>1, <1>2, <1>5, ThreadStep

LEMMA HandleCancelStep ==
  ASSUME PathInv, HandleCancel
  PROVE  PathInv'
<1> USE DEF PathInv
<1>0. PICK o, d, sequence : o = call.order /\ d = call.stage /\ sequence = call.sequence
  OBVIOUS
<1> DEFINE key == Key("cancel-result", o, 1)
<1>1. /\ d \in {"Accepted", "AlreadyFilled"} /\ call' = Idle
      /\ call.stage \in CancelStages /\ call.stage \in RestStages
      /\ UNCHANGED <<requests, engines, adapter, portfolio, risk, history>>
  BY <1>0 DEF HandleCancel, CancelStages, RestStages
<1>2. o \in Ids /\ sequence \in CancelSequences
  BY <1>0, <1>1, CallForms
<1>3. call' \in Calls /\ call'.stage \in RestStages
  BY <1>1, IdleCall DEF RestStages
<1>4. CASE ~Ledger!CanSettleCancel(o, key, At(sequence + 1), d)
  <2>1. UNCHANGED <<ledger, connected, pending>>
    BY <1>0, <1>1, <1>4 DEF HandleCancel, adapter
  <2>2. pending' \subseteq Ids
    BY <2>1 DEF TypeOK
  <2>3. QED
    BY <1>1, <1>3, <2>1, <2>2, ThreadStep
<1>5. CASE Ledger!CanSettleCancel(o, key, At(sequence + 1), d)
  <2>1. Ledger!ApplyCancelResult(o, key, At(sequence + 1), d)
    BY <1>0, <1>5 DEF HandleCancel
  <2>2. Proved!IInv'
    BY <1>1, <1>2, <2>1, CancelEvents, EventStep
  <2>3. PICK to \in {"Canceled", "Filled"} :
           MovedTo(o, to, key, At(sequence + 1), records[o].filled)
    BY <1>1, <1>2, <2>1, CancelResultMoves DEF TypeOK
  <2>4. State(o) = "CancelRequested"
    BY <1>1, <1>2, <2>1, CancelResultMoves DEF TypeOK
  <2>5. State(o) \notin {"Absent", "Filled"} /\ to \notin Unsettled \cup {"Absent"}
    BY <2>4 DEF Unsettled
  <2>6. halted' \in {halted, TRUE} /\ closeOnly' = closeOnly
    BY <1>1 DEF risk
  <2>7. QED
    BY <1>1, <1>2, <1>3, <2>2, <2>3, <2>5, <2>6, SettlingStep
<1>6. QED
  BY <1>4, <1>5

LEMMA RefusedCancelStep ==
  ASSUME PathInv, RefusedCancel
  PROVE  PathInv'
<1> USE DEF PathInv
<1>0. PICK o, sequence : o = call.order /\ sequence = call.sequence
  OBVIOUS
<1> DEFINE key == Key("cancel-failed", o, 1)
<1>1. /\ call' = Idle /\ call.stage \in CancelStages /\ call.stage \in RestStages
      /\ UNCHANGED <<requests, engines, adapter, portfolio, risk, history>>
  BY <1>0 DEF RefusedCancel, CancelStages, RestStages
<1>2. o \in Ids /\ sequence \in CancelSequences
  BY <1>0, <1>1, CallForms
<1>3. call' \in Calls /\ call'.stage \in RestStages
  BY <1>1, IdleCall DEF RestStages
<1>4. CASE ~Ledger!CanMove(o, "Unknown", key, At(sequence + 1))
  <2>1. UNCHANGED <<ledger, connected, pending>>
    BY <1>0, <1>1, <1>4 DEF RefusedCancel, adapter
  <2>2. pending' \subseteq Ids
    BY <2>1 DEF TypeOK
  <2>3. QED
    BY <1>1, <1>3, <2>1, <2>2, ThreadStep
<1>5. CASE Ledger!CanMove(o, "Unknown", key, At(sequence + 1))
  <2>1. Ledger!Transition(o, "Unknown", key, At(sequence + 1))
    BY <1>0, <1>5 DEF RefusedCancel, Ledger!MarkUnknown
  <2>2. Proved!IInv'
    BY <1>2, <2>1, CancelEvents, EventStep
  <2>3. /\ MovedTo(o, "Unknown", key, At(sequence + 1), records[o].filled)
        /\ State(o) \notin {"Absent", "Filled"}
    BY <1>2, <2>1, TransitionMoves DEF TypeOK
  <2>4. "Unknown" \notin Unsettled \cup {"Absent"}
    BY DEF Unsettled
  <2>5. halted' \in {halted, TRUE} /\ closeOnly' = closeOnly
    BY <1>1 DEF risk
  <2>6. QED
    BY <1>1, <1>2, <1>3, <2>2, <2>3, <2>4, <2>5, SettlingStep
<1>6. QED
  BY <1>4, <1>5

(***************************************************************************)
(* Executions, and the engines that book them.                             *)
(***************************************************************************)
LEMMA ExecutionStep ==
  ASSUME PathInv, call.stage \in {"idle", "filling"},
         NEW o \in Ids, NEW n \in 1 .. MaxFills, NEW c \in 0 .. InitialCash,
         NEW r \in Int, r <= InitialCash, HandleExecution(o, n, c, r)
  PROVE  PathInv'
<1> USE DEF PathInv
<1> DEFINE key == Key("fill", o, n)
           to == IF r = 0 THEN "Filled" ELSE "PartiallyFilled"
<1>1. UNCHANGED <<requests, engines, adapter, portfolio, risk, history>>
  BY DEF HandleExecution
<1>2. CASE ~Ledger!CanExecute(o, key, At(4 + n), c, r)
  <2>1. call' = Idle /\ UNCHANGED <<ledger, connected, pending>>
    BY <1>1, <1>2 DEF HandleExecution, adapter
  <2>2. /\ pending' \subseteq Ids /\ call' \in Calls
        /\ call'.stage \in RestStages /\ call.stage \in RestStages
    BY <2>1, IdleCall DEF TypeOK, RestStages
  <2>3. QED
    BY <1>1, <2>1, <2>2, ThreadStep
<1>3. CASE Ledger!CanExecute(o, key, At(4 + n), c, r)
  <2>1. /\ Ledger!ApplyExecution(o, key, At(4 + n), c, r)
        /\ call' = Observing(o, c, r, Engines)
    BY <1>3 DEF HandleExecution
  <2>2. r \in 0 .. InitialCash
    BY <1>3, BoundAssumption DEF Ledger!CanExecute, Ledger!ValidQuantities
  <2>3. Event(o, key, At(4 + n))
    <3>1. key \in EventKeys
      BY DEF EventKeys
    <3>2. At(4 + n) \in EventStamps
      BY BoundAssumption DEF EventStamps
    <3>3. QED
      BY <3>1, <3>2 DEF Event
  <2>4. Proved!IInv'
    BY <2>1, <2>2, <2>3, EventStep
  <2>5. /\ MovedTo(o, to, key, At(4 + n), c) /\ c >= records[o].filled
        /\ State(o) \notin {"Absent", "Created", "RiskChecked", "Filled"}
    BY <2>1, <2>2, ExecutionMoves DEF TypeOK
  <2>6. /\ call' \in Calls /\ call'.stage = "observing" /\ call'.order = o
        /\ call'.cumulative = c /\ call'.remaining = r
    BY <2>1, <2>2 DEF Observing, Calls
  <2>7. to \in {"Filled", "PartiallyFilled"} /\ to \notin Unsettled
    BY DEF Unsettled
  <2>8. State(o)' = to /\ records'[o].filled = c
        /\ \A p \in Ids : p # o => State(p)' = State(p) /\ records'[p] = records[p]
    BY <2>5 DEF MovedTo, State
  <2>9. TypeOK'
    <3>1. /\ connected' \in BOOLEAN /\ pending' \subseteq Ids /\ slipped' \in Nat
          /\ halted' \in BOOLEAN /\ closeOnly' \in BOOLEAN
      BY <1>1 DEF TypeOK, adapter, history, risk
    <3>2. QED
      BY <1>1, <2>4, <2>6, <3>1, QuietTypes DEF history
  <2> HIDE DEF to, key
  <2>10. KeysInv'
    <3>1. Ahead(to) = {}
      BY <2>7 DEF Ahead
    <3>2. QED
      BY <2>5, <3>1, MovedKeys DEF key
  <2>11. DispatchInv'
    <3>1. call.stage \notin UnsettledStages /\ call'.stage \notin UnsettledStages
      BY <2>6 DEF UnsettledStages
    <3>2. QED
      BY <2>5, <2>7, <3>1, QuietDispatch
  <2>12. SlipInv'
    BY <1>1, <2>6, QuietSlip DEF history, risk
  <2>13. FillsBookedOnce'
    <3>1. ASSUME NEW e, NEW side PROVE BookedOf(e, side)' = BookedOf(e, side)
      <4>1. OrdersOf(e, side)' = OrdersOf(e, side)
        BY <1>1 DEF OrdersOf
      <4>2. QED
        BY <1>1, <4>1 DEF BookedOf, history
    <3>2. ASSUME NEW p \in Ids PROVE booked'[p] <= records'[p].filled
      <4>1. booked[p] <= records[p].filled /\ booked[p] \in Nat
        BY DEF BooksInv, FillsBookedOnce, TypeOK
      <4>2. records[o].filled \in Nat
        BY DEF TypeOK, Ledger!TypeOK, Ledger!Record
      <4>3. QED
        BY <1>1, <2>5, <2>8, <4>1, <4>2 DEF history
    <3>3. QED
      BY <1>1, <3>1, <3>2 DEF BooksInv, FillsBookedOnce, portfolio
  <2>14. ObserveInv'
    BY <2>6, <2>8 DEF ObserveInv, State, to
  <2>15. ASSUME NEW p \in Ids PROVE BookInv(p)'
    <3>1. BookInv(p)
      BY DEF BooksInv
    <3>2. CASE p = o
      <4>1. State(o) # "Absent" /\ State(o)' # "Absent" /\ Awaited(o)
        BY <2>5, <2>7, <2>8 DEF Awaited
      <4>2. QED
        BY <1>1, <3>1, <3>2, <4>1 DEF BookInv, history, engines
    <3>3. CASE p # o
      <4>1. Awaited(p)' => Awaited(p)
        BY <2>6, <2>8, <3>3 DEF Awaited
      <4>2. State(p)' = State(p)
        BY <2>8, <3>3
      <4>3. QED
        BY <1>1, <3>1, <4>1, <4>2 DEF BookInv, history, engines
    <3>4. QED
      BY <3>2, <3>3
  <2>16. QED
    BY <2>4, <2>9, <2>10, <2>11, <2>12, <2>13, <2>14, <2>15 DEF BooksInv
<1>4. QED
  BY <1>2, <1>3

LEMMA ImmediateFillStep ==
  ASSUME PathInv, ImmediateFill
  PROVE  PathInv'
<1>1. PICK o, c, r : o = call.order /\ c = call.filled /\ r = records[o].quantity - c
  OBVIOUS
<1>2. call.stage = "filling" /\ call.stage \in AnswerStages /\ HandleExecution(o, 1, c, r)
  BY <1>1 DEF ImmediateFill, AnswerStages
<1>3. o \in Ids /\ c \in 0 .. InitialCash
  BY <1>1, <1>2, CallForms DEF PathInv
<1>4. records[o].quantity \in 0 .. InitialCash
  BY <1>3 DEF PathInv, TypeOK, Ledger!TypeOK, Ledger!Record
<1>5. r \in Int /\ r <= InitialCash /\ 1 \in 1 .. MaxFills
  BY <1>1, <1>3, <1>4, BoundAssumption
<1>6. QED
  BY <1>2, <1>3, <1>5, ExecutionStep

LEMMA LateFillStep ==
  ASSUME PathInv, NEW o \in Ids, NEW n \in 2 .. MaxFills, NEW c \in 0 .. InitialCash,
         NEW r \in 0 .. InitialCash, LateFill(o, n, c, r)
  PROVE  PathInv'
<1>1. call.stage = "idle" /\ HandleExecution(o, n, c, r)
  BY IdleCall DEF LateFill
<1>2. n \in 1 .. MaxFills /\ r \in Int /\ r <= InitialCash
  BY BoundAssumption
<1>3. QED
  BY <1>1, <1>2, ExecutionStep

(* Positions and cash after an engine has booked "lots" of an order.       *)
LEMMA BookedPortfolio ==
  ASSUME TypeOK, FillsBookedOnce, NEW e \in Engines, NEW o, NEW lots \in 1 .. InitialCash,
         NEW side \in {"Buy", "Sell"}, Fits(side, lots, e), Book(e, o, side, lots)
  PROVE  /\ position' \in [Engines -> 0 .. InitialCash] /\ cash' \in 0 .. InitialCash
         /\ cash' + Cardinality(Lots(position', Engines)) = InitialCash
         /\ position'[e] = position[e] + (IF side = "Buy" THEN lots ELSE -lots)
         /\ \A f \in Engines \ {e} : position'[f] = position[f]
<1> DEFINE signed == IF side = "Buy" THEN lots ELSE -lots
           held == Cardinality(Lots(position, Engines))
<1>1. position' = [position EXCEPT ![e] = @ + signed] /\ cash' = cash - signed
  BY DEF Book
<1>2. /\ \A f \in Engines : position[f] \in 0 .. InitialCash
      /\ cash \in 0 .. InitialCash /\ InitialCash \in Nat
      /\ position \in [Engines -> 0 .. InitialCash]
  BY BoundAssumption DEF TypeOK
<1>3. IsFiniteSet(Engines)
  BY EngineAssumption
<1>4. cash + held = InitialCash /\ held \in Nat
  BY <1>2, <1>3, LotsFinite DEF FillsBookedOnce
<1>5. position[e] <= held
  BY <1>2, <1>3, LotsBound
<1>6. /\ signed \in Int /\ signed <= cash /\ -signed <= position[e]
  <2>1. CASE side = "Buy"
    BY <1>2, <2>1 DEF Fits
  <2>2. CASE side = "Sell"
    BY <1>2, <2>2 DEF Fits
  <2>3. QED
    BY <2>1, <2>2
<1> HIDE DEF signed, held
<1>7. position[e] + signed \in 0 .. InitialCash /\ cash - signed \in 0 .. InitialCash
  BY <1>2, <1>4, <1>5, <1>6
<1>8. position' \in [Engines -> 0 .. InitialCash]
  BY <1>1, <1>2, <1>7
<1>9. /\ position'[e] = position[e] + signed
      /\ \A f \in Engines \ {e} : position'[f] = position[f]
  BY <1>1, <1>2
<1>10. Cardinality(Lots(position', Engines)) = held - position[e] + position'[e]
  <2>1. \A f \in Engines : position[f] \in 0 .. InitialCash /\ position'[f] \in 0 .. InitialCash
    BY <1>2, <1>8
  <2>2. \A f \in Engines \ {e} : position[f] = position'[f]
    BY <1>9
  <2>3. QED
    BY <1>2, <1>3, <2>1, <2>2, LotsChange DEF held
<1>11. cash' + Cardinality(Lots(position', Engines)) = InitialCash
  BY <1>1, <1>2, <1>4, <1>6, <1>9, <1>10
<1>12. QED
  BY <1>1, <1>7, <1>8, <1>9, <1>11 DEF signed

(* What is booked of a set of orders when "lots" more of one are booked.   *)
LEMMA BookedOrders ==
  ASSUME TypeOK, NEW o \in Ids, NEW S \in SUBSET Ids, NEW lots \in Nat,
         booked' \in [Ids -> 0 .. InitialCash], booked'[o] = booked[o] + lots,
         \A p \in Ids : p # o => booked'[p] = booked[p]
  PROVE  /\ Cardinality(Lots(booked, S)) \in Nat
         /\ o \in S => Cardinality(Lots(booked', S)) = Cardinality(Lots(booked, S)) + lots
         /\ o \notin S => Cardinality(Lots(booked', S)) = Cardinality(Lots(booked, S))
<1>1. booked \in [Ids -> 0 .. InitialCash] /\ InitialCash \in Nat
  BY BoundAssumption DEF TypeOK
<1>2. IsFiniteSet(S)
  <2>1. IsFiniteSet(Ids)
    BY FS_Interval, BoundAssumption DEF Ids
  <2>2. QED
    BY <2>1, FS_Subset
<1>3. \A p \in S : booked[p] \in 0 .. InitialCash /\ booked'[p] \in 0 .. InitialCash
  BY <1>1
<1>4. Cardinality(Lots(booked, S)) \in Nat
  BY <1>1, <1>2, <1>3, LotsFinite
<1>5. CASE o \in S
  <2>1. \A p \in S \ {o} : booked[p] = booked'[p]
    OBVIOUS
  <2>2. Cardinality(Lots(booked', S)) = Cardinality(Lots(booked, S)) - booked[o] + booked'[o]
    BY <1>1, <1>2, <1>3, <1>5, <2>1, LotsChange
  <2>3. QED
    BY <1>1, <1>4, <1>5, <2>2
<1>6. CASE o \notin S
  <2>1. \A p \in S : booked[p] = booked'[p]
    BY <1>6
  <2>2. QED
    BY <1>4, <1>6, <2>1, LotsAgree
<1>7. QED
  BY <1>4, <1>5, <1>6

LEMMA ObserveStep ==
  ASSUME PathInv, Observe
  PROVE  PathInv'
<1> USE DEF PathInv
<1>1. PICK o, c, r : o = call.order /\ c = call.cumulative /\ r = call.remaining
  OBVIOUS
<1>2. PICK e \in call.observers :
         /\ OnBrokerExecution(e, o, c, r)
         /\ call' = IF call.observers = {e} THEN Idle ELSE [call EXCEPT !.observers = @ \ {e}]
  BY <1>1 DEF Observe
<1>3. /\ call.stage = "observing" /\ UNCHANGED <<ledger, requests, nextId, adapter, slipped>>
  BY DEF Observe
<1>4. /\ call = Observing(o, c, r, call.observers) /\ o \in Ids /\ c \in 0 .. InitialCash
      /\ r \in 0 .. InitialCash /\ call.observers \subseteq Engines /\ e \in Engines
  BY <1>1, <1>2, <1>3, CallForms
<1>5. /\ call' \in Calls
      /\ \/ call'.stage = "idle"
         \/ call' = Observing(o, c, r, call.observers \ {e})
  <2>1. CASE call.observers = {e}
    BY <1>2, <2>1, IdleCall
  <2>2. CASE call.observers # {e}
    <3>1. call' = Observing(o, c, r, call.observers \ {e})
      BY <1>2, <1>4, <2>2 DEF Observing
    <3>2. QED
      BY <1>4, <3>1 DEF Observing, Calls
  <2>3. QED
    BY <2>1, <2>2
<1>6. /\ call'.stage \in {"idle", "observing"}
      /\ call'.stage = "observing" =>
           /\ call'.order = o /\ call'.cumulative = c /\ call'.remaining = r
           /\ call'.observers = call.observers \ {e}
  BY <1>5 DEF Observing
<1>7. \A p \in Ids : State(p)' = State(p) /\ records'[p] = records[p]
  BY <1>3 DEF ledger, State
<1>8. Proved!IInv'
  BY <1>3, QuietLedger
<1>9. Ledger!TypeOK'
  BY <1>8, LedgerTypes
<1>10. KeysInv'
  BY <1>3, QuietKeys
<1>11. DispatchInv'
  <2>1. call.stage \notin UnsettledStages /\ call'.stage \notin UnsettledStages
    BY <1>3, <1>6 DEF UnsettledStages
  <2>2. QED
    BY <1>3, <2>1, QuietDispatch DEF ledger
<1>12. halted' \in {halted, TRUE} /\ closeOnly' = closeOnly
  BY <1>2 DEF OnBrokerExecution, ReportApiError, risk
<1>13. SlipInv'
  BY <1>3, <1>6, <1>12, QuietSlip
<1>14. /\ State(o) = IF r = 0 THEN "Filled" ELSE "PartiallyFilled"
       /\ records[o].filled = c
  BY <1>1, <1>3 DEF BooksInv, ObserveInv
<1>15. ObserveInv'
  BY <1>4, <1>6, <1>7, <1>14 DEF ObserveInv, State
<1>16. halted' \in BOOLEAN /\ closeOnly' \in BOOLEAN
  BY <1>12 DEF TypeOK
<1>17. CASE UNCHANGED <<portfolio, applied, booked>>
  <2>1. TypeOK'
    BY <1>3, <1>5, <1>9, <1>16, <1>17, Zenon DEF TypeOK, adapter, portfolio
  <2>2. ASSUME NEW f, NEW side PROVE BookedOf(f, side)' = BookedOf(f, side)
    <3>1. OrdersOf(f, side)' = OrdersOf(f, side)
      BY <1>3 DEF OrdersOf
    <3>2. QED
      BY <1>17, <3>1 DEF BookedOf
  <2>3. FillsBookedOnce'
    BY <1>7, <1>17, <2>2 DEF BooksInv, FillsBookedOnce, portfolio
  <2>4. ASSUME NEW p \in Ids PROVE BookInv(p)'
    <3>1. BookInv(p)
      BY DEF BooksInv
    <3>2. Awaited(p)' => Awaited(p)
      BY <1>1, <1>3, <1>6, <1>7 DEF Awaited
    <3>3. QED
      BY <1>3, <1>7, <1>17, <3>1, <3>2 DEF BookInv
  <2>5. QED
    BY <1>8, <1>10, <1>11, <1>13, <1>15, <2>1, <2>3, <2>4 DEF BooksInv
<1>18. CASE ~UNCHANGED <<portfolio, applied, booked>>
  <2>1. PICK side, lots : side = requests[o].side /\ lots = c - applied[e][o]
    OBVIOUS
  <2>2. /\ requests[o].engine = e /\ lots > 0 /\ Fits(side, lots, e)
        /\ Book(e, o, side, lots) /\ Remember(e, o, c, r)
    BY <1>2, <1>18, <2>1 DEF OnBrokerExecution
  <2>3. BookInv(o) /\ State(o) # "Absent"
    BY <1>4, <1>14 DEF BooksInv
  <2>4. side \in {"Buy", "Sell"} /\ requests[o] = [engine |-> e, side |-> side]
    BY <1>4, <2>1, <2>2, <2>3 DEF BookInv, TypeOK, NoRequest
  <2>5. applied[e][o] = booked[o]
    <3>1. Awaited(o)
      BY <1>1, <1>2, <1>3, <2>2 DEF Awaited
    <3>2. QED
      BY <2>2, <2>3, <3>1 DEF BookInv
  <2>6. booked[o] \in 0 .. InitialCash /\ booked \in [Ids -> 0 .. InitialCash]
    BY <1>4 DEF TypeOK
  <2>7. lots \in 1 .. InitialCash /\ booked[o] + lots = c
    BY <1>4, <2>1, <2>2, <2>5, <2>6, BoundAssumption
  <2>8. booked' = [booked EXCEPT ![o] = c]
    BY <2>2, <2>7 DEF Book
  <2>9. /\ booked' \in [Ids -> 0 .. InitialCash] /\ booked'[o] = c
        /\ \A p \in Ids : p # o => booked'[p] = booked[p]
    BY <1>4, <2>6, <2>8
  <2>10. /\ position' \in [Engines -> 0 .. InitialCash] /\ cash' \in 0 .. InitialCash
         /\ cash' + Cardinality(Lots(position', Engines)) = InitialCash
         /\ position'[e] = position[e] + (IF side = "Buy" THEN lots ELSE -lots)
         /\ \A f \in Engines \ {e} : position'[f] = position[f]
    BY <1>4, <2>2, <2>4, <2>7, BookedPortfolio DEF BooksInv
  <2>11. \A f \in Engines, s \in {"Buy", "Sell"} :
           /\ BookedOf(f, s) \in Nat
           /\ BookedOf(f, s)' = BookedOf(f, s) + (IF f = e /\ s = side THEN lots ELSE 0)
    <3>1. TypeOK /\ booked'[o] = booked[o] + lots
      BY <2>7, <2>9
    <3>2. ASSUME NEW f \in Engines, NEW s \in {"Buy", "Sell"}
          PROVE  /\ BookedOf(f, s) \in Nat
                 /\ BookedOf(f, s)' = BookedOf(f, s) + (IF f = e /\ s = side THEN lots ELSE 0)
      <4>1. OrdersOf(f, s)' = OrdersOf(f, s)
        BY <1>3 DEF OrdersOf
      <4>2. PICK S \in SUBSET Ids : S = OrdersOf(f, s)
        BY DEF OrdersOf
      <4>3. o \in S <=> f = e /\ s = side
        BY <1>4, <2>4, <4>2 DEF OrdersOf
      <4>4. lots \in Nat
        BY <2>7
      <4>5. /\ Cardinality(Lots(booked, S)) \in Nat
            /\ o \in S => Cardinality(Lots(booked', S)) = Cardinality(Lots(booked, S)) + lots
            /\ o \notin S => Cardinality(Lots(booked', S)) = Cardinality(Lots(booked, S))
        BY <1>4, <2>9, <3>1, <4>4, BookedOrders
      <4>6. /\ BookedOf(f, s) = Cardinality(Lots(booked, S))
            /\ BookedOf(f, s)' = Cardinality(Lots(booked', S))
        BY <4>1, <4>2 DEF BookedOf
      <4>7. QED
        BY <4>3, <4>4, <4>5, <4>6
    <3>3. QED
      BY <3>2
  <2>12. applied' = [applied EXCEPT ![e][o] = IF r > 0 THEN c ELSE 0]
    BY <2>2 DEF Remember
  <2>13. /\ applied' \in [Engines -> [Ids -> 0 .. InitialCash]]
         /\ applied'[e][o] = IF r > 0 THEN c ELSE 0
         /\ \A f \in Engines, p \in Ids : f # e \/ p # o => applied'[f][p] = applied[f][p]
    <3>1. (IF r > 0 THEN c ELSE 0) \in 0 .. InitialCash
      BY <1>4, BoundAssumption
    <3>2. applied \in [Engines -> [Ids -> 0 .. InitialCash]]
      BY DEF TypeOK
    <3>3. QED
      BY <1>4, <2>12, <3>1, <3>2
  <2>14. TypeOK'
    BY <1>3, <1>5, <1>9, <1>16, <2>9, <2>10, <2>13, Zenon DEF TypeOK, adapter
  <2>15. FillsBookedOnce'
    <3>1. ASSUME NEW f \in Engines
          PROVE  position'[f] = BookedOf(f, "Buy")' - BookedOf(f, "Sell")'
      <4>1. position[f] = BookedOf(f, "Buy") - BookedOf(f, "Sell")
        BY DEF BooksInv, FillsBookedOnce
      <4>2. CASE f = e
        <5>1. CASE side = "Buy"
          BY <2>7, <2>10, <2>11, <4>1, <4>2, <5>1
        <5>2. CASE side = "Sell"
          BY <2>7, <2>10, <2>11, <4>1, <4>2, <5>2
        <5>3. QED
          BY <2>4, <5>1, <5>2
      <4>3. CASE f # e
        BY <2>10, <2>11, <4>1, <4>3
      <4>4. QED
        BY <4>2, <4>3
    <3>2. ASSUME NEW p \in Ids PROVE booked'[p] <= records'[p].filled
      <4>1. CASE p = o
        BY <1>4, <1>7, <1>14, <2>9, <4>1
      <4>2. CASE p # o
        BY <1>7, <2>9, <4>2 DEF BooksInv, FillsBookedOnce
      <4>3. QED
        BY <4>1, <4>2
    <3>3. QED
      BY <2>10, <3>1, <3>2 DEF FillsBookedOnce
  <2>16. ASSUME NEW p \in Ids PROVE BookInv(p)'
    <3>1. CASE p = o
      <4>1. State(o)' = State(o) /\ requests'[o] = requests[o]
        BY <1>3, <1>4, <1>7
      <4>2. Awaited(o)' => r > 0
        <5>1. State(o)' = "Filled" => ~(call'.stage = "observing" /\ e \in call'.observers)
          BY <1>6
        <5>2. QED
          BY <1>4, <1>14, <2>2, <4>1, <5>1 DEF Awaited
      <4>3. QED
        BY <1>4, <2>2, <2>3, <2>4, <2>9, <2>13, <3>1, <4>1, <4>2 DEF BookInv
    <3>2. CASE p # o
      <4>1. BookInv(p) /\ State(p)' = State(p) /\ requests'[p] = requests[p]
        BY <1>3, <1>7 DEF BooksInv
      <4>2. Awaited(p)' => Awaited(p)
        BY <1>6, <3>2, <4>1 DEF Awaited
      <4>3. \A f \in Engines : applied'[f][p] = applied[f][p]
        BY <2>13, <3>2
      <4>4. QED
        BY <2>9, <3>2, <4>1, <4>2, <4>3 DEF BookInv
    <3>3. QED
      BY <3>1, <3>2
  <2>17. QED
    BY <1>8, <1>10, <1>11, <1>13, <1>15, <2>14, <2>15, <2>16 DEF BooksInv
<1>19. QED
  BY <1>17, <1>18

(***************************************************************************)
(* Breakers and connection.                                                *)
(***************************************************************************)
LEMMA EnvironmentStep ==
  ASSUME PathInv, Environment
  PROVE  PathInv'
<1> USE DEF PathInv
<1>1. /\ UNCHANGED <<ledger, requests, engines, pending, portfolio, call, booked>>
      /\ halted' \in BOOLEAN /\ closeOnly' \in BOOLEAN /\ connected' \in BOOLEAN
      /\ \/ UNCHANGED <<halted, closeOnly, slipped>>
         \/ slipped' = IF halted' \/ closeOnly' THEN slipped ELSE 0
  BY DEF Environment, SetHaltTrading, SetCloseOnly, SetConnected, BreakersSet, TypeOK,
         adapter, risk, history
<1>2. Proved!IInv'
  BY <1>1, QuietLedger
<1>3. TypeOK'
  <2>1. slipped' \in Nat /\ pending' \subseteq Ids /\ call' \in Calls
    BY <1>1 DEF TypeOK
  <2>2. QED
    BY <1>1, <1>2, <2>1, QuietTypes
<1>4. KeysInv'
  BY <1>1, QuietKeys
<1>5. DispatchInv'
  BY <1>1, QuietDispatch DEF ledger
<1>6. SlipInv'
  <2>1. CASE UNCHANGED <<halted, closeOnly, slipped>>
    BY <1>1, <2>1 DEF SlipInv
  <2>2. CASE slipped' = IF halted' \/ closeOnly' THEN slipped ELSE 0
    BY <1>1, <2>2 DEF SlipInv
  <2>3. QED
    BY <1>1, <2>1, <2>2
<1>7. BooksInv'
  <2>1. Quiet /\ UNCHANGED <<call, records>>
    BY <1>1 DEF Quiet, ledger
  <2>2. QED
    BY <1>1, <2>1, QuietBooks DEF engines
<1>8. QED
  BY <1>2, <1>3, <1>4, <1>5, <1>6, <1>7

LEMMA InitPath == Init => PathInv
<1> SUFFICES ASSUME Init PROVE PathInv
  OBVIOUS
<1>1. Proved!IInv
  <2>1. Proved!Init
    BY SameTypes DEF Init
  <2>2. QED
    BY <2>1, Proved!InitInv, LedgerAssumptions
<1>2. TypeOK
  <2>1. Ledger!TypeOK
    BY <1>1, SameTypes DEF Proved!IInv
  <2>2. /\ requests \in [Ids -> [engine : Engines, side : {"Buy", "Sell"}] \cup {NoRequest}]
        /\ nextId \in [Engines -> 1 .. MaxOrders + 1]
        /\ applied \in [Engines -> [Ids -> 0 .. InitialCash]]
        /\ position \in [Engines -> 0 .. InitialCash] /\ cash \in 0 .. InitialCash
        /\ booked \in [Ids -> 0 .. InitialCash] /\ slipped \in Nat /\ pending \subseteq Ids
    BY BoundAssumption DEF Init
  <2>3. call \in Calls /\ connected \in BOOLEAN /\ halted \in BOOLEAN /\ closeOnly \in BOOLEAN
    BY IdleCall DEF Init
  <2>4. QED
    BY <2>1, <2>2, <2>3, Zenon DEF TypeOK
<1>3. \A o \in Ids : State(o) = "Absent" /\ records[o].filled = 0
  BY DEF Init, Ledger!Init, Ledger!Blank, Ledger!Absent, State
<1>4. appliedKeys = {} /\ call.stage = "idle"
  BY IdleCall DEF Init, Ledger!Init
<1>5. KeysInv
  BY <1>4 DEF KeysInv
<1>6. DispatchInv
  BY <1>3, <1>4 DEF DispatchInv, Unsettled, StagesOf
<1>7. SlipInv
  BY <1>4 DEF SlipInv, Init
<1>8. FillsBookedOnce
  <2>1. ASSUME NEW S, NEW f, \A x \in S : f[x] = 0 PROVE Cardinality(Lots(f, S)) = 0
    <3>1. Lots(f, S) = {}
      BY <2>1 DEF Lots
    <3>2. QED
      BY <3>1, FS_EmptySet
  <2>2. \A e \in Engines, side \in {"Buy", "Sell"} : BookedOf(e, side) = 0
    <3>1. \A e \in Engines, side \in {"Buy", "Sell"} : \A o \in OrdersOf(e, side) : booked[o] = 0
      BY DEF Init, OrdersOf
    <3>2. QED
      BY <2>1, <3>1 DEF BookedOf
  <2>3. Cardinality(Lots(position, Engines)) = 0
    BY <2>1 DEF Init
  <2>4. QED
    BY <1>3, <2>2, <2>3, BoundAssumption DEF FillsBookedOnce, Init
<1>9. ObserveInv /\ \A o \in Ids : BookInv(o)
  BY <1>3, <1>4 DEF ObserveInv, BookInv, Init
<1>10. QED
  BY <1>1, <1>2, <1>5, <1>6, <1>7, <1>8, <1>9 DEF PathInv, BooksInv

LEMMA PathStep ==
  ASSUME PathInv, [Next]_vars
  PROVE  PathInv'
<1>1. CASE Trade
  <2>1. CASE MarkRiskChecked
    BY <2>1, MarkStep DEF MarkRiskChecked
  <2>2. CASE MarkSubmitted
    BY <2>2, MarkStep DEF MarkSubmitted
  <2>3. QED
    BY <1>1, <2>1, <2>2, SignalStep, RouteStep, EnterStep, SubmitStep, RefusedDispatchStep,
       AcknowledgementStep, ImmediateFillStep, ObserveStep DEF Trade
<1>2. CASE Amend
  BY <1>2, LateFillStep, RequestCancelStep, CancelStep, HandleCancelStep, RefusedCancelStep
     DEF Amend
<1>3. CASE Environment
  BY <1>3, EnvironmentStep
<1>4. CASE UNCHANGED vars
  <2>1. UNCHANGED <<ledger, requests, engines, adapter, portfolio, risk, call, history>>
    BY <1>4 DEF vars
  <2>2. /\ PathInv /\ connected' \in BOOLEAN /\ pending' \subseteq Ids /\ slipped' \in Nat
        /\ halted' \in BOOLEAN /\ closeOnly' \in BOOLEAN /\ call' \in Calls
    BY <2>1 DEF PathInv, TypeOK, adapter, risk, history
  <2>3. Proved!IInv' /\ KeysInv'
    BY <2>1, QuietLedger, QuietKeys DEF PathInv
  <2>4. TypeOK'
    BY <2>1, <2>2, <2>3, QuietTypes DEF PathInv, history
  <2>5. DispatchInv' /\ SlipInv'
    BY <2>1, QuietDispatch, QuietSlip DEF PathInv, ledger, risk, history
  <2>6. Quiet /\ UNCHANGED <<call, records>>
    BY <2>1 DEF Quiet, ledger
  <2>7. BooksInv'
    BY <2>1, <2>6, QuietBooks DEF PathInv, history, engines
  <2>8. QED
    BY <2>3, <2>4, <2>5, <2>7 DEF PathInv
<1>5. QED
  BY <1>1, <1>2, <1>3, <1>4 DEF Next

LEMMA PathInvariance == Spec => []PathInv
<1>1. PathInv /\ [Next]_vars => PathInv'
  BY PathStep
<1>2. QED
  BY <1>1, InitPath, PTL DEF Spec

-----------------------------------------------------------------------------
(* Every variable of the order path keeps its type: in particular no cash, *)
(* position or order ever turns negative, or exceeds the initial cash.     *)
THEOREM TypeCorrect == Spec => []TypeOK
<1>1. PathInv => TypeOK
  BY DEF PathInv
<1>2. QED
  BY <1>1, PathInvariance, PTL

(* onBrokerExecution books every lot once, whatever reports are repeated,  *)
(* skipped, late or refused: positions are what was booked of entries less *)
(* what was booked of exits, no order is booked beyond its ledger, and no  *)
(* cash is lost.                                                           *)
THEOREM BookedOnce == Spec => []FillsBookedOnce
<1>1. PathInv => FillsBookedOnce
  BY DEF PathInv, BooksInv
<1>2. QED
  BY <1>1, PathInvariance, PTL

(* dispatchOrder and submit settle every order before they return, also    *)
(* when the connection is lost between the gateway's test and the          *)
(* adapter's.                                                              *)
THEOREM NoLimbo == Spec => []DispatchLeavesNoLimbo
<1>1. PathInv => DispatchLeavesNoLimbo
  BY IdleCall DEF PathInv, DispatchInv, DispatchLeavesNoLimbo, Unsettled, StagesOf
<1>2. QED
  BY <1>1, PathInvariance, PTL

(* m_appliedBrokerQty of a working order is what was booked of it, also    *)
(* after a fill the portfolio refused.                                     *)
THEOREM Remembered == Spec => []EngineRemembersBooked
<1>1. PathInv => EngineRemembersBooked
  BY DEF PathInv, BooksInv, BookInv, Awaited, EngineRemembersBooked
<1>2. QED
  BY <1>1, PathInvariance, PTL

(* Between canTrade and dispatchOrder a breaker can open: at most the one  *)
(* entry in flight is still sent.                                          *)
THEOREM OneEntrySlips == Spec => []AtMostOneEntrySlips
<1>1. PathInv => AtMostOneEntrySlips
  BY DEF PathInv, SlipInv, AtMostOneEntrySlips
<1>2. QED
  BY <1>1, PathInvariance, PTL

-----------------------------------------------------------------------------
(***************************************************************************)
(* The path uses the ledger as OrderLifecycle specifies it.                *)
(***************************************************************************)
Creates(o, key, stamp) ==
  /\ call.stage = "entering" /\ o = call.order
  /\ \E q \in 1 .. InitialCash : Ledger!Create(o, key, stamp, q)

Amends(o, key, stamp) ==
  \/ \E to \in {"RiskChecked", "Submitted", "Accepted", "Rejected", "Unknown"} :
       Ledger!Transition(o, to, key, stamp)
  \/ \E c, r \in 0 .. InitialCash : Ledger!ApplyExecution(o, key, stamp, c, r)
  \/ Ledger!RequestCancel(o, key, stamp)
  \/ \E d \in {"Accepted", "AlreadyFilled"} : Ledger!ApplyCancelResult(o, key, stamp, d)

Acts ==
  \E o \in Ids, key \in EventKeys, stamp \in EventStamps :
    Creates(o, key, stamp) \/ Amends(o, key, stamp)

(* The events of a dispatch and the reports of fills.                      *)
LEMMA DispatchEvents ==
  ASSUME NEW o \in Ids,
         NEW kind \in {"execution", "gateway-risk", "gateway-submit", "ack", "fill",
                       "dispatch-failed"},
         NEW n \in 1 .. MaxFills, NEW sequence \in 0 .. 4 + MaxFills
  PROVE  Key(kind, o, n) \in EventKeys /\ At(sequence) \in EventStamps
  BY DEF EventKeys, EventStamps

LEMMA DispatchActs ==
  ASSUME PathInv, Enter \/ MarkRiskChecked \/ MarkSubmitted \/ RefusedDispatch
                  \/ HandleAcknowledgement
  PROVE  UNCHANGED ledger \/ Acts
<1>1. PICK o : o = call.order
  OBVIOUS
<1>2. 1 \in 1 .. MaxFills /\ \A i \in {1, 2, 3, 4} : i \in 0 .. 4 + MaxFills
  BY BoundAssumption
<1>3. TypeOK
  BY DEF PathInv
<1>4. CASE Enter
  <2>1. call.stage = "entering" /\ o \in Ids /\ call.quantity \in 1 .. InitialCash
    BY <1>1, <1>3, <1>4, CallForms DEF Enter, DispatchStages
  <2>2. UNCHANGED ledger \/ Ledger!Create(o, Key("execution", o, 1), At(1), call.quantity)
    BY <1>1, <1>4 DEF Enter
  <2>3. Key("execution", o, 1) \in EventKeys /\ At(1) \in EventStamps
    BY <1>2, <2>1, DispatchEvents
  <2>4. QED
    BY <1>1, <2>1, <2>2, <2>3 DEF Acts, Creates
<1>5. ASSUME NEW stage \in DispatchStages, NEW to \in {"RiskChecked", "Submitted"},
             NEW kind \in {"gateway-risk", "gateway-submit"}, NEW sequence \in {2, 3}, NEW next,
             Mark(stage, to, kind, sequence, next)
      PROVE  UNCHANGED ledger \/ Acts
  <2>1. o \in Ids
    BY <1>1, <1>3, <1>5, CallForms DEF Mark
  <2>2. UNCHANGED ledger \/ Ledger!Transition(o, to, Key(kind, o, 1), At(sequence))
    BY <1>1, <1>5 DEF Mark
  <2>3. Key(kind, o, 1) \in EventKeys /\ At(sequence) \in EventStamps
    BY <1>2, <2>1, DispatchEvents
  <2>4. QED
    BY <2>1, <2>2, <2>3 DEF Acts, Amends
<1>6. CASE MarkRiskChecked
  BY <1>5, <1>6 DEF MarkRiskChecked, DispatchStages
<1>7. CASE MarkSubmitted
  BY <1>5, <1>7 DEF MarkSubmitted, DispatchStages
<1>8. CASE RefusedDispatch
  <2>1. o \in Ids
    BY <1>1, <1>3, <1>8, CallForms DEF RefusedDispatch, DispatchStages
  <2>2. UNCHANGED ledger \/ Ledger!Transition(o, "Unknown", Key("dispatch-failed", o, 1), At(4))
    BY <1>1, <1>8 DEF RefusedDispatch, Ledger!MarkUnknown
  <2>3. Key("dispatch-failed", o, 1) \in EventKeys /\ At(4) \in EventStamps
    BY <1>2, <2>1, DispatchEvents
  <2>4. QED
    BY <2>1, <2>2, <2>3 DEF Acts, Amends
<1>9. CASE HandleAcknowledgement
  <2>1. o \in Ids
    BY <1>1, <1>3, <1>9, CallForms DEF HandleAcknowledgement, AnswerStages
  <2>2. \/ UNCHANGED ledger
        \/ \E to \in {"Accepted", "Rejected"} : Ledger!Transition(o, to, Key("ack", o, 1), At(4))
    BY <1>1, <1>9 DEF HandleAcknowledgement, Ledger!ApplyAcknowledgement
  <2>3. Key("ack", o, 1) \in EventKeys /\ At(4) \in EventStamps
    BY <1>2, <2>1, DispatchEvents
  <2>4. QED
    BY <2>1, <2>2, <2>3 DEF Acts, Amends
<1>10. QED
  BY <1>4, <1>6, <1>7, <1>8, <1>9

LEMMA ExecutionActs ==
  ASSUME NEW o \in Ids, NEW n \in 1 .. MaxFills, NEW c \in 0 .. InitialCash,
         NEW r \in Int, r <= InitialCash, HandleExecution(o, n, c, r)
  PROVE  UNCHANGED ledger \/ Acts
<1>1. CASE Ledger!CanExecute(o, Key("fill", o, n), At(4 + n), c, r)
  <2>1. Ledger!ApplyExecution(o, Key("fill", o, n), At(4 + n), c, r)
    BY <1>1 DEF HandleExecution
  <2>2. r \in 0 .. InitialCash
    BY <1>1, BoundAssumption DEF Ledger!CanExecute, Ledger!ValidQuantities
  <2>3. 4 + n \in 0 .. 4 + MaxFills
    BY BoundAssumption
  <2>4. Key("fill", o, n) \in EventKeys /\ At(4 + n) \in EventStamps
    BY <2>3, DispatchEvents
  <2>5. QED
    BY <2>1, <2>2, <2>4 DEF Acts, Amends
<1>2. CASE ~Ledger!CanExecute(o, Key("fill", o, n), At(4 + n), c, r)
  BY <1>2 DEF HandleExecution
<1>3. QED
  BY <1>1, <1>2

LEMMA CancelActs ==
  ASSUME PathInv,
         \/ \E o \in Ids, sequence \in CancelSequences : RequestCancel(o, sequence)
         \/ HandleCancel \/ RefusedCancel
  PROVE  UNCHANGED ledger \/ Acts
<1>1. TypeOK
  BY DEF PathInv
<1>2. ASSUME NEW o \in Ids, NEW sequence \in CancelSequences, RequestCancel(o, sequence)
      PROVE  Acts
  <2>1. Ledger!RequestCancel(o, Key("cancel", o, 1), At(sequence))
    BY <1>2 DEF RequestCancel
  <2>2. Event(o, Key("cancel", o, 1), At(sequence))
    BY CancelEvents
  <2>3. QED
    BY <2>1, <2>2 DEF Acts, Amends, Event
<1>3. PICK o, d, sequence : o = call.order /\ d = call.stage /\ sequence = call.sequence
  OBVIOUS
<1>4. CASE HandleCancel
  <2>1. o \in Ids /\ sequence \in CancelSequences /\ d \in {"Accepted", "AlreadyFilled"}
    BY <1>1, <1>3, <1>4, CallForms DEF HandleCancel, CancelStages
  <2>2. \/ UNCHANGED ledger
        \/ Ledger!ApplyCancelResult(o, Key("cancel-result", o, 1), At(sequence + 1), d)
    BY <1>3, <1>4 DEF HandleCancel
  <2>3. Event(o, Key("cancel-result", o, 1), At(sequence + 1))
    BY <2>1, CancelEvents
  <2>4. QED
    BY <2>1, <2>2, <2>3 DEF Acts, Amends, Event
<1>5. CASE RefusedCancel
  <2>1. o \in Ids /\ sequence \in CancelSequences
    BY <1>1, <1>3, <1>5, CallForms DEF RefusedCancel, CancelStages
  <2>2. \/ UNCHANGED ledger
        \/ Ledger!Transition(o, "Unknown", Key("cancel-failed", o, 1), At(sequence + 1))
    BY <1>3, <1>5 DEF RefusedCancel, Ledger!MarkUnknown
  <2>3. Event(o, Key("cancel-failed", o, 1), At(sequence + 1))
    BY <2>1, CancelEvents
  <2>4. QED
    BY <2>1, <2>2, <2>3 DEF Acts, Amends, Event
<1>6. QED
  BY <1>2, <1>4, <1>5

LEMMA PathActs ==
  ASSUME PathInv, [Next]_vars
  PROVE  UNCHANGED ledger \/ Acts
<1>1. CASE ImmediateFill
  <2>1. PICK o, c, r : o = call.order /\ c = call.filled /\ r = records[o].quantity - c
    OBVIOUS
  <2>2. o \in Ids /\ c \in 0 .. InitialCash /\ HandleExecution(o, 1, c, r)
    BY <1>1, <2>1, CallForms DEF ImmediateFill, AnswerStages, PathInv
  <2>3. records[o].quantity \in 0 .. InitialCash
    BY <2>2 DEF PathInv, TypeOK, Ledger!TypeOK, Ledger!Record
  <2>4. r \in Int /\ r <= InitialCash /\ 1 \in 1 .. MaxFills
    BY <2>1, <2>2, <2>3, BoundAssumption
  <2>5. QED
    BY <2>2, <2>4, ExecutionActs
<1>2. CASE Trade /\ ~ImmediateFill
  BY <1>2, DispatchActs DEF Trade, Signal, Route, Submit, Observe
<1>3. CASE Amend
  <2>1. ASSUME NEW o \in Ids, NEW n \in 2 .. MaxFills, NEW c \in 0 .. InitialCash,
               NEW r \in 0 .. InitialCash, LateFill(o, n, c, r)
        PROVE  UNCHANGED ledger \/ Acts
    <3>1. n \in 1 .. MaxFills /\ r \in Int /\ r <= InitialCash /\ HandleExecution(o, n, c, r)
      BY <2>1, BoundAssumption DEF LateFill
    <3>2. QED
      BY <3>1, ExecutionActs
  <2>2. CASE Cancel
    BY <2>2 DEF Cancel
  <2>3. QED
    BY <1>3, <2>1, <2>2, CancelActs DEF Amend
<1>4. CASE Environment
  BY <1>4 DEF Environment, SetHaltTrading, SetCloseOnly, SetConnected, BreakersSet
<1>5. CASE UNCHANGED vars
  BY <1>5 DEF vars
<1>6. QED
  BY <1>1, <1>2, <1>3, <1>4, <1>5 DEF Next

LEMMA ActsAreSteps ==
  ASSUME Acts
  PROVE  Ledger!Next
<1>1. PICK o \in Ids, key \in EventKeys, stamp \in EventStamps :
         Creates(o, key, stamp) \/ Amends(o, key, stamp)
  BY DEF Acts
<1> SUFFICES Ledger!Local(o, key, stamp) \/ Ledger!Reported(o, key, stamp)
  BY DEF Ledger!Next
<1>2. CASE Creates(o, key, stamp)
  <2>1. PICK q \in 1 .. InitialCash : Ledger!Create(o, key, stamp, q)
    BY <1>2 DEF Creates
  <2>2. q \in Ledger!Amounts \cap 0 .. InitialCash
    BY BoundAssumption DEF Ledger!Amounts
  <2>3. QED
    BY <2>1, <2>2 DEF Ledger!Local
<1>3. ASSUME NEW to \in {"RiskChecked", "Submitted", "Unknown"},
             Ledger!Transition(o, to, key, stamp)
      PROVE  Ledger!Local(o, key, stamp)
  BY <1>3 DEF Ledger!Local, Ledger!MarkRiskChecked, Ledger!MarkSubmitted, Ledger!MarkUnknown
<1>4. ASSUME NEW to \in {"Accepted", "Rejected"}, Ledger!Transition(o, to, key, stamp)
      PROVE  Ledger!Reported(o, key, stamp)
  <2>1. Ledger!Admissible(o, key, stamp)
    BY <1>4 DEF Ledger!Transition, Ledger!CanMove
  <2>2. \/ Ledger!ApplyAcknowledgement(o, key, stamp, TRUE, TRUE)
        \/ Ledger!ApplyAcknowledgement(o, key, stamp, FALSE, FALSE)
    BY <1>4 DEF Ledger!ApplyAcknowledgement
  <2>3. QED
    BY <2>1, <2>2, Zenon DEF Ledger!Reported
<1>5. ASSUME NEW c \in 0 .. InitialCash, NEW r \in 0 .. InitialCash,
             Ledger!ApplyExecution(o, key, stamp, c, r)
      PROVE  Ledger!Reported(o, key, stamp)
  <2>1. Ledger!Admissible(o, key, stamp)
    BY <1>5 DEF Ledger!ApplyExecution, Ledger!CanExecute, Ledger!CanMove
  <2>2. c \in Ledger!Amounts /\ r \in Ledger!Amounts
    BY BoundAssumption DEF Ledger!Amounts
  <2>3. QED
    BY <1>5, <2>1, <2>2 DEF Ledger!Reported
<1>6. ASSUME Ledger!RequestCancel(o, key, stamp)
      PROVE  Ledger!Local(o, key, stamp)
  BY <1>6 DEF Ledger!Local
<1>7. ASSUME NEW d \in {"Accepted", "AlreadyFilled"}, Ledger!ApplyCancelResult(o, key, stamp, d)
      PROVE  Ledger!Reported(o, key, stamp)
  <2>1. Ledger!Admissible(o, key, stamp) /\ d \in Ledger!Dispositions
    BY <1>7 DEF Ledger!ApplyCancelResult, Ledger!CanSettleCancel, Ledger!Dispositions
  <2>2. QED
    BY <1>7, <2>1 DEF Ledger!Reported
<1>8. QED
  BY <1>1, <1>2, <1>3, <1>4, <1>5, <1>6, <1>7 DEF Amends

(* The order path implements the ledger's specification: BrokerGateway,    *)
(* the engines and the adapter call OrderLifecycleStore only as            *)
(* OrderLifecycle allows, so all its theorems hold on the path.            *)
THEOREM LedgerRefined == Spec => Ledger!Spec
<1>1. Init => Ledger!Init
  BY DEF Init
<1>2. PathInv /\ [Next]_vars => [Ledger!Next]_(Ledger!vars)
  <2>1. SUFFICES ASSUME PathInv, [Next]_vars PROVE [Ledger!Next]_(Ledger!vars)
    OBVIOUS
  <2>2. CASE Acts
    BY <2>2, ActsAreSteps
  <2>3. CASE UNCHANGED ledger
    BY <2>3 DEF ledger, Ledger!vars
  <2>4. QED
    BY <2>1, <2>2, <2>3, PathActs
<1>3. QED
  BY <1>1, <1>2, PathInvariance, PTL DEF Spec, Ledger!Spec

-----------------------------------------------------------------------------
(***************************************************************************)
(* Identities, with one engine behind the gateway.                         *)
(***************************************************************************)
LEMMA AmendsKnown ==
  ASSUME Ledger!TypeOK, NEW o \in Ids, NEW key, NEW stamp, Amends(o, key, stamp)
  PROVE  /\ State(o) # "Absent"
         /\ \A p \in Ids : p # o => State(p)' = State(p)
<1>1. ASSUME NEW to \in {"RiskChecked", "Submitted", "Accepted", "Rejected", "Unknown"},
             Ledger!Transition(o, to, key, stamp)
      PROVE  State(o) # "Absent" /\ \A p \in Ids : p # o => State(p)' = State(p)
  BY <1>1, TransitionMoves DEF MovedTo, State
<1>2. ASSUME NEW c \in 0 .. InitialCash, NEW r \in 0 .. InitialCash,
             Ledger!ApplyExecution(o, key, stamp, c, r)
      PROVE  State(o) # "Absent" /\ \A p \in Ids : p # o => State(p)' = State(p)
  BY <1>2, ExecutionMoves DEF MovedTo, State
<1>3. ASSUME Ledger!RequestCancel(o, key, stamp)
      PROVE  State(o) # "Absent" /\ \A p \in Ids : p # o => State(p)' = State(p)
  BY <1>3, RequestCancelMoves DEF MovedTo, State
<1>4. ASSUME NEW d \in {"Accepted", "AlreadyFilled"}, Ledger!ApplyCancelResult(o, key, stamp, d)
      PROVE  State(o) # "Absent" /\ \A p \in Ids : p # o => State(p)' = State(p)
  BY <1>4, CancelResultMoves DEF MovedTo, State
<1>5. QED
  BY <1>1, <1>2, <1>3, <1>4 DEF Amends

LEMMA AbsentStays ==
  ASSUME PathInv, [Next]_vars, NEW p \in Ids, State(p) = "Absent",
         ~(call.stage = "entering" /\ p = call.order)
  PROVE  State(p)' = "Absent"
<1>1. CASE UNCHANGED ledger
  BY <1>1 DEF ledger, State
<1>2. CASE Acts
  <2>1. PICK o \in Ids, key \in EventKeys, stamp \in EventStamps :
           Creates(o, key, stamp) \/ Amends(o, key, stamp)
    BY <1>2 DEF Acts
  <2>2. CASE Creates(o, key, stamp)
    <3>1. PICK q \in 1 .. InitialCash : Ledger!Create(o, key, stamp, q)
      BY <2>2 DEF Creates
    <3>2. p # o /\ MovedTo(o, "Created", key, stamp, 0)
      BY <2>2, <3>1, CreateMoves DEF Creates, PathInv, TypeOK
    <3>3. QED
      BY <3>2 DEF MovedTo, State
  <2>3. CASE Amends(o, key, stamp)
    BY <2>3, AmendsKnown DEF PathInv, TypeOK
  <2>4. QED
    BY <2>1, <2>2, <2>3
<1>3. QED
  BY <1>1, <1>2, PathActs

Early == {"routed", "entering"}

(* Only a signal starts a dispatch, and only it takes an id.               *)
LEMMA ThreadMoves ==
  ASSUME TypeOK, [Next]_vars, ~\E e \in Engines, side \in {"Buy", "Sell"} : Signal(e, side)
  PROVE  /\ nextId' = nextId
         /\ \/ call'.stage \notin Early
            \/ call'.order = call.order /\ call.stage \in Early /\ UNCHANGED ledger
<1> USE DEF Early
<1>1. CASE Route
  <2>1. call.stage = "routed" /\ call.stage \in DispatchStages /\ UNCHANGED <<ledger, engines>>
    BY <1>1 DEF Route, DispatchStages
  <2>2. CASE connected
    <3>1. Goto("entering") /\ "entering" \in DispatchStages
      BY <1>1, <2>2 DEF Route, DispatchStages
    <3>2. QED
      BY <2>1, <3>1, GotoDispatch DEF engines
  <2>3. CASE ~connected
    BY <1>1, <2>1, <2>3, IdleCall DEF Route, Fail, engines
  <2>4. QED
    BY <2>2, <2>3
<1>2. CASE Enter
  <2>1. call.stage \in DispatchStages /\ "clearing" \in DispatchStages /\ nextId' = nextId
        /\ (call' = Idle \/ Goto("clearing"))
    BY <1>2 DEF Enter, Fail, DispatchStages, engines
  <2>2. QED
    BY <2>1, IdleCall, GotoDispatch
<1>3. CASE MarkRiskChecked \/ MarkSubmitted
  <2>1. PICK next \in {"submitting", "handing"} :
           /\ call.stage \in DispatchStages /\ next \in DispatchStages /\ nextId' = nextId
           /\ (call' = Idle \/ Goto(next))
    BY <1>3 DEF MarkRiskChecked, MarkSubmitted, Mark, Fail, DispatchStages, engines
  <2>2. QED
    BY <2>1, IdleCall, GotoDispatch
<1>4. CASE Submit
  <2>1. /\ call.stage \in DispatchStages /\ "refused" \in DispatchStages /\ nextId' = nextId
        /\ \/ Goto("refused")
           \/ \E accepted, filled : call' = Answering(call.order, accepted, filled)
    <3>1. CASE ~connected
      BY <1>4, <3>1 DEF Submit, DispatchStages, engines
    <3>2. CASE connected
      BY <1>4, <3>2, Zenon DEF Submit, DispatchStages, engines
    <3>3. QED
      BY <3>1, <3>2
  <2>2. QED
    BY <2>1, GotoDispatch DEF Answering
<1>5. CASE RefusedDispatch \/ HandleCancel \/ RefusedCancel
  BY <1>5, IdleCall DEF RefusedDispatch, HandleCancel, RefusedCancel, Fail, engines
<1>6. CASE HandleAcknowledgement
  <2>1. /\ call.stage \in AnswerStages /\ "filling" \in AnswerStages /\ nextId' = nextId
        /\ (call' = Idle \/ Goto("filling"))
    BY <1>6 DEF HandleAcknowledgement, Acknowledged, Goto, AnswerStages, engines
  <2>2. QED
    BY <2>1, IdleCall, GotoAnswer
<1>7. ASSUME NEW o, NEW n, NEW c, NEW r, HandleExecution(o, n, c, r)
      PROVE  nextId' = nextId /\ call'.stage \notin Early
  BY <1>7, IdleCall DEF HandleExecution, Observing, engines
<1>8. CASE ImmediateFill
  BY <1>7, <1>8 DEF ImmediateFill
<1>9. CASE Observe
  <2>1. /\ call.stage = "observing" /\ nextId' = nextId
        /\ \/ call' = Idle
           \/ \E e : call' = [call EXCEPT !.observers = @ \ {e}]
    BY <1>9 DEF Observe
  <2>2. call = Observing(call.order, call.cumulative, call.remaining, call.observers)
    BY <2>1, CallForms
  <2>3. ASSUME NEW e, call' = [call EXCEPT !.observers = @ \ {e}]
        PROVE  call'.stage = "observing"
    BY <2>1, <2>2, <2>3 DEF Observing
  <2>4. QED
    BY <2>1, <2>3, IdleCall
<1>10. CASE \E o \in Ids, n \in 2 .. MaxFills, c, r \in 0 .. InitialCash : LateFill(o, n, c, r)
  BY <1>7, <1>10 DEF LateFill
<1>11. CASE \E o \in Ids, sequence \in CancelSequences : RequestCancel(o, sequence)
  BY <1>11 DEF RequestCancel, Canceling, engines
<1>12. CASE Cancel
  <2>1. PICK stage \in {"Accepted", "AlreadyFilled", "cancelRefused"} :
           /\ call.stage \in CancelStages /\ stage \in CancelStages /\ Goto(stage)
           /\ nextId' = nextId
    BY <1>12 DEF Cancel, CancelStages, engines
  <2>2. QED
    BY <2>1, GotoCancel
<1>13. CASE Environment \/ UNCHANGED vars
  BY <1>13 DEF Environment, SetHaltTrading, SetCloseOnly, SetConnected, BreakersSet, vars, engines
<1>14. QED
  BY <1>1, <1>2, <1>3, <1>4, <1>5, <1>6, <1>8, <1>9, <1>10, <1>11, <1>12, <1>13
     DEF Next, Trade, Amend

LEMMA FreshStep ==
  ASSUME PathInv, FreshInv, NEW e, Engines = {e}, [Next]_vars
  PROVE  FreshInv'
<1>1. TypeOK /\ e \in Engines /\ nextId \in [Engines -> 1 .. MaxOrders + 1]
  BY DEF PathInv, TypeOK
<1>2. /\ \A o \in Ids : o >= nextId[e] => State(o) = "Absent"
      /\ call.stage \in Early => State(call.order) = "Absent" /\ call.order < nextId[e]
  BY <1>1 DEF FreshInv, Early
<1>3. SUFFICES /\ \A o \in Ids : o >= nextId'[e] => State(o)' = "Absent"
               /\ call'.stage \in Early => State(call.order)' = "Absent" /\ call'.order < nextId'[e]
  BY DEF FreshInv, Early
<1>4. ASSUME NEW side \in {"Buy", "Sell"}, Signal(e, side)
      PROVE  /\ \A o \in Ids : o >= nextId'[e] => State(o)' = "Absent"
             /\ call'.stage \in Early => State(call.order)' = "Absent" /\ call'.order < nextId'[e]
  <2>1. /\ nextId' = [nextId EXCEPT ![e] = @ + 1] /\ nextId[e] <= MaxOrders /\ UNCHANGED ledger
        /\ \/ call' = Idle
           \/ \E q : call' = Dispatching("routed", e, nextId[e], side, q)
    BY <1>4 DEF Signal
  <2>2. nextId'[e] = nextId[e] + 1 /\ nextId[e] \in Ids
    BY <1>1, <2>1, BoundAssumption DEF Ids
  <2>3. \A o \in Ids : State(o)' = State(o)
    BY <2>1 DEF ledger, State
  <2>4. call'.stage \in Early => call'.order = nextId[e]
    BY <2>1, IdleCall DEF Dispatching, Early
  <2>5. \A o \in Ids : o >= nextId'[e] => State(o)' = "Absent"
    BY <1>1, <1>2, <2>2, <2>3, BoundAssumption DEF Ids
  <2>6. State(nextId[e]) = "Absent" /\ nextId[e] < nextId'[e]
    BY <1>1, <1>2, <2>2
  <2>7. call'.stage \in Early => records'[call'.order].state = "Absent"
    BY <2>2, <2>3, <2>4, <2>6 DEF State
  <2>8. QED
    BY <2>4, <2>5, <2>6, <2>7 DEF State
<1>5. CASE ~\E side \in {"Buy", "Sell"} : Signal(e, side)
  <2>1. /\ nextId' = nextId
        /\ \/ call'.stage \notin Early
           \/ call'.order = call.order /\ call.stage \in Early /\ UNCHANGED ledger
    BY <1>1, <1>5, ThreadMoves
  <2>2. ASSUME NEW o \in Ids, o >= nextId[e] PROVE State(o)' = "Absent"
    <3>1. ~(call.stage = "entering" /\ o = call.order)
      BY <1>1, <1>2, <2>2 DEF Early, Ids
    <3>2. QED
      BY <1>2, <2>2, <3>1, AbsentStays
  <2>3. call'.stage \in Early => records'[call'.order].state = "Absent" /\ call'.order < nextId[e]
    BY <1>2, <2>1 DEF ledger, State
  <2>4. QED
    BY <2>1, <2>2, <2>3 DEF State
<1>6. QED
  BY <1>4, <1>5

(* With one engine behind it, BrokerGateway never meets an order id or an  *)
(* idempotency key it has seen.  The hypothesis is needed: with two the    *)
(* engines number their orders alike.                                      *)
THEOREM FreshIdentity == (\E e : Engines = {e}) => (Spec => []IdentityIsFresh)
<1> SUFFICES ASSUME NEW e, Engines = {e} PROVE Spec => []IdentityIsFresh
  OBVIOUS
<1>1. Init => FreshInv
  BY IdleCall DEF Init, Ledger!Init, Ledger!Blank, Ledger!Absent, FreshInv, State
<1>2. PathInv /\ FreshInv /\ [Next]_vars => FreshInv'
  BY FreshStep
<1>3. PathInv /\ FreshInv => IdentityIsFresh
  <2>1. SUFFICES ASSUME PathInv, FreshInv, call.stage = "entering"
                 PROVE  Ledger!CanCreate(call.order, Key("execution", call.order, 1), call.quantity)
    BY DEF IdentityIsFresh
  <2>2. call.order \in Ids /\ call.quantity \in 1 .. InitialCash
    BY <2>1, CallForms DEF PathInv, DispatchStages
  <2>3. State(call.order) = "Absent"
    BY <2>1 DEF FreshInv
  <2>4. Key("execution", call.order, 1) \notin appliedKeys
    BY <2>1, <2>2, <2>3 DEF PathInv, KeysInv, Ahead
  <2>5. Key("execution", call.order, 1) # Key("", 0, 0)
    BY DEF Key
  <2>6. call.quantity > 0
    BY <2>2, BoundAssumption
  <2>7. QED
    BY <2>3, <2>4, <2>5, <2>6 DEF Ledger!CanCreate, Ledger!Known, Ledger!Absent, State
<1>4. QED
  BY <1>1, <1>2, <1>3, PathInvariance, PTL DEF Spec

=============================================================================

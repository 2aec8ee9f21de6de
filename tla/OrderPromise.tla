---------------------------- MODULE OrderPromise ----------------------------
(***************************************************************************)
(* What the order ledger promises to the execution engine, whatever an     *)
(* adapter reports and in whatever order: an order is opened once, is      *)
(* released to the broker once, is executed only while it works, never     *)
(* beyond its quantity, and ends once.  OrderLifecycle implements it.      *)
(***************************************************************************)
EXTENDS Integers

CONSTANTS Orders, MaxQuantity

VARIABLES
  phase,     \* where the order stands
  quantity,  \* what was ordered
  filled     \* what is known to be executed

vars == <<phase, quantity, filled>>

Phase == {"none", "local", "working", "complete", "ended"}

Init ==
  /\ phase = [o \in Orders |-> "none"]
  /\ quantity = [o \in Orders |-> 0]
  /\ filled = [o \in Orders |-> 0]

Place(o) ==
  /\ phase[o] = "none"
  /\ phase' = [phase EXCEPT ![o] = "local"]
  /\ \E q \in 1 .. MaxQuantity : quantity' = [quantity EXCEPT ![o] = q]
  /\ UNCHANGED filled

Release(o) ==
  /\ phase[o] = "local"
  /\ phase' = [phase EXCEPT ![o] = "working"]
  /\ UNCHANGED <<quantity, filled>>

(* An execution: the cumulative quantity grows, and reaching the ordered   *)
(* quantity completes the order.                                           *)
Execute(o) ==
  /\ phase[o] = "working"
  /\ \E f \in filled[o] .. quantity[o] :
       /\ filled' = [filled EXCEPT ![o] = f]
       /\ phase' = [phase EXCEPT ![o] = IF f = quantity[o] THEN "complete"
                                                           ELSE "working"]
  /\ UNCHANGED quantity

(* Rejected or canceled with something left.                               *)
End(o) ==
  /\ phase[o] = "working"
  /\ filled[o] < quantity[o]
  /\ phase' = [phase EXCEPT ![o] = "ended"]
  /\ UNCHANGED <<quantity, filled>>

(* Reconciled: the broker's account replaces the ledger's.                 *)
Settle(o) ==
  /\ phase[o] = "working"
  /\ phase' = [phase EXCEPT ![o] = "ended"]
  /\ \E f \in 0 .. quantity[o] : filled' = [filled EXCEPT ![o] = f]
  /\ UNCHANGED quantity

Next ==
  \E o \in Orders :
    Place(o) \/ Release(o) \/ Execute(o) \/ End(o) \/ Settle(o)

Spec == Init /\ [][Next]_vars
=============================================================================

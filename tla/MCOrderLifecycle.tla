-------------------------- MODULE MCOrderLifecycle --------------------------
(***************************************************************************)
(* A small instance of OrderLifecycle for TLC.                             *)
(***************************************************************************)
EXTENDS OrderLifecycle, FiniteSetsExt

CONSTANT KeyBound  \* how many events the ledger can apply in a behaviour

MCKeys == 1 .. KeyBound
MCEmptyKey == 0

(* A stamp with only a timestamp and two with a sequence number whose time *)
(* order is the opposite one, so that either order can decide.             *)
MCStamps == {[seq |-> 0, ts |-> 1], [seq |-> 1, ts |-> 2], [seq |-> 2, ts |-> 1]}

(* Keys are interchangeable: of those not applied yet it is enough to try  *)
(* one.  Applied keys and the empty key are all tried.                     *)
CanonicalKeys ==
  LET fresh == Keys \ appliedKeys
  IN appliedKeys \cup {EmptyKey} \cup (IF fresh = {} THEN {} ELSE {Min(fresh)})

MCNext ==
  \E o \in Orders, key \in CanonicalKeys, stamp \in Stamps :
    Local(o, key, stamp) \/ Reported(o, key, stamp)

MCSpec == Init /\ [][MCNext]_vars
=============================================================================

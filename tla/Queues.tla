------------------------------- MODULE Queues -------------------------------
(***************************************************************************)
(* What a loop over a vector collects: PortfolioManager goes through its   *)
(* pending orders and TriggerOrderManager through its slots from the first *)
(* to the last, and keeps or acts on some of them.                         *)
(***************************************************************************)
EXTENDS Integers, FiniteSets

(* The numbers of a set from the smallest to the largest.                  *)
Ascending(numbers) ==
  CHOOSE order \in [1 .. Cardinality(numbers) -> numbers] :
    \A m, n \in 1 .. Cardinality(numbers) : m < n => order[m] < order[n]

(* The elements of f at these places, in order.                            *)
Collected(f, places) ==
  [n \in 1 .. Cardinality(places) |-> f[Ascending(places)[n]]]

=============================================================================

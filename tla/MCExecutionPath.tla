-------------------------- MODULE MCExecutionPath --------------------------
(***************************************************************************)
(* Small instances of ExecutionPath for TLC.                               *)
(***************************************************************************)
EXTENDS ExecutionPath

MCOneEngine  == {"EURUSD"}
MCTwoEngines == {"EURUSD", "XAUUSD"}

(* A caller that gives no sequence, and one that counts on from the first  *)
(* fill report.                                                            *)
MCCancelSequences == {0, 6}
=============================================================================

-------------------------- MODULE MCRiskBreakers --------------------------
(***************************************************************************)
(* A small instance of RiskBreakers for TLC.                               *)
(***************************************************************************)
EXTENDS RiskBreakers

MCThreads == {"trading", "adapter"}
=============================================================================

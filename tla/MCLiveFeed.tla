----------------------------- MODULE MCLiveFeed -----------------------------
(***************************************************************************)
(* Instances of LiveFeed for TLC.                                          *)
(***************************************************************************)
EXTENDS LiveFeed

MCBothModes == {"PAPER", "LIVE"}
MCPaper     == {"PAPER"}
=============================================================================

---------------------------- MODULE MCTickQueue ----------------------------
(***************************************************************************)
(* A small instance of TickQueue for TLC.                                  *)
(***************************************************************************)
EXTENDS TickQueue

MCWithLimit == {TRUE}
=============================================================================

------------------------- MODULE MCTerminalSockets -------------------------
(***************************************************************************)
(* TerminalSockets on small instances.                                     *)
(***************************************************************************)
EXTENDS TerminalSockets, TLC
=============================================================================

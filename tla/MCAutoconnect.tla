--------------------------- MODULE MCAutoconnect ---------------------------
(***************************************************************************)
(* Autoconnect on small instances.                                         *)
(***************************************************************************)
EXTENDS Autoconnect, TLC
=============================================================================

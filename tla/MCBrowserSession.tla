-------------------------- MODULE MCBrowserSession --------------------------
(* Small instances of BrowserSession.  Two entries and two sockets are     *)
(* interchangeable, but the runs check liveness, where symmetry is not     *)
(* sound, so none is used.                                                 *)
EXTENDS BrowserSession
=============================================================================

--------------------------- MODULE MCSettingsPages ---------------------------
(***************************************************************************)
(* SettingsPages on small instances.                                       *)
(***************************************************************************)
EXTENDS SettingsPages, TLC

CONSTANTS h1, h2, m1, m2, r1, r2, p1, p2

\* Every repository on the first machine.
OnFirst == [r \in Repos |-> m1]

\* One machine on record, with its repositories or without.
OneStored == {[nodes |-> {m1}, repos |-> rs] : rs \in {{}, Repos}}

\* One host serves every page; or each page has its own.
OneHost == [p \in Pages |-> h1]
HostEach == [p \in Pages |-> IF p = p1 THEN h1 ELSE h2]
=============================================================================

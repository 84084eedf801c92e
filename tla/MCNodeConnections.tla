------------------------- MODULE MCNodeConnections -------------------------
(***************************************************************************)
(* NodeConnections on small instances.                                     *)
(***************************************************************************)
EXTENDS NodeConnections, TLC

\* Identities are only compared, so permuting them changes nothing.
Symmetry == Permutations(Attempts) \cup Permutations(Recoveries)
              \cup Permutations(Installs) \cup Permutations(Entries)

=============================================================================

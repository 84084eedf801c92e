---------------------------- MODULE MCWorktrees ----------------------------
(* Small instances of Worktrees: repositories of one machine that share    *)
(* their last path segment, one of this host, and a checkout cut by hand   *)
(* whose last segment is that of a managed one.                            *)
EXTENDS Worktrees

MCBase == [r \in Repos |-> IF r \in Remote THEN "app" ELSE "lib"]

MCParent == [n \in Names \cup Hand |-> IF n = "a/b" THEN "a" ELSE None]
=============================================================================

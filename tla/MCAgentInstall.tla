--------------------------- MODULE MCAgentInstall ---------------------------
(* Small instances of AgentInstall: a plugin that changes its launch       *)
(* recipe, its build, its token.                                           *)
EXTENDS AgentInstall

Configured(build, recipe, secret) ==
  [build |-> build, recipe |-> recipe, token |-> secret]

MCUpgrades == <<Configured("v1", 1, "s"), Configured("v1", 2, "s"),
                Configured("v2", 2, "s")>>

MCRotation == <<Configured("v1", 1, "s"), Configured("v1", 1, "t")>>
=============================================================================

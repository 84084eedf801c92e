SPECIFICATION WorktreeSpec
CONSTANTS
  Callers = {c1}
  Remote = {r1}
  Local = {}
  Names = {"a", "a/b"}
  Hand = {"a"}
  MaxSlips = 1
  Base <- MCBase
  Parent <- MCParent
  None = None
INVARIANTS
  HeldIsDurable
  OneAnchorPerCheckout
CHECK_DEADLOCK FALSE

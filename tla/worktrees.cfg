SPECIFICATION WorktreeSpec
CONSTANTS
  Callers = {c1}
  Remote = {r1}
  Local = {l1}
  Names = {"a"}
  Hand = {"a"}
  MaxSlips = 1
  Base <- MCBase
  Parent <- MCParent
  None = None
INVARIANTS
  WorktreeInv
PROPERTIES
  AnswersHold
  KeepsDurableSet
CHECK_DEADLOCK FALSE

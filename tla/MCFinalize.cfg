SPECIFICATION Spec
CONSTANTS
  Slots = {s1, s2}
  Contracts <- ScriptOrInline
  WarnModel = 2
  FinModel = 3
  WarnTool = 3
  FinTool = 4
  WarnMsg = 4
  FinMsg = 6
  StrictAfter = 1
  RecursionLimit = 19
  StartNodes = 1
  BeforeNodes = 2
  AfterNodes = 1
SYMMETRY SlotSymmetry
INVARIANTS ExplorationBudget FinalizeBeforeHardLimit ReadyMeansReviewable
PROPERTIES WarnedBeforeRestricted OfferIsHonoured NoLateExploration StrictReviewIsReady

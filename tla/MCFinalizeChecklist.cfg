SPECIFICATION Spec
CONSTANTS
  Slots = {s1}
  Contracts <- ChecklistOnly
  WarnModel = 1
  FinModel = 2
  WarnTool = 2
  FinTool = 4
  WarnMsg = 6
  FinMsg = 9
  StrictAfter = 2
  RecursionLimit = 18
  StartNodes = 0
  BeforeNodes = 1
  AfterNodes = 0
INVARIANTS RejectionIsRepairable

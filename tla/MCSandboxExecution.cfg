CONSTANTS
  c1 = c1
  c2 = c2
  Commands = {c1, c2}
  FaultBound = 2
  None = None
SPECIFICATION FairSpec
INVARIANTS ReturnedIsOver
PROPERTIES ContainersGo ExecuteReturns EphemeralSpec

CONSTANTS
  c1 = c1
  c2 = c2
  c3 = c3
  NoCall = NoCall
  None = None
  Calls = {c1, c2, c3}
  PerSecond = 2
  TimeBound = 4
  Domains <- SameTask
  Task <- Pairing
  AskedDelays = {None, 0}
  AskedSteps = {2}
  DefaultDelay = 2
  MostDelay = 3
  Backoff = 1
  StepLimit = 1
  Host <- Pairing
  MaxPages = 1
  Query <- Pairing
  Variants <- Names
SYMMETRY Twins
SPECIFICATION MCSpec
INVARIANTS ResultsKept SearchFindsOneCrawl LatestIsNewest VerdictSumsUp
PROPERTIES RequestsSpaced

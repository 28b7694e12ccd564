CONSTANTS
  report = report
  book = book
  script = script
  good = good
  fixable = fixable
  active = active
  broken = broken
  g1 = g1
  g2 = g2
  Artifacts = {report, book, script}
  Contents = {good, fixable, active, broken}
  Allowed = {report, book}
  Xlsx = {book}
  BadPackage = {broken}
  Active = {active}
  Fixable = {fixable}
  Gates = {g1, g2}
  Requests <- Lists
  Settings <- Both
  Parallel = FALSE
  None = None
  Partial = Partial
  Torn = Torn
  Error = Error
SPECIFICATION FairSpec
INVARIANTS ExportsAreVetted EvidenceMatches AnswersOwnRequest
PROPERTIES PassIsCurrent RejectedIsQuarantined GateAnswers

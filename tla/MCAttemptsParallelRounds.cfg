CONSTANTS
  c1 = c1
  c2 = c2
  c3 = c3
  NoCall = NoCall
  Calls = {c1, c2, c3}
  Artifacts = {page}
  Expected = {page}
  page = page
  MaxRounds <- MixedRounds
  Inline = {}
  Locked = FALSE
  Parallel = 2
  ReviewBound = 2
  Raising = {c2, c3}
  Slug <- Slugs
  Places = {"root"}
SPECIFICATION ProfileToolsSpec
INVARIANTS RoundsRespected

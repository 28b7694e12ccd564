SPECIFICATION MCSpec
CONSTANTS
  c1 = c1
  c2 = c2
  Calls = {c1, c2}
  None = None
  Jobs <- AllJobs
  LeftOver <- Old
  Attempts = {c1, c2}
  OwnInput = {c2}
  Paths <- AllPaths
  Texts = {1}
  RootDirs = {"memories"}
  Shared = Shared
INVARIANTS StagedAsLastWritten MountIsGranted SameFile

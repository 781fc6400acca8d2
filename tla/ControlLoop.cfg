SPECIFICATION Spec
CONSTANTS
  Trees <- MCTrees
  Heads = {"h0", "h1"}
  Files = {"guard", "module"}
  HeadOf <- MCHeadOf
  FilesOf <- MCFilesOf
  GuardFiles = {"guard"}
  RepoTests <- MCRepoTests
  Toolchain = {"config"}
  GuardRefuses <- MCGuardRefuses
  SurfacePaths <- MCSurfacePaths
  SurfaceTexts <- MCSurfaceTexts
  MaxTargets = 2
  FirstTree = "base"
  None = none
  MaxGaps = 1
  MaxWaves = 2
  MaxIterations = 2
  MaxProcesses = 2
  Planned = TRUE
  ChangedChecked = TRUE
  Reasked = TRUE
  RepositoryChecked = TRUE
CHECK_DEADLOCK FALSE
INVARIANTS
  AcceptedUnrefuted
  FounderQuestionKept
  RefusalsAreWork
PROPERTIES
  EveryProcessEnds

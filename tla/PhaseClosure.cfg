SPECIFICATION Spec
CONSTANTS
  Ordinary = {"cx"}
  ExternalOnes = {"ce"}
  ReviewOnes = {"cr"}
  ResidualOnes = {"cl"}
  Required = {"cx", "ce", "cr", "cl"}
  StaleVerificationBlocks = FALSE
  None = none
  Units = {"before", "this", "after"}
  Phase = "this"
  Documents <- MCDocuments
  FirstDocument <- Table
  Registries <- MCRegistries
  FirstRegistry <- Open
  Replies <- MCReplies
  RepoTests <- MCRepoTests
  Toolchain = {"venv"}
  GuardRefuses = {}
  ProbeConfigured = TRUE
  MaxMoves = 2
  MaxCommits = 2
  MaxSessions = 2
  MaxCommands = 3
CHECK_DEADLOCK FALSE
INVARIANTS
  AcceptedAsReviewed
  
  GatesSettleTheirOwn
  RecordStandsWhole

SPECIFICATION FairSpec
CONSTANTS
  Trees = {tA, tB}
  NoTree = none
  Situations <- MCSituations
  CorrectionBudget = 1
  MaxIterations = 3
  MaxProcesses = 2
  ExecutionAvailable = TRUE
  RepositoryVerified = TRUE
  Texts = {"suite", "suite one", "probe", "state", "publish", "wrapped", "edit"}
  Text <- MCText
  MaxIndirection = 4
  MaxCommands = 2
  HasVocabulary = TRUE
  Transcripts <- MCTranscripts
  Replies <- MCReplies
  Checks <- MCChecks
  NoOracle = noOracle
CHECK_DEADLOCK FALSE
INVARIANTS
  AcceptedIsReviewed
  EvidenceIsMeasured
PROPERTIES
  EveryProcessEnds
  ImplementsPromise

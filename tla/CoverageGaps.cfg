SPECIFICATION GapsSpec
CONSTANTS
  Tests = {"guard", "catches"}
  NamedControls = {"catches"}
  Operates <- MCOperates
  Scripts = {}
  Mentions <- MCMentions
  None = none
  Register <- MCRegister
  FirstRisks = 1
  Trees <- MCTrees
  FirstTree <- MCFirstTree
  Permanent <- MCPermanent
  Plan <- MCPlan
  Wave <- MCWave
  Base <- MCBase
  Approved <- MCApproved
  Browsers = TRUE
  Measurements <- MCMeasurements
  WaveWorlds <- MCWaveWorlds
  Covers = {"k"}
  MaxWaves = 1
  IterationBudget = 3
CHECK_DEADLOCK FALSE
INVARIANTS
  RedGuardRefuses
  AnsweredAsNamed
  CoverageIsMeasured
PROPERTIES
  EvidenceStands

SPECIFICATION PlannerSpec
CONSTANTS
  Ids <- MCIds
  Category <- MCCategory
  Rank <- MCRank
  Describes <- MCDescribes
  Answers <- MCAnswers
  Repositories <- MCRepositories
  Original <- MCOriginal
  PermanentCategories = {}
  PermanentIds = {"anchor"}
  LocalHosts = {"localhost"}
  Requirements = {"unit"}
  Principles = {"rubric"}
  MaxWaves = 2
  MaxTotal = 3
  MaxPerCategory = 2
  WaveLimit = 2
  MaxAttempts = 2
  MaxProcesses = 3
  MaxRecords = 6
INVARIANTS
  Accounted
  
  
  OneObligationOneBudget
  OneResumeSettles
CHECK_DEADLOCK FALSE

SPECIFICATION Spec
CONSTANTS
  Trees <- MCTrees
  FirstTree = "base"
  HeadOf <- MCHeadOf
  Diff <- MCDiff
  Guards <- MCGuards
  Rank <- MCRank
  Environments <- MCEnvironments
  HasRunner = {"declared", "redeclared", "silent"}
  Commands = {"pytest", "once", "anew"}
  Command <- MCCommand
  None = none
  MaxChanged = 2
  MaxRelated = 1
  MaxIterations = 2
  MaxProcesses = 2
CHECK_DEADLOCK FALSE
INVARIANTS
  AcceptedIsOperated
PROPERTIES
  ConclusionsStand
  EveryProcessEnds

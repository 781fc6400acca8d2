SPECIFICATION Spec
CONSTANTS
  check = check
  lib = lib
  one = one
  two = two
  whole = whole
  alone = alone
  selected = selected
  generated = generated
  Absent = Absent
  NoOutcome = NoOutcome
  Unstamped = Unstamped
  Paths <- MCPaths
  Contents <- MCContents
  Trees <- MCTrees
  Litter <- MCLitter
  FirstTree <- MCFirstTree
  Global = {}
  Scenarios = {selected, generated}
  Permanent = {selected}
  Cuttable = {generated}
  Neighbours <- MCNeighbours
  Definitions = {whole, alone}
  FirstDefinition <- MCFirstDefinition
  Runs <- MCRuns
  Mentions <- MCMentions
  Imports <- MCImports
  Literals <- MCLiterals
  MaxIterations = 3
  MaxCrashes = 1
CHECK_DEADLOCK FALSE
INVARIANTS
  CarriedMeansMeasured
  NothingDropped
  

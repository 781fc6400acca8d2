CONSTANTS
    impl = impl
    rev = rev
    opt = opt
    unit = unit
    guard = guard
    Criteria <- MCCriteria
    Independent = {rev}
    Built = {impl}
    Optional = {opt}
    Family <- MCFamily
    Locators = {guard}
    Repositories <- MCRepositories
    Reports <- MCReports
    Tasks <- MCTasks
    CheckpointsExpected = 1
    MaxIterations = 2

SPECIFICATION Spec

INVARIANTS
    EstablishedMeansDone
    WordsNeverHelp

PROPERTIES
    ReviewIsLast

CHECK_DEADLOCK FALSE

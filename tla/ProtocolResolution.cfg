SPECIFICATION ResolutionSpec
CONSTANTS
  Repositories <- MCRepositories
  Amendments <- MCAmendments
  MaxCommits = 5
  MaxStrays = 1
INVARIANTS
  HistoryKept
  LawfulGoesOn
CHECK_DEADLOCK FALSE

SPECIFICATION InvestigationSpec
CONSTANTS
    Hypotheses <- MCHypotheses
    Probes <- MCProbes
    Trees <- MCTrees
    Facts <- MCFacts
    Claims <- MCClaims
    Answers <- MCAnswers
    Triggers <- MCTriggers
    SoftBudget = 2
    MaxMoves = 1
INVARIANT RootCauseIsMeasured
PROPERTY RefutationStands
CHECK_DEADLOCK FALSE

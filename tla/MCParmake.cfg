CONSTANTS
    Rules <- MCRules
    Workers = {w1, w2}
    Makefiles <- MCMakefiles
    Null = Null
SPECIFICATION FairSpec
INVARIANTS DependenciesFirst RunsAtMostOnce OutcomesAgree MadeWhenOutOfDate
PROPERTY ParmakeReturns
CHECK_DEADLOCK FALSE

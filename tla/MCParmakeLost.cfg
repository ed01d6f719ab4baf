CONSTANTS
    Rules <- Test5Rules
    Workers = {w1, w2}
    Makefiles <- Test5
    Null = Null
SPECIFICATION FairSpec
PROPERTY AllAlwaysShown
CHECK_DEADLOCK FALSE

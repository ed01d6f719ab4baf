CONSTANTS
    Threads = {t1, t2, t3}
    Items = {a, b}
    NoItem = NoItem
    Nodes = {n1, n2, n3, n4}
    Null = Null
    MaxSizes = {0, 1}
SPECIFICATION FairSpec
INVARIANTS NodesAreOwned NoStrandedCaller
PROPERTY ImplementsFIFO
CHECK_DEADLOCK FALSE

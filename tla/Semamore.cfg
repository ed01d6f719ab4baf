CONSTANTS
    Threads = {t1, t2, t3, t4, t5}
    InitVal = 1
    MaxVal = 2
SPECIFICATION FairSpec
INVARIANTS NoStrandedWaiter NoStrandedPoster
PROPERTY ImplementsSemaphore

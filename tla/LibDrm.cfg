CONSTANTS
    Threads = {t1, t2, t3}
    Drms = {d1, d2}
    NoThread = NoThread
    NoDrm = NoDrm
SPECIFICATION FairSpec
INVARIANTS GraphIsCurrent NoDeadlock
PROPERTIES RefusalsAreNecessary AdmittedRequestsAreServed

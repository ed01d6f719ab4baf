CONSTANTS
    Parties = {t1, t2, t3}
    Uses = 3
SPECIFICATION FairBarrierSpec
INVARIANTS NobodyPassesEarly SleepersAreCounted EveryUseIsTallied
PROPERTY EverybodyPasses
CHECK_DEADLOCK FALSE

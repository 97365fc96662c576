SPECIFICATION FairSpec
CONSTANTS
    Owner = owner
    Others = {c1, c2}
    Loops = {l1, l2, l3}
    NoLoop = none
    MaxCalls = 3
INVARIANTS
    RuntimeTypeOK
    SleepersAreNotified
    RunningHasLoop
    OneLoop
    NoLoopAfterDestruction
PROPERTIES
    MainEnds
CHECK_DEADLOCK FALSE

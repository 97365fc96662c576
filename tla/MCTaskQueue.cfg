SPECIFICATION FairSpec
CONSTANTS
    Tasks = {t1, t2, t3}
    Clients = {c1, c2}
    Owner = owner
INVARIANTS
    TypeOK
    SerialOrder
    NoLostWakeup
    CancelHolds
    OnlyCanceledDropped
    SafeDestruction
    FutureAgrees
PROPERTIES
    WaitReturnsAfterExit
    ImplementsExecutor
    EveryTaskAnswered
    DestructorReturns
    WaitReturns
    ImplementsFairExecutor

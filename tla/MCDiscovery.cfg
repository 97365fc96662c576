SPECIFICATION FairSpec
CONSTANTS
    Names = {a, b}
    Notifiers = {k1, k2}
    MaxControllers = 5
    MaxChanges = 3
INVARIANTS
    DiscoveryTypeOK
    OneControllerPerDevice
    DevicesAvailable
PROPERTIES
    ArrivalListed
    CallsReturn

SPECIFICATION FairSpec
CONSTANTS
    Objects = {o1, o2}
    Users = {u1}
    Owner = owner
    Callback = callback
    MaxArgs = 2
    MaxMembers = 3
    MaxEvents = 4
INVARIANTS
    SessionTypeOK
    EventsTellMembership
    EventsTellRanging
    InOrderNoGap
    DestructionTellsAll
PROPERTIES
    EventsArrive
    DestructionReturns

SPECIFICATION FairSpec
CONSTANTS
    Adders = {a1, a2}
    Profiles <- TwoProfiles
    MaxAdds = 4
    MaxFaults = 1
    MaxRestarts = 1
INVARIANTS
    ProfilesTypeOK
    SavedInOrder
    NothingInvented
    SettledRetained
PROPERTIES
    TornForGood
    AddReturns
CHECK_DEADLOCK FALSE

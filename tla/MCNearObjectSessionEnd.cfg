SPECIFICATION Spec
CONSTANTS
    Objects = {o1, o2}
    Users = {u1}
    Owner = owner
    Callback = callback
    MaxArgs = 2
    MaxMembers = 3
    MaxEvents = 4
INVARIANT
    EndToldBeforeDestruction

SPECIFICATION Spec
CONSTANTS
    Names = {a, b}
    Notifiers = {k1, k2}
    MaxControllers = 4
    MaxChanges = 2
INVARIANT
    ExistingFound

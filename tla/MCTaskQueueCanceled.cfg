SPECIFICATION Spec
CONSTANTS
    Tasks = {t1, t2}
    Clients = {c1}
    Owner = owner
INVARIANT
    CanceledNeverRun

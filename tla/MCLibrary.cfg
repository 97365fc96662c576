SPECIFICATION Spec
CONSTANTS
    Bytes <- BoundaryBytes
    Sizes <- BoundarySizes
    MaxData = 6
    Objects = {g1, g2, g3}
    Lambdas = {f1, f2}
    NoLambda = none
INVARIANTS
    ParsesEncodingsOnly
    ApduViews
    CalledExactlyOnce
CHECK_DEADLOCK FALSE

SPECIFICATION Spec
CONSTANTS
    Txns = {x1, x2}
    Spaces = {1, 2}
    Keys = {k1, k2}
    Casts <- MixedCasts
    None = None
CHECK_DEADLOCK FALSE
INVARIANTS
    NoDeadlock

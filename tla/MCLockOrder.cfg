SPECIFICATION Spec
CONSTANTS
    Txns = {x1, x2, x3}
    Spaces = {1, 2}
    Keys = {k1, k2}
    Casts <- MCCasts
    None = None
SYMMETRY Symmetry
INVARIANTS
    NoDeadlock

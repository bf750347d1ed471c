SPECIFICATION Spec
CONSTANTS
    Procs = {p1, p2}
    Actors = {owner}
    Owner = owner
    Keys = {k1, k2, k3, k4, k5}
    Objectives = {objective}
    Outcomes = {}
    ClaimIds = {1, 2, 3}
    FactIds = {1, 2}
    None = None
CHECK_DEADLOCK FALSE
SYMMETRY Symmetry
INVARIANTS
    TypeOK
    HistoryIsExact
    OneEffectPerCommand
PROPERTIES
    GenerationIsSeen
    SlotsSpec

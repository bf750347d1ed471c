SPECIFICATION FairSpec
CONSTANTS
    Procs = {p1, p2}
    Actors = {owner}
    Owner = owner
    Keys = {k1, k2, k3}
    Objectives = {}
    Outcomes = {outcome}
    ClaimIds = {1, 2, 3}
    FactIds = {1, 2}
    None = None
CHECK_DEADLOCK FALSE
INVARIANTS
    OneCurrentFact
PROPERTIES
    WritersAreAuthorized
    CommandsEnd

SPECIFICATION ChainSpec
CONSTANTS
    Relays = {r1, r2}
    Workers = {w1}
    Jobs = {j1}
    Tokens = {t1, t2, t3}
    MaxAttempts = 2
    MaxReceives = 2
    AuthorityLocks = TRUE
    None = None
    Server = Server
CHECK_DEADLOCK FALSE
SYMMETRY Symmetry
INVARIANTS
    PublishedIsOnTheQueue
    SettlementsAreTrue
PROPERTIES
    SettledStays
    NoEffectAfterRevocation

SPECIFICATION Spec
CONSTANTS
    Workers = {w1}
    Jobs = {j1, j2}
    Copies = {1}
    MaxReceives = 3
    AuthorityLocks = TRUE
    None = None
    Server = Server
CHECK_DEADLOCK FALSE
INVARIANTS
    RedeliveryIsConfirmed

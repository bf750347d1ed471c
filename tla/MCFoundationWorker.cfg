SPECIFICATION FairSpec
CONSTANTS
    Workers = {w1, w2}
    Jobs = {j1, j2}
    Copies = {1}
    MaxReceives = 3
    AuthorityLocks = FALSE
    None = None
    Server = Server
CHECK_DEADLOCK FALSE
INVARIANTS
    OneEffectPerJob
    DuplicatesCanBeConfirmed
PROPERTIES
    PromiseSpec
    MessagesLeaveTheQueue

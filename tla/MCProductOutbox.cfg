SPECIFICATION FairSpec
CONSTANTS
    Relays = {r1, r2}
    Events = {e1}
    Tokens = {t1, t2, t3}
    AttemptLimit = 3
    None = None
    Server = Server
INVARIANTS
    TypeOK
    OneClaimHolder
    SendsAreAuthorized
PROPERTIES
    
    DeliverySpec
    EventuallySettled

SPECIFICATION FairSpec
CONSTANTS
    Events = {e1}
    Workers = {w1, w2}
    Admins = {a1}
    Salts = {s1, s2}
    MaxAttempts = 2
    MaxVersion = 2
    MaxRetries = 1
    SlowRequests = FALSE
    Deaths <- DieBetweenAttempts
    Restarted = {w2}
    None = None
CHECK_DEADLOCK FALSE
INVARIANTS DeliveryInv
PROPERTIES ChannelSpec EveryDeliveryEnds

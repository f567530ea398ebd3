SPECIFICATION Spec
CONSTANTS
    RequestRetryInterval = 2
    UnsolicitedDelay = 1
    MinRequestInterval = 3
    RateEntryTTL = 4
    RateTableMax = 1
    Timeout = 15
    Flight = 1
    Others <- MCOthers
    MaxProbes = 2
    MaxLosses = 1
    MaxChanges = 2
CHECK_DEADLOCK FALSE
 
PROPERTIES OncePerInterval

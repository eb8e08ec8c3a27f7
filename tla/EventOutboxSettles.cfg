SPECIFICATION FairSpec
CONSTANTS
    Events = {e1}
    NoEvent = NoEvent
    Keys = {k1}
    Deliveries = {"photo"}
    Needs <- MCNeeds
    TargetSets <- MCTargetSets
    MaxDisturbances = 1
PROPERTIES EventSettles RetryIsHonoured
CHECK_DEADLOCK FALSE

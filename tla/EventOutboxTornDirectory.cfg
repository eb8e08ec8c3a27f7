SPECIFICATION Spec
CONSTANTS
    Events = {e1}
    NoEvent = NoEvent
    Keys = {k1}
    Deliveries = {"photo"}
    Needs <- MCNeeds
    TargetSets <- MCTargetSets
    MaxDisturbances = 1
INVARIANT VisibleIsWhole
CHECK_DEADLOCK FALSE

SPECIFICATION Spec
CONSTANTS
    Events = {e1}
    NoEvent = NoEvent
    Keys = {k1}
    Deliveries = {"photo", "clip"}
    Needs <- MCNeeds
    TargetSets <- MCTargetSets
    MaxDisturbances = 1
INVARIANTS TypeOK UndeliveredIsWhole  ActiveEventCanMerge ShutdownLosesNothing
PROPERTIES  SentWithItsMedia
CHECK_DEADLOCK FALSE

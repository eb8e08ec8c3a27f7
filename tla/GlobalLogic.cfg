SPECIFICATION FairSpec
CONSTANTS
    Channels = {0, 1}
    PauseEnabled = TRUE
    MayStop = FALSE
    MaxPublications = 2
    MaxActions = 1
    MaxToggles = 3
    MaxReloads = 0
INVARIANTS
    SignalInv
    NoMissedUpdate
    SleeperIsNotified
PROPERTY
    UpdatesReachLogic
CHECK_DEADLOCK FALSE

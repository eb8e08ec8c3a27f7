SPECIFICATION FairSpec
CONSTANTS
    Channels = {0}
    PauseEnabled = FALSE
    MayStop = TRUE
    MaxPublications = 2
    MaxActions = 1
    MaxToggles = 0
    MaxReloads = 2

    
PROPERTIES
    
    ShutdownTerminates

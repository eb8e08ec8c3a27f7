SPECIFICATION FairSpec
CONSTANTS
    LastChannel = 1
    Threads <- TwoChannels
    QueueSize = 1
    MaxFrames = 1
    MaxReloads = 2
INVARIANTS
    ReloadIsAtomic
    ReportedModelRuns
PROPERTIES
    ReloadTerminates
    StopTerminates

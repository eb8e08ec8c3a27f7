SPECIFICATION Spec
CONSTANTS
    LastChannel = 2
    Threads <- ThreeChannels
    QueueSize = 1
    MaxFrames = 2
    MaxReloads = 1
INVARIANTS
    TypeOK
    TasksStayInChannel
    ResultOfCurrentModel
    NoFrameForgotten

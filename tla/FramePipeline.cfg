SPECIFICATION FairSpec
CONSTANTS
    InferWorkers = {w1, w2}
    SourceControls = {"bus"}
    ColdStart = {}
    Operators = {"infer_toggle"}
    QueueSize = 1
    MaxFrames = 2
    MaxClock = 2
    MaxEpochs = 1
    MaxGenerations = 1
INVARIANTS
    NoStalePublication
    ResultAnnounced
    
    PipelineInv
PROPERTIES
    FeedSpec
    ResultTaken

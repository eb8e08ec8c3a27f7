SPECIFICATION Spec
CONSTANTS
    InferWorkers = {w1}
    SourceControls = {"bus", "seek"}
    ColdStart = {"bus"}
    Operators = {"infer_toggle", "pause"}
    QueueSize = 1
    MaxFrames = 1
    MaxClock = 2
    MaxEpochs = 2
    MaxGenerations = 2
INVARIANTS
    NoStalePublication
    CheckedStateHeld

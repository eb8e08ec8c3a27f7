SPECIFICATION FairSpec
CONSTANTS
    MaxFrames = 4
    Sizes = {1, 2}
    InitBytes = 1
INVARIANTS
    PoolInv
    ReaderSeesItsFrame
PROPERTIES
    NeverBackwards
    

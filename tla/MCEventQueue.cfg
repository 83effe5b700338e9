SPECIFICATION FairSpec
CONSTANTS
    QueueSize = 3
    MaxPush = 8
INVARIANTS
    HoldsNewest
    NothingUnaccounted
PROPERTIES
    ImplementsFifo
    LoopKeepsUp
CHECK_DEADLOCK FALSE

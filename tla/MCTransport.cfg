SPECIFICATION FairSpec
CONSTANTS
    MaxRetries = 3
    MaxSendFailures = 3
    SeqMod = 4
    MaxFaults = 5
    MaxSilent = 1
INVARIANTS
    SeqInStep
    RegisterFirst
    LockInv
PROPERTIES
    Recovers
    StopCompletes
CHECK_DEADLOCK FALSE

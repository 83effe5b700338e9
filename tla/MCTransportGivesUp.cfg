SPECIFICATION FairSpec
CONSTANTS
    MaxRetries = 2
    MaxSendFailures = 2
    SeqMod = 3
    MaxFaults = 3
    MaxSilent = 0
PROPERTIES
    RetryHappens
CHECK_DEADLOCK FALSE

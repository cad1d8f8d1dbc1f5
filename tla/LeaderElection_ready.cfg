SPECIFICATION FairSpec
CONSTANTS
    Replica = {r1, r2}
    MaxFlaky = 2
    MaxRev = 6
CHECK_DEADLOCK FALSE
PROPERTY AllReadyAfterRecovery

SPECIFICATION FairSpec
CONSTANTS
    Replica = {r1, r2}
    MaxFlaky = 3
    MaxRev = 7
CHECK_DEADLOCK FALSE
INVARIANTS OneLiveLeader
PROPERTY LeaderEmerges

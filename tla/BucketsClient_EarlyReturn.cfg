\* Two servers that may disconnect; no stray packets.
SPECIFICATION Spec
CONSTANTS
    ServersN = 2
    BucketsN <- MCBucketsFew
    Disconnects = TRUE
    MaxStray = 0
INVARIANT EveryBucketRendered
CHECK_DEADLOCK FALSE

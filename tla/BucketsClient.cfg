\* Three servers, three ranges; servers may disconnect and one stray packet may be sent.
SPECIFICATION Spec
CONSTANTS
    ServersN = 3
    BucketsN <- MCBucketsFew
    Disconnects = TRUE
    MaxStray = 1
INVARIANT TypeOK
INVARIANT BusyMatchesOutstanding
INVARIANT FaultFreeRendered
PROPERTY RenderTerminates
CHECK_DEADLOCK FALSE

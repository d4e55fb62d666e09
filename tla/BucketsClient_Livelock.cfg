\* Three ranges, two reliable servers.
SPECIFICATION Spec
CONSTANTS
    ServersN = 2
    BucketsN <- MCBucketsMany
    Disconnects = FALSE
    MaxStray = 0
PROPERTY RenderTerminates
CHECK_DEADLOCK FALSE

\* One-token sources from MCMoreTokens.
SPECIFICATION Spec
CONSTANTS
    ValidTokens <- MCMoreTokens
    MaxTokens = 1
    Comments <- MCComments
    TieOrder = "stable"
INVARIANT RoundTrip
CHECK_DEADLOCK FALSE

\* Sources of up to two tokens from MCTokens and three RSL programs, each
\* after the builtins text; assembly sources of up to MaxLines lines.
SPECIFICATION Spec
CONSTANTS
    ValidTokens <- MCTokens
    MaxTokens = 2
    Comments <- MCComments
    TieOrder = "stable"
    Programs <- MCPrograms
    Lines <- MCLines
    NumTokens <- MCNumTokens
    MaxLines = 7
INVARIANT TypeOK
INVARIANT CodeWellFormed
INVARIANT CallsOwnArguments
CHECK_DEADLOCK FALSE

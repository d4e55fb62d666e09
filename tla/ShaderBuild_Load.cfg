\* The three RSL programs only: one compiled without an exception is
\* assembled from the file SaveASM wrote.
SPECIFICATION Spec
CONSTANTS
    ValidTokens = {}
    MaxTokens = 2
    Comments <- MCComments
    TieOrder = "stable"
    Programs <- MCPrograms
    Lines <- MCLines
    NumTokens <- MCNumTokens
    MaxLines = 7
CHECK_DEADLOCK FALSE
INVARIANT CompiledShaderLoads

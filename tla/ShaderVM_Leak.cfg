\* Owned clones after Unbind: two invocations of the two shaders.
CONSTANTS
  Shaders <- MCShaders
  Grids <- MCGrids
  CallingParams <- MCCallingParams
  BlocksN = 2
  MaxRuns = 2
SPECIFICATION Spec
INVARIANT NoLeak
CHECK_DEADLOCK FALSE

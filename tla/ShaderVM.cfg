\* Two shaders over three grids, two SIMD blocks, two invocations.
CONSTANTS
  Shaders <- MCShaders
  Grids <- MCGrids
  CallingParams <- MCCallingParams
  BlocksN = 2
  MaxRuns = 2
SPECIFICATION Spec
INVARIANT TypeOK
INVARIANT PointwiseAgreement
INVARIANT StepMatchesStorage
CHECK_DEADLOCK FALSE

\* A program encoded by the assembler, run by the VM.
CONSTANTS
  Shaders <- MCAsmShaders
  Grids <- MCGrids
  CallingParams <- MCCallingParams
  BlocksN = 2
  MaxRuns = 2
SPECIFICATION Spec
INVARIANT MnemonicDispatch
CHECK_DEADLOCK FALSE

CONSTANTS
  None = None
  Size = 4
  Programs <- MCInlined
  MaxInstructions = 2
  MaxCandidates = 2
  MaxTasks = 1
  MaxRequests = 1
  MaxFailures = 0
  Nothing = Nothing
  MaxMoment = 3
  MaxAsked = 3
  MaxRefused = 1
  MaxHandles = 3
  Programmes <- MCProgrammes
  MaxFrames = 4
  MaxRaw = 26
  Top = 6
  MaxStack = 64
  MaxSteps = 25
  LineBase <- MCLineBase
  LineRange = 14
  OpcodeBase = 13
  AddressSteps = {0, 1, 18}
  LineSteps <- MCLineSteps
  FirstLine = 20
  MaxRows = 3
  Paths <- MCPaths
  MaxPaths = 3
  Parts = {"stepping"}
SPECIFICATION Spec
INVARIANT StepOverStaysInFrame
CHECK_DEADLOCK FALSE

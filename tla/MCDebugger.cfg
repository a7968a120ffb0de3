CONSTANTS
  None = None
  Size = 4
  Programs <- MCPrograms
  MaxInstructions = 2
  MaxCandidates = 2
  MaxTasks = 2
  MaxRequests = 3
  MaxFailures = 1
  Nothing = Nothing
  MaxMoment = 3
  MaxAsked = 3
  MaxRefused = 1
  MaxHandles = 3
  Programmes <- MCProgrammes
  MaxFrames = 4
  MaxRaw = 26
  Top = 6
  MaxStack = 64
  MaxSteps = 25
  LineBase <- MCLineBase
  LineRange = 14
  OpcodeBase = 13
  AddressSteps = {0, 1, 18}
  LineSteps <- MCLineSteps
  FirstLine = 20
  MaxRows = 3
  Paths <- MCPaths
  MaxPaths = 3
  Parts = {"stepping", "inspection", "calls", "lines"}
SPECIFICATION Spec
INVARIANTS StepsEndClean AnswersAreOfTheirStop FramesStayOpen StacksAreCalls SourcesResolve
PROPERTIES UserBreakpointsHold StepsEnd
CHECK_DEADLOCK FALSE

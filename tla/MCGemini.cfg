SPECIFICATION GeminiSpec
CONSTANTS
  ToolNames <- MCToolNames
  MaxParts = 2
  MaxTalk = 6
INVARIANT
  ResultsReachTheModel
CHECK_DEADLOCK FALSE

SPECIFICATION Spec
CONSTANTS
  HistorySizes = {2}
  Tokens <- MCTokens
  Past <- MCPast
  Stops <- MCStops
  Names <- MCNames
  Instances <- MCInstances
  MaxJobs = 1
  Corners = {}
INVARIANTS TypeOK 
PROPERTIES AsTyped HistoryIsList
CHECK_DEADLOCK FALSE

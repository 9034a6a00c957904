SPECIFICATION Spec
CONSTANTS
  Graphs <- MCGraphs
  Byte = 3
  IntBits = 4
  PieceSizes = {1, 2, 5}
  Corners = {}
INVARIANTS RoundTrip PlaceKept
CHECK_DEADLOCK FALSE

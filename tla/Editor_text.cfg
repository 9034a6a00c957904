SPECIFICATION Spec
CONSTANTS
  Widths = {5, 6}
  Inputs <- MCInputs
  Contents <- MCContents
  Prompts <- MCPrompts
  Stops <- MCStops
  Break = "n"
  Corners = {}
  MaxText = 7
  MaxStops = 2
INVARIANTS TypeOK CursorInText
PROPERTIES EditsText
CHECK_DEADLOCK FALSE

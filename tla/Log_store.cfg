SPECIFICATION Spec
CONSTANTS
  Policies = {"sole", "buffered_all", "context"}
  buf_size = 10
  file_size_limit = 5
  Sizes = {1, 2, 4}
  MaxLogs = 5
  MaxCrashes = 1
  Corners = {}
INVARIANTS RamIsSuffix FlashIsSuffix AllLogged
PROPERTIES CurrentFileKept
CHECK_DEADLOCK FALSE

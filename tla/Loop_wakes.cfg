SPECIFICATION Spec
CONSTANTS
  Tasks = {"a", "b"}
  Timers = {"x", "y"}
  Fds = {3, 4}
  Signals = {1, 2}
  MAX_SIGNALS = 2
  Delays <- MCDelays
  Periods = {0, 1, 2}
  Instances <- MCInstances
  Corners = {}
INVARIANTS TypeOK SleepsSafely SignalsInOrder
PROPERTIES FiredAsArmed
CHECK_DEADLOCK FALSE

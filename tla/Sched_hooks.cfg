SPECIFICATION Spec
CONSTANTS
  t1 = t1
  t2 = t2
  t3 = t3
  h1 = h1
  h2 = h2
  o = o
  Tasks = {t1, t2}
  Hooks = {h1, h2}
  Objects = {o}
  Events = {"e"}
  Clock = clock
  None = None
  TaskOps = {"signal", "wait", "sighook", "sigonce", "sigrun", "sigrunonce", "killhook", "killself", "finish"}
  HookOps = {"signal", "sighook", "killhook", "killself", "finish"}
  EventLists = {{"*"}, {"e"}, {"*", "e"}, {"die"}}
  MaxDepth = 2
  MaxQueue = 2
SYMMETRY Symmetry
INVARIANTS TaskPlacement HooksNotMissed CleanupRemembered
PROPERTIES HookStays

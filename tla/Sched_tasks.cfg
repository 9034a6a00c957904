SPECIFICATION Spec
CONSTANTS
  t1 = t1
  t2 = t2
  t3 = t3
  h1 = h1
  h2 = h2
  o = o
  Tasks = {t1, t2}
  Hooks = {h1}
  Objects = {o}
  Events = {"e"}
  Clock = clock
  None = None
  TaskOps = {"signal", "wait", "multiwait", "yield", "sighook", "kill", "finish"}
  HookOps = {"signal", "resignal", "kill", "finish"}
  EventLists = {{"*"}, {"e", "timeout"}, {"die"}}
  MaxDepth = 2
  MaxQueue = 2
SYMMETRY Symmetry
PROPERTIES LifeSpec DieAtDeath

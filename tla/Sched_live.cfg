SPECIFICATION FairSpec
CONSTANTS
  t1 = t1
  t2 = t2
  t3 = t3
  h1 = h1
  h2 = h2
  o = o
  Tasks = {t1, t2}
  Hooks = {h1}
  Objects = {o}
  Events = {"e"}
  Clock = clock
  None = None
  TaskOps = {"signal", "yield", "wait", "sighook", "kill", "finish", "run"}
  HookOps = {"finish", "signal", "run"}
  EventLists = {{"e"}, {"timeout"}, {"e", "timeout"}}
  MaxDepth = 2
  MaxQueue = 2

PROPERTIES ReadyRuns TimersFire

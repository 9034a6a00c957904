SPECIFICATION Spec
CONSTANTS
  p = p
  q = q
  PCallers = {a, b}
  QCallers = {c}
  PlainPeers = {q}
  SeqMod = 2
  Instances <- MCInstances
  Corners = {}
INVARIANT AnswersOwn
PROPERTY CallsReturn
CHECK_DEADLOCK FALSE

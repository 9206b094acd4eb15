SPECIFICATION Spec
CONSTANTS
  m1 = m1
  c1 = c1
  NoThread = NoThread
  Mains = {m1}
  Children = {c1}
  MaxTurn = 2
  MaxConnection = 2
  MaxRequest = 2
  RequestLimit = 1
  WindowLimit = 3
  OutboxLimit = 1
  QueueLimit = 2
CHECK_DEADLOCK FALSE
INVARIANTS
  SentMeansWritten

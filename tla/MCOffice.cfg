SPECIFICATION MCSpec
CONSTANTS
  None = None
  a = a
  b = b
  Tasks = {a, b}
  NewTasks = {"new"}
  Texts = {1, 2}
  Requests = {"a1", "b1", "q"}
  Questions = {"q"}
  WorkerOf <- MCWorkerOf
  Statuses <- MCStatuses
  MaxMade = 4
  MaxRead = 2
  Outside = {2}
CHECK_DEADLOCK FALSE
INVARIANTS
  EventsExact
PROPERTIES
  ReceiptClearsOnlySent
  SendingEnds
  ChoiceWasShown

SPECIFICATION FairSpec
CONSTANTS
  o1 = o1
  o2 = o2
  o3 = o3
  start = start
  send = send
  reply = reply
  None = None
  OpIds = {o1, o2, o3}
  Requests <- MCRequests
  KindOf <- MCKindOf
  LedgerLimit = 2
INVARIANTS
  AtMostOnce
  DurableIntent
  ReceiptsTruthful
PROPERTIES
  EveryOperationSettles
  ImplementsPromise

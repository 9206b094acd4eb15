SPECIFICATION MCSpec
CONSTANTS
  a = a
  b = b
  c = c
  d = d
  d1 = d1
  d2 = d2
  h1 = h1
  h2 = h2
  q1 = q1
  q2 = q2
  None = None
  Calls = {a, b, c, d}
  Dirs = {d1, d2}
  Homes = {h1, h2}
  Ports = {q1, q2}
  DirOf <- MCDirOf
  HomeOf <- MCHomeOf
CHECK_DEADLOCK FALSE
INVARIANTS
  ServingIsNamed
  AnsweredByOwnHost
PROPERTIES
  DirectoryKeepsHome
  EveryCallReturns

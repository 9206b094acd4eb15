SPECIFICATION MCSpec
CONSTANTS
  t1 = t1
  t2 = t2
  Threads = {t1, t2}
  NoThread = NoThread
  WindowLimit = 2
  MaxSequence = 6
  MaxEvents = 6
  MaxStreams = 3
  MaxRevision = 1
  Legacy <- MCLegacy
  DeferredLimit = 2
  RangeLimit = 1
  MaxVersion = 5
  MaxDisruption = 2
SYMMETRY Symmetry
CHECK_DEADLOCK FALSE
INVARIANTS
  LineageTruthful
  DeferredAccounted
  ProjectedOnce
  GapsExact
  AckedSurvives
  MemoryCurrent
PROPERTIES
  ViewAdvances

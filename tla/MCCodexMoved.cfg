SPECIFICATION MCSpec
CONSTANTS
  None = None
  Offices = {1, 2, 3}
  Keys = {1, 2, 3}
  Times = {1, 2}
  Bodies = {1}
  Limit = 2
  MaxOrdinal = 5
  Workers = {1, 2, 3, 4}
  Moments = {0, 1}
  RelationLimit = 3
  RetiredLimit = 1
  IdleAfter = 0
  OfflineAfter = 1
  BeatLimit = 2
  Reports <- MCReports
  Threads = {3, 4}
  Projects = {1, 2}
  Items = {1, 2}
  UserItems = {1}
  Payloads = {1, 2}
  Turns = {1, 2}
  TailLimit = 1
  MaxClock = 5
  Cursors = {1, 2}
  CallIds = {1, 2}
  IdBytes <- MCIdBytes
  Calls <- MCCalls
  Ambiguous = Ambiguous
  CursorEntries = 2
  CursorBytes = 3
  SourceEntries = 3
  SourceBytes = 5
  LastOrdinal = 4
  MaxLoss = 1
  MaxEpoch = 3
  Bytes = {"x", "n"}
  Newline = "n"
  ChunkSize = 2
  MaxLine = 1
  TailSize = 2
  MaxBytes = 3
  Contents <- MCContents
  MaxInode = 2
  NoFile = NoFile
  Widths = {1, 2}
  Areas <- MCAreas
  Arts = {"A", "B"}
  Protocols = {"kitty", "sixel", "off"}
  Actions = {1, 2}
  SlowLimit = 1
  Nothing = Nothing
  Files = {1, 2, 3}
  Correlations = {1, 2}
  DelegationLimit = 1
  Lines <- MCLines
  MaxTranscript = 2
  NoOne = NoOne
  FloorCount = 2
  People = {11, 12, 13}
  Nobody = Nobody
  Searches = {{11}}
  Notes <- MCNotes
  MarkerLimit = 1
  LastMoment = 3
CHECK_DEADLOCK FALSE
INVARIANTS
  LeftMeansEnded

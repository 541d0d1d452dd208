SPECIFICATION HSSpec
CONSTANTS
  s1 = s1
  s2 = s2
  pa = pa
  pb = pb
  pc = pc
  v1 = v1
  v2 = v2
  Null = Null
  Bad = Bad
  None = None
  NoThreshold = NoThreshold
  Root = "t"
  PageSize = 2
  KeysPerPage = 2
  RequestsSaved = 2
  MaxStatements = 2
  MaxChanges = 1
  Scans <- MCScans
  Partitions <- MCPartitions
  Dirs <- MCDirs
  Above <- MCAbove
  Hidden <- MCHidden
  EmptySegment <- MCEmptySegment
  Files <- MCFiles
  DirOf <- MCDirOf
  Rank <- MCRank
  Markers <- MCMarkers
  Values <- MCValues
  KeyFilters <- MCKeyFilters
  KeyAnswer <- MCKeyAnswer
  DataFilters <- MCDataFilters
  DataAnswer <- MCDataAnswer
  JoinFilters <- MCJoinFilters
  Cases <- MCCases
INVARIANTS ScanTypeOK Answer SharedRefused OneFormat EstimateHolds
CHECK_DEADLOCK FALSE

CONSTANTS
  ChunkSize = 8
  Overlap = 2
  TextLines = 17
  MaxCuts = 3
  CodeLines = 4
  MaxItems = 3
  Places = 4
  Files = 3
  TopScore = 2
  Match <- MCMatch
  Unit = 10
  Boost = 14
  MinScore = 4
  Floor = 1
  Limit = 2
  Depth = 2
  FileShape <- MCFileShape
  MaxFiles = 4
  MinFloorFiles = 2
  MaxSeedFiles = 3
  MaxFloorRows = 5
  Percentile = 30
  DefaultFloor = 1
  TopSimilarity = 2
  DeclLang = {"rust", "python", "typescript", "go", "csharp", "sql", "java", "c", "cpp"}
  MaxNodes = 3
  DeclBreaks = 2
  Items = 4
  BatchSize = 3
  Attempts = 3
  TokenBudget = 4
  Longest = 2
  Field = {"development_mode", "provider", "endpoint", "model", "dimensions", "reindex_debounce_secs", "reindex_max_wait_secs", "dense", "bm25", "rrf"}
  MaxSettings = 3
  Tool = {"rg", "grep"}
  MaxTokens = 3
  Starts <- Anchors
  Span = 1200
  Seconds = {0, 59, 3600, 86399}
  Embedded <- MCEmbedded
  Dimension = {1, 2}
  NaN = NaN
  MaxWindow = 2
  MaxBatches = 2
SPECIFICATION DataSpec
INVARIANT DataTypeOK
INVARIANT EditsStayLocal
INVARIANT RankedIsBest
INVARIANT SelectionAgrees
INVARIANT ChunksNest
INVARIANT VectorsFollowTexts
INVARIANT RetriesStop
INVARIANT SettingsAgree
INVARIANT TimesRoundTrip
INVARIANT SearchesSeeTheChunks
INVARIANT OverviewIsExact
INVARIANT InterceptedIsThePattern
PROPERTY FloorKeepsItsShare
CHECK_DEADLOCK FALSE

SPECIFICATION ToolingSpec
CONSTANTS
  Specs <- MCSpecs
  Requests <- MCRequests
  AnyContract = "any"
  Parallel = 2
  LinkChunk = 1
  MaxChunks = 1
  MaxChangesets = 2
  MaxCommits = 5
  MaxPlain = 1
  MaxDispatches = 1
  MaxRetries = 1
  Clones = {k1, k2}
  FirstMinor = 8
  LastMinor = 9
  BeforeFirst = 7
  MaxDocsCommits = 3
  Directories <- MCDirectories
  Solidity <- MCSolidity
  Root = "contracts"
  Contents <- MCContents
  pathUpdates <- MCUpdates
  MaxRuns = 3
  MaxContracts = 5
  Names = {approve, transfer}
  Gas = {1, 2, 4}
  Lengths = {1, 2}
  MaxCalls = 3
CHECK_DEADLOCK FALSE
INVARIANTS
  NeverOlder
  TableIsOne
  ZeroMeansVerified
  ReleasesIncrease
  TaggedAsWhatItIs
  MigratesImports
  ReportsDisagreements
  StrictIsSymmetric
  RegressionsShown
PROPERTIES
  RunEnds
  EventuallyProposed
  BuildsOnPublished

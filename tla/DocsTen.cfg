SPECIFICATION DocsSpec
CONSTANTS
  Clones = {c1, c2}
  FirstMinor = 9
  LastMinor = 10
  BeforeFirst = 8
  MaxDocsCommits = 3
INVARIANT NeverOlder
CHECK_DEADLOCK FALSE

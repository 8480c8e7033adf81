SPECIFICATION Spec
CONSTANTS
  NumItems = 2
  MaxSources = 2
  SourceCount <- MCSourceCount
  Posts <- MCPosts
  Text <- MCText
  w1 = w1
  w2 = w2
  Workers = {w1, w2}
  MaxRetries <- MCMaxRetries
  MaxCrashes = 1
  Nil = Nil
SYMMETRY Symmetry
INVARIANT EveryResultCoversSources
CHECK_DEADLOCK FALSE

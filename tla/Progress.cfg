SPECIFICATION FairSpec
CONSTANTS
  NumItems = 2
  MaxSources = 1
  SourceCount <- ShortSourceCount
  Posts <- ShortPosts
  Text <- ShortText
  w1 = w1
  w2 = w2
  Workers = {w1, w2}
  MaxRetries <- OneRetry
  MaxCrashes = 1
  Nil = Nil
PROPERTIES
  EveryItemSettles
CHECK_DEADLOCK FALSE

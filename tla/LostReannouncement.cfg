SPECIFICATION SpecBoth
CONSTANTS
  NumItems = 1
  MaxSources = 1
  SourceCount <- MCSourceCount
  Posts <- MCPosts
  Text <- MCText
  Workers = {w1}
  MaxRetries <- MCMaxRetries
  MaxCrashes = 1
  MaxAttempts = 2
  TelegramItems = {1}
  Nil = Nil
INVARIANT NewResultIsPublished
CHECK_DEADLOCK FALSE

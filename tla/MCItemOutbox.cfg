SPECIFICATION FairSpecBoth
CONSTANTS
  NumItems = 1
  MaxSources = 1
  SourceCount <- MCSourceCount
  Posts <- MCPosts
  Text <- MCText
  Workers = {w1}
  MaxRetries <- MCMaxRetries
  MaxCrashes = 1
  MaxAttempts = 2
  TelegramItems = {1}
  Nil = Nil
INVARIANTS
  RetryWithdrawsNotice
  NoticeNotSwallowed
PROPERTIES
  ResultReachesUser
  FailureReachesUser
CHECK_DEADLOCK FALSE

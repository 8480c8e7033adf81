SPECIFICATION Spec
CONSTANTS
  w1 = w1
  w2 = w2
  i1 = i1
  i2 = i2
  Nil = Nil
  Workers = {w1}
  Items = {i1}
  Levels <- MCLevels
  DailyCap <- MCDailyCap
  GenericCap <- MCGenericCap
  MinGap <- MCMinGap
  ItemCooldown <- MCItemCooldown
  RepeatGap = 2
  DismissCooldown = 3
  Lease = 2
  SendWindow = 1
  MaxSendAttempts = 1
  DayLength = 4
  QuietStart = 3
  QuietEnd = 1
  DigestTime = 3
  Settings <- MCDigestOnly
  SnoozeDelays = {1}
  MaxTime = 6
  MaxRows = 1
  MaxGeneration = 2
  MaxActs = 1
  MaxCrashes = 0
  MaxLost = 0
PROPERTIES
  NoStaleDigest
CHECK_DEADLOCK FALSE

SPECIFICATION FairSpec
CONSTANTS
  s1 = s1
  s2 = s2
  good = good
  bad = bad
  i1 = i1
  r1 = r1
  Nil = Nil
  Captures = {1, 2}
  Servers = {s1, s2}
  Tokens = {good, bad}
  Good = good
  MaxPending = 1
  MaxAttempts = 2
  MaxSends = 2
  MaxActs = 2
  MaxLate = 1
  Items = {i1}
  Reminders = {r1}
  Kind <- MCKind
  Focus <- MCFocus
  Categories = {1, 2}
  Types = {1, 2}
  Interests = {1, 2}
  Elsewhere = {2}
  Category <- MCCategory
  Buttons <- MCButtons
  Presses = {1, 2}
  MaxOutside = 1
  Texts = {1, 2, 3}
  Inputs <- MCInputs
  MaxCrashes = 1
INVARIANTS
  TypeOK
  ExactlyOneItem
  StatusIsTrue
  HistoryAgrees
  RepliesMatchPrompts
PROPERTIES
  RepeatsAreInert
  CaptureSettles
CHECK_DEADLOCK FALSE

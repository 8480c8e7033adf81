SPECIFICATION FairSpec
CONSTANTS
  result = result
  failure = failure
  video = video
  Keys <- MCKeys
  Kind <- MCKind
  MaxAttempts = 2
  MaxResults <- MCMaxResults
  MaxCrashes = 1
  Nil = Nil
INVARIANTS
  TypeOK
  SendingIsOwned
  SentWasShown
  AttemptsRespected
PROPERTIES
  EveryIntentSettles
  ImplementsPromise
CHECK_DEADLOCK FALSE

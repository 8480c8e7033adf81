SPECIFICATION EvidenceSpec
CONSTANTS
  NumItems = 2
  MaxSources = 2
  SourceCount <- MCSourceCount
  Posts <- MCPosts
  Text <- MCText
  w1 = w1
  w2 = w2
  Workers = {w1, w2}
  MaxRetries <- MCMaxRetries
  MaxCrashes = 1
  Nil = Nil
  Segments = {1, 2}
  Downloads = {"speech", "mute"}
  Silent = {"mute"}
  Providers = {"router1", "router2", "whole"}
  Segmented = {"router1", "router2"}
  Concurrency = 1
  ElementKeys = {"1v", "2p", "2x", "3p"}
  ElementKind <- MCElementKind
  Listings <- MCListings
  MaxElements = 2
  MaxBytes = 1
  Caption = FALSE
  Versions = {1, 2, 3}
  Chunks <- MCChunks
  MaxHearings = 3
  MaxReadings = 2
  MaxAnalyses = 3
SYMMETRY Symmetry
INVARIANTS
  TypeOK
  SoleOwner
  CheckpointsAreHonest
  AnalysisPaidOnce
  ResultCoversSources
  PiecesFit
  NothingBoughtTwice
PROPERTIES
  OutcomesAreDurable
  SourcesKeepPromise
CHECK_DEADLOCK FALSE

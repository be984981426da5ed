SPECIFICATION Spec
CONSTANTS
  Minute = 60
  Times <- MCTimes
  NoModel = NoModel
  WarmupWindows = 2
  NoveltySeen = 1
  RoutineSeen = 3
  RoutineMinHours = 2
  SampleLimit = 3
  RuleLimit = 3
  Captures <- MCCaptures
  Bursts <- MCBursts
  Severities <- MCSeverities
  Mixed <- MCMixed
  Walks <- MCWalks
  Rankings <- MCRankings
  Divided <- MCDivided
  Streams <- MCStreams
INVARIANTS
  BusiestMinuteFound
  WindowsAsLive
  ScorerReadsWhatWasFitted
  BaselineOnlyRaisesTheBar
  WorstEndpointShown
  WarmupGatesTheLayer
  RankingOrderFree
  OperatingPointsHonest
  NetworksHeldApart
  
CHECK_DEADLOCK FALSE

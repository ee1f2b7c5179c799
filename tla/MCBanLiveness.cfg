SPECIFICATION FairSpec
CONSTANTS
  a = a
  b = b
  Sources <- OneSource
  Configs <- EveryEdit
  Routes <- MayBeProtected
  Capacity = 1
  AutoSecs <- TwoSecs
  CliSecs <- OneSec
  PROTECT_REFRESH_TICKS = 2
  SAVE_TICKS = 2
  Horizon = 3
  MaxOps = 3
PROPERTIES ExpiredBansLeave EditTakesEffect ProtectedIsReleased

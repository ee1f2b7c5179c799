SPECIFICATION Spec
CONSTANTS
  a = a
  b = b
  Sources <- TwoSources
  Configs <- EveryEdit
  Routes <- MayBeProtected
  Capacity = 1
  AutoSecs <- TwoSecs
  CliSecs <- HandSecs
  PROTECT_REFRESH_TICKS = 2
  SAVE_TICKS = 2
  Horizon = 2
  MaxOps = 4
INVARIANTS AutoBanNeverProtected NothingOutlivesItsDecision AutoBansDurable
PROPERTIES RestartKeepsBans KeepsPromise

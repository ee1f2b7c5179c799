SPECIFICATION Spec
CONSTANTS
  a = a
  b = b
  p = p
  q = q
  Sources <- TwoSources
  Ports <- TwoPorts
  Limits <- TightOrTouchy
  Bans <- JustShort
  Events <- FewEvents
  Protections <- NobodyOrA
  MAX_TRACKED = 1
  ODD_LIMIT = 3
  MAX_SHIFT = 20
  Horizon = 5
  MaxOps = 4
  MaxReboots = 1
INVARIANTS TracksSpareProtected TracksBounded BannedOnRecentEvents
PROPERTIES StrikesSurviveRestart ForgottenWhenQuiet
CHECK_DEADLOCK FALSE

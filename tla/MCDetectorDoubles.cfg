SPECIFICATION Spec
CONSTANTS
  a = a
  b = b
  p = p
  q = q
  Sources <- OneSource
  Ports <- TwoPorts
  Limits <- JustTouchy
  Bans <- JustDoubling
  Events <- OneEvent
  Protections <- Nobody
  MAX_TRACKED = 1
  ODD_LIMIT = 3
  MAX_SHIFT = 20
  Horizon = 6
  MaxOps = 4
  MaxReboots = 0
PROPERTIES RepeatOffenceDoubles
CHECK_DEADLOCK FALSE

SPECIFICATION FairSpec
CONSTANTS
  eth = eth
  wifi = wifi
  Ifaces <- TwoIfaces
  MaxIndex = 3
  MaxOps = 3
INVARIANTS OneFilter
PROPERTIES NoGap RepliesComeBack GuardedInTheEnd

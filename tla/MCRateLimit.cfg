SPECIFICATION Spec
CONSTANTS
  k1 = k1
  k2 = k2
  c1 = c1
  c2 = c2
  s1 = s1
  Keys <- TwoKeys
  CPUs <- TwoCPUs
  Slots <- OneSlot
  Rates <- OneOrTwo
  Modulus = 16
  MaxLag = 1
  Horizon = 4
  MaxPackets = 4
  MaxChanges = 1
INVARIANTS SilenceForgives DroppedForCause AdmittedBounded
CHECK_DEADLOCK FALSE

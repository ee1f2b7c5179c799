SPECIFICATION Spec
CONSTANTS
  a = a
  b = b
  lan = lan
  u1 = u1
  u2 = u2
  Nets <- MCNets
  Reserved <- MCReserved
  Urls <- MCUrls
  Known <- MCKnown
  Lists <- MCLists
  Configs <- MCConfigs
  Capacity = 1
  MaxOps = 2
INVARIANTS KernelIsLoaded CacheIsWhole
PROPERTIES ListsInForce

SPECIFICATION FairSpec
CONSTANTS
  NumSlots = 2
  d1 = d1
  d2 = d2
  v1 = v1
  v2 = v2
  NoKey = NoKey
  Dev <- MCDev
  ReadOnly = {d2}
  SectorCount <- MCSectorCount
  Data <- MCData
  Zero = v1
  HighWater = 2
  Interval = 1
  TickMod = 2
INVARIANTS
  CacheIsSound
PROPERTIES
  ImplementsStore
  WriteBackIsTimely

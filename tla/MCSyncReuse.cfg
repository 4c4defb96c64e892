SPECIFICATION HSpec
CONSTANTS
  Offsets = {0, 1, 2}
  Contents = {z, a}
  Zeroes = z
  Hole = hole
  CacheSize = 2
  Faults = {}
  MaxPower = 2
PROPERTIES
  SyncReachesUnreadPages

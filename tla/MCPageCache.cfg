\* Two slots in front of three pages; any system call may fail.
SPECIFICATION MCSpec
CONSTANTS
  Offsets = {0, 1, 2}
  Contents = {z, a}
  Zeroes = z
  Hole = hole
  CacheSize = 2
  Faults = {"evict", "fill", "flush"}
  MaxPower = 3
INVARIANTS
  TypeOK
  UniqueOffsets
PROPERTIES
  RefinesStore
  DirtyUntilWritten

\* One key is inserted, and the process syncs.
SPECIFICATION MCSpec
CONSTANTS
  Keys <- SessionKeys
  Values = {a}
  Absent = absent
  PageNums <- SessionPages
  NodesDown = 2
  NodesUp = 4
  CacheSize = 12
  Zeroes = zeroes
  Hole = hole
  Scripts <- ShortScript
  FirstValue = a
PROPERTY SyncReachesDisk
CHECK_DEADLOCK FALSE

SPECIFICATION MCSpec
CONSTANTS
  Keys <- SessionKeys
  Values = {a, b}
  Absent = absent
  PageNums <- SessionPages
  NodesDown = 2
  NodesUp = 4
  CacheSize = 12
  Zeroes = zeroes
  Hole = hole
  Scripts <- SessionScripts
  FirstValue = a
INVARIANTS CacheShowsTree DurableCopy ReopenedMap
PROPERTIES ReadsAgree
\* the budget ends
CHECK_DEADLOCK FALSE

\* Closed and opened after the tree of three levels got its root.
SPECIFICATION MCSpec
CONSTANTS
  Keys <- SessionKeys
  Values = {a}
  Absent = absent
  PageNums <- SessionPages
  NodesDown = 2
  NodesUp = 4
  CacheSize = 12
  Zeroes = zeroes
  Hole = hole
  Scripts <- GrowingScript
  FirstValue = a
PROPERTY ReopenKeepsContents
CHECK_DEADLOCK FALSE

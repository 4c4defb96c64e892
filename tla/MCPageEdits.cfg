SPECIFICATION MCSpec
CONSTANTS
  PageSize = 160
  Padding = 20
  HalfWord = 112
  NodesDown = 3
  NodesUp = 6
  Bytes <- EditBytes
  Keys <- EditKeys
  Values <- EditValues
  Absent = Absent
  PageNums <- EditNums
  FirstValue <- EmptyValue
  Scripts <- EditScripts
INVARIANTS TypeOK InOrder Canonical SmallEntriesFit ReadsBack
\* the budget ends
CHECK_DEADLOCK FALSE

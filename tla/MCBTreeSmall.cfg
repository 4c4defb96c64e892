\* Every sequence of calls on seven keys: one level and two, and what follows
\* the collapse of two into one.  And the calls on trees of two and three levels.
SPECIFICATION MCSpec
CONSTANTS
  Keys <- FewKeys
  Values = {a, b}
  Absent = absent
  PageNums <- FewPages
  NodesDown = 2
  NodesUp = 4
  Scripts <- SmallScripts
  FirstValue = a
INVARIANTS TypeOK ContentsKept RootCopy IndexExact
PROPERTIES RefinesMap CallReturns
\* the library stops where its behaviour is undefined
CHECK_DEADLOCK FALSE

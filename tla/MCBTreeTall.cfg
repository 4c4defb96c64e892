SPECIFICATION MCSpec
CONSTANTS
  Keys <- TallKeys
  Values = {a}
  Absent = absent
  PageNums <- TallPages
  NodesDown = 2
  NodesUp = 4
  Scripts <- TallScripts
  FirstValue = a
INVARIANTS TreeKept ContentsKept SearchOrder ParentLinks Occupancy Balanced IndexExact

\* Split, merged and split again.
SPECIFICATION Spec
CONSTANTS
  Keys = {1, 2, 3, 4, 5, 6, 7}
  Values = {a}
  Absent = absent
  PageNums = {19, 20, 21, 22}
  NodesDown = 2
  NodesUp = 4
PROPERTY SplitAfterCollapseKeepsContents
CHECK_DEADLOCK FALSE

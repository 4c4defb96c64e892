\* A deletion from a tree of one page.
SPECIFICATION Spec
CONSTANTS
  Keys = {1, 2}
  Values = {a}
  Absent = absent
  PageNums = {19}
  NodesDown = 2
  NodesUp = 4
PROPERTY DeletionAllowed
CHECK_DEADLOCK FALSE

\* A page index of one page.
SPECIFICATION Spec
CONSTANTS
  Keys = {1, 2, 3, 4, 5}
  Values = {a}
  Absent = absent
  PageNums = {19}
  NodesDown = 2
  NodesUp = 4
PROPERTY FullIndexKeepsContents
CHECK_DEADLOCK FALSE

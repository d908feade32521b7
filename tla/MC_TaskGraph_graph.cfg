CONSTANTS
  a = a
  b = b
  c = c
  d = d
  Tasks = {a, b, c, d}
  OpenTasks = {a, b, c}
  Graphs <- SmallGraphs
  MaxEdges = 4
  Depths = {1, 2, 3}
  MaxGraphDepth = 3
  MaxChanges = 1
SYMMETRY Symmetric
SPECIFICATION Spec
INVARIANTS
  TreeComplete
  CriticalPathLongest
  BottlenecksCounted
  AnswersAreReal
CHECK_DEADLOCK FALSE

\* Logical operators on numbers, folded before the program runs.
SPECIFICATION Spec
CONSTANTS
  Bodies <- FoldedBodies
  Answers = {0, 2}
  MaxCalls = 3
  ArrayLength = 3
  StackCapacity = 24
INVARIANTS OptimizedKeepsTruth
CHECK_DEADLOCK FALSE

\* A variable declared in a loop body.
SPECIFICATION Spec
CONSTANTS
  Bodies <- ForgetfulBodies
  Answers = {0, 2}
  MaxCalls = 6
  ArrayLength = 3
  StackCapacity = 24
INVARIANTS LocalsStartAtZero
CHECK_DEADLOCK FALSE

\* Conditions that are sums and differences.
SPECIFICATION Spec
CONSTANTS
  Bodies <- ConditionBodies
  Answers = {0, 2}
  MaxCalls = 3
  ArrayLength = 3
  StackCapacity = 24
INVARIANTS NonZeroIsTrue
CHECK_DEADLOCK FALSE

\* Nested bodies and bodies around expressions, each with every run of up to six calls.
SPECIFICATION FairSpec
CONSTANTS
  Bodies <- AllBodies
  Answers = {0, 2}
  MaxCalls = 6
  ArrayLength = 3
  StackCapacity = 24
INVARIANTS StatementsTypeOK CodeFollowsSource StackHoldsDiscards RefusedIffMisplaced ReadsAsWritten
PROPERTIES CodeProgresses
CHECK_DEADLOCK FALSE

\* Programs whose functions have more parameters together than the largest
\* frame has slots.
SPECIFICATION ImageSpec
CONSTANTS
  Ids = {0, 1, 2, 3, 4, 5, 6, 7, 8, 9, 10}
  NoEntry = NoEntry
  NoImage = NoImage
  CalleeLists <- CallLists
  Sources <- TightPrograms
  BuiltInNames = {"math::abs"}
  EntryName = "script_main"
  FunctionCapacity = 0
  VariableCapacity = 24
  ByteBase = 8
  NoValue = NoValue
  MaxUint32 = 20
INVARIANTS LinkedHasImage
CHECK_DEADLOCK FALSE

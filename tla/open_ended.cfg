\* Programs whose functions end in an instruction whose high byte is OpRet.
SPECIFICATION ImageSpec
CONSTANTS
  Ids = {0, 1, 2, 3, 4, 5, 6, 7, 8, 9, 10}
  NoEntry = NoEntry
  NoImage = NoImage
  CalleeLists <- CallLists
  Sources <- OpenEndedPrograms
  BuiltInNames = {"math::abs"}
  EntryName = "script_main"
  FunctionCapacity = 2
  VariableCapacity = 24
  ByteBase = 8
  NoValue = NoValue
  MaxUint32 = 20
INVARIANTS FunctionsReturn
CHECK_DEADLOCK FALSE

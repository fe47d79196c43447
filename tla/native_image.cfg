\* Programs with room in their frames, opened by the native runtime.
SPECIFICATION ImageSpec
CONSTANTS
  Ids = {0, 1, 2, 3, 4, 5, 6, 7, 8, 9, 10}
  NoEntry = NoEntry
  NoImage = NoImage
  CalleeLists <- CallLists
  Sources <- RoomyPrograms
  BuiltInNames = {"math::abs"}
  EntryName = "script_main"
  FunctionCapacity = 0
  VariableCapacity = 24
  ByteBase = 8
  NoValue = NoValue
  MaxUint32 = 20
INVARIANTS NativeOpensBuilt
CHECK_DEADLOCK FALSE

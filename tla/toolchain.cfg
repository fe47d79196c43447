\* All programs of three functions with the bodies of MCToolchain, programs of
\* up to three global variables, one program for each other refusal, and
\* programs whose image both runtimes open.
SPECIFICATION FairImageSpec
CONSTANTS
  Ids = {0, 1, 2, 3, 4, 5, 6, 7, 8, 9, 10}
  NoEntry = NoEntry
  NoImage = NoImage
  CalleeLists <- CallLists
  Sources <- AllPrograms
  BuiltInNames = {"math::abs"}
  EntryName = "script_main"
  FunctionCapacity = 2
  VariableCapacity = 24
  ByteBase = 8
  NoValue = NoValue
  MaxUint32 = 6
INVARIANTS LinkedAsWritten ParamTablesMatch BodiesValidated LaterChecksPass
  ScalarsApart InitialValuesHold
  ImageRoundTrips NativeTablesHold
PROPERTIES LinkingEnds
CHECK_DEADLOCK FALSE

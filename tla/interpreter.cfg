\* Programs with calls, and every error exit of the loop, of loading and of
\* resetting; a frame of room more than the calls need.
SPECIFICATION FairSpec
CONSTANTS
  MaxTime = 65537
  TimerCapacity = 1
  Times = {0, 1}
  Durations = {}
  NoProgram = NoProgram
  Programs <- InterpreterPrograms
  FrameCapacity = 12
  StackCapacity = 9
  CallFrameCapacity = 3
  HostKinds = {}
  HostValues = {}
  HostOffsets = {}
  ExternSizes = {}
  MathResults = {3}
  HostStatuses = {"InvalidParameter"}
  HostReloads = FALSE
INVARIANTS TypeOK FramesTile AlwaysActive FailureIsRecorded LoadedSegments
PROPERTIES CallPassesArguments CallsAreNested RunStartsFromProgram RunTerminates

\* A host that loads and resets while its dispatcher is being called.
SPECIFICATION Spec
CONSTANTS
  MaxTime = 65537
  TimerCapacity = 1
  Times = {0}
  Durations = {}
  NoProgram = NoProgram
  Programs <- HostPrograms
  FrameCapacity = 3
  StackCapacity = 6
  CallFrameCapacity = 2
  HostKinds = {"Uint8", "Void"}
  HostValues = {2}
  HostOffsets = {0}
  ExternSizes = {4}
  MathResults = {}
  HostStatuses = {"InvalidParameter"}
  HostReloads = TRUE
INVARIANTS TypeOK FramesTile FailureIsRecorded LoadedSegments

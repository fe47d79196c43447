\* Timers, tick time and their faults, at times that rise, saturate and go back.
SPECIFICATION RuntimesSpec
CONSTANTS
  MaxTime = 65537
  TimerCapacity = 2
  Times = {2, 65537}
  Durations = {1, 2, 65535}
  NoProgram = NoProgram
  Programs <- RuntimePrograms
  FrameCapacity = 3
  StackCapacity = 8
  CallFrameCapacity = 2
  HostKinds = {"Uint8", "Void"}
  HostValues = {1}
  HostOffsets = {}
  ExternSizes = {}
  MathResults = {}
  HostStatuses = {}
  HostReloads = FALSE
  GlobalCapacity = 4
  TickBase = 2
INVARIANTS TimeTypeOK DoneMeansElapsed NativeTypeOK RuntimesAgree
PROPERTIES KeepsHistory DoneIsStable TicksKeepGlobals

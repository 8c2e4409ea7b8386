SPECIFICATION CtrlLiveSpec
CONSTANTS
  s1 = s1
  s2 = s2
  f1 = f1
  Slot = {s1, s2}
  Fps = 1
  Frame <- MCFrame
  NextFrame <- MCNextFrame
  Spurious = FALSE
  Caller <- MCCaller
  Addresses <- MCAddresses
  Udp <- MCUdp
  Profiles = {"H264", "H265"}
  None = None
  Executor = "multi"
  StartOnBoot = {TRUE, FALSE}
  StartArgs <- MCStartArgs
  StopCommands = TRUE
  Untyped = FALSE
  NoArg = NoArg
  WrongType = WrongType
  Exits = FALSE
  Avoided = {"call", "threads", "cut", "stream", "stopped", "connection"}
  Stream = {"video"}
  StartSettings <- MCStart
  Messages <- MCMessages
  Attempts = 1
  QueueSize = 1
  ControlsSize = 1
  Cycle = 1
  PromptSetup = TRUE
  MaxPending = 1
INVARIANTS
  EncodingKept
PROPERTIES
  CameraReachesClient
CHECK_DEADLOCK FALSE

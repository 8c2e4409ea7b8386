SPECIFICATION Spec
CONSTANTS
  s1 = s1
  s2 = s2
  f1 = f1
  Slot = {s1, s2}
  Fps = 1
  Frame <- MCFrame
  NextFrame <- MCNextFrame
  Spurious = FALSE
  Caller <- MCCaller
  Addresses <- MCAddresses
  Udp <- MCUdpOnly
  Profiles = {"H264"}
  None = None
  Executor = "single"
  StartOnBoot = {TRUE, FALSE}
  StartArgs <- MCNoStart
  StopCommands = TRUE
  Untyped = FALSE
  NoArg = NoArg
  WrongType = WrongType
  Exits = TRUE
  Avoided = {"call", "threads", "cut", "stream", "connection"}
INVARIANTS
  JoinedOnce

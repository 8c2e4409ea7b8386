SPECIFICATION Spec
CONSTANTS
  s1 = s1
  s2 = s2
  f1 = f1
  Slot = {s1, s2}
  Fps = 1
  Frame <- MCFrame
  NextFrame <- MCNextFrame
  Spurious = TRUE
  Caller <- MCCaller
  Addresses <- MCAddresses
  Udp <- MCUdpOnly
  Profiles = {"H264"}
  None = None
  Executor = "multi"
  StartOnBoot = {TRUE}
  StartArgs <- MCNoStart
  StopCommands = FALSE
  Untyped = FALSE
  NoArg = NoArg
  WrongType = WrongType
  Exits = TRUE
  Avoided = {"call", "threads", "stream", "stopped", "connection"}
INVARIANTS
  DestructorDestroys

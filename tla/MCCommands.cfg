SPECIFICATION Spec
CONSTANTS
  s1 = s1
  s2 = s2
  s3 = s3
  f1 = f1
  Slot = {s1, s2, s3}
  Fps = 1
  Frame <- MCFrame
  NextFrame <- MCNextFrame
  Spurious = TRUE
  Caller <- MCCaller
  Addresses <- MCAddresses
  Udp <- MCUdpOnly
  Profiles = {"H264"}
  None = None
  Executor = "multi"
  StartOnBoot = {TRUE, FALSE}
  StartArgs <- MCAnyStart
  StopCommands = TRUE
  Untyped = TRUE
  NoArg = NoArg
  WrongType = WrongType
  Exits = TRUE
  Avoided = {}
CONSTRAINT InTurn
SYMMETRY MCSymmetry
INVARIANTS
  TypeOK
  NoFault
  NoOrphan
  DownIsClean
  NothingOutlives
  ContextCounted
  
  PlayingIsTrue
  NobodySleepsOnData

  

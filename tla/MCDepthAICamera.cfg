SPECIFICATION CamLiveSpec
CONSTANTS
  Stream = {"video", "color", "left"}
  StartSettings <- MCStart
  Messages <- MCMessages
  Attempts = 2
  QueueSize = 2
  ControlsSize = 1
  Cycle = 3
  PromptSetup = TRUE
  MayUnplug = TRUE
  MayClose = TRUE
INVARIANTS
  CamTypeOK
  RunningIffDevice
  DeviceRunsSettings
  FocusSettles
  StartedValid
  NoDeviceNoCrash
  StreamsFaithful
  NoLag
PROPERTIES
  FeedSpec
  CameraComesUp
  HandlerEnds
  VideoFlows

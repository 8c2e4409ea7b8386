SPECIFICATION FQSpec
CONSTANTS
  s1 = s1
  s2 = s2
  Slot = {s1, s2}
  Fps = 1
  Cycle = 4
  Frame <- MCFrame
  NextFrame <- MCNextFrame
  Spurious = TRUE
INVARIANTS
  FQTypeOK
  MutexHeldByOne
  QueueBounded
  QueueConsecutive
PROPERTIES
  HeldQueueStable
  DoomedByRestartOnly

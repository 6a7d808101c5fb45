SPECIFICATION Spec
CONSTANTS
  MaxAttempts = 2
  MaxTakes = 2
  MaxItems = 1
  MaxConnections = 2
  MaxMessages = 2
  MaxUploads = 1
INVARIANTS TypeOK NothingSaidTwice MicReleased NoAudioLeft
PROPERTIES SpokenKept FinishingEnds
CHECK_DEADLOCK FALSE

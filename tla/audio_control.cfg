CONSTANTS
  speaker = speaker
  fixed = fixed
  microphone = microphone
  NoDevice = NoDevice
  Sinks <- SpeakerAndFixed
  Sources <- OneMicrophone
  Writable <- OneSpeaker
  Normal = 3
  Loudest = 4
  Values <- BelowInAndAbove
  MaxRequests = 2
  MaxOthers = 2
SPECIFICATION Spec
INVARIANTS TypeOK LatestSetPrevails
PROPERTIES NeverAmplifies
CHECK_DEADLOCK FALSE

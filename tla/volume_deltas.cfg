CONSTANTS
  speaker = speaker
  fixed = fixed
  microphone = microphone
  NoDevice = NoDevice
  Sinks <- OneSpeaker
  Sources <- OneMicrophone
  Writable <- OneSpeaker
  Normal = 3
  Loudest = 4
  Values <- OneStep
  MaxRequests = 2
  MaxOthers = 0
SPECIFICATION Spec
INVARIANTS DeltasAddUp
CHECK_DEADLOCK FALSE

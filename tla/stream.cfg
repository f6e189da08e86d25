CONSTANTS
  audio = audio
  window = window
  c1 = c1
  c2 = c2
  Stores <- BothStores
  Sockets <- TwoSockets
  Readiness <- ServiceReadiness
  MaxVersion = 2
  MaxFrames <- TwoFramesAndOne
SPECIFICATION FairSpec
INVARIANTS TypeOK StreamAgreesWithStore HelloServedOnceReady FullStateThenPatches
PROPERTIES FeedSpec CatchesUp HelloEventuallyAnswered FatalErrorEndsSession
CHECK_DEADLOCK FALSE

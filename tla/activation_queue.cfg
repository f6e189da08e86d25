CONSTANTS
  w1 = w1
  w2 = w2
  http1 = http1
  probe1 = probe1
  Windows <- TwoWindows
  HttpRequests <- OneHttp
  ProbeRequests <- OneProbe
  MaxChanges = 1
  MaxFaults = 2
SPECIFICATION FairSpec
INVARIANTS TypeOK AttemptedInOrder NoneSkipped OnePollInFlight
PROPERTIES AcceptedIsPublishedWithoutFaults StoreCatchesUp
CHECK_DEADLOCK FALSE

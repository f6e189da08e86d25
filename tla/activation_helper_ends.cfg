CONSTANTS
  w1 = w1
  w2 = w2
  http1 = http1
  probe1 = probe1
  Windows <- OneWindow
  HttpRequests <- OneHttp
  ProbeRequests <- NoProbe
  MaxChanges = 0
  MaxFaults = 1
SPECIFICATION FairSpec
PROPERTIES AcceptedIsPublished
CHECK_DEADLOCK FALSE

CONSTANTS
  s1 = s1
  s2 = s2
  r1 = r1
  r2 = r2
  m1 = m1
  quiet = quiet
  loud = loud
  None = None
  Sinks <- TwoSinks
  Sources <- ThreeSources
  Monitors <- OneMonitor
  Contents <- TwoContents
  MaxChanges = 7
SPECIFICATION FairSpec
INVARIANTS TypeOK PublishedIsCurrent SelectionIsListed
PROPERTIES InitialStatePublished
CHECK_DEADLOCK FALSE

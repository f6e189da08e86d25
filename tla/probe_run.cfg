CONSTANTS
  MaxContextChanges = 3
  MaxPrinted = 3
SPECIFICATION FairSpec
INVARIANTS TypeOK OneOutcome ExitCodeTellsOutcome WaitsForPulseAudio
PROPERTIES RunsEnd
CHECK_DEADLOCK FALSE

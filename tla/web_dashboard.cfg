CONSTANTS
  w1 = w1
  w2 = w2
  near = near
  far = far
  NoId = NoId
  WindowIds <- TwoWindows
  Servers <- TwoServers
  FirstServer = near
  Late = {near}
  Volumes = {0, 1, 2}
  FirstAudio <- AudioOfEach
  Desktops <- FourDesktops
  FirstDesktop <- Moved
  MaxChanges = 1
  FullScale = 1
  MaxActions = 2
SPECIFICATION Spec
INVARIANTS TypeOK ShowsConfiguredService SettlesWithService TaskbarHasOneActive
CHECK_DEADLOCK FALSE

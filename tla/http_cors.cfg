CONSTANTS
  Escapes <- MCEscapes
  AllowedOrigins <- MCAllowedOrigins
  SlashNames <- MCSlashNames
  Icons <- MCIcons
  Resources <- MCResources
  c1 = c1
  c2 = c2
  Connections <- OneConnection
  Requests <- OriginRequests
  Scenarios <- OneOrigin
  MaxSize = 3
  WindowIds = {"w1"}
  MaxChanges = 0
SPECIFICATION Spec
INVARIANTS AllowedOriginsGetCors
CHECK_DEADLOCK FALSE

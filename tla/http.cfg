CONSTANTS
  Escapes <- MCEscapes
  AllowedOrigins <- MCAllowedOrigins
  SlashNames <- MCSlashNames
  Icons <- MCIcons
  Resources <- MCResources
  c1 = c1
  c2 = c2
  Connections <- TwoConnections
  Requests <- EveryRequest
  Scenarios <- PiecesOrAny
  MaxSize = 3
  WindowIds = {"w1"}
  MaxChanges = 1
SPECIFICATION Spec
INVARIANTS TypeOK NothingLeftBehind WaitsOnlyForMissing UsableRequestsServed CommandsAsRequested StatusesDocumented
PROPERTIES AnsweredOnce
CHECK_DEADLOCK FALSE

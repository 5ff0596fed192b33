SPECIFICATION Spec
CONSTANTS
  None = None
  Idle = Idle
  Image <- MCImage
  Settings <- MCSettings
  Windows <- MCWindows
  Cuts = {0, 1}
  Checksums = {85}
  Zones = {1, 8, 17}
  DoubledZones = {17}
  Partitions = {1, 2}
  Pgms = {2, 4}
  MayBypass = {1, 17}
  MayPgm = {2, 4}
  Troubles <- MCTroubles
  Devices <- MCDevices
  Size <- MCSize
  ZoneEvents <- MCZoneEvents
  ModelByte = 160
  Terminals = 16
  Configured = {0, 4}
  FencePgms <- MCFencePgms
  Doubling <- MCDoubling
  Code <- MCCode
  Codes <- MCCodes
  Dates <- MCDates
  MaxCommands = 0
  MaxMoves = 0
CHECK_DEADLOCK FALSE
INVARIANT
  BlocksAreMemory

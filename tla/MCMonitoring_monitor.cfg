SPECIFICATION Spec
CONSTANTS
  None = None
  Idle = Idle
  Image <- MCImage
  Settings <- MCSettings
  Windows <- MCWindows
  Cuts = {0, 2, 9}
  Checksums = {85}
  Zones = {1, 8, 17}
  DoubledZones = {17}
  Partitions = {1, 2}
  Pgms = {2, 4}
  MayBypass = {1, 17}
  MayPgm = {2, 4}
  Troubles <- MCTroubles
  Devices <- MCDevices
  Size <- MCSize
  ZoneEvents <- MCZoneEvents
  ModelByte = 160
  Terminals = 16
  Configured = {0, 4}
  FencePgms <- MCFencePgms
  Doubling <- MCDoubling
  Code <- MCCode
  Codes <- MCCodes
  Dates <- MCDates
  MaxCommands = 2
  MaxMoves = 1
CHECK_DEADLOCK FALSE
INVARIANTS
  BlocksAreMemory
  RecordsTellTheSettings
  RegionIsContiguous
  RegionIsASnapshot
  CodesStayBehind
  AnswersTellThePanel
  CommandsAreUnderstood
  OneWrongPassword
  FenceOutputIsGuarded
  NoZoneHidden
PROPERTIES
  BypassKeepsOthers

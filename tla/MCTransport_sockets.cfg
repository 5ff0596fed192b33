SPECIFICATION Spec
CONSTANTS
  p1 = p1
  p2 = p2
  c1 = c1
  c2 = c2
  c3 = c3
  NoConn = NoConn
  NoPanel = NoPanel
  Panel = {p1}
  Conn = {c1, c2, c3}
  MaxEvents = 0
  Undecodable = {}
  Chatter = {"status"}
  MaxInbox = 1
  Policy = "accept"
  Configured = {}
  Listeners = 3
  Raising = {2}
  DiscoveryRaises = TRUE
SYMMETRY ConnSymmetry
INVARIANTS
  TypeOK
  BoundIsServed
  OthersAreClosing
  AvailabilityIsTrue
  UnregisteredIsClosing
PROPERTIES
  OnlyOwnShutdownDetaches

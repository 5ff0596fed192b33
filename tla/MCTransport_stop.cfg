SPECIFICATION FairSpec
CONSTANTS
  p1 = p1
  p2 = p2
  c1 = c1
  c2 = c2
  c3 = c3
  NoConn = NoConn
  NoPanel = NoPanel
  Panel = {p1}
  Conn = {c1}
  MaxEvents = 0
  Undecodable = {}
  Chatter = {"alive"}
  MaxInbox = 1
  Policy = "accept"
  Configured = {}
  Listeners = 1
  Raising = {}
  DiscoveryRaises = FALSE
PROPERTIES
  StopReturnsAlways

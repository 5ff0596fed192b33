SPECIFICATION FairSpec
CONSTANTS
  p1 = p1
  p2 = p2
  c1 = c1
  c2 = c2
  c3 = c3
  NoConn = NoConn
  NoPanel = NoPanel
  Panel = {p1}
  Conn = {c1, c2}
  MaxEvents = 0
  Undecodable = {}
  Chatter = {}
  MaxInbox = 1
  Policy = "reject"
  Configured <- MCConfigured
  Listeners = 1
  Raising = {1}
  DiscoveryRaises = FALSE
INVARIANTS
  NoInfoOnlyInHandshake
  PendingIsUnknown
PROPERTIES
  ClosingEnds
  AbandonedEnds
  StopReturnsIfNoneMissed

SPECIFICATION FairSpec
CONSTANTS
  r1 = r1
  r2 = r2
  r3 = r3
  s1 = s1
  s2 = s2
  NoCall = NoCall
  NoSlot = NoSlot
  Call = {r1, r2}
  Selector = {s1}
  MaxSeq = 2
  Overlap = TRUE
CHECK_DEADLOCK FALSE
PROPERTIES
  EveryCallEnds

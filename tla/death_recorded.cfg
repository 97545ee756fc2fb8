SPECIFICATION FairSpec
CONSTANTS
  w1 = w1
  s1 = s1
  s2 = s2
  Wrappers = {w1}
  Sessions = {s1}
  Conns = {c1, c2}
  Owner <- OneOwner
  NoWrapper = NoWrapper
  NoConn = NoConn
  EventCap = 2
  FrameCap = 1
  FaultKinds = {"drop", "wrapper", "server"}
  MaxFaults = 0
PROPERTIES DeathIsRecorded

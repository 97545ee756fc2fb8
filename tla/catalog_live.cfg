SPECIFICATION FairSpec
CONSTANTS
  p1 = p1
  p2 = p2
  Transcripts = {t1}
  Slug <- OneProject
  Conns = {c1, c2}
  NoConn = NoConn
  QueueCap = 1
  FrameCap = 1
  MaxEdits = 2
  MaxFaults = 1
  FailingScans = {"start", "first"}
  MaxLurking = 0
  MaxHidden = 0
PROPERTY EventuallyMirrors
CHECK_DEADLOCK FALSE

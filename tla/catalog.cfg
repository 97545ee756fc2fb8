SPECIFICATION CatalogSpec
CONSTANTS
  p1 = p1
  p2 = p2
  Transcripts = {t1, t2}
  Slug <- OneProject
  Conns = {c1, c2}
  NoConn = NoConn
  QueueCap = 1
  FrameCap = 1
  MaxEdits = 2
  MaxFaults = 1
  FailingScans = {"first"}
  MaxLurking = 1
  MaxHidden = 1
SYMMETRY ConnSymmetry
INVARIANTS CatalogTypeOK SettledMirrors VisibleHasProject
PROPERTY SoftDeleteSurvivesFull
CHECK_DEADLOCK FALSE

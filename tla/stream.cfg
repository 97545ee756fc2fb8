SPECIFICATION Spec
CONSTANTS
  Tabs = {t1}
  Browsers = {b1, b2}
  Handlers = {h1, h2}
  NoBrowser = NoBrowser
  RingCap = 1
  MaxChunks = 2
  MaxTurns = 1
INVARIANTS SubscribersAreRouted NoBrowserStranded NothingMissed
PROPERTY Reattaches
CHECK_DEADLOCK FALSE

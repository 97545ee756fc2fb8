SPECIFICATION Spec
CONSTANTS
  Keys = {"all", "wrapper", "project"}
  Polled = {}
  Slots = 2
  MaxVer = 3
  Deletes = {d1, d2}
  MaxDeletes = 2
  MaxTurns = 2
INVARIANT DeletedGoAway
PROPERTY ListsAdvance
CHECK_DEADLOCK FALSE

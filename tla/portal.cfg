SPECIFICATION Spec
CONSTANTS
  Keys = {"me", "wrappers", "sessions"}
  Polled = {"wrappers"}
  Slots = 2
  MaxVer = 3
  ToastLimit = 1
  MaxToasts = 1
  MaxSubmits = 1
  MaxTurns = 2
INVARIANTS OwnWritesShow GuardHolds
PROPERTIES ReadsAdvance WrappersCatchUp
CHECK_DEADLOCK FALSE

SPECIFICATION Spec
CONSTANTS
  ToastLimit = 1
  MaxToasts = 1
  IdChars = 2
  IdBytes = 1
  Sessions <- TwoULIDs
  NoSession = NoSession
  Sockets = {k1, k2, k3}
  NoSocket = NoSocket
  DelaySteps = 1
  MaxFrames = 1
  MaxTurns = 3
INVARIANTS OneLiveSocket NeverStuck InputReachesShown
PROPERTIES ComesBack
CHECK_DEADLOCK FALSE

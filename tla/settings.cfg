SPECIFICATION SettingsSpec
CONSTANTS
  ToastLimit = 1
  MaxToasts = 3
  MinDays = 1
  MaxDays = 2
  Entries = {0, 1, 2, 3}
  DefaultDays = 1
  Left = {l1}
  Unheard = {u1}
  MaxSaves = 3
  MaxEvents = 4
INVARIANT SavedIsShown
PROPERTY OpenToastStays
CHECK_DEADLOCK FALSE

SPECIFICATION MCFairSpec
CONSTANTS
  cancelWindowDuration = 2
  cancelWindowBroadcastDelay = 3
  Lag = 1
  ClockChanges <- MCClockChanges
  MaxWindows = 3
  MaxElapsed = 11
  MaxClockSets = 1
  MaxCancels = 1
CHECK_DEADLOCK FALSE
INVARIANTS
  TimersTypeOK
  OpenWindowWillEnd
  WindowEndsInTime
  NamedCancelsHitTheirWindow
PROPERTIES
  NoWindowEndsEarly
  WindowEnds

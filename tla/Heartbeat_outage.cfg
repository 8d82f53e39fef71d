SPECIFICATION HeartbeatSpec
CONSTANTS
  Wrap = 32
  MinMs = 1
  Intervals = {}
  Stale = 4
  Retry = 1
  MaxAnswer = 1
  MaxOutage = 5
  MaxClock = 12
PROPERTIES ArmedServerKept

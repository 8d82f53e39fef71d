SPECIFICATION RepliesSpec
CONSTANTS
  NoValue = NoValue
  low = low
  high = high
  flag = flag
  Keys <- MixedKeys
  Cell <- OwnCell
  Type <- MixedTypes
  Firmwares <- TwoImages
  Default <- MixedDefault
  Values <- SomeValues
  Fine = 1
  Capacity = 2
  Facade = FALSE
  NvsFails = TRUE
  MaxPushes = 3
  MaxBoots = 2
  Wrap = 32
  MinMs = 1
  Intervals <- ShortAndLong
  Stale = 4
  Retry = 1
  MaxAnswer = 1
  MaxOutage = 1
  MaxClock = 10
  Names = {"led", "reboot"}
  Messages <- OneCommand
  MaxHandlers = 2
  Delay = 2
  Turn = 12
  Slow = 2
  MaxMessages = 2
INVARIANTS RepliesTypeOK ServerValueKept ToldTheValue HeartbeatsInTime RegisteredIsCalled
PROPERTIES SilentGivenUp
CHECK_DEADLOCK FALSE

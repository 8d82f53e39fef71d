SPECIFICATION SketchSpec
CONSTANTS
  Size = 3
  FlushYields = FALSE
  MaxMessages = 8
  MaxTasks = 2
  Entries = 3
  Wrap = 8
  Delays = {0, 2}
  Rearms = FALSE
  MaxClock = 9
  MaxLag = 2
  Tasks = {"loop"}
  Room = 10
  Short = 6
  Slot = 8
  Lengths = {1, 2, 4}
  MaxFields = 5
  Hold = 3
  Long = 5
  Slow = 2
  Pause = 3
  MaxFaults = 1
INVARIANTS RingInv HoldOpens
PROPERTIES KeepsWindow PayloadIsComplete TimersRun

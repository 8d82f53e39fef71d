SPECIFICATION ServerSpec
CONSTANTS
  loop_task = loop_task
  mqtt_task = mqtt_task
  t1 = t1
  t2 = t2
  Callers <- BothTasks
  Tasks <- TwoTasks
  Versions <- ThreeVersions
  Factory <- V100
  Newest <- Dev10
  Unbootable <- OnlyDev2
  Overlap = FALSE
  SelectFails = FALSE
  MaxFaults = 4
  Pinned = "own"
  Advertised <- AllHandOut
  Repeats = FALSE
  Yields = FALSE
  MaxMoves = 2
  MaxForms = 1
  MaxBoots = 2
  MaxFailures = 5
  MaxTokens = 5
  MaxDrops = 4
  MaxResets = 3
  MaxHandlers = 2
  Delay = 2
  Wrap = 16
  Slow = 2
INVARIANTS OtaInv FailedKeepsFirmware ServerTypeOK OneClient DialsAsTold
PROPERTIES OtaEndsUpdated TargetFollowsServer TokenLasts RestartIsDone
CHECK_DEADLOCK FALSE

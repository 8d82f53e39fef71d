SPECIFICATION OtaSpec
CONSTANTS
  loop_task = loop_task
  mqtt_task = mqtt_task
  t1 = t1
  t2 = t2
  Callers <- BothTasks
  Tasks <- TwoTasks
  Versions <- ThreeVersions
  Factory <- V100
  Newest <- Dev10
  Unbootable <- OnlyDev2
  Overlap = FALSE
  SelectFails = FALSE
  MaxFaults = 3
INVARIANTS MismatchNeverRuns
CHECK_DEADLOCK FALSE

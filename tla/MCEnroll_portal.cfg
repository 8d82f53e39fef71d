SPECIFICATION FairSpec
CONSTANTS
  loop = loop
  httpd = httpd
  t1 = t1
  t2 = t2
  c1 = c1
  c2 = c2
  nocode = nocode
  notask = notask
  Callers <- LoopAndPortal
  Loop = loop
  Tasks <- TwoTasks
  NoTask = notask
  Codes <- OneCode
  NoCode = nocode
  NvsFails = FALSE
  MaxAttempts = 3
  MaxGrants = 2
  MaxReboots = 0
INVARIANTS OneTaskAtATime
PROPERTIES LatestGrantStored HandleReleased

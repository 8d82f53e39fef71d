SPECIFICATION LifeFairSpec
CONSTANTS
  loop = loop
  httpd = httpd
  t1 = t1
  c1 = c1
  c2 = c2
  nocode = nocode
  notask = notask
  Callers <- LoopOnly
  Loop = loop
  Httpd = httpd
  Tasks <- OneTask
  NoTask = notask
  Codes <- OneCode
  NoCode = nocode
  NvsFails = FALSE
  Unicore = TRUE
  Pinned = "none"
  SketchCode = c1
  Worlds <- AnyServer
  MaxFaults = 3
  MaxSubmits = 0
  MaxAttempts = 20
  MaxGrants = 7
  MaxReboots = 0
INVARIANTS LifeTypeOK
PROPERTIES ComesOnline

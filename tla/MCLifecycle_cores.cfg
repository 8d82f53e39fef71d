SPECIFICATION LifeSpec
CONSTANTS
  loop = loop
  httpd = httpd
  t1 = t1
  c1 = c1
  c2 = c2
  nocode = nocode
  notask = notask
  Callers <- LoopAndPortal
  Loop = loop
  Httpd = httpd
  Tasks <- OneTask
  NoTask = notask
  Codes <- TwoCodes
  NoCode = nocode
  NvsFails = FALSE
  Unicore = FALSE
  Pinned = "none"
  SketchCode = c1
  Worlds <- AllButOne
  MaxFaults = 2
  MaxSubmits = 1
  MaxAttempts = 20
  MaxGrants = 7
  MaxReboots = 2
INVARIANTS CodesAgree SettledWithoutForm TokensInUseStayHome
ACTION_CONSTRAINT FormsOrFailures

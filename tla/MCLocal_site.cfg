SPECIFICATION LocalSpec
CONSTANTS
  home = home
  shop = shop
  old = old
  nossid = nossid
  pw = pw
  other = other
  nopw = nopw
  Ssids <- ThreeNets
  NoSsid = nossid
  Passwords <- TwoPws
  NoPw = nopw
  MaxCreds = 2
  Staged <- ShopOnly
  Legacy <- OldOrNone
  Good <- HomeWorks
  Lists <- SomeLists
  Forms <- SomeForms
  MaxRetries = 2
  MaxFaults = 3
  loop = loop
  sysevt = sysevt
  httpd = httpd
  d1 = d1
  d2 = d2
  notask = notask
  Loop = loop
  SysEvt = sysevt
  Httpd = httpd
  DnsTasks <- TwoDns
  NoTask = notask
  MaxBinds = 4
  Overlap = FALSE
  MaxFailures = 3
  MaxSaves = 2
  MaxHashes = 2
  MaxOpenings = 2
INVARIANTS LocalTypeOK ListSurvives ConnectedIsLinked OneDnsTask OpenIsReachable ClosedBeforeReconnect
PROPERTIES WifiEndsConnected PortalKeepsOpening SessionIsCurrent
CHECK_DEADLOCK FALSE

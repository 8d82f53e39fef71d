SPECIFICATION Spec
CONSTANTS
  loop = loop
  httpd = httpd
  t1 = t1
  t2 = t2
  c1 = c1
  c2 = c2
  nocode = nocode
  notask = notask
  Callers <- LoopOnly
  Loop = loop
  Tasks <- TwoTasks
  NoTask = notask
  Codes <- TwoCodes
  NoCode = nocode
  NvsFails = TRUE
  MaxAttempts = 3
  MaxGrants = 2
  MaxReboots = 1
SYMMETRY TaskSymmetry
INVARIANTS TypeOK ProgressHasTask CurrentAttemptHasCurrentCode

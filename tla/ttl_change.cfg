SPECIFICATION Spec
CONSTANTS
  CfgDnskeyTTL = 0
  Day = 2
  Servers = {s1}
  Parents = {p1}
  Mode = "immediate"
  AutoPublish = FALSE
  DSMayBeLost = FALSE
  PushEarly = FALSE
  Commands = {}
  DnskeyTTLs = {1, 2}
  RrsigTTLs = {1, 2}
  ParentTTL = 1
  ParentDSTTL = 1
  ZSKLifetime = 4
  Prepublish = 2
  Switch = 1
  ProbeSpan = 0
  MaxTime = 7
  MaxGen = 5
  MaxKeys = 4
  MaxFaults = 0
SYMMETRY Symmetry
CHECK_DEADLOCK FALSE
INVARIANTS
  ChainIntact
  HorizonCoversCaches
  DiskLoads

SPECIFICATION Spec
CONSTANTS
  CfgDnskeyTTL = 0
  Day = 2
  Servers = {s1}
  Parents = {p1}
  Mode = "immediate"
  AutoPublish = TRUE
  DSMayBeLost = FALSE
  PushEarly = FALSE
  Commands = {"ksk", "algorithm"}
  DnskeyTTLs = {1}
  RrsigTTLs = {2}
  ParentTTL = 1
  ParentDSTTL = 1
  ZSKLifetime = 50
  Prepublish = 2
  Switch = 1
  ProbeSpan = 0
  MaxTime = 6
  MaxGen = 5
  MaxKeys = 5
  MaxFaults = 1
SYMMETRY Symmetry
CHECK_DEADLOCK FALSE
INVARIANTS
  ChainIntact
  OutputMatchesState
  DiskLoads
PROPERTIES
  OldDSNotResurrected
  AutomationSettles

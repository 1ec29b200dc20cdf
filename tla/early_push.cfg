SPECIFICATION Spec
CONSTANTS
  CfgDnskeyTTL = 0
  Day = 2
  Servers = {s1}
  Parents = {p1}
  Mode = "hook"
  AutoPublish = FALSE
  DSMayBeLost = FALSE
  PushEarly = TRUE
  Commands = {"algorithm"}
  DnskeyTTLs = {1}
  RrsigTTLs = {2}
  ParentTTL = 1
  ParentDSTTL = 1
  ZSKLifetime = 50
  Prepublish = 2
  Switch = 1
  ProbeSpan = 0
  MaxTime = 4
  MaxGen = 4
  MaxKeys = 4
  MaxFaults = 0
SYMMETRY Symmetry
CHECK_DEADLOCK FALSE
PROPERTIES
  NewAlgorithmDSWaits

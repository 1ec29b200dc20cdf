SPECIFICATION Spec
CONSTANTS
  CfgDnskeyTTL = 0
  Day = 2
  Servers = {s1}
  Parents = {p1}
  Mode = "immediate"
  AutoPublish = FALSE
  DSMayBeLost = FALSE
  PushEarly = FALSE
  Commands = {"ksk"}
  DnskeyTTLs = {1}
  RrsigTTLs = {2}
  ParentTTL = 1
  ParentDSTTL = 1
  ZSKLifetime = 50
  Prepublish = 2
  Switch = 1
  ProbeSpan = 1
  MaxTime = 5
  MaxGen = 4
  MaxKeys = 3
  MaxFaults = 0
SYMMETRY Symmetry
CHECK_DEADLOCK FALSE
INVARIANTS
  RetiredAfterParentTTL

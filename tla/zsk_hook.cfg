SPECIFICATION LoweringSpec
CONSTANTS
  CfgDnskeyTTL = 0
  Day = 2
  Servers = {s1, s2}
  Parents = {p1}
  Mode = "hook"
  AutoPublish = FALSE
  DSMayBeLost = FALSE
  PushEarly = FALSE
  Commands = {}
  DnskeyTTLs = {1, 2}
  RrsigTTLs = {2}
  ParentTTL = 1
  ParentDSTTL = 1
  ZSKLifetime = 4
  Prepublish = 2
  Switch = 1
  ProbeSpan = 0
  MaxTime = 8
  MaxGen = 4
  MaxKeys = 3
  MaxFaults = 0
SYMMETRY Symmetry
CHECK_DEADLOCK FALSE
INVARIANTS
  TypeOK
  ChainIntact
  HorizonCoversCaches
  ConfirmedIsServed
  OutputMatchesState

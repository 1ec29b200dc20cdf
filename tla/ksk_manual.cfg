SPECIFICATION Spec
CONSTANTS
  CfgDnskeyTTL = 0
  Day = 2
  Servers = {s1}
  Parents = {p1, p2}
  Mode = "hook"
  AutoPublish = FALSE
  DSMayBeLost = FALSE
  PushEarly = FALSE
  Commands = {"ksk"}
  DnskeyTTLs = {1}
  RrsigTTLs = {2}
  ParentTTL = 1
  ParentDSTTL = 1
  ZSKLifetime = 50
  Prepublish = 2
  Switch = 1
  ProbeSpan = 0
  MaxTime = 5
  MaxGen = 4
  MaxKeys = 3
  MaxFaults = 0
SYMMETRY Symmetry
CHECK_DEADLOCK FALSE
INVARIANTS
  ChainIntact
  RetiredAfterParentTTL
  OutputMatchesState

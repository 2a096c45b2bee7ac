SPECIFICATION MultiPolicySpec
CONSTANTS
  actor = actor
  critic = critic
  g1 = g1
  g2 = g2
  Policies <- MCPolicies
  Sessions = 1
  Warmup = 1
  SaveFreq = 1
  TotalSteps = 2
  Keep = 1
  MaxCrashes = 1
  MaxFaults = 1
  Groups <- MCGroups
  RoleCount = 2
  GroupGateways = 2
  GroupTroubles = 3
INVARIANTS
  GroupsSound
  BatchesSound
  PromptsSound
  TrackerLoadable

SPECIFICATION FairSpec
CONSTANTS
  Episodes = {e1, e2, e3}
  GatewayCount = 2
  MaxSessions = 1
  Modes = {"ray_task"}
  Cancellable = {"running", "cancelling", "scoring"}
  MaxFaults = 3
PROPERTIES
  EpisodesEnd

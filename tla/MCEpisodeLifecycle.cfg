SPECIFICATION Spec
CONSTANTS
  Episodes = {e1, e2, e3}
  GatewayCount = 2
  MaxSessions = 2
  Modes = {"ray_task", "inline_async"}
  Cancellable = {"creating", "running", "cancelling", "finalizing", "scoring", "aborting"}
  MaxFaults = 1
SYMMETRY MCSymmetry
INVARIANTS
  EpisodesAccounted
  SessionFollowsEpisode

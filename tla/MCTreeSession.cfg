SPECIFICATION Spec
CONSTANTS
  Requests = {r1, r2, r3, r4}
  None = None
  Messages <- MCMessages
  Assistants <- MCAssistants
  Replies <- MCReplies
  Scopes <- MCScopes
  Prompts <- MCPrompts
  GenLens = {1}
  Trims = {0, 1}
  Capacity = 7
  Rollback = TRUE
  Coalesce = TRUE
  MaxFaults = 1
SYMMETRY MCSymmetry
INVARIANTS
  TreeIntact
  TrainedOnce

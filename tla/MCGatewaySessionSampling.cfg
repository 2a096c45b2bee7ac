SPECIFICATION Spec
CONSTANTS
  Requests = {r1, r2, r3, r4}
  NoOwner = NoOwner
  Scopes = {"main"}
  Messages <- MCMessages
  Assistants <- MCAssistants
  Replies <- MCReplies
  Prompts <- MCLongPrompts
  GenLens = {1, 2}
  Capacity = 8
  Rollback = TRUE
  Coalesce = TRUE
  CleanupCancel = TRUE
  MaxFaults = 1
SYMMETRY MCSymmetry
INVARIANTS
  TrajectoriesSound
PROPERTIES
  ImplementsPromise
CHECK_DEADLOCK FALSE

SPECIFICATION Spec
CONSTANTS
  Requests = {r1, r2, r3}
  NoOwner = NoOwner
  Scopes = {"main"}
  Messages <- MCMessages
  Assistants <- MCAssistants
  Replies <- MCReplies
  Prompts <- MCPrompts
  GenLens = {1}
  Capacity = 6
  Rollback = TRUE
  Coalesce = TRUE
  CleanupCancel = TRUE
  MaxFaults = 2
INVARIANTS
  CoordinationCleared
CHECK_DEADLOCK FALSE

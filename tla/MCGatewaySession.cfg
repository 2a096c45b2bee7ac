SPECIFICATION FairSpec
CONSTANTS
  Requests = {r1, r2, r3}
  NoOwner = NoOwner
  Scopes = {"main"}
  Messages <- MCMessages
  Assistants <- MCAssistants
  Replies <- MCReplies
  Prompts <- MCLongPrompts
  GenLens = {1, 2}
  Capacity = 6
  Rollback = TRUE
  Coalesce = TRUE
  CleanupCancel = FALSE
  MaxFaults = 2
INVARIANTS
  TypeOK
  ReservationsSound
  NoLeakedReservation
  CoordinationCleared
  OneGeneration
  OutcomesSound
PROPERTIES
  RequestsReturn

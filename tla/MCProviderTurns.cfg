SPECIFICATION Spec
CONSTANTS
  Providers = {"chat", "responses", "messages"}
  ToolLists <- MCToolLists
  Extras <- MCExtras
  Answers <- MCAnswers
  MaxAnswers = 2
  MaxInputs = 4
INVARIANTS
  TurnsRendered
  TurnContinuesChain
  TextsKept
  CallsAddressed

CONSTANTS
  c1 = c1
  c2 = c2
  alice = alice
  bob = bob
  Client <- MCClient
  Prompt <- MCPrompt
  Ids <- MCIds

SPECIFICATION Spec

INVARIANT AnswerIsTrue

CHECK_DEADLOCK FALSE

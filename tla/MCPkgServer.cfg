CONSTANTS
  c1 = c1
  c2 = c2
  alice = alice
  bob = bob
  Client <- MCClient
  Prompt <- MCPrompt
  Ids <- MCIds

SPECIFICATION Spec

INVARIANTS
  TypeOK
  MailedIsRecorded
  EarlierIsNoticed

PROPERTIES
  ZombiesReaped
  PromptServed
  ComesBack

CHECK_DEADLOCK FALSE

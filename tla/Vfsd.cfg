SPECIFICATION FairSpec
CONSTANTS
  Thread = {1, 2, 3}
  Setups <- MCSetups
  MaxRemote = 2
  Entries = 2
  LinkParts = 2
  LastId = 9
  Slots = {1}
  Parts <- MCParts
  Wants = {1, 2}
INVARIANTS AnswersMatch PendingExact HandlesExact
 
CHECK_DEADLOCK FALSE

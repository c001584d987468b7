SPECIFICATION Spec
CONSTANTS
  None = None
  Block <- Blocks
  Messages <- Conversations
  MaxHops = 2
  MaxLen = 5
CHECK_DEADLOCK FALSE
INVARIANTS MatchesReference OrderKept FoldedOnce

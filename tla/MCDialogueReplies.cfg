SPECIFICATION DialogueSpec
CONSTANTS
  MaxRequests = 5
  MaxReply = 3
  Capacity = 2
  ReadPieces = 2
  InputLines <- MCLines
INVARIANT RepliesValidated
CHECK_DEADLOCK FALSE

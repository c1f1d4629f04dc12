SPECIFICATION DialogueSpec
CONSTANTS
  MaxRequests = 5
  MaxReply = 3
  Capacity = 2
  ReadPieces = 2
  InputLines <- MCLines
INVARIANTS InStep LoginAgrees FieldsAgree
PROPERTIES TransactionEnds
CHECK_DEADLOCK FALSE

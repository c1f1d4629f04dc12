SPECIFICATION ClientSpec
CONSTANTS
  Clients = {c1, c2}
  Headless = {c2}
  MaxQueue = 1
  MaxMsgs = 1
  MaxGen = 2
  Categories = {"alert"}
INVARIANTS OwnMessages
PROPERTIES  CleanupEnds
CHECK_DEADLOCK FALSE

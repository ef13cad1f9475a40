SPECIFICATION FairSpec
CONSTANTS
  Main = main
  Script = {s1, s2}
  QuitText = {"quit", "q"}
  QueueCap = 2
  MaxSender = 2
  MaxLaunch = 2
  MaxMsg = 4
INVARIANTS TypeOK SendIdNamesSender
PROPERTIES Implements StopReturns OperatorNotStuck QueueDrains
CHECK_DEADLOCK FALSE

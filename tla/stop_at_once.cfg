SPECIFICATION FairSpec
CONSTANTS
  Main = main
  Script = {}
  QuitText = {"quit"}
  QueueCap = 1
  MaxSender = 1
  MaxLaunch = 1
  MaxMsg = 1
PROPERTY StopKeepsProgram
CHECK_DEADLOCK FALSE

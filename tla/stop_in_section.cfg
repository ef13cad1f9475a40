SPECIFICATION Spec
CONSTANTS
  MAX_CLIENT = 1
  Ip = {ip1}
  BadIp = BadIp
  NoIp = NoIp
  Fd = {3}
  Main = main
  Script = {}
  Rec = rec
  Snd = snd
  Free = Free
  Orphan = Orphan
  Number <- Numbers
  Line <- OperatorLine
  Suspended = {}
  Stoppable = {rec, snd}
INVARIANT MutexNotOrphaned
CHECK_DEADLOCK FALSE

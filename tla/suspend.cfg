SPECIFICATION Spec
CONSTANTS
  MAX_CLIENT = 2
  Ip = {ip1}
  BadIp = BadIp
  NoIp = NoIp
  Fd = {3, 4}
  Main = main
  Script = {}
  Rec = rec
  Snd = snd
  Free = Free
  Orphan = Orphan
  Number <- Numbers
  Line <- AddDelLine
  Suspended <- Numbers
  Stoppable = {}
INVARIANTS NoFdLeak FlagTellsAddress
CHECK_DEADLOCK FALSE

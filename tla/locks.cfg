SPECIFICATION FairSpec
CONSTANTS
  MAX_CLIENT = 1
  Ip = {ip1}
  BadIp = BadIp
  NoIp = NoIp
  Fd = {3}
  Main = main
  Script = {s1}
  Rec = rec
  Snd = snd
  Free = Free
  Orphan = Orphan
  Number <- Numbers
  Line <- ScriptLine
  Suspended = {}
  Stoppable = {}
INVARIANT MutexOwned
PROPERTY LockReleased
CHECK_DEADLOCK FALSE

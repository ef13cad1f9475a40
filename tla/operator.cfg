SPECIFICATION Spec
CONSTANTS
  MAX_CLIENT = 2
  Ip = {ip1, ip2}
  BadIp = BadIp
  NoIp = NoIp
  Fd = {3, 4}
  Main = main
  Script = {}
  Rec = rec
  Snd = snd
  Free = Free
  Orphan = Orphan
  Number <- Numbers
  Line <- OperatorLine
  Suspended = {}
  Stoppable = {rec, snd}
INVARIANTS TypeOK ClientsConsistent NoFdLeak
PROPERTY AddressedSend
CHECK_DEADLOCK FALSE

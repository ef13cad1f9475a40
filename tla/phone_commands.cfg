SPECIFICATION Spec
CONSTANTS
  main = main
  script = script
  Thread = {main, script}
  MAX_CLIENT = 2
  MAX_IOEVT = 3
  Number <- Numbers
  Line <- Lines
  File <- Files
  RAND_BITS = 12
  FLT_BITS = 9
  Place <- Places
  MaxLine <- MaxLines
INVARIANTS TypeOK SentAsTyped NeverAnotherKey KeysFit ClientBound RandomStaysInReach
PROPERTY ValidIsSent
CHECK_DEADLOCK FALSE

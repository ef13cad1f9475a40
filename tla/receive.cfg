SPECIFICATION Spec
CONSTANTS
  MAX_CLIENT = 3
  Phone = {1, 2}
  Named = {TRUE, FALSE}
  LogDir = {TRUE, FALSE}
  TRIES = 3
  Foreign = {5001}
  MaxFd = 3
  MaxLog = 1
  MaxTold = 2
INVARIANTS TypeOK AdvertisedIsRead CountsTalksOnce
PROPERTIES PortsNeverGoBack SuspendReaches
CHECK_DEADLOCK FALSE

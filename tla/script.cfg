SPECIFICATION Spec
CONSTANTS
  MaxBlock = 2
  MaxBody = 2
  MaxTimes = 2
  Marks <- MarksDropped
  Program <- Programs
  Garbage <- Indexes
  MAX_SC_LINE = 9
INVARIANTS TypeOK StaysInside FollowsScript CompletesScript
PROPERTY ScriptEnds
CHECK_DEADLOCK FALSE

SPECIFICATION Spec
CONSTANTS
  MAX_SCRIPT_THREAD = 2
  Main = main
  ThreadId = {s1, s2}
  None = None
  Freed = Freed
  File = {a, b}
  NoFile = NoFile
  PARAM_SC = PARAM_SC
  Number <- Numbers
  MainLine <- EveryLine
  ScriptLine <- OtherLine
INVARIANT RunsAsAsked
CHECK_DEADLOCK FALSE

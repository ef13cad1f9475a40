SPECIFICATION Spec
CONSTANTS
  MAX_SCRIPT_THREAD = 2
  Main = main
  ThreadId = {s1, s2}
  None = None
  Freed = Freed
  File = {a}
  NoFile = NoFile
  PARAM_SC = PARAM_SC
  Number <- Numbers
  MainLine <- RunStopLine
  ScriptLine <- OtherLine
SYMMETRY Symmetric
INVARIANTS TypeOK StopEndsItsNumber RunsItsScript  RunningIsStoppable
PROPERTY StopAllStopsAll
CHECK_DEADLOCK FALSE

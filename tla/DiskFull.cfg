\* A recording run during which the disk holding the log fills up.
CONSTANTS
  Procs = {"p1", "p2"}
  Pid <- MCPid
  ChildNum <- MCChildNum
  Program <- MCProgram
  Gremlins = {"read", "write"}
  DEFAULT = "default"
  Constraints <- MCConstraints
  EvalConstraint <- MCEvalConstraint
  ConfigFile <- MCConfigFile
  LogFile = "opens"
  ReplayLog = NONE
  DiskMayFill = TRUE
  NONE = NONE
  BAD = BAD
  MISSING = MISSING
SPECIFICATION Spec
\* The system stops when every traced process has finished its program.
CHECK_DEADLOCK FALSE

PROPERTY AllCallsReturn

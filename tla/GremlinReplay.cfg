\* Record, then replay, with distinct childnums; the disk may fill during the recording.
CONSTANTS
  Procs = {"p1", "p2"}
  RecPid <- MCPid
  RepPid <- MCRepPid
  ChildNum <- MCChildNum
  Program <- MCProgram
  Gremlins = {"read", "write"}
  DEFAULT = "default"
  Constraints <- MCConstraints
  EvalConstraint <- MCEvalConstraint
  ConfigFile <- MCConfigFile
  NONE = NONE
  BAD = BAD
  MISSING = MISSING
SPECIFICATION Spec
\* The system stops when the replay run has finished every program.
CHECK_DEADLOCK FALSE
INVARIANT TypeOK
INVARIANT ReplayFaithful

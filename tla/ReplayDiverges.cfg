\* Record, then replay, where both processes have childnum 1 and p1 sets a
\* constraint on read while p2 reads.
CONSTANTS
  Procs = {"p1", "p2"}
  RecPid <- MCPid
  RepPid <- MCRepPid
  ChildNum <- MCSharedChildNum
  Program <- MCRaceProgram
  Gremlins = {"read", "write"}
  DEFAULT = "default"
  Constraints <- MCConstraints
  EvalConstraint <- MCEvalConstraint
  ConfigFile <- MCConfigFile
  NONE = NONE
  BAD = BAD
  MISSING = MISSING
SPECIFICATION Spec
\* The system stops when the replay run has finished every program.
CHECK_DEADLOCK FALSE
INVARIANT ReplayFaithful

\* Records whose evaluation the code answers other than EvalSpec.
CONSTANTS
  Tree <- DivergenceTree
  InitScope <- DivergenceScope
  Parse <- DivergenceParse
  Registered <- MCRegistered
  Queries <- DivergenceQueries
  Watched = {}
  NONE = NONE
  ORPHAN = ORPHAN
  MaxDepth = 3
  MaxStack = 30
SPECIFICATION Spec
\* A stack overflow is a crash: the evaluation stops, busy, for good; what
\* fails then is Refines' promise that every evaluation answers.
CHECK_DEADLOCK FALSE
PROPERTY Refines

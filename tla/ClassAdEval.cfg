CONSTANTS
  Tree <- MCTree
  InitScope <- MCInitScope
  Parse <- MCParse
  Registered <- MCRegistered
  Queries <- MCQueries
  NONE = NONE
  ORPHAN = ORPHAN
  MaxDepth = 3
  MaxStack = 12
  Watched = {}
SPECIFICATION Spec
INVARIANT TypeOK
PROPERTY Refines

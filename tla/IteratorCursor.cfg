\* ExprListIterator against the cursor it promises to be.
CONSTANTS
  NULL = NULL
  E1 = E1
  E2 = E2
  Elems = {E1, E2}
  Eval <- MCEval
  Lists <- MCLists
  ErrorV = ErrorV
  Vals = {1, 2}
  Depths = {0, 1}
  MaxLen = 2
  Stray = {E1, NULL}
  MaxItr = 3
SPECIFICATION Spec
PROPERTY ImplementsCursor
